------------------------------- MODULE MCLobby -------------------------------
(***************************************************************************)
(* A small instance of SessionLobby: requests under way together are       *)
(* interchangeable.                                                        *)
(***************************************************************************)
EXTENDS SessionLobby, TLC

CONSTANTS t1, t2

TwoTasks == {t1, t2}
Interchangeable == Permutations(TwoTasks)
=============================================================================
