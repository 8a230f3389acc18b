---------------------------- MODULE MCBackplane ----------------------------
(***************************************************************************)
(* A small instance of Backplane: two clients meet in one process.         *)
(***************************************************************************)
EXTENDS Backplane, TLC

CONSTANTS p1, p2, c1, c2

TwoPublishers == {p1, p2}
TwoClients    == {c1, c2}
Together      == [c \in Clients |-> "n1"]
Interchangeable == Permutations(TwoPublishers) \cup Permutations(TwoClients)
=============================================================================
