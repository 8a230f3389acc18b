------------------------------- MODULE MCStore -------------------------------
(***************************************************************************)
(* A small instance of GameStore: two processes, two connections to the    *)
(* first and one to the second, two players.                               *)
(***************************************************************************)
EXTENDS GameStore

TwoProcesses == {"east", "west"}
Connections == {"ann", "bob", "cid"}
HomeOf == [h \in Connections |-> IF h = "cid" THEN "west" ELSE "east"]
=============================================================================
