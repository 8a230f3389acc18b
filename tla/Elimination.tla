---------------------------- MODULE Elimination ----------------------------
(***************************************************************************)
(* What the engine promises of a whole game, whatever happens on the       *)
(* board: the turn goes round the table from survivor to survivor, only    *)
(* the turn holder can leave, nobody comes back, and the game ends at the  *)
(* step that leaves one survivor, who is the winner for good.              *)
(***************************************************************************)
EXTENDS Integers

CONSTANT N  \* the number of players; at least two

VARIABLES
  survivors,  \* the players still in the game
  turn,       \* whose turn it is; at the end, who left last
  winner      \* 0 until the game is decided

vars == <<survivors, turn, winner>>

Undecided == 0

\* The first of S after p around the table.
Successor(S, p) ==
  LET later == {q \in S : q > p}
      first(T) == CHOOSE q \in T : \A r \in T : q <= r
  IN  IF later # {} THEN first(later) ELSE first(S)

Init ==
  /\ survivors = 1 .. N
  /\ turn = 1
  /\ winner = Undecided

Pass ==
  /\ winner = Undecided
  /\ turn' = Successor(survivors, turn)
  /\ UNCHANGED <<survivors, winner>>

Leave ==
  /\ winner = Undecided
  /\ turn \in survivors
  /\ survivors' = survivors \ {turn}
  /\ \/ /\ \E w \in 1 .. N : survivors' = {w} /\ winner' = w
        /\ turn' = turn
     \/ /\ ~ \E w \in 1 .. N : survivors' = {w}
        /\ turn' = Successor(survivors', turn)
        /\ winner' = winner

Next == Pass \/ Leave

Spec == Init /\ [][Next]_vars
=============================================================================
