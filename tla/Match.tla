------------------------------- MODULE Match -------------------------------
(***************************************************************************)
(* What the store promises of one game, however many processes write it    *)
(* and wherever they fail: its commands take effect one after the other,   *)
(* each on the state the one before it has left; it ends once; only then   *)
(* is its session closed and are its results claimed, both once and for    *)
(* good; and each player's result is applied at most once, after that.     *)
(***************************************************************************)
EXTENDS Naturals, Sequences

CONSTANTS
  Authors,  \* who may issue commands
  Players

VARIABLES
  moves,    \* the commands so far, by their authors
  over,
  closed,   \* its session is
  claimed,  \* its results are about to be applied, or have been
  applied   \* how often the result of each player was

vars == <<moves, over, closed, claimed, applied>>

Init ==
  /\ moves = << >> /\ over = FALSE
  /\ closed = FALSE /\ claimed = FALSE
  /\ applied = [p \in Players |-> 0]

\* A game that is over may still be written, and stays over.
Command(a) ==
  /\ moves' = Append(moves, a)
  /\ over' \in {over, TRUE}
  /\ UNCHANGED <<closed, claimed, applied>>

Close ==
  /\ over /\ ~closed
  /\ closed' = TRUE
  /\ UNCHANGED <<moves, over, claimed, applied>>

Claim ==
  /\ over /\ ~claimed
  /\ claimed' = TRUE
  /\ UNCHANGED <<moves, over, closed, applied>>

Apply(p) ==
  /\ claimed /\ applied[p] = 0
  /\ applied' = [applied EXCEPT ![p] = 1]
  /\ UNCHANGED <<moves, over, closed, claimed>>

Next ==
  \/ \E a \in Authors : Command(a)
  \/ Close \/ Claim
  \/ \E p \in Players : Apply(p)

Spec == Init /\ [][Next]_vars
=============================================================================
