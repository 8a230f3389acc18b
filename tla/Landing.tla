------------------------------ MODULE Landing ------------------------------
(***************************************************************************)
(* Moving a token and resolving the square it lands on (movement.py,       *)
(* cards.py, and _execute_move of engine.py).  What the dice, the shuffled *)
(* decks and the rent tables decide is a nondeterministic choice, so a     *)
(* landing is a set of possible documents.                                 *)
(*                                                                         *)
(* The player that moves is never in jail: a jailed player is freed before *)
(* the move.  "Sent to jail" is therefore read off the jail field.         *)
(***************************************************************************)
EXTENDS GameRules

SendToJail(g, p) ==
  [g EXCEPT !.position[p] = JailSquare, !.jail[p] = JailTurns]

\* The square n steps ahead (or, for negative n, back) of s.
SquareFrom(s, n) == ((s - 1 + n) % Size) + 1

PaySalary(g, p, passed) ==
  IF passed THEN [g EXCEPT !.balance[p] = @ + GoSalary] ELSE g

\* A dice move; reaching or passing GO pays the salary.
AdvancePosition(g, p, steps) ==
  PaySalary([g EXCEPT !.position[p] = SquareFrom(g.position[p], steps)],
            p, g.position[p] - 1 + steps >= Size)

\* After an attempted payment: an open debt, whoever owes it, keeps the turn in
\* bankrupt_resolution; otherwise the landing is over.
AfterPayment(g, phase) ==
  IF g.debt # NoDebt
  THEN [g EXCEPT !.phase = "bankrupt_resolution"]
  ELSE [g EXCEPT !.pending = NoSquare, !.phase = phase]

OwesRent(g, p, s) ==
  Purchasable(s) /\ g.owner[s] \notin {NoOne, p} /\ s \notin g.mortgaged

\* Landing on a square that draws no card.
LandPlain(g, p) ==
  LET s == g.position[p]
  IN  CASE Kind[s] = "goto_jail" ->
             {[SendToJail(g, p) EXCEPT !.pending = NoSquare, !.phase = "post_roll"]}
        [] Kind[s] = "tax" ->
             {AfterPayment(AttemptPayment(g, p, Tax[s], NoOne), "post_roll")}
        [] OwesRent(g, p, s) ->
             {AfterPayment(AttemptPayment(g, p, rent, g.owner[s]), "must_pay_rent") :
                rent \in Rents}
        [] OTHER ->
             {[g EXCEPT !.pending = IF Purchasable(s) /\ g.owner[s] = NoOne
                                    THEN s ELSE NoSquare,
                        !.phase = "post_roll"]}

(***************************************************************************)
(* Cards                                                                   *)
(***************************************************************************)

\* The cards that may be on top of a deck; a get-out-of-jail card only while
\* the deck still holds one.
OnTop(g, d) == {c \in Cards[d] : c.type = "jail_free" => g.deck[d] > 0}

\* Drawing puts a card back under its deck, a get-out-of-jail card excepted.
Draw(g, d, c) == IF c.type = "jail_free" THEN [g EXCEPT !.deck[d] = @ - 1] ELSE g

\* A movement card takes the token to its new square.
Displace(g, p, c) ==
  LET from == g.position[p]
  IN  IF c.type = "go_back"
      THEN [g EXCEPT !.position[p] = SquareFrom(from, -c.n)]
      ELSE PaySalary([g EXCEPT !.position[p] = c.n],
                     p, c.type = "advance" /\ c.n < from)

\* What q pays p for "collect n from each player": all it has if that is less,
\* and a negative "payment" if q's balance is negative.
Contribution(g, p, q, n) ==
  IF q = p \/ q \in g.out THEN 0 ELSE IF n <= g.balance[q] THEN n ELSE g.balance[q]

CollectFromEach(g, p, n) ==
  LET gift == [q \in Player |-> Contribution(g, p, q, n)]
  IN  [g EXCEPT !.balance =
         [q \in Player |-> g.balance[q] - gift[q] + (IF q = p THEN SumTo(gift, N) ELSE 0)]]

\* The drawer pays each other survivor, however little it has.
PayEach(g, p, n) ==
  LET others == Survivors(g) \ {p}
  IN  [g EXCEPT !.balance =
         [q \in Player |-> g.balance[q] + (IF q \in others THEN n ELSE 0)
                           - (IF q = p THEN n * Cardinality(others) ELSE 0)]]

\* What p's buildings cost it: n for each house, m for each hotel.
RepairCost(g, p, n, m) ==
  n * Houses(g, g.owned[p]) + m * Cardinality(Hotels(g, g.owned[p]))

\* The effects that move nobody forward: none of them touches the phase, unless
\* a payment opens a debt.
FixedEffect(g, p, c) ==
  CASE c.type = "collect" -> [g EXCEPT !.balance[p] = @ + c.n]
    [] c.type = "pay" -> AttemptPayment(g, p, c.n, NoOne)
    [] c.type = "collect_from_each" -> CollectFromEach(g, p, c.n)
    [] c.type = "pay_each" -> PayEach(g, p, c.n)
    [] c.type = "repairs" -> AttemptPayment(g, p, RepairCost(g, p, c.n, c.m), NoOne)
    [] c.type = "jail_free" -> [g EXCEPT !.cards[p] = @ + 1]
    [] OTHER -> SendToJail(g, p)

\* A card that sent its drawer to jail ends the movement part of the turn.
AfterCard(g, p) ==
  IF g.jail[p] # 0 THEN [g EXCEPT !.phase = "post_roll", !.streak = 0] ELSE g

(***************************************************************************)
(* A card square draws and applies; a movement card lands again.  On the   *)
(* game's boards the chain has at most two draws: only Chance holds a      *)
(* go_back card, and no other card ends on a card square.  So a second     *)
(* draw lands on a plain square (CardChainAssumption), and the code's      *)
(* recursion limit of three is never reached.                              *)
(***************************************************************************)
ASSUME CardChainAssumption ==
  \A d \in Decks : \A c \in Cards[d] :
    /\ c.type = "go_back" => d = "chance"
    /\ c.type \in {"advance", "advance_no_go"} => Kind[c.n] \notin Decks
    /\ c.type = "go_back" =>
         \A s \in Square : Kind[s] = "chance" => Kind[SquareFrom(s, -c.n)] # "chance"

SecondDraw(g, p, d) ==
  {AfterCard(h, p) : h \in UNION
     {IF c.type \in MoveEffects
      THEN LandPlain(Displace(Draw(g, d, c), p, c), p)
      ELSE {FixedEffect(Draw(g, d, c), p, c)} : c \in OnTop(g, d)}}

LandAfterCard(g, p) ==
  IF Kind[g.position[p]] \in Decks
  THEN SecondDraw(g, p, Kind[g.position[p]])
  ELSE LandPlain(g, p)

FirstDraw(g, p, d) ==
  {AfterCard(h, p) : h \in UNION
     {IF c.type \in MoveEffects
      THEN LandAfterCard(Displace(Draw(g, d, c), p, c), p)
      ELSE {FixedEffect(Draw(g, d, c), p, c)} : c \in OnTop(g, d)}}

\* resolve_landing on the square p stands on.
ResolveLanding(g, p) ==
  IF Kind[g.position[p]] \in Decks
  THEN FirstDraw(g, p, Kind[g.position[p]])
  ELSE LandPlain(g, p)

(***************************************************************************)
(* The turn after a landing.  Jail or an open debt ends the doubles run;   *)
(* doubles with a purchase pending stay in post_roll, the roll deferred    *)
(* until the purchase is settled, and otherwise return to pre_roll.        *)
(***************************************************************************)
AfterMove(h, p, extraRoll, streak) ==
  CASE h.jail[p] # 0 ->
         [h EXCEPT !.rolled = TRUE, !.streak = 0, !.phase = "post_roll"]
    [] h.jail[p] = 0 /\ (h.debt # NoDebt \/ ~extraRoll) ->
         [h EXCEPT !.rolled = TRUE, !.streak = 0]
    [] OTHER ->
         [h EXCEPT !.rolled = TRUE, !.streak = streak,
                   !.phase = IF h.pending # NoSquare THEN "post_roll" ELSE "pre_roll"]

\* The documents a move of p by steps may lead to.
ExecuteMove(g, p, steps, extraRoll) ==
  {AfterMove(h, p, extraRoll, g.streak + 1) :
     h \in ResolveLanding(AdvancePosition(g, p, steps), p)}
=============================================================================
