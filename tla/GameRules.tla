----------------------------- MODULE GameRules -----------------------------
(***************************************************************************)
(* The rules of domain/game/rules as operators on game documents: each     *)
(* takes a document g and returns the document (or the set of documents)   *)
(* the rule may produce.  A rule never checks whose turn it is; the        *)
(* command handlers of module GameEngine do.                               *)
(***************************************************************************)
EXTENDS GameState

(***************************************************************************)
(* Payments (payments.py)                                                  *)
(***************************************************************************)

\* Money moves from payer to creditor; NoOne as creditor is the bank.
TransferFunds(g, payer, creditor, amount) ==
  [g EXCEPT !.balance =
     [p \in Player |-> g.balance[p]
                       - (IF p = payer THEN amount ELSE 0)
                       + (IF p = creditor THEN amount ELSE 0)]]

OweDebt(g, payer, amount, creditor) ==
  [g EXCEPT !.debt = [debtor |-> payer, creditor |-> creditor, owed |-> amount],
            !.phase = "bankrupt_resolution"]

\* Pays if it can; if not, opens a debt, unless one is already open, in which
\* case the amount is never collected.
AttemptPayment(g, payer, amount, creditor) ==
  CASE amount <= 0 -> g
    [] amount > 0 /\ g.balance[payer] >= amount ->
         TransferFunds(g, payer, creditor, amount)
    [] amount > 0 /\ g.balance[payer] < amount /\ g.debt # NoDebt -> g
    [] OTHER -> OweDebt(g, payer, amount, creditor)

\* A debtor who now has the money pays, and is back in post_roll.
TrySettleDebt(g) ==
  IF g.debt # NoDebt /\ g.balance[g.debt.debtor] >= g.debt.owed
  THEN [TransferFunds(g, g.debt.debtor, g.debt.creditor, g.debt.owed)
          EXCEPT !.debt = NoDebt, !.phase = "post_roll"]
  ELSE g

(***************************************************************************)
(* Turn order and the end of the game (bankruptcy.py)                      *)
(***************************************************************************)

\* The next active player after p around the table (p itself if it is alone).
NextActive(g, p) ==
  IF \E q \in Survivors(g) : q > p
  THEN Least({q \in Survivors(g) : q > p})
  ELSE Least(Survivors(g))

\* Mutant: a turn that begins in pre_roll even in jail.
StartTurnRolling(g, p) ==
  [g EXCEPT !.current = p, !.phase = "pre_roll", !.rolled = FALSE, !.streak = 0,
            !.offers = 0, !.pending = NoSquare]

\* A fresh turn for p: nothing rolled, offered or pending.
StartTurn(g, p) ==
  [g EXCEPT !.current = p,
            !.phase = IF g.jail[p] # 0 THEN "jail_decision" ELSE "pre_roll",
            !.rolled = FALSE,
            !.streak = 0,
            !.offers = 0,
            !.pending = NoSquare]

AdvanceTurnOff(g, p) ==
  IF Survivors(g) = {} THEN g ELSE StartTurn(g, NextActive(g, p))

\* Mutant: the game is closed without naming the winner.
CheckWinUnnamed(g) ==
  IF g.status = "in_progress" /\ Cardinality(Survivors(g)) = 1
  THEN [g EXCEPT !.status = "finished", !.phase = "game_over"] ELSE g

CheckWin(g) ==
  IF g.status = "in_progress" /\ \E w \in Player : Survivors(g) = {w}
  THEN [g EXCEPT !.status = "finished",
                 !.winner = CHOOSE w \in Player : Survivors(g) = {w},
                 !.phase = "game_over"]
  ELSE g

\* Elimination ends with the win check; if play goes on, the turn leaves p.
LeaveGame(g, p) ==
  LET h == CheckWin(g)
  IN  IF h.status = "finished" \/ h.current # p THEN h ELSE AdvanceTurnOff(h, p)

(***************************************************************************)
(* Bankruptcy and surrender (bankruptcy.py, surrender.py)                  *)
(***************************************************************************)

\* What every eliminated player is left with.
Eliminate(g, p) ==
  [g EXCEPT !.balance[p] = 0,
            !.owned[p] = {},
            !.cards[p] = 0,
            !.jail[p] = 0,
            !.out = @ \cup {p}]

\* Mutant: the squares keep their owner.
ReturnToBankOwned(g, p) ==
  [g EXCEPT !.mortgaged = @ \ g.owned[p],
            !.level = [s \in Square |-> IF s \in g.owned[p] THEN 0 ELSE g.level[s]],
            !.deck = [d \in Decks |-> g.deck[d] + g.cards[p]]]

\* The squares on p's list lose owner, mortgage and buildings, p's jail cards go
\* back to the decks: the code appends one card to each deck per card held.
ReturnToBank(g, p) ==
  [g EXCEPT !.owner = [s \in Square |-> IF s \in g.owned[p] THEN NoOne ELSE g.owner[s]],
            !.mortgaged = @ \ g.owned[p],
            !.level = [s \in Square |-> IF s \in g.owned[p] THEN 0 ELSE g.level[s]],
            !.deck = [d \in Decks |-> g.deck[d] + g.cards[p]]]

Hotels(g, S) == {s \in S : g.level[s] = HotelLevel}
Houses(g, S) ==
  SumTo([s \in Square |-> IF s \in S \ Hotels(g, S) THEN g.level[s] ELSE 0], Size)

\* Mutant: the bank takes the hotel down and forgets it.
RestoreStockHouses(g, p) == [g EXCEPT !.houses = @ + Houses(g, g.owned[p])]

\* The buildings on p's squares go back to the bank's stock; a surrender does
\* this, a bankruptcy does not.
RestoreStock(g, p) ==
  [g EXCEPT !.houses = @ + Houses(g, g.owned[p]),
            !.hotels = @ + Cardinality(Hotels(g, g.owned[p]))]

\* The debtor's cash (up to the debt), list of squares and jail cards go to the
\* creditor, who pays interest on each square that comes mortgaged.
TransferToCreditor(g, d, c) ==
  LET cash == IF g.balance[d] <= g.debt.owed THEN g.balance[d] ELSE g.debt.owed
      fees == TransferFee * Cardinality(g.owned[d] \cap g.mortgaged)
  IN  [g EXCEPT !.balance[c] = @ + cash - fees,
                !.owner = [s \in Square |-> IF s \in g.owned[d] THEN c ELSE g.owner[s]],
                !.owned[c] = @ \cup g.owned[d],
                !.cards[c] = @ + g.cards[d]]

\* Mutant: the turn stays with the bankrupt player.
ResolveBankruptcyKeepingTurn(g, d) ==
  CheckWin([Eliminate(ReturnToBank(g, d), d) EXCEPT !.debt = NoDebt])

ResolveBankruptcy(g, d) ==
  LET c == g.debt.creditor
      handed == IF c # NoOne THEN TransferToCreditor(g, d, c) ELSE ReturnToBank(g, d)
      gone == [Eliminate(handed, d) EXCEPT !.position[d] = StartSquare, !.debt = NoDebt]
      checked == CheckWin(gone)
  IN  IF checked.status = "finished" THEN checked ELSE AdvanceTurnOff(checked, d)

\* Mutant: the remainder of the division is lost.
CashShareRounded(g, p, q) ==
  IF q \in Survivors(g) \ {p} /\ g.balance[p] > 0
  THEN g.balance[p] \div Cardinality(Survivors(g) \ {p}) ELSE 0

\* What survivor q gets of p's cash: an equal share, and one unit of the
\* remainder if q is among the first in turn order.
CashShare(g, p, q) ==
  LET recipients == Survivors(g) \ {p}
      heads == Cardinality(recipients)
      earlier == Cardinality({r \in recipients : r < q})
  IN  IF q \in recipients /\ g.balance[p] > 0
      THEN (g.balance[p] \div heads) + (IF earlier < g.balance[p] % heads THEN 1 ELSE 0)
      ELSE 0

\* An open auction, trade or debt is left as it is.
ResolveSurrender(g, p) ==
  IF p \in g.out THEN g
  ELSE LET shared == [g EXCEPT !.balance =
                        [q \in Player |-> g.balance[q] + CashShare(g, p, q)]]
       IN  LeaveGame(Eliminate(ReturnToBank(RestoreStock(shared, p), p), p), p)
=============================================================================
