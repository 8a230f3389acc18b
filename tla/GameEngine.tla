----------------------------- MODULE GameEngine -----------------------------
(***************************************************************************)
(* engine.apply: every player intent and scheduler command as one atomic   *)
(* step of the game document.  A command that the code rejects             *)
(* (IllegalMove) leaves the document alone and is no step here.            *)
(*                                                                         *)
(* Timers are abstracted: the scheduler's commands may come at any moment  *)
(* at which the code would accept them.                                    *)
(***************************************************************************)
EXTENDS Landing, Dealings, Estate

CONSTANTS
  Bids,      \* the amounts a player may bid
  Offers,    \* the offers and requests a trade may be made of
  MinCash,   \* a bound of the model: balances stay in MinCash .. MaxCash
  MaxCash

ASSUME EngineAssumption ==
  /\ Bids \subseteq Nat
  /\ Offers \subseteq Offer
  /\ MinCash \in Int /\ MaxCash \in Int
  /\ StartBalance \in MinCash .. MaxCash

VARIABLE game

-----------------------------------------------------------------------------
(***************************************************************************)
(* What apply adds to a handler's result h                                 *)
(***************************************************************************)

ResetStrikes(h, p) == [h EXCEPT !.strikes[p] = 0]

Settled(h) == CheckWin(TrySettleDebt(h))

WithinBounds(h) == \A p \in Player : h.balance[p] \in MinCash .. MaxCash

Commit(h) == WithinBounds(h) /\ game' = h

\* A turn command of p: the strikes of its author are cleared, then an open
\* debt is settled if it can be and a sole survivor is declared the winner.
Play(h, p) == Commit(Settled(ResetStrikes(h, p)))

\* Bids and trade answers return before debts and survivors are looked at.
PlayOutOfTurn(h, p) == Commit(ResetStrikes(h, p))

\* Turn commands are refused to everyone but the turn holder.  Nothing in the
\* engine refuses a command because the game is over.
HoldsTurn(p) == game.current = p

-----------------------------------------------------------------------------
(***************************************************************************)
(* Rolling                                                                 *)
(***************************************************************************)

StayInJail(g, p) ==
  [g EXCEPT !.jail[p] = @ - 1, !.rolled = TRUE, !.streak = 0,
            !.phase = "post_roll", !.pending = NoSquare]

JailForDoubles(g, p) ==
  [SendToJail(g, p) EXCEPT !.rolled = TRUE, !.streak = 0,
                           !.phase = "post_roll", !.pending = NoSquare]

\* Doubles free the player at no cost; the last failed roll frees it for the
\* fine, taken whether or not the balance covers it.
RollFromJail(g, p, steps, doubles) ==
  CASE doubles -> ExecuteMove([g EXCEPT !.jail[p] = 0], p, steps, FALSE)
    [] ~doubles /\ g.jail[p] > 1 -> {StayInJail(g, p)}
    [] OTHER -> ExecuteMove([g EXCEPT !.jail[p] = 0, !.balance[p] = @ - JailFine],
                            p, steps, FALSE)

\* Mutant: nobody goes to jail for doubles.
RollFreeUnlimited(g, p, steps, doubles) == ExecuteMove(g, p, steps, doubles)

RollFree(g, p, steps, doubles) ==
  IF doubles /\ g.streak + 1 >= DoublesLimit
  THEN {JailForDoubles(g, p)}
  ELSE ExecuteMove(g, p, steps, doubles)

RollOutcomes(g, p, dice) ==
  LET steps == dice[1] + dice[2]
      doubles == dice[1] = dice[2]
  IN  IF g.jail[p] # 0
      THEN RollFromJail(g, p, steps, doubles)
      ELSE RollFree(g, p, steps, doubles)

RollDice(p) ==
  /\ HoldsTurn(p)
  /\ \/ game.phase = "jail_decision"
     \/ game.phase = "pre_roll" /\ game.jail[p] = 0
  /\ \E dice \in Rolls : \E h \in RollOutcomes(game, p, dice) : Play(h, p)

-----------------------------------------------------------------------------
(***************************************************************************)
(* The rest of the turn                                                    *)
(***************************************************************************)

Bought(g, p, s) ==
  [g EXCEPT !.owner[s] = p,
            !.owned[p] = @ \cup {s},
            !.balance[p] = @ - Price[s],
            !.pending = NoSquare,
            !.phase = IF g.streak > 0 THEN "pre_roll" ELSE g.phase]

BuyProperty(p) ==
  /\ HoldsTurn(p)
  /\ game.phase \in {"post_roll", "must_pay_rent"}
  /\ game.pending # NoSquare
  /\ Purchasable(game.pending)
  /\ game.owner[game.pending] = NoOne
  /\ game.balance[p] >= Price[game.pending]
  /\ Play(Bought(game, p, game.pending), p)

PassBuy(p) ==
  /\ HoldsTurn(p)
  /\ game.phase \in {"post_roll", "must_pay_rent"}
  /\ game.pending # NoSquare
  /\ Play(StartAuction(game, game.pending), p)

\* Mutant: the turn goes round the other way.
NextInListReversed(g, p) ==
  LET index(q) == Cardinality({r \in Survivors(g) : r > q})
  IN  CHOOSE q \in Survivors(g) :
        index(q) = (index(p) + 1) % Cardinality(Survivors(g))

\* The successor end_turn finds by index in the list of active players.
NextInList(g, p) ==
  LET index(q) == Cardinality({r \in Survivors(g) : r < q})
  IN  CHOOSE q \in Survivors(g) :
        index(q) = (index(p) + 1) % Cardinality(Survivors(g))

EndTurn(p) ==
  /\ HoldsTurn(p)
  /\ game.phase \in {"post_roll", "must_pay_rent", "bankrupt_resolution"}
  /\ game.pending = NoSquare
  /\ game.debt = NoDebt
  /\ p \notin game.out
  /\ Play(StartTurn(game, NextInList(game, p)), p)

PayJailFine(p) ==
  /\ HoldsTurn(p)
  /\ game.phase = "jail_decision"
  /\ game.jail[p] # 0
  /\ game.balance[p] >= JailFine
  /\ Play([game EXCEPT !.jail[p] = 0, !.balance[p] = @ - JailFine,
                       !.phase = "pre_roll"], p)

\* Mutant: the card is spent and returned to no deck.
UseJailCardLost(p) ==
  /\ HoldsTurn(p)
  /\ game.phase = "jail_decision"
  /\ game.jail[p] # 0
  /\ game.cards[p] > 0
  /\ Play([game EXCEPT !.jail[p] = 0, !.cards[p] = @ - 1, !.phase = "pre_roll"], p)

\* Whichever deck the card came from, it goes back to Chance.
UseJailCard(p) ==
  /\ HoldsTurn(p)
  /\ game.phase = "jail_decision"
  /\ game.jail[p] # 0
  /\ game.cards[p] > 0
  /\ Play([game EXCEPT !.jail[p] = 0, !.cards[p] = @ - 1,
                       !.deck["chance"] = @ + 1, !.phase = "pre_roll"], p)

BuildHouse(p, s) ==
  /\ HoldsTurn(p)
  /\ game.phase \in BuildPhases
  /\ MayBuild(game, p, s)
  /\ Play(Build(game, p, s), p)

SellHouse(p, s) ==
  /\ HoldsTurn(p)
  /\ game.phase \in BuildPhases
  /\ MaySell(game, p, s)
  /\ Play(Sell(game, p, s), p)

MortgageProperty(p, s) ==
  /\ HoldsTurn(p)
  /\ game.phase \in BuildPhases
  /\ MayMortgage(game, p, s)
  /\ Play(Mortgage(game, p, s), p)

UnmortgageProperty(p, s) ==
  /\ HoldsTurn(p)
  /\ game.phase \in BuildPhases
  /\ MayRedeem(game, p, s)
  /\ Play(Redeem(game, p, s), p)

DeclareBankruptcy(p) ==
  /\ HoldsTurn(p)
  /\ game.debt # NoDebt
  /\ game.debt.debtor = p
  /\ Play(ResolveBankruptcy(game, p), p)

Surrender(p) ==
  /\ HoldsTurn(p)
  /\ p \notin game.out
  /\ Play(ResolveSurrender(game, p), p)

-----------------------------------------------------------------------------
(***************************************************************************)
(* Auctions and trades                                                     *)
(***************************************************************************)

PlaceBid(p) ==
  \E amount \in Bids :
    /\ MayBid(game, p, amount)
    /\ PlayOutOfTurn(PlaceBidBy(game, p, amount), p)

ProposeTrade(p) ==
  /\ HoldsTurn(p)
  /\ \E q \in Player, offer, request \in Offers :
       /\ MayPropose(game, p, q, offer, request)
       /\ Play(Propose(game, p, q, offer, request), p)

\* Any player that knows the trade may reject it, a party to it or not.
RejectTrade(p) ==
  /\ game.trade # NoTrade
  /\ PlayOutOfTurn(CloseTrade(game), p)

CounterTrade(p) ==
  \E counter \in Offers :
    /\ MayCounter(game, p, counter)
    /\ PlayOutOfTurn(Counter(game, counter), p)

AcceptTrade(p) ==
  /\ MayAccept(game, p)
  /\ PlayOutOfTurn(ExecuteTrade(game), p)

-----------------------------------------------------------------------------
(***************************************************************************)
(* The scheduler, which only looks at games in progress                    *)
(***************************************************************************)

AdvanceAuction ==
  /\ game.status = "in_progress"
  /\ game.auction # NoAuction
  /\ Commit(Settled(ResolveAuction(game)))

ExpireTrade ==
  /\ game.status = "in_progress"
  /\ game.trade # NoTrade
  /\ Commit(Settled(CloseTrade(game)))

\* Mutant: one missed turn too many is forgiven.
StrikeOutLate(g) ==
  LET p == g.current
      h == [g EXCEPT !.strikes[p] = @ + 1]
  IN  IF h.strikes[p] > MaxStrikes THEN ResolveSurrender(h, p) ELSE AdvanceTurnOff(h, p)

\* One more strike against the turn holder: its turn is skipped or, at the
\* limit, it is made to surrender.
StrikeOut(g) ==
  LET p == g.current
      h == [g EXCEPT !.strikes[p] = @ + 1]
  IN  IF h.strikes[p] >= MaxStrikes
      THEN ResolveSurrender(h, p)
      ELSE AdvanceTurnOff(h, p)

\* An auction never outlasts a turn's deadline, and the scheduler looks at it
\* first: while one is open no turn times out.
TurnTimeout ==
  /\ game.status = "in_progress"
  /\ game.auction = NoAuction
  /\ game.phase \in ActiveTurnPhases
  /\ Commit(Settled(StrikeOut(game)))

-----------------------------------------------------------------------------
Init == game = NewGame

PlayerCommand(p) ==
  \/ RollDice(p) \/ BuyProperty(p) \/ PassBuy(p) \/ EndTurn(p)
  \/ PayJailFine(p) \/ UseJailCard(p)
  \/ \E s \in Square : BuildHouse(p, s) \/ SellHouse(p, s)
  \/ \E s \in Square : MortgageProperty(p, s) \/ UnmortgageProperty(p, s)
  \/ DeclareBankruptcy(p) \/ Surrender(p)
  \/ PlaceBid(p)
  \/ ProposeTrade(p) \/ RejectTrade(p) \/ CounterTrade(p) \/ AcceptTrade(p)

SchedulerCommand == AdvanceAuction \/ ExpireTrade \/ TurnTimeout

Next == SchedulerCommand \/ \E p \in Player : PlayerCommand(p)

Spec == Init /\ [][Next]_game
=============================================================================
