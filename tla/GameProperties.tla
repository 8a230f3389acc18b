-------------------------- MODULE GameProperties --------------------------
(***************************************************************************)
(* What the engine is checked against.  The second part states what the    *)
(* protocol document and the rule set say of the engine and it does not    *)
(* do; each of those has a run that refutes it.                            *)
(***************************************************************************)
EXTENDS ActionBar

InProgress == game.status = "in_progress"
Finished == game.status = "finished"

\* Every document the engine produces has the shape of the schema in state.py;
\* in particular the streak, the offers and the strikes respect their limits.
TypeOK == game \in GameDoc

\* The turn never rests on an eliminated player while play goes on; end_turn
\* would raise StopIteration and the game would be stuck (bankruptcy.py:105-107).
\* Once the game is over the turn stays on the player whose exit ended it.
TurnHolderInGame == InProgress <=> game.current \notin game.out

\* The game is over exactly when one player is left, and that player is the
\* winner; the win check runs only after some of the commands.
OutcomeConsistent ==
  /\ Finished <=> \E w \in Player : Survivors(game) = {w}
  /\ Finished => Survivors(game) = {game.winner}
  /\ InProgress => game.winner = NoOne

\* While play goes on, a phase in which everyone waits for an answer has
\* something to wait for: else no command and no timer would ever leave it,
\* since ACTIVE_TURN_PHASES leaves these phases to the other timers.
WaitingPhaseHasSubject ==
  InProgress =>
    /\ game.phase = "auction" => game.auction # NoAuction
    /\ game.phase = "trade_negotiation" => game.trade # NoTrade
    /\ game.phase = "bankrupt_resolution" => game.debt # NoDebt
    /\ game.phase # "game_over"

\* A jailed turn holder is never put in pre_roll, where the engine accepts
\* neither its roll nor its fine nor its card; and jailed players stand in jail.
JailedNotStuck ==
  /\ InProgress /\ game.jail[game.current] # 0 =>
       game.phase # "pre_roll" /\ game.streak = 0
  /\ \A p \in Player : game.jail[p] # 0 => game.position[p] = JailSquare

\* The two records of ownership agree this far: the owner a square names has
\* it on its list.  Eliminating a player by its list then leaves no square
\* that names it.
OwnerListed ==
  \A s \in Square : \A p \in Player : game.owner[s] = p => s \in game.owned[p]

\* Buildings stand only on owned squares of groups without a mortgage, whoever
\* has come to own the rest of the group since they were built.
NoBuildingBesideMortgage ==
  \A s \in Square : game.level[s] > 0 =>
    game.owner[s] # NoOne /\ GroupOf(s) \cap game.mortgaged = {}

EvenGroups(g) ==
  \A s \in Square : Street(s) => \A t \in GroupOf(s) : g.level[s] <= g.level[t] + 1

\* No build, sale or trade makes an even group uneven, though a group may be
\* split between owners while it is built; an elimination may.
StaysEven ==
  [][EvenGroups(game) /\ game'.out = game.out => EvenGroups(game')]_game

\* A player goes bankrupt to another, or to the bank.
Bankrupt(p) == DeclareBankruptcy(p) /\ game.debt.creditor # NoOne
Foreclosed(p) == DeclareBankruptcy(p) /\ game.debt.creditor = NoOne

\* Houses and hotels only move between the bank and the board: buying and selling a
\* hotel moves the houses it stands for as well, even when the bank has too few of
\* them (building.py:140-143), and whoever surrenders, runs out of strikes or goes
\* bankrupt to a player takes none along; only a bankruptcy to the bank does.
StockConserved ==
  [][(\A p \in Player : ~Foreclosed(p)) =>
       /\ game'.houses + Houses(game', Square) = game.houses + Houses(game, Square)
       /\ game'.hotels + Cardinality(Hotels(game', Square))
            = game.hotels + Cardinality(Hotels(game, Square))]_game

\* Get-out-of-jail cards only move between the decks and the players, however long a
\* card is kept before it is used ("removed on draw, returned on use", ruleset.md:36),
\* also when a player goes bankrupt to another; only a player who leaves cards to the
\* bank puts each into both decks.
JailCards(g) == g.deck["chance"] + g.deck["chest"] + SumTo(g.cards, N)
LeavesCards(p) ==
  game.cards[p] > 0 /\ (Foreclosed(p) \/ (p \in game'.out \ game.out /\ ~Bankrupt(p)))
JailCardsConserved ==
  [][(\A p \in Player : ~LeavesCards(p)) => JailCards(game') = JailCards(game)]_game

\* A player that has missed as many turns as MAX_AFK_STRIKES is out in the same
\* step: no later command can find it still playing.
StrikesOut == \A p \in Player : game.strikes[p] >= MaxStrikes => p \in game.out

\* A surrender splits the leaver's cash among the survivors to the last unit
\* ("so the total is conserved", surrender.py:59-60).  Without an open debt an
\* elimination is a surrender.
SurrenderConservesMoney ==
  [][game.debt = NoDebt /\ (\A p \in game'.out \ game.out : game.balance[p] >= 0)
       /\ game'.out # game.out
     => SumTo(game'.balance, N) = SumTo(game.balance, N)]_game

\* Closing a trade, whichever way, moves money and jail cards between players
\* without making or losing any, and overdraws nobody: what was offered may be
\* gone by the time the answer arrives.
TradeSound ==
  [][game.trade # NoTrade /\ game'.trade = NoTrade /\ game.debt = NoDebt
     => /\ SumTo(game'.balance, N) = SumTo(game.balance, N)
        /\ SumTo(game'.cards, N) = SumTo(game.cards, N)
        /\ \A p \in Player : /\ game'.balance[p] < 0 => game.balance[p] < 0
                            /\ game'.cards[p] >= 0]_game

\* What the engine would accept has its button lit, though the flags are computed by
\* other rules and from the player's own list, but for these: a fine that the settings
\* put below the constant the flag tests; a surrender while an auction, a trade or a
\* debt is open; an offer in other phases or after the end; a bankruptcy in other
\* phases; and the highest bidder outbidding itself (actions.py against engine.py).
NothingHidden ==
  [][\A p \in Player :
       LET dark == Flags \ Offered(game, p) IN
       /\ "roll" \in dark => ~RollDice(p)
       /\ "buy" \in dark => ~BuyProperty(p)
       /\ "end_turn" \in dark => ~EndTurn(p)
       /\ "use_jail_card" \in dark => ~UseJailCard(p)
       /\ "build" \in dark => ~\E s \in Square : BuildHouse(p, s)
       /\ "mortgage" \in dark => ~\E s \in Square : MortgageProperty(p, s)
       /\ "unmortgage" \in dark => ~\E s \in Square : UnmortgageProperty(p, s)
       /\ "pay_jail_fine" \in dark /\ PayJailFine(p) =>
            game.balance[p] \in JailFine .. (ShownFine - 1)
       /\ "surrender" \in dark /\ Surrender(p) =>
            game.phase \in {"auction", "trade_negotiation", "bankrupt_resolution"}
       /\ "trade" \in dark /\ ProposeTrade(p) =>
            game.phase \notin {"pre_roll", "post_roll"} \/ game.status = "finished"
       /\ "declare_bankruptcy" \in dark /\ DeclareBankruptcy(p) =>
            game.phase # "bankrupt_resolution"
       /\ "bid" \in dark /\ PlaceBid(p) => game.auction.bidder = p]_game

\* The abstract game of elimination, over the survivors, the turn and the winner.
Game == INSTANCE Elimination
          WITH survivors <- Survivors(game), turn <- game.current, winner <- game.winner

\* Every game the engine plays is a game of elimination: the turn goes to the next
\* survivor around the table, though end_turn and the elimination path search for
\* that player differently; who is out stays out; and who won has won.
PlaysElimination == Game!Spec

-----------------------------------------------------------------------------
\* The scheduler's loop runs once a second, and the deadlines it watches pass
\* if no player's command renews them.
FairSpec == Spec /\ WF_game(SchedulerCommand)

\* If from some moment on no player sends anything, the scheduler alone brings
\* the game to its end, unless it stops at a debt, which no timer resolves.
SilentGameEnds ==
  <>[][SchedulerCommand]_game =>
    <>[](Finished \/ game.phase = "bankrupt_resolution")

-----------------------------------------------------------------------------
(***************************************************************************)
(* Statements of the documents that the code does not meet                 *)
(***************************************************************************)

\* game-protocol.md:209: in bankrupt_resolution, "current player can't pay a debt".
DebtorHoldsTurn ==
  game.phase = "bankrupt_resolution" => game.debt.debtor = game.current
=============================================================================
