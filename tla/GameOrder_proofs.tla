-------------------------- MODULE GameOrder_proofs --------------------------
(***************************************************************************)
(* What keeps a game playable besides the schema and the table: who owns   *)
(* what, who owes whom, who sits in jail, and what the phase waits for.    *)
(***************************************************************************)
EXTENDS GameEngine_proofs

\* Whoever a square names as its owner has it on the list.
Listed(g) ==
  \A s \in Square : \A p \in Player : g.owner[s] = p => s \in g.owned[p]

\* Buildings stand on owned streets of groups without a mortgage.
Built(g) ==
  \A s \in Square : g.level[s] > 0 =>
    g.owner[s] # NoOne /\ Street(s) /\ GroupOf(s) \cap g.mortgaged = {}

\* Nobody owes or trades with itself: else passing on an estate would lose it.
Parties(g) ==
  /\ g.debt # NoDebt => g.debt.debtor # g.debt.creditor
  /\ g.trade # NoTrade => g.trade.proposer # g.trade.target

\* Jailed players stand in jail.
Confined(g) == \A p \in Player : g.jail[p] # 0 => g.position[p] = JailSquare

Settlement(g) == Listed(g) /\ Built(g) /\ Parties(g) /\ Confined(g)

\* A jailed turn holder is never to roll freely, and a phase that waits has
\* something to wait for.
Turn(g) ==
  /\ g.status = "in_progress" =>
       /\ g.jail[g.current] # 0 => g.phase # "pre_roll" /\ g.streak = 0
       /\ g.phase = "auction" => g.auction # NoAuction
       /\ g.phase = "trade_negotiation" => g.trade # NoTrade
       /\ g.phase = "bankrupt_resolution" => g.debt # NoDebt
       /\ g.phase # "game_over"
  /\ g.phase = "must_pay_rent" => g.pending = NoSquare

Orderly(g) == Settlement(g) /\ Turn(g)

-----------------------------------------------------------------------------
(***************************************************************************)
(* What apply adds to a command                                            *)
(***************************************************************************)

\* The step changes no square, and closes debts, trades and jail terms at most.
Carries(g, h) ==
  /\ h.owner = g.owner /\ h.owned = g.owned
  /\ h.mortgaged = g.mortgaged /\ h.level = g.level
  /\ h.debt \in {g.debt, NoDebt}
  /\ h.trade \in {g.trade, NoTrade}
  /\ \A p \in Player :
       h.jail[p] # 0 => g.jail[p] # 0 /\ h.position[p] = g.position[p]

\* Such a step keeps the settlement.
LEMMA CarriesSettlement ==
  ASSUME NEW g, NEW h, Settlement(g), Carries(g, h)
  PROVE  Settlement(h)
<1>1. Listed(h)
  BY DEF Settlement, Listed, Carries
<1>2. Built(h)
  BY DEF Settlement, Built, Carries
<1>3. Parties(h)
  BY DEF Settlement, Parties, Carries
<1>4. Confined(h)
  BY DEF Settlement, Confined, Carries
<1> QED BY <1>1, <1>2, <1>3, <1>4 DEF Settlement

\* Settling a debt leaves the turn in order,
LEMMA TrySettleDebtOrderly ==
  ASSUME NEW g \in GameDoc, Orderly(g)
  PROVE  Orderly(TrySettleDebt(g))
<1>1. CASE g.debt # NoDebt /\ g.balance[g.debt.debtor] >= g.debt.owed
  <2> DEFINE b == [p \in Player |-> g.balance[p]
                       - (IF p = g.debt.debtor THEN g.debt.owed ELSE 0)
                       + (IF p = g.debt.creditor THEN g.debt.owed ELSE 0)]
             h == [g EXCEPT !.balance = b, !.debt = NoDebt, !.phase = "post_roll"]
  <2>1. TrySettleDebt(g) = h
    BY <1>1 DEF TrySettleDebt, TransferFunds
  <2> HIDE DEF b
  <2>2. Carries(g, h)
    BY DEF Carries, GameDoc
  <2>3. Turn(h)
    BY DEF Orderly, Turn, GameDoc
  <2> HIDE DEF h
  <2> QED BY <2>1, <2>2, <2>3, CarriesSettlement DEF Orderly
<1>2. CASE ~ (g.debt # NoDebt /\ g.balance[g.debt.debtor] >= g.debt.owed)
  BY <1>2 DEF TrySettleDebt
<1> QED BY <1>1, <1>2

\* and so does the win check,
LEMMA CheckWinSettlement ==
  ASSUME NEW g \in GameDoc, Settlement(g)
  PROVE  Settlement(CheckWin(g))
<1>1. Carries(g, CheckWin(g))
  BY DEF Carries, CheckWin, GameDoc
<1> QED BY <1>1, CarriesSettlement

\* check_win, which may end the game, keeps it in order.
LEMMA CheckWinOrderly ==
  ASSUME NEW g \in GameDoc, Orderly(g)
  PROVE  Orderly(CheckWin(g))
<1>1. Turn(CheckWin(g))
  BY DEF Orderly, Turn, CheckWin, GameDoc
<1> QED BY <1>1, CheckWinSettlement DEF Orderly

\* and clearing the strikes of the author.
LEMMA ResetStrikesOrderly ==
  ASSUME NEW g \in GameDoc, Orderly(g), NEW p \in Player
  PROVE  ResetStrikes(g, p) \in GameDoc /\ Orderly(ResetStrikes(g, p))
<1> DEFINE x == [g.strikes EXCEPT ![p] = 0]
           h == [g EXCEPT !.strikes = x]
<1>1. x \in [Player -> 0 .. MaxStrikes]
  BY Sizes DEF GameDoc
<1>2. ResetStrikes(g, p) = h
  BY DEF ResetStrikes
<1> HIDE DEF x
<1>3. h \in GameDoc
  BY <1>1 DEF GameDoc
<1>4. Carries(g, h)
  BY DEF Carries, GameDoc
<1>5. Turn(h)
  BY DEF Orderly, Turn, GameDoc
<1> HIDE DEF h
<1> QED BY <1>2, <1>3, <1>4, <1>5, CarriesSettlement DEF Orderly

\* Settling a debt that has become payable, and the win check after it, keep it in order.
LEMMA SettledOrderly ==
  ASSUME NEW h \in GameDoc, Orderly(h)
  PROVE  Orderly(Settled(h))
<1> DEFINE k == TrySettleDebt(h)
<1>1. k \in GameDoc
  BY TrySettleDebtKept DEF Kept
<1>2. Orderly(k)
  BY TrySettleDebtOrderly
<1> HIDE DEF k
<1>3. Orderly(CheckWin(k))
  BY <1>1, <1>2, CheckWinOrderly
<1> QED BY <1>3 DEF Settled, k

\* The three ways a command is committed.
LEMMA PlayOrderly ==
  ASSUME NEW h \in GameDoc, Orderly(h), NEW p \in Player, Play(h, p)
  PROVE  Orderly(game')
  BY ResetStrikesOrderly, SettledOrderly DEF Play, Commit

\* The end of a command a player may give out of turn.
LEMMA PlayOutOfTurnOrderly ==
  ASSUME NEW h \in GameDoc, Orderly(h), NEW p \in Player, PlayOutOfTurn(h, p)
  PROVE  Orderly(game')
  BY ResetStrikesOrderly DEF PlayOutOfTurn, Commit

\* The end of a command of the scheduler.
LEMMA CommitOrderly ==
  ASSUME NEW h \in GameDoc, Orderly(h), Commit(Settled(h))
  PROVE  Orderly(game')
  BY SettledOrderly DEF Commit

-----------------------------------------------------------------------------
(***************************************************************************)
(* Rolling                                                                 *)
(***************************************************************************)

\* A landing of the turn holder leaves the game in order.
LEMMA LandedOrderly ==
  ASSUME NEW g \in GameDoc, Orderly(g), NEW h, Kept(g, h), Landed(g, h, g.current),
         AtJail(h, g.current),
         h.jail[g.current] # 0 => h.phase = "post_roll" /\ h.streak = 0
  PROVE  Orderly(h)
<1>1. Listed(h)
  BY DEF Orderly, Settlement, Listed, Landed, Estates
<1>2. Built(h)
  BY DEF Orderly, Settlement, Built, Landed, Estates
<1>3. Parties(h)
  BY DEF Orderly, Settlement, Parties, Landed, Owing
<1>4. Confined(h)
  BY DEF Orderly, Settlement, Confined, Landed, AtJail
<1>5. Turn(h)
  BY DEF Orderly, Turn, Kept, Table, Landed, Owing
<1> QED BY <1>1, <1>2, <1>3, <1>4, <1>5 DEF Orderly, Settlement

\* So does a move of a free turn holder.
LEMMA ExecuteMoveOrderly ==
  ASSUME NEW g \in GameDoc, Orderly(g), g.jail[g.current] = 0,
         NEW steps \in Int, NEW extraRoll \in BOOLEAN,
         NEW h \in ExecuteMove(g, g.current, steps, extraRoll), Kept(g, h)
  PROVE  Orderly(h)
<1> DEFINE p == g.current
<1>1. p \in Player
  BY DEF GameDoc
<1>2. /\ Landed(g, h, p) /\ AtJail(h, p)
      /\ h.jail[p] # 0 => h.phase = "post_roll" /\ h.streak = 0
  BY <1>1, ExecuteMoveLanded
<1> QED BY <1>2, LandedOrderly

\* Leaving jail, for nothing or for the fine, leaves the game in order;
LEMMA FreedOrderly ==
  ASSUME NEW g \in GameDoc, Orderly(g), NEW p \in Player, NEW n \in Int
  PROVE  /\ Orderly(Freed(g, p, n)) /\ Freed(g, p, n).jail[p] = 0
         /\ Freed(g, p, n).current = g.current
<1> DEFINE b == [g.balance EXCEPT ![p] = @ - n]
           h == [g EXCEPT !.jail[p] = 0, !.balance = b]
<1>1. Freed(g, p, n) = h
  BY DEF Freed
<1> HIDE DEF b
<1>2. Carries(g, h)
  BY DEF Carries, GameDoc
<1>3. Turn(h)
  BY DEF Orderly, Turn, GameDoc
<1>4. h.jail[p] = 0 /\ h.current = g.current
  BY DEF GameDoc
<1> HIDE DEF h
<1> QED BY <1>1, <1>2, <1>3, <1>4, CarriesSettlement DEF Orderly

\* so does staying there,
LEMMA StayInJailOrderly ==
  ASSUME NEW g \in GameDoc, Orderly(g), NEW p \in Player, g.jail[p] > 1
  PROVE  Orderly(StayInJail(g, p))
<1> DEFINE h == StayInJail(g, p)
<1>1. g.jail[p] # 0
  BY DEF GameDoc
<1>2. Carries(g, h)
  BY <1>1 DEF StayInJail, Carries, GameDoc
<1>3. Turn(h)
  BY DEF StayInJail, Turn, GameDoc
<1> QED BY <1>2, <1>3, CarriesSettlement DEF Orderly

\* and going there for doubles.
LEMMA JailForDoublesOrderly ==
  ASSUME NEW g \in GameDoc, Orderly(g), NEW p \in Player
  PROVE  Orderly(JailForDoubles(g, p))
<1> DEFINE h == JailForDoubles(g, p)
<1>1. /\ h.owner = g.owner /\ h.owned = g.owned /\ h.mortgaged = g.mortgaged
      /\ h.level = g.level /\ h.debt = g.debt /\ h.trade = g.trade
  BY DEF JailForDoubles, SendToJail, GameDoc
<1>2. Listed(h) /\ Built(h) /\ Parties(h)
  BY <1>1 DEF Orderly, Settlement, Listed, Built, Parties
<1>3. Confined(h)
  BY DEF Orderly, Settlement, Confined, JailForDoubles, SendToJail, GameDoc
<1>4. Turn(h)
  BY DEF JailForDoubles, SendToJail, Turn, GameDoc
<1> QED BY <1>2, <1>3, <1>4 DEF Orderly, Settlement

\* Whatever the dice show, the game stays in order.
LEMMA RollOutcomesOrderly ==
  ASSUME NEW g \in GameDoc, Orderly(g), NEW p \in Player, p = g.current,
         NEW dice \in Rolls, NEW h \in RollOutcomes(g, p, dice)
  PROVE  Orderly(h)
<1> DEFINE steps == dice[1] + dice[2]
           doubles == dice[1] = dice[2]
<1>1. steps \in Int
  <2>1. Rolls \subseteq Nat \X Nat
    BY GameAssumption
  <2>2. dice[1] \in Nat /\ dice[2] \in Nat
    BY <2>1
  <2> QED BY <2>2
<1>2. doubles \in BOOLEAN
  OBVIOUS
<1>3. Kept(g, h)
  BY RollOutcomesKept
<1>4. h \in IF g.jail[p] # 0 THEN RollFromJail(g, p, steps, doubles)
           ELSE RollFree(g, p, steps, doubles)
  BY DEF RollOutcomes
<1> HIDE DEF steps, doubles
<1>5. ASSUME NEW n \in Int, h \in ExecuteMove(Freed(g, p, n), p, steps, FALSE)
      PROVE  Orderly(h)
  <2> DEFINE k == Freed(g, p, n)
  <2>1. Kept(g, k) /\ Orderly(k) /\ k.jail[p] = 0 /\ k.current = p
    BY FreedKept, FreedOrderly
  <2>2. h \in ExecuteMove(k, k.current, steps, FALSE)
    BY <1>5, <2>1
  <2> HIDE DEF k
  <2>3. Kept(k, h)
    BY <1>3, <2>1 DEF Kept
  <2> QED BY <1>1, <2>1, <2>2, <2>3, ExecuteMoveOrderly DEF Kept
<1>6. CASE g.jail[p] # 0 /\ doubles
  <2>1. RollFromJail(g, p, steps, doubles) =
          ExecuteMove([g EXCEPT !.jail[p] = 0], p, steps, FALSE)
    BY <1>6 DEF RollFromJail
  <2>2. [g EXCEPT !.jail[p] = 0] = Freed(g, p, 0)
    <3>1. [g.balance EXCEPT ![p] = @ - 0] = g.balance
      BY DEF GameDoc
    <3> QED BY <3>1 DEF Freed, GameDoc
  <2>3. h \in RollFromJail(g, p, steps, doubles)
    BY <1>4, <1>6
  <2>4. h \in ExecuteMove(Freed(g, p, 0), p, steps, FALSE)
    BY <2>1, <2>2, <2>3, Zenon
  <2>5. 0 \in Int
    OBVIOUS
  <2> QED BY <1>5, <2>4, <2>5, Zenon
<1>7. CASE g.jail[p] # 0 /\ ~ doubles /\ g.jail[p] > 1
  <2>1. RollFromJail(g, p, steps, doubles) = {StayInJail(g, p)}
    BY <1>7 DEF RollFromJail
  <2>2. h = StayInJail(g, p)
    BY <1>4, <1>7, <2>1
  <2> QED BY <1>7, <2>2, StayInJailOrderly
<1>8. CASE g.jail[p] # 0 /\ ~ doubles /\ ~ (g.jail[p] > 1)
  <2>1. RollFromJail(g, p, steps, doubles) = ExecuteMove(Freed(g, p, JailFine), p, steps, FALSE)
    BY <1>8 DEF RollFromJail, Freed
  <2> QED BY <1>4, <1>5, <1>8, <2>1, JailFineIsInt
<1>9. CASE g.jail[p] = 0 /\ doubles /\ g.streak + 1 >= DoublesLimit
  <2>1. RollFree(g, p, steps, doubles) = {JailForDoubles(g, p)}
    BY <1>9 DEF RollFree
  <2>2. h = JailForDoubles(g, p)
    BY <1>4, <1>9, <2>1
  <2> QED BY <2>2, JailForDoublesOrderly
<1>10. CASE g.jail[p] = 0 /\ ~ (doubles /\ g.streak + 1 >= DoublesLimit)
  <2>1. RollFree(g, p, steps, doubles) = ExecuteMove(g, p, steps, doubles)
    BY <1>10 DEF RollFree
  <2>2. h \in ExecuteMove(g, g.current, steps, doubles)
    BY <1>4, <1>10, <2>1
  <2> QED BY <1>1, <1>2, <1>3, <1>10, <2>2, ExecuteMoveOrderly
<1> QED BY <1>6, <1>7, <1>8, <1>9, <1>10

\* A roll leaves the game in order.
LEMMA RollDiceOrderly ==
  ASSUME Sound(game), Orderly(game), NEW p \in Player, RollDice(p)
  PROVE  Orderly(game')
<1>1. PICK dice \in Rolls : \E h \in RollOutcomes(game, p, dice) : Play(h, p)
  BY DEF RollDice
<1>2. PICK h \in RollOutcomes(game, p, dice) : Play(h, p)
  BY <1>1
<1>3. game \in GameDoc /\ p = game.current
  BY DEF Sound, RollDice, HoldsTurn
<1>4. h \in GameDoc /\ Orderly(h)
  BY <1>3, RollOutcomesKept, RollOutcomesOrderly DEF Kept
<1> QED BY <1>2, <1>4, PlayOrderly

-----------------------------------------------------------------------------
(***************************************************************************)
(* The rest of the turn                                                    *)
(***************************************************************************)

\* A purchase, which puts the square on the buyer's list, leaves it in order.
LEMMA BuyPropertyOrderly ==
  ASSUME Sound(game), Orderly(game), NEW p \in Player, BuyProperty(p)
  PROVE  Orderly(game')
<1> DEFINE s == game.pending
           h == Bought(game, p, s)
<1>1. /\ game \in GameDoc /\ Play(h, p) /\ s # NoSquare
      /\ game.phase \in {"post_roll", "must_pay_rent"}
  BY DEF Sound, BuyProperty
<1>2. s \in Square
  BY <1>1, PendingIsSquare
<1>3. h \in GameDoc
  BY <1>1, <1>2, BoughtKept DEF Kept
<1> HIDE DEF s
<1>4. /\ h.owner = [game.owner EXCEPT ![s] = p]
      /\ h.owned = [game.owned EXCEPT ![p] = @ \cup {s}]
      /\ h.mortgaged = game.mortgaged /\ h.level = game.level
      /\ h.debt = game.debt /\ h.trade = game.trade
      /\ h.jail = game.jail /\ h.position = game.position
  BY <1>1 DEF Bought, GameDoc
<1>5. /\ h.status = game.status /\ h.current = game.current
      /\ h.streak = game.streak /\ h.pending = NoSquare
      /\ h.phase \in {game.phase, "pre_roll"}
      /\ game.streak = 0 => h.phase = game.phase
  BY <1>1 DEF Bought, GameDoc
<1>6. Turn(h)
  BY <1>1, <1>4, <1>5 DEF Orderly, Turn
<1> HIDE DEF h
<1>7. Listed(h)
  BY <1>1, <1>2, <1>4 DEF Orderly, Settlement, Listed, GameDoc
<1>8. Built(h)
  <2>1. p # NoOne
    BY DEF Player, NoOne
  <2> QED BY <1>1, <1>2, <1>4, <2>1 DEF Orderly, Settlement, Built, GameDoc
<1>9. Parties(h) /\ Confined(h)
  BY <1>4 DEF Orderly, Settlement, Parties, Confined
<1> QED BY <1>1, <1>3, <1>6, <1>7, <1>8, <1>9, PlayOrderly DEF Orderly, Settlement

\* The refusal of one opens an auction to wait for.
LEMMA PassBuyOrderly ==
  ASSUME Sound(game), Orderly(game), NEW p \in Player, PassBuy(p)
  PROVE  Orderly(game')
<1> DEFINE h == StartAuction(game, game.pending)
<1>1. game \in GameDoc /\ Play(h, p) /\ game.pending # NoSquare
  BY DEF Sound, PassBuy
<1>2. h \in GameDoc
  BY <1>1, PendingIsSquare, StartAuctionKept DEF Kept
<1>3. Carries(game, h)
  BY <1>1 DEF StartAuction, Carries, GameDoc
<1>4. h.auction.pos # NoSquare
  BY <1>1 DEF StartAuction, NoAuction, GameDoc
<1>5. h.auction # NoAuction
  BY <1>4 DEF NoAuction
<1>6. /\ h.phase = "auction" /\ h.jail = game.jail /\ h.current = game.current
      /\ h.streak = game.streak /\ h.status = game.status
  BY <1>1 DEF StartAuction, GameDoc
<1>7. Turn(h)
  BY <1>5, <1>6 DEF Orderly, Turn
<1> HIDE DEF h
<1> QED BY <1>1, <1>2, <1>3, <1>7, CarriesSettlement, PlayOrderly DEF Orderly

\* Whoever it goes to, a fresh turn is in order.
LEMMA StartTurnOrderly ==
  ASSUME NEW g \in GameDoc, Settlement(g), NEW p \in Player
  PROVE  Orderly(StartTurn(g, p))
<1> DEFINE h == StartTurn(g, p)
<1>1. Carries(g, h)
  BY DEF StartTurn, Carries, GameDoc
<1>2. Turn(h)
  BY DEF StartTurn, Turn, GameDoc
<1> QED BY <1>1, <1>2, CarriesSettlement DEF Orderly

\* The end of a turn begins another.
LEMMA EndTurnOrderly ==
  ASSUME Sound(game), Orderly(game), NEW p \in Player, EndTurn(p)
  PROVE  Orderly(game')
<1> DEFINE q == NextInList(game, p)
           h == StartTurn(game, q)
<1>1. p \in Survivors(game) /\ Play(h, p)
  BY DEF EndTurn, Survivors
<1>2. q \in Survivors(game)
  BY <1>1, NextInListIsNextActive, NextActiveSurvives
<1> HIDE DEF q
<1>3. q \in Player /\ game \in GameDoc
  BY <1>2 DEF Survivors, Sound
<1>4. h \in GameDoc /\ Orderly(h)
  BY <1>3, StartTurnTyped, StartTurnOrderly DEF Orderly
<1> HIDE DEF h
<1> QED BY <1>1, <1>4, PlayOrderly

\* The fine opens the turn of a player that is free to roll,
LEMMA PayJailFineOrderly ==
  ASSUME Sound(game), Orderly(game), NEW p \in Player, PayJailFine(p)
  PROVE  Orderly(game')
<1> DEFINE f == Freed(game, p, JailFine)
           h == [f EXCEPT !.phase = "pre_roll"]
<1>1. game \in GameDoc /\ "pre_roll" \in Phases /\ p = game.current
  BY DEF Sound, Phases, PayJailFine, HoldsTurn
<1>2. Play(h, p)
  BY DEF PayJailFine, Freed
<1>3. f \in GameDoc /\ Orderly(f) /\ f.jail[p] = 0 /\ f.current = p
  BY <1>1, JailFineIsInt, FreedKept, FreedOrderly DEF Kept
<1> HIDE DEF f
<1>4. h \in GameDoc
  BY <1>1, <1>3, SetPhase DEF Kept
<1>5. Carries(f, h)
  BY <1>3 DEF Carries, GameDoc
<1>6. Turn(h)
  BY <1>3 DEF Turn, GameDoc
<1> HIDE DEF h
<1> QED BY <1>2, <1>3, <1>4, <1>5, <1>6, CarriesSettlement, PlayOrderly DEF Orderly

\* and so does the card.
LEMMA UseJailCardOrderly ==
  ASSUME Sound(game), Orderly(game), NEW p \in Player, UseJailCard(p)
  PROVE  Orderly(game')
<1> DEFINE h == CardUsed(game, p)
<1>1. /\ game \in GameDoc /\ p = game.current /\ game.cards[p] > 0 /\ Play(h, p)
  BY DEF Sound, UseJailCard, HoldsTurn, CardUsed
<1>2. h \in GameDoc
  BY <1>1, CardUsedKept DEF Kept
<1>3. Carries(game, h)
  BY <1>1 DEF CardUsed, Carries, GameDoc
<1>4. h.jail[p] = 0 /\ h.current = p /\ h.phase = "pre_roll"
  BY <1>1 DEF CardUsed, GameDoc
<1>5. Turn(h)
  BY <1>4 DEF Turn
<1> HIDE DEF h
<1> QED BY <1>1, <1>2, <1>3, <1>5, CarriesSettlement, PlayOrderly DEF Orderly

-----------------------------------------------------------------------------
(***************************************************************************)
(* Estate                                                                  *)
(***************************************************************************)

\* What building and mortgaging leave alone.
Standing(g, h) ==
  /\ h.owner = g.owner /\ h.owned = g.owned
  /\ h.debt = g.debt /\ h.trade = g.trade /\ h.auction = g.auction
  /\ h.jail = g.jail /\ h.position = g.position
  /\ h.status = g.status /\ h.current = g.current
  /\ h.streak = g.streak /\ h.pending = g.pending /\ h.phase = g.phase

\* The game stays in order as long as what is built stands rightly.
LEMMA StandingOrderly ==
  ASSUME NEW g, NEW h, Orderly(g), Standing(g, h), Built(h)
  PROVE  Orderly(h)
<1>1. Listed(h) /\ Parties(h) /\ Confined(h)
  BY DEF Orderly, Settlement, Standing, Listed, Parties, Confined
<1>2. Turn(h)
  BY DEF Orderly, Standing, Turn
<1> QED BY <1>1, <1>2 DEF Orderly, Settlement

\* A house or hotel comes to stand in a group that is all its builder's;
LEMMA BuildHouseOrderly ==
  ASSUME Sound(game), Orderly(game), NEW p \in Player, NEW s \in Square, BuildHouse(p, s)
  PROVE  Orderly(game')
<1> DEFINE h == Build(game, p, s)
<1>1. game \in GameDoc /\ MayBuild(game, p, s) /\ Play(h, p)
  BY DEF Sound, BuildHouse
<1>2. h \in GameDoc
  BY <1>1, BuildKept DEF Kept
<1>3. Standing(game, h) /\ h.mortgaged = game.mortgaged
      /\ h.level = [game.level EXCEPT ![s] = @ + 1]
  BY <1>1 DEF Build, StockAfterBuilding, Standing, GameDoc
<1> HIDE DEF h
<1>4. Built(h)
  <2>1. /\ Street(s) /\ game.owner[s] = p /\ GroupOf(s) \cap game.mortgaged = {}
    BY <1>1 DEF MayBuild, GroupOf
  <2>2. p # NoOne
    BY DEF Player, NoOne
  <2> QED BY <1>1, <1>3, <2>1, <2>2 DEF Orderly, Settlement, Built, Standing, GameDoc
<1> QED BY <1>1, <1>2, <1>3, <1>4, StandingOrderly, PlayOrderly

\* a sale leaves nothing new standing;
LEMMA SellHouseOrderly ==
  ASSUME Sound(game), Orderly(game), NEW p \in Player, NEW s \in Square, SellHouse(p, s)
  PROVE  Orderly(game')
<1> DEFINE h == Sell(game, p, s)
<1>1. game \in GameDoc /\ MaySell(game, p, s) /\ Play(h, p)
  BY DEF Sound, SellHouse
<1>2. h \in GameDoc
  BY <1>1, SellKept DEF Kept
<1>3. Standing(game, h) /\ h.mortgaged = game.mortgaged
      /\ h.level = [game.level EXCEPT ![s] = @ - 1]
  BY <1>1 DEF Sell, StockAfterSelling, Standing, GameDoc
<1> HIDE DEF h
<1>4. \A t \in Square : h.level[t] > 0 => game.level[t] > 0
  BY <1>1, <1>3 DEF MaySell, GameDoc
<1>5. Built(h)
  BY <1>3, <1>4 DEF Orderly, Settlement, Built, Standing
<1> QED BY <1>1, <1>2, <1>3, <1>5, StandingOrderly, PlayOrderly

\* a mortgage is refused in a group with buildings;
LEMMA MortgagePropertyOrderly ==
  ASSUME Sound(game), Orderly(game), NEW p \in Player, NEW s \in Square,
         MortgageProperty(p, s)
  PROVE  Orderly(game')
<1> DEFINE h == Mortgage(game, p, s)
<1>1. game \in GameDoc /\ MayMortgage(game, p, s) /\ Play(h, p)
  BY DEF Sound, MortgageProperty
<1>2. h \in GameDoc
  BY <1>1, MortgageKept DEF Kept
<1>3. Standing(game, h) /\ h.mortgaged = game.mortgaged \cup {s} /\ h.level = game.level
  BY <1>1 DEF Mortgage, Standing, GameDoc
<1> HIDE DEF h
<1>4. ASSUME NEW t \in Square, h.level[t] > 0
      PROVE  h.owner[t] # NoOne /\ Street(t) /\ GroupOf(t) \cap h.mortgaged = {}
  <2>1. game.owner[t] # NoOne /\ Street(t) /\ GroupOf(t) \cap game.mortgaged = {}
    BY <1>3, <1>4 DEF Orderly, Settlement, Built
  <2>2. s \notin GroupOf(t)
    <3> SUFFICES ASSUME s \in GroupOf(t) PROVE FALSE
      OBVIOUS
    <3>1. Group[s] = Group[t] /\ t \in GroupOf(s)
      BY DEF GroupOf
    <3>2. Street(s)
      BY <2>1, <3>1 DEF Street
    <3>3. game.level[t] = 0
      BY <1>1, <3>1, <3>2 DEF MayMortgage
    <3> QED BY <1>3, <1>4, <3>3
  <2> QED BY <1>3, <2>1, <2>2 DEF Standing
<1>5. Built(h)
  BY <1>4 DEF Built
<1> QED BY <1>1, <1>2, <1>3, <1>5, StandingOrderly, PlayOrderly

\* and one mortgage less cannot hurt.
LEMMA UnmortgagePropertyOrderly ==
  ASSUME Sound(game), Orderly(game), NEW p \in Player, NEW s \in Square,
         UnmortgageProperty(p, s)
  PROVE  Orderly(game')
<1> DEFINE h == Redeem(game, p, s)
<1>1. game \in GameDoc /\ Play(h, p)
  BY DEF Sound, UnmortgageProperty
<1>2. h \in GameDoc
  BY <1>1, MortgageKept DEF Kept
<1>3. Standing(game, h) /\ h.mortgaged = game.mortgaged \ {s} /\ h.level = game.level
  BY <1>1 DEF Redeem, Standing, GameDoc
<1> HIDE DEF h
<1>4. Built(h)
  BY <1>3 DEF Orderly, Settlement, Built, Standing
<1> QED BY <1>1, <1>2, <1>3, <1>4, StandingOrderly, PlayOrderly

-----------------------------------------------------------------------------
(***************************************************************************)
(* Auctions and trades                                                     *)
(***************************************************************************)

\* A bid changes the auction that is being waited for;
LEMMA PlaceBidOrderly ==
  ASSUME Sound(game), Orderly(game), NEW p \in Player, PlaceBid(p)
  PROVE  Orderly(game')
<1>1. PICK n \in Bids : MayBid(game, p, n) /\ PlayOutOfTurn(PlaceBidBy(game, p, n), p)
  BY DEF PlaceBid
<1> DEFINE h == PlaceBidBy(game, p, n)
<1>2. n \in Nat /\ game \in GameDoc /\ game.auction # NoAuction
  BY <1>1, EngineAssumption DEF Sound, MayBid
<1>3. h \in GameDoc
  BY <1>2, PlaceBidKept DEF Kept
<1>4. Carries(game, h)
  BY <1>2 DEF PlaceBidBy, Carries, GameDoc
<1>5. /\ h.phase = game.phase /\ h.jail = game.jail /\ h.current = game.current
      /\ h.streak = game.streak /\ h.status = game.status /\ h.trade = game.trade
      /\ h.debt = game.debt /\ h.pending = game.pending
  BY <1>2 DEF PlaceBidBy, GameDoc
<1>6. h.auction # NoAuction
  <2>1. h.auction.bidder = p
    BY <1>2 DEF PlaceBidBy, GameDoc, Auction, NoAuction
  <2> QED BY <2>1 DEF NoAuction, NoOne, Player
<1>7. Turn(h)
  BY <1>5, <1>6 DEF Orderly, Turn
<1> HIDE DEF h
<1> QED BY <1>1, <1>3, <1>4, <1>7, CarriesSettlement, PlayOutOfTurnOrderly DEF Orderly, h

\* an offer opens a negotiation between two players;
LEMMA ProposeTradeOrderly ==
  ASSUME Sound(game), Orderly(game), NEW p \in Player, ProposeTrade(p)
  PROVE  Orderly(game')
<1>1. PICK q \in Player, o \in Offers, r \in Offers :
        MayPropose(game, p, q, o, r) /\ Play(Propose(game, p, q, o, r), p)
  BY DEF ProposeTrade
<1> DEFINE h == Propose(game, p, q, o, r)
           t == [proposer |-> p, target |-> q, offer |-> o, request |-> r]
<1>2. /\ game \in GameDoc /\ o \in Offer /\ r \in Offer
      /\ game.offers < MaxOffers /\ p # q
  BY <1>1, EngineAssumption DEF Sound, MayPropose
<1>3. h \in GameDoc
  BY <1>2, ProposeKept DEF Kept
<1>4. h.trade = t /\ h.phase = "trade_negotiation"
      /\ h.owner = game.owner /\ h.owned = game.owned /\ h.debt = game.debt
      /\ h.mortgaged = game.mortgaged /\ h.level = game.level
      /\ h.jail = game.jail /\ h.position = game.position
      /\ h.current = game.current /\ h.streak = game.streak /\ h.status = game.status
  BY <1>2 DEF Propose, GameDoc
<1> HIDE DEF h
<1>5. h.trade.proposer = p /\ h.trade.target = q
  BY <1>4
<1> HIDE DEF t
<1>6. h.trade # NoTrade
  BY <1>5 DEF NoTrade, NoOne, Player
<1>7. Listed(h) /\ Built(h) /\ Parties(h) /\ Confined(h)
  BY <1>2, <1>4, <1>5 DEF Orderly, Settlement, Listed, Built, Parties, Confined
<1>8. Turn(h)
  BY <1>4, <1>6 DEF Orderly, Turn
<1> QED BY <1>1, <1>3, <1>7, <1>8, PlayOrderly DEF Orderly, Settlement, h

\* a counter-offer changes its terms;
LEMMA CounterTradeOrderly ==
  ASSUME Sound(game), Orderly(game), NEW p \in Player, CounterTrade(p)
  PROVE  Orderly(game')
<1>1. PICK o \in Offers : MayCounter(game, p, o) /\ PlayOutOfTurn(Counter(game, o), p)
  BY DEF CounterTrade
<1> DEFINE h == Counter(game, o)
<1>2. /\ game \in GameDoc /\ o \in Offer /\ game.trade \in Trade /\ game.trade # NoTrade
  BY <1>1, EngineAssumption DEF Sound, MayCounter, GameDoc
<1>3. h \in GameDoc
  BY <1>2, CounterKept DEF Kept
<1>4. /\ h.trade = [game.trade EXCEPT !.request = o]
      /\ h.owner = game.owner /\ h.owned = game.owned /\ h.debt = game.debt
      /\ h.mortgaged = game.mortgaged /\ h.level = game.level
      /\ h.jail = game.jail /\ h.position = game.position
      /\ h.current = game.current /\ h.streak = game.streak /\ h.status = game.status
      /\ h.phase = game.phase /\ h.pending = game.pending /\ h.auction = game.auction
  BY <1>2 DEF Counter, GameDoc
<1> HIDE DEF h
<1>5. h.trade.proposer = game.trade.proposer /\ h.trade.target = game.trade.target
  BY <1>2, <1>4 DEF Trade
<1>6. h.trade # NoTrade
  <2>1. h.trade.proposer \in Player
    BY <1>2, <1>5 DEF Trade
  <2> QED BY <2>1 DEF NoTrade, NoOne, Player
<1>7. Listed(h) /\ Built(h) /\ Parties(h) /\ Confined(h)
  BY <1>2, <1>4, <1>5 DEF Orderly, Settlement, Listed, Built, Parties, Confined
<1>8. Turn(h)
  BY <1>4, <1>6 DEF Orderly, Turn
<1> QED BY <1>1, <1>3, <1>7, <1>8, PlayOutOfTurnOrderly DEF Orderly, Settlement, h

\* and closing it, whichever way, goes back to post_roll.
LEMMA CloseTradeOrderly ==
  ASSUME NEW g \in GameDoc, Orderly(g)
  PROVE  CloseTrade(g) \in GameDoc /\ Orderly(CloseTrade(g))
<1>1. Carries(g, CloseTrade(g))
  BY DEF CloseTrade, Carries, GameDoc
<1>2. Turn(CloseTrade(g))
  BY DEF CloseTrade, Orderly, Turn, GameDoc
<1> QED BY <1>1, <1>2, CloseTradeKept, CarriesSettlement DEF Kept, Orderly

\* A rejection,
LEMMA RejectTradeOrderly ==
  ASSUME Sound(game), Orderly(game), NEW p \in Player, RejectTrade(p)
  PROVE  Orderly(game')
  BY CloseTradeOrderly, PlayOutOfTurnOrderly DEF Sound, RejectTrade

\* an expiry
LEMMA ExpireTradeOrderly ==
  ASSUME Sound(game), Orderly(game), ExpireTrade
  PROVE  Orderly(game')
  BY CloseTradeOrderly, CommitOrderly DEF Sound, ExpireTrade

\* and an exchange do: squares change lists with their owner, and no square with
\* buildings changes hands.
LEMMA AcceptTradeOrderly ==
  ASSUME Sound(game), Orderly(game), NEW x \in Player, AcceptTrade(x)
  PROVE  Orderly(game')
<1> DEFINE p == game.trade.proposer
           t == game.trade.target
           o == game.trade.offer
           r == game.trade.request
           h == ExecuteTrade(game)
           owned == [game.owned EXCEPT ![p] = (@ \ o.squares) \cup r.squares,
                                       ![t] = (@ \cup o.squares) \ r.squares]
           owner == [s \in Square |-> CASE s \in r.squares -> p
                                        [] s \in o.squares \ r.squares -> t
                                        [] OTHER -> game.owner[s]]
<1>1. game \in GameDoc /\ MayAccept(game, x) /\ PlayOutOfTurn(h, x)
  BY DEF Sound, AcceptTrade
<1>2. h \in GameDoc
  BY <1>1, ExecuteTradeKept DEF Kept
<1>3. /\ h.owner = owner /\ h.owned = owned /\ h.debt = game.debt
      /\ h.mortgaged = game.mortgaged /\ h.level = game.level
      /\ h.jail = game.jail /\ h.position = game.position
      /\ h.current = game.current /\ h.streak = game.streak /\ h.status = game.status
      /\ h.phase = "post_roll" /\ h.trade = NoTrade
  BY <1>1 DEF ExecuteTrade, CloseTrade, GameDoc
<1> HIDE DEF h
<1>4. game.trade \in Trade /\ game.trade # NoTrade
  BY <1>1 DEF MayAccept, GameDoc
<1>5. /\ p \in Player /\ t \in Player /\ p # t
      /\ o.squares \subseteq Square /\ r.squares \subseteq Square
  BY <1>4 DEF Trade, Offer, Orderly, Settlement, Parties
<1>6. \A s \in o.squares \cup r.squares : game.level[s] = 0
  BY <1>1 DEF MayAccept, ValidOffer
<1> HIDE DEF p, t, o, r
<1>7. game.owned \in [Player -> SUBSET Square] /\ game.level \in [Square -> 0 .. HotelLevel]
  BY <1>1 DEF GameDoc
<1>8. ASSUME NEW s \in Square, NEW q \in Player, owner[s] = q
      PROVE  s \in owned[q]
  <2>1. CASE s \in r.squares
    BY <1>5, <1>7, <1>8, <2>1
  <2>2. CASE s \in o.squares \ r.squares
    BY <1>5, <1>7, <1>8, <2>2
  <2>3. CASE s \notin o.squares /\ s \notin r.squares
    <3>1. s \in game.owned[q]
      BY <1>8, <2>3 DEF Orderly, Settlement, Listed
    <3> QED BY <1>5, <1>7, <2>3, <3>1
  <2> QED BY <2>1, <2>2, <2>3
<1>9. Listed(h)
  BY <1>3, <1>8 DEF Listed
<1>10. ASSUME NEW s \in Square, game.level[s] > 0 PROVE owner[s] = game.owner[s]
  <2>1. s \notin o.squares /\ s \notin r.squares
    BY <1>6, <1>7, <1>10
  <2> QED BY <2>1
<1>11. Built(h)
  BY <1>3, <1>10 DEF Orderly, Settlement, Built
<1>12. Parties(h) /\ Confined(h)
  BY <1>3 DEF Orderly, Settlement, Parties, Confined
<1>13. Turn(h)
  BY <1>3 DEF Orderly, Turn
<1> QED BY <1>1, <1>2, <1>9, <1>11, <1>12, <1>13, PlayOutOfTurnOrderly
        DEF Orderly, Settlement

\* An auction puts its square on the list of the winner, whose turn goes on; a
\* jailed turn holder has no doubles run to go on with.
LEMMA AdvanceAuctionOrderly ==
  ASSUME Sound(game), Orderly(game), AdvanceAuction
  PROVE  Orderly(game')
<1> DEFINE h == ResolveAuction(game)
           b == game.auction.bidder
           s == game.auction.pos
<1>1. game \in GameDoc /\ game.auction # NoAuction /\ Commit(Settled(h))
  BY DEF Sound, AdvanceAuction
<1>2. h \in GameDoc
  BY <1>1, ResolveAuctionKept DEF Kept
<1>3. game.auction \in Auction
  BY <1>1 DEF GameDoc
<1>4. b \in 0 .. N /\ s \in Square
  BY <1>3 DEF Auction
<1>5. b # NoOne => b \in Player
  BY <1>4, Sizes DEF NoOne, Player
<1> HIDE DEF b, s
<1>6. /\ h.debt = game.debt /\ h.trade = game.trade
      /\ h.mortgaged = game.mortgaged /\ h.level = game.level
      /\ h.jail = game.jail /\ h.position = game.position
      /\ h.current = game.current /\ h.streak = game.streak /\ h.status = game.status
      /\ h.phase = IF game.streak > 0 THEN "pre_roll" ELSE "post_roll"
  BY <1>1 DEF ResolveAuction, GameDoc
<1>7. /\ h.owner = IF b = NoOne THEN game.owner ELSE [game.owner EXCEPT ![s] = b]
      /\ h.owned = IF b = NoOne THEN game.owned
                   ELSE [game.owned EXCEPT ![b] = @ \cup {s}]
  BY <1>1 DEF ResolveAuction, GameDoc, b, s
<1> HIDE DEF h
<1>8. Listed(h)
  BY <1>1, <1>4, <1>5, <1>7 DEF Orderly, Settlement, Listed, GameDoc
<1>9. Built(h)
  BY <1>1, <1>4, <1>6, <1>7 DEF Orderly, Settlement, Built, GameDoc
<1>10. Parties(h) /\ Confined(h)
  BY <1>6 DEF Orderly, Settlement, Parties, Confined
<1>11. Turn(h)
  <2>1. game.streak = 0 => h.phase = "post_roll"
    BY <1>6
  <2> QED BY <1>6, <2>1 DEF Orderly, Turn
<1> QED BY <1>1, <1>2, <1>8, <1>9, <1>10, <1>11, CommitOrderly DEF Orderly, Settlement

-----------------------------------------------------------------------------
(***************************************************************************)
(* Leaving the game                                                        *)
(***************************************************************************)

\* A player that is rid of its squares, one way or the other, may be eliminated.
Ceded(g, p) == \A s \in Square : g.owner[s] # p

\* Estate returned to the bank is nobody's and has no buildings,
LEMMA ReturnToBankSettles ==
  ASSUME NEW g \in GameDoc, Settlement(g), NEW p \in Player
  PROVE  Settlement(ReturnToBank(g, p)) /\ Ceded(ReturnToBank(g, p), p)
<1> DEFINE h == ReturnToBank(g, p)
           o == [s \in Square |-> IF s \in g.owned[p] THEN NoOne ELSE g.owner[s]]
           l == [s \in Square |-> IF s \in g.owned[p] THEN 0 ELSE g.level[s]]
<1>1. /\ h.owner = o /\ h.level = l /\ h.owned = g.owned
      /\ h.mortgaged = g.mortgaged \ g.owned[p]
      /\ h.debt = g.debt /\ h.trade = g.trade
      /\ h.jail = g.jail /\ h.position = g.position
  BY DEF ReturnToBank, GameDoc
<1> HIDE DEF h
<1>2. \A q \in Player : NoOne # q
  BY DEF NoOne, Player
<1>3. Listed(h)
  BY <1>1, <1>2 DEF Settlement, Listed
<1>4. Built(h)
  BY <1>1 DEF Settlement, Built
<1>5. Parties(h) /\ Confined(h)
  BY <1>1 DEF Settlement, Parties, Confined
<1>6. Ceded(h, p)
  BY <1>1, <1>2 DEF Settlement, Listed, Ceded
<1> QED BY <1>3, <1>4, <1>5, <1>6 DEF Settlement, h

\* and estate handed to a creditor is another player's.
LEMMA TransferToCreditorSettles ==
  ASSUME NEW g \in GameDoc, Settlement(g), NEW p \in Player, NEW c \in Player, p # c
  PROVE  Settlement(TransferToCreditor(g, p, c)) /\ Ceded(TransferToCreditor(g, p, c), p)
<1> DEFINE h == TransferToCreditor(g, p, c)
           o == [s \in Square |-> IF s \in g.owned[p] THEN c ELSE g.owner[s]]
           l == [g.owned EXCEPT ![c] = @ \cup g.owned[p]]
<1>1. /\ h.owner = o /\ h.owned = l /\ h.level = g.level
      /\ h.mortgaged = g.mortgaged /\ h.debt = g.debt /\ h.trade = g.trade
      /\ h.jail = g.jail /\ h.position = g.position
  BY DEF TransferToCreditor, GameDoc
<1> HIDE DEF h
<1>2. \A q \in Player : NoOne # q
  BY DEF NoOne, Player
<1>3. g.owned \in [Player -> SUBSET Square]
  BY DEF GameDoc
<1>4. Listed(h)
  BY <1>1, <1>3 DEF Settlement, Listed
<1>5. Built(h)
  BY <1>1, <1>2 DEF Settlement, Built
<1>6. Parties(h) /\ Confined(h)
  BY <1>1 DEF Settlement, Parties, Confined
<1>7. Ceded(h, p)
  BY <1>1 DEF Settlement, Listed, Ceded
<1> QED BY <1>4, <1>5, <1>6, <1>7 DEF Settlement, h

\* So the elimination, which empties its list and its term, leaves a settled game.
LEMMA EliminateSettles ==
  ASSUME NEW g \in GameDoc, Settlement(g), NEW p \in Player, Ceded(g, p)
  PROVE  Settlement(Eliminate(g, p))
<1> DEFINE h == Eliminate(g, p)
<1>1. /\ h.owner = g.owner /\ h.level = g.level
      /\ h.owned = [g.owned EXCEPT ![p] = {}]
      /\ h.mortgaged = g.mortgaged /\ h.debt = g.debt /\ h.trade = g.trade
      /\ h.jail = [g.jail EXCEPT ![p] = 0] /\ h.position = g.position
  BY DEF Eliminate, GameDoc
<1> HIDE DEF h
<1>2. g.owned \in [Player -> SUBSET Square] /\ g.jail \in [Player -> 0 .. JailTurns]
  BY DEF GameDoc
<1>3. Listed(h)
  BY <1>1, <1>2 DEF Settlement, Listed, Ceded
<1>4. Built(h)
  BY <1>1 DEF Settlement, Built
<1>5. Parties(h)
  BY <1>1 DEF Settlement, Parties
<1>6. Confined(h)
  BY <1>1, <1>2 DEF Settlement, Confined
<1> QED BY <1>3, <1>4, <1>5, <1>6 DEF Settlement, h

\* Whether it ends or goes on, the game is in order once the turn has left the
\* eliminated player.
LEMMA SequelOrderly ==
  ASSUME NEW g, Bereft(g), Settlement(g)
  PROVE  Orderly(Sequel(g))
<1> DEFINE h == CheckWin(g)
<1>1. g \in GameDoc /\ Survivors(g) # {}
  BY DEF Bereft
<1>2. Settlement(h)
  BY <1>1, CheckWinSettlement
<1>3. CASE h.status = "finished"
  <2>1. h.status = "finished" /\ h.phase = "game_over"
    BY <1>1, <1>3 DEF CheckWin, Bereft, GameDoc
  <2>2. Turn(h)
    BY <2>1 DEF Turn
  <2>3. Sequel(g) = h
    BY <1>3 DEF Sequel
  <2> QED BY <1>2, <2>2, <2>3 DEF Orderly
<1>4. CASE h.status # "finished"
  <2> DEFINE q == NextActive(g, g.current)
  <2>1. h = g
    BY <1>1, <1>4 DEF CheckWin, GameDoc
  <2>2. Sequel(g) = StartTurn(g, q)
    BY <1>1, <1>4, <2>1 DEF Sequel, AdvanceTurnOff
  <2>3. q \in Player
    BY <1>1, NextActiveSurvives DEF Survivors
  <2> HIDE DEF q, h
  <2> QED BY <1>1, <1>2, <2>1, <2>2, <2>3, StartTurnOrderly
<1> QED BY <1>3, <1>4

\* Sharing the cash and restocking the bank disturb no settlement.
LEMMA RestoreStockSettles ==
  ASSUME NEW g \in GameDoc, Settlement(g), NEW p \in Player, NEW b \in [Player -> Int]
  PROVE  Settlement(RestoreStock([g EXCEPT !.balance = b], p))
<1>1. Carries(g, RestoreStock([g EXCEPT !.balance = b], p))
  BY DEF Carries, RestoreStock, GameDoc
<1> QED BY <1>1, CarriesSettlement

\* A surrender leaves the game in order,
LEMMA ResolveSurrenderOrderly ==
  ASSUME NEW g, Playing(g), Settlement(g)
  PROVE  Orderly(ResolveSurrender(g, g.current))
<1> DEFINE p == g.current
           b == [q \in Player |-> g.balance[q] + CashShare(g, p, q)]
           shared == [g EXCEPT !.balance = b]
           stocked == RestoreStock(shared, p)
           returned == ReturnToBank(stocked, p)
           gone == Eliminate(returned, p)
<1>1. g \in GameDoc /\ p \in Player /\ p \notin g.out
  BY DEF Playing, GameDoc
<1>2. ResolveSurrender(g, p) = LeaveGame(gone, p)
  BY <1>1 DEF ResolveSurrender
<1>3. b \in [Player -> Int]
  BY <1>1, CashShareIsInt DEF GameDoc
<1> HIDE DEF b
<1>4. Kept(g, shared)
  BY <1>1, <1>3, SetBalance
<1>5. Settlement(stocked)
  BY <1>1, <1>3, RestoreStockSettles
<1> HIDE DEF shared
<1>6. Kept(shared, stocked)
  BY <1>1, <1>4, RestoreStockKept DEF Kept
<1> HIDE DEF stocked
<1>7. Kept(stocked, returned) /\ Settlement(returned) /\ Ceded(returned, p)
  BY <1>1, <1>5, <1>6, ReturnToBankKept, ReturnToBankSettles DEF Kept
<1> HIDE DEF returned
<1>8. EliminateTyped(returned, p, gone) /\ Settlement(gone)
  BY <1>1, <1>7, EliminateLeaves, EliminateSettles DEF Kept
<1> HIDE DEF gone
<1>9. EliminateTyped(g, g.current, gone)
  BY <1>4, <1>6, <1>7, <1>8, KeptIsTransitive DEF Kept, Table, EliminateTyped
<1>10. Bereft(gone)
  BY <1>9, LeavingBereaves
<1>11. gone.current = p /\ CheckWin(gone).current = p
  <2>1. gone.current = p
    BY <1>9 DEF EliminateTyped
  <2>2. CheckWin(gone).current = gone.current
    BY <1>10 DEF CheckWin, Bereft, GameDoc
  <2> QED BY <2>1, <2>2
<1>12. LeaveGame(gone, p) = Sequel(gone)
  BY <1>11 DEF LeaveGame, Sequel
<1> QED BY <1>2, <1>8, <1>10, <1>12, SequelOrderly

\* of the turn holder's own will,
LEMMA SurrenderOrderly ==
  ASSUME Sound(game), Orderly(game), NEW p \in Player, Surrender(p)
  PROVE  Orderly(game')
<1> DEFINE h == ResolveSurrender(game, p)
<1>1. p = game.current /\ p \notin game.out /\ Play(h, p)
  BY DEF Surrender, HoldsTurn
<1>2. Playing(game)
  BY <1>1, SoundIsPlaying
<1>3. h \in GameDoc /\ Orderly(h)
  BY <1>1, <1>2, ResolveSurrenderSound, ResolveSurrenderOrderly DEF Sound, Orderly
<1> HIDE DEF h
<1> QED BY <1>1, <1>3, PlayOrderly

\* or of the scheduler's, and so does a turn skipped.
LEMMA TurnTimeoutOrderly ==
  ASSUME Sound(game), Orderly(game), TurnTimeout
  PROVE  Orderly(game')
<1> DEFINE p == game.current
           k == [game.strikes EXCEPT ![p] = @ + 1]
           h == [game EXCEPT !.strikes = k]
<1>1. /\ game \in GameDoc /\ p \in Player /\ p \notin game.out
      /\ game.status = "in_progress" /\ Commit(Settled(StrikeOut(game)))
  BY DEF Sound, TableOK, GameDoc, TurnTimeout
<1>2. StrikeOut(game) \in GameDoc
  BY <1>1, StrikeSound DEF StrikeOut, Sound
<1>3. game.strikes \in [Player -> 0 .. MaxStrikes]
  BY <1>1 DEF GameDoc
<1>4. game.strikes[p] + 1 \in 0 .. MaxStrikes
  BY <1>1, <1>3, Sizes DEF Sound, TableOK
<1>5. k \in [Player -> 0 .. MaxStrikes] /\ \A q \in Player \ {p} : k[q] = game.strikes[q]
  BY <1>3, <1>4
<1>6. h = [game EXCEPT !.strikes[p] = @ + 1]
  OBVIOUS
<1>7. StrikeOut(game) = IF h.strikes[p] >= MaxStrikes THEN ResolveSurrender(h, p)
                        ELSE AdvanceTurnOff(h, p)
  BY <1>6 DEF StrikeOut
<1> HIDE DEF k
<1>8. h \in GameDoc
  BY <1>1, <1>5 DEF GameDoc
<1>9. /\ h.strikes = k /\ h.out = game.out /\ h.current = p
      /\ h.status = game.status /\ h.winner = game.winner
  BY <1>1 DEF GameDoc
<1>10. Carries(game, h)
  BY <1>1 DEF Carries, GameDoc
<1> HIDE DEF h
<1>11. Settlement(h)
  BY <1>10, CarriesSettlement DEF Orderly
<1>12. Survivors(h) = Survivors(game)
  BY <1>9 DEF Survivors
<1>13. Orderly(StrikeOut(game))
  <2>1. CASE h.strikes[p] >= MaxStrikes
    <3>1. Playing(h)
      BY <1>1, <1>5, <1>8, <1>9, <1>12 DEF Playing, Sound, TableOK
    <3>2. Orderly(ResolveSurrender(h, p))
      BY <1>9, <1>11, <3>1, ResolveSurrenderOrderly
    <3> QED BY <1>7, <2>1, <3>2
  <2>2. CASE ~ (h.strikes[p] >= MaxStrikes)
    <3>1. p \in Survivors(h)
      BY <1>1, <1>9 DEF Survivors
    <3>2. NextActive(h, p) \in Player
      BY <3>1, NextActiveSurvives DEF Survivors
    <3>3. StrikeOut(game) = StartTurn(h, NextActive(h, p))
      BY <1>7, <2>2, <3>1 DEF AdvanceTurnOff
    <3> QED BY <1>8, <1>11, <3>2, <3>3, StartTurnOrderly
  <2> QED BY <2>1, <2>2
<1> QED BY <1>1, <1>2, <1>13, CommitOrderly

\* A bankruptcy hands over everything, so it leaves the game in order too; nobody
\* goes bankrupt to itself.
LEMMA DeclareBankruptcyOrderly ==
  ASSUME Sound(game), Orderly(game), NEW d \in Player, DeclareBankruptcy(d)
  PROVE  Orderly(game')
<1> DEFINE c == game.debt.creditor
           handed == IF c # NoOne THEN TransferToCreditor(game, d, c)
                     ELSE ReturnToBank(game, d)
           sent == Eliminate(handed, d)
           x == [sent.position EXCEPT ![d] = StartSquare]
           gone == [sent EXCEPT !.position = x, !.debt = NoDebt]
           h == ResolveBankruptcy(game, d)
<1>1. /\ game \in GameDoc /\ d = game.current /\ Play(h, d)
      /\ game.debt # NoDebt /\ game.debt.debtor = d
  BY DEF Sound, DeclareBankruptcy, HoldsTurn
<1>2. c \in 0 .. N /\ (c # NoOne => c \in Player) /\ d # c
  <2>1. game.debt \in Debt
    BY <1>1 DEF GameDoc
  <2>2. c \in 0 .. N
    BY <2>1 DEF Debt
  <2> QED BY <1>1, <2>2, Sizes DEF NoOne, Player, Orderly, Settlement, Parties
<1>3. h = IF CheckWin(gone).status = "finished" THEN CheckWin(gone)
          ELSE AdvanceTurnOff(CheckWin(gone), d)
  BY DEF ResolveBankruptcy
<1>4. h \in GameDoc
  BY <1>1, ResolveBankruptcySound DEF Sound
<1> HIDE DEF h
<1>5. Kept(game, handed) /\ Settlement(handed) /\ Ceded(handed, d)
  BY <1>1, <1>2, TransferToCreditorKept, ReturnToBankKept,
     TransferToCreditorSettles, ReturnToBankSettles DEF Orderly
<1>6. handed.phase = game.phase /\ handed.pending = game.pending
  BY <1>1 DEF TransferToCreditor, ReturnToBank, GameDoc
<1> HIDE DEF handed
<1>7. EliminateTyped(handed, d, sent) /\ Settlement(sent)
  BY <1>5, EliminateLeaves, EliminateSettles DEF Kept
<1>8. /\ sent.phase = game.phase /\ sent.pending = game.pending
      /\ sent.jail = [handed.jail EXCEPT ![d] = 0]
  BY <1>5, <1>6 DEF Kept, Eliminate, GameDoc
<1>9. handed.jail \in [Player -> 0 .. JailTurns]
  BY <1>5 DEF Kept, GameDoc
<1> HIDE DEF sent
<1>10. sent \in GameDoc
  BY <1>7 DEF EliminateTyped
<1>11. x \in [Player -> Square] /\ \A q \in Player \ {d} : x[q] = sent.position[q]
  BY <1>10, Sizes DEF GameDoc
<1> HIDE DEF x
<1>12. gone \in GameDoc
  BY <1>10, <1>11 DEF GameDoc
<1>13. /\ gone.out = sent.out /\ gone.current = sent.current
       /\ gone.status = sent.status /\ gone.winner = sent.winner
       /\ gone.strikes = sent.strikes
       /\ gone.phase = sent.phase /\ gone.pending = sent.pending
       /\ gone.owner = sent.owner /\ gone.owned = sent.owned
       /\ gone.mortgaged = sent.mortgaged /\ gone.level = sent.level
       /\ gone.jail = sent.jail /\ gone.position = x
       /\ gone.debt = NoDebt /\ gone.trade = sent.trade
  BY <1>10 DEF GameDoc
<1> HIDE DEF gone
<1>14. EliminateTyped(game, d, gone)
  BY <1>5, <1>7, <1>12, <1>13 DEF Kept, Table, EliminateTyped
<1>15. Settlement(gone)
  <2>1. Carries(sent, gone)
    BY <1>8, <1>9, <1>11, <1>13 DEF Carries
  <2> QED BY <1>7, <2>1, CarriesSettlement
<1>16. CASE d \notin game.out
  <2>1. Playing(game)
    BY <1>1, <1>16, SoundIsPlaying
  <2>2. Bereft(gone) /\ gone.current = d
    BY <1>1, <1>14, <2>1, LeavingBereaves DEF EliminateTyped
  <2>3. h = Sequel(gone)
    BY <1>3, <2>2 DEF Sequel
  <2> QED BY <1>1, <1>4, <1>15, <2>2, <2>3, SequelOrderly, PlayOrderly
<1>17. CASE d \in game.out
  <2>1. game.status = "finished"
    BY <1>1, <1>17 DEF Sound, TableOK, GameDoc
  <2>2. gone.status = "finished"
    BY <1>14, <2>1 DEF EliminateTyped
  <2>3. h = gone
    BY <1>3, <2>2 DEF CheckWin
  <2>4. Turn(gone)
    BY <1>8, <1>13, <2>2 DEF Orderly, Turn
  <2> QED BY <1>1, <1>4, <1>15, <2>3, <2>4, PlayOrderly DEF Orderly
<1> QED BY <1>16, <1>17

-----------------------------------------------------------------------------
(***************************************************************************)
(* The theorems                                                            *)
(***************************************************************************)

\* A new game is in order.
LEMMA InitOrderly ==
  ASSUME Init
  PROVE  Orderly(game)
<1>1. game = NewGame
  BY DEF Init
<1>2. \A p \in Player : NoOne # p
  BY DEF NoOne, Player
<1>3. 1 \in Player
  BY Sizes DEF Player
<1>4. Listed(game) /\ Built(game) /\ Parties(game) /\ Confined(game)
  BY <1>1, <1>2 DEF NewGame, Listed, Built, Parties, Confined
<1>5. Turn(game)
  BY <1>1, <1>3 DEF NewGame, Turn
<1> QED BY <1>4, <1>5 DEF Orderly, Settlement

\* Every command leaves the game in order.
LEMMA StepOrderly ==
  ASSUME Sound(game), Orderly(game), [Next]_game
  PROVE  Orderly(game')
<1>1. CASE UNCHANGED game
  BY <1>1
<1>2. CASE SchedulerCommand
  BY <1>2, AdvanceAuctionOrderly, ExpireTradeOrderly, TurnTimeoutOrderly
  DEF SchedulerCommand
<1>3. ASSUME NEW p \in Player, PlayerCommand(p) PROVE Orderly(game')
  <2>1. CASE RollDice(p) \/ BuyProperty(p) \/ PassBuy(p) \/ EndTurn(p)
    BY <2>1, RollDiceOrderly, BuyPropertyOrderly, PassBuyOrderly, EndTurnOrderly
  <2>2. CASE PayJailFine(p) \/ UseJailCard(p)
    BY <2>2, PayJailFineOrderly, UseJailCardOrderly
  <2>3. CASE \E s \in Square : BuildHouse(p, s) \/ SellHouse(p, s)
    BY <2>3, BuildHouseOrderly, SellHouseOrderly
  <2>4. CASE \E s \in Square : MortgageProperty(p, s) \/ UnmortgageProperty(p, s)
    BY <2>4, MortgagePropertyOrderly, UnmortgagePropertyOrderly
  <2>5. CASE DeclareBankruptcy(p) \/ Surrender(p)
    BY <2>5, DeclareBankruptcyOrderly, SurrenderOrderly
  <2>6. CASE PlaceBid(p)
    BY <2>6, PlaceBidOrderly
  <2>7. CASE ProposeTrade(p) \/ RejectTrade(p) \/ CounterTrade(p) \/ AcceptTrade(p)
    BY <2>7, ProposeTradeOrderly, RejectTradeOrderly, CounterTradeOrderly,
       AcceptTradeOrderly
  <2> QED BY <1>3, <2>1, <2>2, <2>3, <2>4, <2>5, <2>6, <2>7 DEF PlayerCommand
<1> QED BY <1>1, <1>2, <1>3 DEF Next

\* The inductive invariant: every game the engine plays is sound and in order.
THEOREM SpecOrderly == Spec => [](Sound(game) /\ Orderly(game))
<1>1. Init => Orderly(game)
  BY InitOrderly
<1>2. Sound(game) /\ Orderly(game) /\ [Next]_game => Orderly(game)'
  BY StepOrderly
<1> QED BY <1>1, <1>2, SpecSound, PTL DEF Spec

\* A jailed turn holder is never in pre_roll, where it could neither roll nor
\* pay nor use its card.
THEOREM JailedCanAct == Spec => []JailedNotStuck
<1>1. Orderly(game) => JailedNotStuck
  BY DEF Orderly, Settlement, Turn, Confined, JailedNotStuck, InProgress
<1> QED BY <1>1, SpecOrderly, PTL

\* No phase waits for an auction, a trade or a debt that does not exist.
THEOREM WaitingHasSubject == Spec => []WaitingPhaseHasSubject
<1>1. Orderly(game) => WaitingPhaseHasSubject
  BY DEF Orderly, Turn, WaitingPhaseHasSubject, InProgress
<1> QED BY <1>1, SpecOrderly, PTL

\* The owner that a square names has the square on its list.
THEOREM OwnersAreListed == Spec => []OwnerListed
<1>1. Orderly(game) => OwnerListed
  BY DEF Orderly, Settlement, Listed, OwnerListed
<1> QED BY <1>1, SpecOrderly, PTL

\* Buildings stand on owned squares of groups without a mortgage.
THEOREM BuildingsUnmortgaged == Spec => []NoBuildingBesideMortgage
<1>1. Orderly(game) => NoBuildingBesideMortgage
  BY DEF Orderly, Settlement, Built, NoBuildingBesideMortgage
<1> QED BY <1>1, SpecOrderly, PTL

-----------------------------------------------------------------------------
(***************************************************************************)
(* What most commands leave alone: jail cards, buildings, the open trade   *)
(***************************************************************************)
Hand(g) == <<g.deck, g.cards>>
Buildings(g) == <<g.level, g.houses, g.hotels>>
Goods(g) == <<Hand(g), Buildings(g), g.trade>>

\* What apply adds to a command moves none of them.
LEMMA SettledGoods ==
  ASSUME NEW h \in GameDoc
  PROVE  /\ Goods(Settled(h)) = Goods(h)
         /\ Settled(h).out = h.out /\ Settled(h).owned = h.owned
         /\ h.debt = NoDebt => Settled(h).balance = h.balance
<1> DEFINE k == TrySettleDebt(h)
<1>1. k \in GameDoc /\ k.out = h.out
  BY TrySettleDebtKept DEF Kept, Table
<1>2. /\ Goods(k) = Goods(h) /\ k.owned = h.owned
      /\ h.debt = NoDebt => k.balance = h.balance
  BY DEF TrySettleDebt, TransferFunds, Goods, Hand, Buildings, GameDoc
<1> HIDE DEF k
<1>3. /\ Goods(CheckWin(k)) = Goods(k) /\ CheckWin(k).balance = k.balance
      /\ CheckWin(k).out = k.out /\ CheckWin(k).owned = k.owned
  BY <1>1 DEF CheckWin, Goods, Hand, Buildings, GameDoc
<1> QED BY <1>1, <1>2, <1>3 DEF Settled, k

\* Nor does clearing the strikes of its author.
LEMMA ResetStrikesGoods ==
  ASSUME NEW h \in GameDoc, NEW p \in Player
  PROVE  LET k == ResetStrikes(h, p)
         IN  /\ k \in GameDoc /\ Goods(k) = Goods(h) /\ k.out = h.out
             /\ k.balance = h.balance /\ k.debt = h.debt /\ k.owned = h.owned
<1> DEFINE x == [h.strikes EXCEPT ![p] = 0]
           k == [h EXCEPT !.strikes = x]
<1>1. x \in [Player -> 0 .. MaxStrikes]
  BY Sizes DEF GameDoc
<1>2. ResetStrikes(h, p) = k
  BY DEF ResetStrikes
<1> HIDE DEF x
<1>3. k \in GameDoc
  BY <1>1 DEF GameDoc
<1>4. /\ Goods(k) = Goods(h) /\ k.out = h.out
      /\ k.balance = h.balance /\ k.debt = h.debt /\ k.owned = h.owned
  BY DEF Goods, Hand, Buildings, GameDoc
<1> HIDE DEF k
<1> QED BY <1>2, <1>3, <1>4

\* So a turn command moves what its handler moves,
LEMMA PlayGoods ==
  ASSUME NEW h \in GameDoc, NEW p \in Player, Play(h, p)
  PROVE  /\ Goods(game') = Goods(h) /\ game'.out = h.out /\ game'.owned = h.owned
         /\ h.debt = NoDebt => game'.balance = h.balance
<1> DEFINE k == ResetStrikes(h, p)
<1>1. /\ k \in GameDoc /\ Goods(k) = Goods(h) /\ k.out = h.out
      /\ k.balance = h.balance /\ k.debt = h.debt /\ k.owned = h.owned
  BY ResetStrikesGoods
<1>2. game' = Settled(k)
  BY DEF Play, Commit
<1> HIDE DEF k
<1> QED BY <1>1, <1>2, SettledGoods

\* and so do an answer
LEMMA PlayOutOfTurnGoods ==
  ASSUME NEW h \in GameDoc, NEW p \in Player, PlayOutOfTurn(h, p)
  PROVE  /\ Goods(game') = Goods(h) /\ game'.out = h.out
         /\ game'.balance = h.balance /\ game'.owned = h.owned
  BY ResetStrikesGoods DEF PlayOutOfTurn, Commit

\* and the scheduler.
LEMMA CommitGoods ==
  ASSUME NEW h \in GameDoc, Commit(Settled(h))
  PROVE  /\ Goods(game') = Goods(h) /\ game'.out = h.out /\ game'.owned = h.owned
         /\ h.debt = NoDebt => game'.balance = h.balance
  BY SettledGoods DEF Commit

\* Purchases, the turn, the fine, mortgages and auctions move none.
LEMMA PlainCommandGoods ==
  ASSUME Sound(game), NEW p \in Player,
         \/ BuyProperty(p) \/ PassBuy(p) \/ EndTurn(p) \/ PayJailFine(p)
         \/ \E s \in Square : MortgageProperty(p, s) \/ UnmortgageProperty(p, s)
         \/ PlaceBid(p) \/ AdvanceAuction
  PROVE  Goods(game') = Goods(game)
<1>1. game \in GameDoc
  BY DEF Sound
<1>2. CASE BuyProperty(p)
  <2>1. game.pending \in Square /\ Play(Bought(game, p, game.pending), p)
    BY <1>1, <1>2, PendingIsSquare DEF BuyProperty
  <2>2. Bought(game, p, game.pending) \in GameDoc
    BY <1>1, <2>1, BoughtKept DEF Kept
  <2>3. Goods(Bought(game, p, game.pending)) = Goods(game)
    BY <1>1 DEF Bought, Goods, Hand, Buildings, GameDoc
  <2> QED BY <2>1, <2>2, <2>3, PlayGoods
<1>3. CASE PassBuy(p)
  <2>1. game.pending \in Square /\ Play(StartAuction(game, game.pending), p)
    BY <1>1, <1>3, PendingIsSquare DEF PassBuy
  <2>2. StartAuction(game, game.pending) \in GameDoc
    BY <1>1, <2>1, StartAuctionKept DEF Kept
  <2>3. Goods(StartAuction(game, game.pending)) = Goods(game)
    BY <1>1 DEF StartAuction, Goods, Hand, Buildings, GameDoc
  <2> QED BY <2>1, <2>2, <2>3, PlayGoods
<1>4. CASE EndTurn(p)
  <2> DEFINE q == NextInList(game, p)
  <2>1. p \in Survivors(game) /\ Play(StartTurn(game, q), p)
    BY <1>4 DEF EndTurn, Survivors
  <2>2. q \in Player
    BY <2>1, NextInListIsNextActive, NextActiveSurvives DEF Survivors
  <2> HIDE DEF q
  <2>3. StartTurn(game, q) \in GameDoc
    BY <1>1, <2>2, StartTurnTyped
  <2>4. Goods(StartTurn(game, q)) = Goods(game)
    BY <1>1 DEF StartTurn, Goods, Hand, Buildings, GameDoc
  <2> QED BY <2>1, <2>3, <2>4, PlayGoods
<1>5. CASE PayJailFine(p)
  <2> DEFINE f == Freed(game, p, JailFine)
             h == [f EXCEPT !.phase = "pre_roll"]
  <2>1. Play(h, p) /\ "pre_roll" \in Phases
    BY <1>5 DEF PayJailFine, Freed, Phases
  <2>2. f \in GameDoc
    BY <1>1, JailFineIsInt, FreedKept DEF Kept
  <2>3. Goods(f) = Goods(game)
    BY <1>1 DEF Freed, Goods, Hand, Buildings, GameDoc
  <2> HIDE DEF f
  <2>4. h \in GameDoc
    BY <2>1, <2>2, SetPhase DEF Kept
  <2>5. Goods(h) = Goods(f)
    BY <2>2 DEF Goods, Hand, Buildings, GameDoc
  <2> HIDE DEF h
  <2> QED BY <2>1, <2>3, <2>4, <2>5, PlayGoods
<1>6. ASSUME NEW s \in Square, MortgageProperty(p, s)
      PROVE  Goods(game') = Goods(game)
  <2>1. Mortgage(game, p, s) \in GameDoc /\ Play(Mortgage(game, p, s), p)
    BY <1>1, <1>6, MortgageKept DEF Kept, MortgageProperty
  <2>2. Goods(Mortgage(game, p, s)) = Goods(game)
    BY <1>1 DEF Mortgage, Goods, Hand, Buildings, GameDoc
  <2> QED BY <2>1, <2>2, PlayGoods
<1>7. ASSUME NEW s \in Square, UnmortgageProperty(p, s)
      PROVE  Goods(game') = Goods(game)
  <2>1. Redeem(game, p, s) \in GameDoc /\ Play(Redeem(game, p, s), p)
    BY <1>1, <1>7, MortgageKept DEF Kept, UnmortgageProperty
  <2>2. Goods(Redeem(game, p, s)) = Goods(game)
    BY <1>1 DEF Redeem, Goods, Hand, Buildings, GameDoc
  <2> QED BY <2>1, <2>2, PlayGoods
<1>8. CASE PlaceBid(p)
  <2>1. PICK n \in Bids : MayBid(game, p, n) /\ PlayOutOfTurn(PlaceBidBy(game, p, n), p)
    BY <1>8 DEF PlaceBid
  <2>2. n \in Nat /\ game.auction # NoAuction
    BY <2>1, EngineAssumption DEF MayBid
  <2>3. PlaceBidBy(game, p, n) \in GameDoc
    BY <1>1, <2>2, PlaceBidKept DEF Kept
  <2>4. Goods(PlaceBidBy(game, p, n)) = Goods(game)
    BY <1>1 DEF PlaceBidBy, Goods, Hand, Buildings, GameDoc
  <2> QED BY <2>1, <2>3, <2>4, PlayOutOfTurnGoods
<1>9. CASE AdvanceAuction
  <2>1. game.auction # NoAuction /\ Commit(Settled(ResolveAuction(game)))
    BY <1>9 DEF AdvanceAuction
  <2>2. ResolveAuction(game) \in GameDoc
    BY <1>1, <2>1, ResolveAuctionKept DEF Kept
  <2>3. Goods(ResolveAuction(game)) = Goods(game)
    BY <1>1 DEF ResolveAuction, Goods, Hand, Buildings, GameDoc
  <2> QED BY <2>1, <2>2, <2>3, CommitGoods
<1> QED BY <1>2, <1>3, <1>4, <1>5, <1>6, <1>7, <1>8, <1>9

\* The win check stays within the schema.
LEMMA CheckWinTyped ==
  ASSUME NEW g \in GameDoc
  PROVE  CheckWin(g) \in GameDoc /\ CheckWin(g).out = g.out
<1>1. CASE CheckWin(g) = g
  BY <1>1
<1>2. CASE CheckWin(g) # g
  <2> DEFINE w == CHOOSE v \in Player : Survivors(g) = {v}
             h == [g EXCEPT !.status = "finished", !.winner = w, !.phase = "game_over"]
  <2>1. w \in Player /\ CheckWin(g) = h
    BY <1>2 DEF CheckWin
  <2>2. w \in 0 .. N /\ "game_over" \in Phases
    BY <2>1, Sizes DEF Player, Phases
  <2> HIDE DEF w
  <2>3. h \in GameDoc /\ h.out = g.out
    BY <2>2 DEF GameDoc
  <2> QED BY <2>1, <2>3
<1> QED BY <1>1, <1>2

\* The board without the buildings of d's squares.
Cleared(g, d) == [s \in Square |-> IF s \in g.owned[d] THEN 0 ELSE g.level[s]]

\* A bankruptcy takes its debtor out, with nothing left to it; the buildings stay
\* or go to the bank.
LEMMA ResolveBankruptcyOut ==
  ASSUME NEW g \in GameDoc, NEW d \in Player
  PROVE  LET h == ResolveBankruptcy(g, d)
         IN  d \in h.out /\ h.owned[d] = {} /\ h.level \in {g.level, Cleared(g, d)}
<1> DEFINE c == g.debt.creditor
           handed == IF c # NoOne THEN TransferToCreditor(g, d, c) ELSE ReturnToBank(g, d)
           sent == Eliminate(handed, d)
           x == [sent.position EXCEPT ![d] = StartSquare]
           gone == [sent EXCEPT !.position = x, !.debt = NoDebt]
<1>1. c \in 0 .. N
  <2>1. g.debt \in Debt \cup {NoDebt}
    BY DEF GameDoc
  <2> QED BY <2>1, Sizes DEF Debt, NoDebt, NoOne
<1>2. handed \in GameDoc
  BY <1>1, TransferToCreditorKept, ReturnToBankKept DEF Kept
<1>3. handed.level \in {g.level, Cleared(g, d)}
  <2>1. TransferToCreditor(g, d, c).level = g.level
    BY DEF TransferToCreditor, GameDoc
  <2>2. ReturnToBank(g, d).level = Cleared(g, d)
    BY DEF ReturnToBank, Cleared, GameDoc
  <2> QED BY <2>1, <2>2
<1>4. ResolveBankruptcy(g, d) =
        IF CheckWin(gone).status = "finished" THEN CheckWin(gone)
        ELSE AdvanceTurnOff(CheckWin(gone), d)
  BY DEF ResolveBankruptcy
<1> HIDE DEF handed
<1>5. sent \in GameDoc /\ d \in sent.out
  BY <1>2, EliminateLeaves DEF EliminateTyped
<1>6. sent.owned[d] = {} /\ sent.level = handed.level
  BY <1>2 DEF Eliminate, GameDoc
<1> HIDE DEF sent
<1>7. x \in [Player -> Square]
  BY <1>5, Sizes DEF GameDoc
<1> HIDE DEF x
<1>8. /\ gone \in GameDoc /\ d \in gone.out
      /\ gone.owned = sent.owned /\ gone.level = sent.level
  BY <1>5, <1>7 DEF GameDoc
<1> HIDE DEF gone
<1> DEFINE h == CheckWin(gone)
<1>9. h \in GameDoc /\ h.out = gone.out /\ h.owned = gone.owned /\ h.level = gone.level
  <2>1. h.owned = gone.owned /\ h.level = gone.level
    BY <1>8 DEF CheckWin, GameDoc
  <2> QED BY <1>8, <2>1, CheckWinTyped
<1> HIDE DEF h
<1> DEFINE k == AdvanceTurnOff(h, d)
<1>10. k.out = h.out /\ k.owned = h.owned /\ k.level = h.level
  BY <1>9 DEF AdvanceTurnOff, StartTurn, GameDoc
<1> HIDE DEF k
<1>11. ResolveBankruptcy(g, d) \in {h, k}
  BY <1>4 DEF h, k
<1> QED BY <1>3, <1>6, <1>8, <1>9, <1>10, <1>11

\* A surrender of the turn holder leaves an open trade open, and takes it out with
\* nothing left to it.
LEMMA ResolveSurrenderTrade ==
  ASSUME NEW g, Playing(g)
  PROVE  LET h == ResolveSurrender(g, g.current)
         IN  h.trade = g.trade /\ h.out # g.out /\ h.owned[g.current] = {}
<1> DEFINE p == g.current
           b == [q \in Player |-> g.balance[q] + CashShare(g, p, q)]
           shared == [g EXCEPT !.balance = b]
           stocked == RestoreStock(shared, p)
           returned == ReturnToBank(stocked, p)
           gone == Eliminate(returned, p)
           h == ResolveSurrender(g, p)
<1>1. g \in GameDoc /\ p \in Player /\ p \notin g.out
  BY DEF Playing, GameDoc
<1>2. h = LeaveGame(gone, p)
  BY <1>1 DEF ResolveSurrender
<1>3. Leaves(g, h)
  BY ResolveSurrenderSound
<1> HIDE DEF h
<1>4. b \in [Player -> Int]
  BY <1>1, CashShareIsInt DEF GameDoc
<1> HIDE DEF b
<1>5. shared \in GameDoc /\ shared.trade = g.trade
  BY <1>1, <1>4, SetBalance DEF Kept, GameDoc
<1> HIDE DEF shared
<1>6. stocked \in GameDoc /\ stocked.trade = g.trade
  BY <1>1, <1>5, RestoreStockKept DEF Kept, RestoreStock, GameDoc
<1> HIDE DEF stocked
<1>7. returned \in GameDoc /\ returned.trade = g.trade
  <2>1. returned \in GameDoc
    BY <1>1, <1>6, ReturnToBankKept DEF Kept
  <2>2. returned.trade = stocked.trade
    BY <1>6 DEF ReturnToBank, GameDoc
  <2> QED BY <1>6, <2>1, <2>2
<1> HIDE DEF returned
<1>8. gone \in GameDoc
  BY <1>1, <1>7, EliminateLeaves DEF EliminateTyped
<1>9. gone.trade = g.trade /\ gone.owned[p] = {}
  BY <1>1, <1>7 DEF Eliminate, GameDoc
<1> HIDE DEF gone
<1>10. CheckWin(gone).trade = g.trade /\ CheckWin(gone).owned[p] = {}
  BY <1>8, <1>9 DEF CheckWin, GameDoc
<1>11. h.trade = g.trade /\ h.owned[p] = {}
  <2> DEFINE k == CheckWin(gone)
  <2>1. k \in GameDoc
    BY <1>8, CheckWinTyped
  <2>2. h = k \/ h = AdvanceTurnOff(k, p)
    BY <1>2 DEF LeaveGame
  <2> HIDE DEF k
  <2>3. AdvanceTurnOff(k, p).trade = k.trade /\ AdvanceTurnOff(k, p).owned = k.owned
    BY <2>1 DEF AdvanceTurnOff, StartTurn, GameDoc
  <2> QED BY <1>10, <2>2, <2>3 DEF k
<1>12. h.out # g.out
  BY <1>3 DEF Leaves, Survivors
<1> QED BY <1>11, <1>12 DEF h

-----------------------------------------------------------------------------
(***************************************************************************)
(* Jail cards on their way through a landing                               *)
(***************************************************************************)

\* The bag of jail cards is a number, and depends on decks and hands only.
LEMMA HandCounts ==
  ASSUME NEW g \in GameDoc, NEW h \in GameDoc, Hand(h) = Hand(g)
  PROVE  JailCards(h) = JailCards(g)
  BY DEF Hand, JailCards

\* Payments touch neither,
LEMMA AttemptPaymentHand ==
  ASSUME NEW g \in GameDoc, NEW p, NEW n, NEW c
  PROVE  Hand(AttemptPayment(g, p, n, c)) = Hand(g)
  BY DEF AttemptPayment, TransferFunds, OweDebt, Hand, GameDoc

\* nor does the end of a paid landing,
LEMMA AfterPaymentHand ==
  ASSUME NEW g \in GameDoc, NEW ph
  PROVE  Hand(AfterPayment(g, ph)) = Hand(g)
  BY DEF AfterPayment, Hand, GameDoc

\* nor a square without a card.
LEMMA LandPlainHand ==
  ASSUME NEW g \in GameDoc, NEW p \in Player, NEW h \in LandPlain(g, p)
  PROVE  Hand(h) = Hand(g)
<1> DEFINE s == g.position[p]
<1>1. s \in Square
  BY DEF GameDoc
<1>2. ASSUME NEW n \in Int, NEW c \in 0 .. N, NEW ph,
             h = AfterPayment(AttemptPayment(g, p, n, c), ph)
      PROVE  Hand(h) = Hand(g)
  <2>1. AttemptPayment(g, p, n, c) \in GameDoc
    BY AttemptPaymentKept DEF Kept
  <2> QED BY <1>2, <2>1, AttemptPaymentHand, AfterPaymentHand
<1>3. CASE Kind[s] = "goto_jail"
  <2>1. h = [SendToJail(g, p) EXCEPT !.pending = NoSquare, !.phase = "post_roll"]
    BY <1>3 DEF LandPlain, OwesRent, Purchasable
  <2> QED BY <2>1 DEF SendToJail, Hand, GameDoc
<1>4. CASE Kind[s] = "tax"
  <2>1. h = AfterPayment(AttemptPayment(g, p, Tax[s], NoOne), "post_roll")
    BY <1>4 DEF LandPlain, OwesRent, Purchasable
  <2>2. Tax[s] \in Int /\ NoOne \in 0 .. N
    BY <1>1, Sizes, GameAssumption DEF NoOne
  <2> QED BY <1>2, <2>1, <2>2
<1>5. CASE Kind[s] \notin {"goto_jail", "tax"} /\ OwesRent(g, p, s)
  <2>1. PICK rent \in Rents :
          h = AfterPayment(AttemptPayment(g, p, rent, g.owner[s]), "must_pay_rent")
    <3>1. LandPlain(g, p) =
            {AfterPayment(AttemptPayment(g, p, rent, g.owner[s]), "must_pay_rent") :
               rent \in Rents}
      BY <1>5, Zenon DEF LandPlain
    <3> QED BY <3>1
  <2>2. rent \in Int
    BY GameAssumption
  <2>3. g.owner[s] \in 0 .. N
    BY <1>1 DEF GameDoc
  <2> QED BY <1>2, <2>1, <2>2, <2>3
<1>6. CASE Kind[s] \notin {"goto_jail", "tax"} /\ ~ OwesRent(g, p, s)
  <2> DEFINE k == IF Purchasable(s) /\ g.owner[s] = NoOne THEN s ELSE NoSquare
  <2>1. h = [g EXCEPT !.pending = k, !.phase = "post_roll"]
    <3>1. LandPlain(g, p) = {[g EXCEPT !.pending = k, !.phase = "post_roll"]}
      BY <1>6, Zenon DEF LandPlain
    <3> QED BY <3>1
  <2> HIDE DEF k
  <2> QED BY <2>1 DEF Hand, GameDoc
<1> QED BY <1>3, <1>4, <1>5, <1>6

\* A movement card goes back under its deck and moves the token only;
LEMMA MovedHand ==
  ASSUME NEW g \in GameDoc, NEW p \in Player, NEW d \in Decks, NEW c \in Cards[d],
         c.type \in MoveEffects
  PROVE  LET h == Displace(Draw(g, d, c), p, c)
         IN  h \in GameDoc /\ JailCards(h) = JailCards(g)
<1>1. Draw(g, d, c) = g
  BY DEF Draw, MoveEffects
<1>2. Displace(g, p, c) \in GameDoc
  BY DisplaceKept DEF Kept
<1>3. Hand(Displace(g, p, c)) = Hand(g)
  BY DEF Displace, PaySalary, Hand, GameDoc
<1> QED BY <1>1, <1>2, <1>3, HandCounts

\* a get-out-of-jail card goes from its deck to the drawer; and no other card
\* touches decks or hands.
LEMMA FixedHand ==
  ASSUME NEW g \in GameDoc, NEW p \in Player, NEW d \in Decks, NEW c \in OnTop(g, d),
         c.type \notin MoveEffects
  PROVE  LET h == FixedEffect(Draw(g, d, c), p, c)
         IN  h \in GameDoc /\ JailCards(h) = JailCards(g)
<1> DEFINE drawn == Draw(g, d, c)
           h == FixedEffect(drawn, p, c)
<1>1. c \in Cards[d]
  BY DEF OnTop
<1>2. drawn \in GameDoc
  BY DrawKept DEF Kept
<1>3. h \in GameDoc
  BY <1>1, <1>2, FixedEffectKept DEF Kept
<1>4. CASE c.type = "jail_free"
  <2> DEFINE k == [g.deck EXCEPT ![d] = @ - 1]
             m == [g.cards EXCEPT ![p] = g.cards[p] + 1]
  <2>1. drawn = [g EXCEPT !.deck = k]
    BY <1>4 DEF Draw
  <2>2. h.deck = k /\ h.cards = m
    BY <1>4, <2>1 DEF FixedEffect, GameDoc
  <2>3. g.deck \in [Decks -> Nat] /\ g.cards \in [Player -> Nat]
    BY DEF GameDoc
  <2>4. k["chance"] + k["chest"] = g.deck["chance"] + g.deck["chest"] - 1
    BY <2>3 DEF Decks
  <2>5. SumTo(m, N) = SumTo(g.cards, N) + 1
    <3>1. N \in Nat /\ g.cards \in [1 .. N -> Int] /\ p \in 1 .. N
      BY <2>3, Sizes DEF Player
    <3>2. g.cards[p] \in Int /\ g.cards[p] + 1 \in Int
      BY <3>1
    <3>3. SumTo(m, N) = SumTo(g.cards, N) + ((g.cards[p] + 1) - g.cards[p])
      BY <3>1, <3>2, SumUpdated
    <3>4. SumTo(g.cards, N) \in Int
      BY <3>1, SumToInt
    <3> QED BY <3>2, <3>3, <3>4
  <2>6. SumTo(g.cards, N) \in Int
    BY <2>3, Sizes, SumToInt DEF Player
  <2>7. g.deck["chance"] \in Int /\ g.deck["chest"] \in Int
    BY <2>3 DEF Decks
  <2> HIDE DEF k, m, h
  <2> QED BY <1>3, <2>2, <2>4, <2>5, <2>6, <2>7 DEF JailCards, h, drawn
<1>5. CASE c.type # "jail_free"
  <2>1. drawn = g
    BY <1>5 DEF Draw
  <2>2. ASSUME NEW b, h = [g EXCEPT !.balance = b] PROVE Hand(h) = Hand(g)
    BY <2>2 DEF Hand, GameDoc
  <2>3. Hand(h) = Hand(g)
    <3>1. CASE c.type = "collect"
      <4>1. h = [g EXCEPT !.balance = [g.balance EXCEPT ![p] = @ + c.n]]
        BY <2>1, <3>1 DEF FixedEffect
      <4> QED BY <2>2, <4>1
    <3>2. CASE c.type \in {"pay", "repairs"}
      <4>1. \E n : h = AttemptPayment(g, p, n, NoOne)
        BY <2>1, <3>2 DEF FixedEffect
      <4> QED BY <4>1, AttemptPaymentHand
    <3>3. CASE c.type = "collect_from_each"
      <4>1. h = CollectFromEach(g, p, c.n)
        BY <2>1, <3>3 DEF FixedEffect
      <4> QED BY <2>2, <4>1 DEF CollectFromEach
    <3>4. CASE c.type = "pay_each"
      <4>1. h = PayEach(g, p, c.n)
        BY <2>1, <3>4 DEF FixedEffect
      <4> QED BY <2>2, <4>1 DEF PayEach
    <3>5. CASE c.type \notin {"collect", "pay", "repairs", "collect_from_each", "pay_each"}
      <4>1. h = SendToJail(g, p)
        BY <1>5, <2>1, <3>5 DEF FixedEffect
      <4> QED BY <4>1 DEF SendToJail, Hand, GameDoc
    <3> QED BY <3>1, <3>2, <3>3, <3>4, <3>5
  <2> QED BY <1>3, <2>3, HandCounts
<1> QED BY <1>4, <1>5

\* What ends the movement part keeps them too.
LEMMA AfterCardHand ==
  ASSUME NEW g \in GameDoc, NEW p \in Player
  PROVE  JailCards(AfterCard(g, p)) = JailCards(g)
  BY DEF AfterCard, JailCards, GameDoc

\* So the second draw of a landing keeps the number of jail cards,
LEMMA SecondDrawHand ==
  ASSUME NEW g \in GameDoc, NEW p \in Player, NEW d \in Decks, NEW h \in SecondDraw(g, p, d)
  PROVE  JailCards(h) = JailCards(g)
<1>1. PICK c \in OnTop(g, d) :
        \E k \in (IF c.type \in MoveEffects
                 THEN LandPlain(Displace(Draw(g, d, c), p, c), p)
                 ELSE {FixedEffect(Draw(g, d, c), p, c)}) : h = AfterCard(k, p)
  BY DEF SecondDraw
<1>2. c \in Cards[d]
  BY DEF OnTop
<1>3. CASE c.type \in MoveEffects
  <2> DEFINE moved == Displace(Draw(g, d, c), p, c)
  <2>1. moved \in GameDoc /\ JailCards(moved) = JailCards(g)
    BY <1>2, <1>3, MovedHand
  <2>2. PICK k \in LandPlain(moved, p) : h = AfterCard(k, p)
    BY <1>1, <1>3
  <2> HIDE DEF moved
  <2>3. k \in GameDoc /\ JailCards(k) = JailCards(moved)
    BY <2>1, LandPlainKept, LandPlainHand, HandCounts DEF Kept
  <2> QED BY <2>1, <2>2, <2>3, AfterCardHand
<1>4. CASE c.type \notin MoveEffects
  <2> DEFINE k == FixedEffect(Draw(g, d, c), p, c)
  <2>1. k \in GameDoc /\ JailCards(k) = JailCards(g)
    BY <1>4, FixedHand
  <2>2. h = AfterCard(k, p)
    BY <1>1, <1>4
  <2> HIDE DEF k
  <2> QED BY <2>1, <2>2, AfterCardHand
<1> QED BY <1>3, <1>4

\* where a movement card ends,
LEMMA LandAfterCardHand ==
  ASSUME NEW g \in GameDoc, NEW p \in Player, NEW h \in LandAfterCard(g, p)
  PROVE  JailCards(h) = JailCards(g)
<1>1. CASE Kind[g.position[p]] \in Decks
  BY <1>1, SecondDrawHand DEF LandAfterCard
<1>2. CASE Kind[g.position[p]] \notin Decks
  <2>1. h \in LandPlain(g, p)
    BY <1>2 DEF LandAfterCard
  <2>2. h \in GameDoc
    BY <2>1, LandPlainKept DEF Kept
  <2> QED BY <2>1, <2>2, LandPlainHand, HandCounts
<1> QED BY <1>1, <1>2

\* the first draw
LEMMA FirstDrawHand ==
  ASSUME NEW g \in GameDoc, NEW p \in Player, NEW d \in Decks, NEW h \in FirstDraw(g, p, d)
  PROVE  JailCards(h) = JailCards(g)
<1>1. PICK c \in OnTop(g, d) :
        \E k \in (IF c.type \in MoveEffects
                 THEN LandAfterCard(Displace(Draw(g, d, c), p, c), p)
                 ELSE {FixedEffect(Draw(g, d, c), p, c)}) : h = AfterCard(k, p)
  BY DEF FirstDraw
<1>2. c \in Cards[d]
  BY DEF OnTop
<1>3. CASE c.type \in MoveEffects
  <2> DEFINE moved == Displace(Draw(g, d, c), p, c)
  <2>1. moved \in GameDoc /\ JailCards(moved) = JailCards(g)
    BY <1>2, <1>3, MovedHand
  <2>2. PICK k \in LandAfterCard(moved, p) : h = AfterCard(k, p)
    BY <1>1, <1>3
  <2> HIDE DEF moved
  <2>3. k \in GameDoc /\ JailCards(k) = JailCards(moved)
    BY <2>1, LandAfterCardKept, LandAfterCardHand DEF Kept
  <2> QED BY <2>1, <2>2, <2>3, AfterCardHand
<1>4. CASE c.type \notin MoveEffects
  <2> DEFINE k == FixedEffect(Draw(g, d, c), p, c)
  <2>1. k \in GameDoc /\ JailCards(k) = JailCards(g)
    BY <1>4, FixedHand
  <2>2. h = AfterCard(k, p)
    BY <1>1, <1>4
  <2> HIDE DEF k
  <2> QED BY <2>1, <2>2, AfterCardHand
<1> QED BY <1>3, <1>4

\* and a whole move do.
LEMMA ExecuteMoveHand ==
  ASSUME NEW g \in GameDoc, NEW p \in Player, NEW steps \in Int, NEW extraRoll \in BOOLEAN,
         NEW k \in ExecuteMove(g, p, steps, extraRoll)
  PROVE  JailCards(k) = JailCards(g)
<1> DEFINE there == AdvancePosition(g, p, steps)
<1>1. there \in GameDoc
  BY AdvancePositionKept DEF Kept
<1>2. Hand(there) = Hand(g)
  BY DEF AdvancePosition, PaySalary, Hand, GameDoc
<1>3. PICK h \in ResolveLanding(there, p) : k = AfterMove(h, p, extraRoll, g.streak + 1)
  BY DEF ExecuteMove
<1> HIDE DEF there
<1>4. h \in GameDoc
  BY <1>1, ResolveLandingKept DEF Kept
<1>5. JailCards(h) = JailCards(there)
  <2>1. CASE Kind[there.position[p]] \in Decks
    BY <1>1, <2>1, FirstDrawHand DEF ResolveLanding
  <2>2. CASE Kind[there.position[p]] \notin Decks
    <3>1. h \in LandPlain(there, p)
      BY <2>2 DEF ResolveLanding
    <3> QED BY <1>1, <1>4, <3>1, LandPlainHand, HandCounts
  <2> QED BY <2>1, <2>2
<1>6. JailCards(k) = JailCards(h)
  BY <1>3, <1>4 DEF AfterMove, JailCards, GameDoc
<1> QED BY <1>1, <1>2, <1>5, <1>6, HandCounts

\* A roll moves jail cards between decks and hands, and neither squares nor
\* buildings nor the open trade.
Rolled(g, h) ==
  /\ h \in GameDoc
  /\ JailCards(h) = JailCards(g)
  /\ Buildings(h) = Buildings(g)
  /\ h.trade = g.trade
  /\ h.owned = g.owned

\* A move of a free player is of that kind,
LEMMA ExecuteMoveRolled ==
  ASSUME NEW g \in GameDoc, NEW p \in Player, g.jail[p] = 0,
         NEW steps \in Int, NEW extraRoll \in BOOLEAN,
         NEW h \in ExecuteMove(g, p, steps, extraRoll), h \in GameDoc
  PROVE  Rolled(g, h)
<1>1. JailCards(h) = JailCards(g)
  BY ExecuteMoveHand
<1>2. Landed(g, h, p)
  BY ExecuteMoveLanded
<1> QED BY <1>1, <1>2 DEF Rolled, Landed, Estates, Buildings

\* and so are a stay in jail, a way out of it and a way into it.
LEMMA JailRolled ==
  ASSUME NEW g \in GameDoc, NEW p \in Player, NEW n \in Int
  PROVE  /\ Rolled(g, Freed(g, p, n))
         /\ g.jail[p] > 1 => Rolled(g, StayInJail(g, p))
         /\ Rolled(g, JailForDoubles(g, p))
<1>1. Freed(g, p, n) \in GameDoc
  BY FreedKept DEF Kept
<1>2. g.jail[p] > 1 => StayInJail(g, p) \in GameDoc
  BY StayInJailKept DEF Kept
<1>3. JailForDoubles(g, p) \in GameDoc
  BY JailForDoublesKept DEF Kept
<1>4. Goods(Freed(g, p, n)) = Goods(g) /\ Freed(g, p, n).owned = g.owned
  BY DEF Freed, Goods, Hand, Buildings, GameDoc
<1>5. Goods(StayInJail(g, p)) = Goods(g) /\ StayInJail(g, p).owned = g.owned
  BY DEF StayInJail, Goods, Hand, Buildings, GameDoc
<1>6. Goods(JailForDoubles(g, p)) = Goods(g) /\ JailForDoubles(g, p).owned = g.owned
  BY DEF JailForDoubles, SendToJail, Goods, Hand, Buildings, GameDoc
<1>7. ASSUME NEW h \in GameDoc, Goods(h) = Goods(g), h.owned = g.owned PROVE Rolled(g, h)
  BY <1>7, HandCounts DEF Goods, Rolled
<1> QED BY <1>1, <1>2, <1>3, <1>4, <1>5, <1>6, <1>7

\* Whatever the dice show.
LEMMA RollOutcomesRolled ==
  ASSUME NEW g \in GameDoc, NEW p \in Player, NEW dice \in Rolls,
         NEW h \in RollOutcomes(g, p, dice)
  PROVE  Rolled(g, h)
<1> DEFINE steps == dice[1] + dice[2]
           doubles == dice[1] = dice[2]
<1>1. steps \in Int
  <2>1. Rolls \subseteq Nat \X Nat
    BY GameAssumption
  <2>2. dice[1] \in Nat /\ dice[2] \in Nat
    BY <2>1
  <2> QED BY <2>2
<1>2. doubles \in BOOLEAN
  OBVIOUS
<1>3. h \in GameDoc
  BY RollOutcomesKept DEF Kept
<1>4. h \in IF g.jail[p] # 0 THEN RollFromJail(g, p, steps, doubles)
           ELSE RollFree(g, p, steps, doubles)
  BY DEF RollOutcomes
<1> HIDE DEF steps, doubles
<1>5. ASSUME NEW n \in Int, h \in ExecuteMove(Freed(g, p, n), p, steps, FALSE)
      PROVE  Rolled(g, h)
  <2> DEFINE k == Freed(g, p, n)
  <2>1. Rolled(g, k)
    BY JailRolled
  <2>2. k.jail[p] = 0
    BY DEF Freed, GameDoc
  <2>3. h \in ExecuteMove(k, p, steps, FALSE)
    BY <1>5
  <2> HIDE DEF k
  <2>4. Rolled(k, h)
    <3>1. k \in GameDoc /\ FALSE \in BOOLEAN
      BY <2>1 DEF Rolled
    <3> QED BY <1>1, <1>3, <2>2, <2>3, <3>1, ExecuteMoveRolled
  <2> QED BY <2>1, <2>4 DEF Rolled
<1>6. CASE g.jail[p] # 0 /\ doubles
  <2>1. RollFromJail(g, p, steps, doubles) =
          ExecuteMove([g EXCEPT !.jail[p] = 0], p, steps, FALSE)
    BY <1>6 DEF RollFromJail
  <2>2. [g EXCEPT !.jail[p] = 0] = Freed(g, p, 0)
    <3>1. [g.balance EXCEPT ![p] = @ - 0] = g.balance
      BY DEF GameDoc
    <3> QED BY <3>1 DEF Freed, GameDoc
  <2>3. h \in RollFromJail(g, p, steps, doubles)
    BY <1>4, <1>6
  <2>4. h \in ExecuteMove(Freed(g, p, 0), p, steps, FALSE)
    BY <2>1, <2>2, <2>3, Zenon
  <2>5. 0 \in Int
    OBVIOUS
  <2> QED BY <1>5, <2>4, <2>5, Zenon
<1>7. CASE g.jail[p] # 0 /\ ~ doubles /\ g.jail[p] > 1
  <2>1. RollFromJail(g, p, steps, doubles) = {StayInJail(g, p)}
    BY <1>7 DEF RollFromJail
  <2>2. h = StayInJail(g, p)
    BY <1>4, <1>7, <2>1
  <2> QED BY <1>7, <2>2, JailRolled
<1>8. CASE g.jail[p] # 0 /\ ~ doubles /\ ~ (g.jail[p] > 1)
  <2>1. RollFromJail(g, p, steps, doubles) = ExecuteMove(Freed(g, p, JailFine), p, steps, FALSE)
    BY <1>8 DEF RollFromJail, Freed
  <2> QED BY <1>4, <1>5, <1>8, <2>1, JailFineIsInt
<1>9. CASE g.jail[p] = 0 /\ doubles /\ g.streak + 1 >= DoublesLimit
  <2>1. RollFree(g, p, steps, doubles) = {JailForDoubles(g, p)}
    BY <1>9 DEF RollFree
  <2>2. h = JailForDoubles(g, p)
    BY <1>4, <1>9, <2>1
  <2> QED BY <2>2, JailRolled, JailFineIsInt
<1>10. CASE g.jail[p] = 0 /\ ~ (doubles /\ g.streak + 1 >= DoublesLimit)
  <2>1. RollFree(g, p, steps, doubles) = ExecuteMove(g, p, steps, doubles)
    BY <1>10 DEF RollFree
  <2>2. h \in ExecuteMove(g, p, steps, doubles)
    BY <1>4, <1>10, <2>1
  <2> QED BY <1>1, <1>2, <1>3, <1>10, <2>2, ExecuteMoveRolled
<1> QED BY <1>6, <1>7, <1>8, <1>9, <1>10

\* So a roll makes and loses no jail card.
LEMMA RollDiceGoods ==
  ASSUME Sound(game), NEW p \in Player, RollDice(p)
  PROVE  /\ JailCards(game') = JailCards(game) /\ Buildings(game') = Buildings(game)
         /\ game'.trade = game.trade
<1>1. PICK dice \in Rolls : \E h \in RollOutcomes(game, p, dice) : Play(h, p)
  BY DEF RollDice
<1>2. PICK h \in RollOutcomes(game, p, dice) : Play(h, p)
  BY <1>1
<1>3. Rolled(game, h) /\ h \in GameDoc
  BY RollOutcomesRolled DEF Sound, Rolled
<1>4. Goods(game') = Goods(h)
  BY <1>2, <1>3, PlayGoods
<1>5. game' \in GameDoc
  BY RollDiceContinues DEF Continues, Sound
<1>6. JailCards(game') = JailCards(h)
  BY <1>3, <1>4, <1>5, HandCounts DEF Goods
<1> QED BY <1>3, <1>4, <1>6 DEF Rolled, Goods

-----------------------------------------------------------------------------
(***************************************************************************)
(* Trades and eliminations                                                 *)
(***************************************************************************)

\* p gives b and gets a, q the other way round.
Swapped(x, p, q, a, b) == [x EXCEPT ![p] = @ + a - b, ![q] = @ + b - a]

\* What one player gives and another receives leaves the sum as it was.
LEMMA SumSwapped ==
  ASSUME NEW n \in Nat, NEW x \in [1 .. n -> Int], NEW p \in 1 .. n, NEW q \in 1 .. n,
         p # q, NEW a \in Int, NEW b \in Int
  PROVE  SumTo(Swapped(x, p, q, a, b), n) = SumTo(x, n)
<1> DEFINE u == x[p] + a - b
           v == x[q] + b - a
           y == [x EXCEPT ![p] = u]
           z == [y EXCEPT ![q] = v]
<1>1. u \in Int /\ v \in Int /\ x[p] \in Int /\ x[q] \in Int
  OBVIOUS
<1>2. Swapped(x, p, q, a, b) = z
  BY DEF Swapped
<1>3. SumTo(x, n) \in Int
  BY SumToInt
<1>4. y \in [1 .. n -> Int] /\ y[q] = x[q]
  BY <1>1
<1>5. SumTo(y, n) = SumTo(x, n) + (u - x[p])
  <2> HIDE DEF u
  <2> QED BY <1>1, SumUpdated
<1>6. SumTo(z, n) = SumTo(y, n) + (v - y[q])
  <2> HIDE DEF u, v, y
  <2> QED BY <1>1, <1>4, SumUpdated
<1>7. u - x[p] = a - b /\ v - y[q] = b - a
  BY <1>1, <1>4
<1>8. a - b \in Int /\ b - a = 0 - (a - b)
  OBVIOUS
<1>9. SumTo(z, n) = SumTo(x, n)
  <2> DEFINE c == a - b
             S == SumTo(x, n)
  <2>1. SumTo(y, n) = S + c /\ SumTo(z, n) = SumTo(y, n) + (0 - c)
    BY <1>5, <1>6, <1>7, <1>8
  <2>2. S \in Int /\ c \in Int
    BY <1>3, <1>8
  <2> HIDE DEF c, S, y, z
  <2>3. SumTo(z, n) = S
    BY <2>1, <2>2
  <2> QED BY <2>3 DEF S
<1> QED BY <1>2, <1>9

\* The exchange moves money and jail cards between its parties, who have what
\* they give.
LEMMA ExecuteTradeFair ==
  ASSUME NEW g \in GameDoc, Settlement(g), NEW x, MayAccept(g, x)
  PROVE  LET h == ExecuteTrade(g)
         IN  /\ SumTo(h.balance, N) = SumTo(g.balance, N)
             /\ SumTo(h.cards, N) = SumTo(g.cards, N)
             /\ \A q \in Player : h.balance[q] < 0 => g.balance[q] < 0
             /\ h.deck = g.deck /\ Buildings(h) = Buildings(g)
<1> DEFINE p == g.trade.proposer
           t == g.trade.target
           o == g.trade.offer
           r == g.trade.request
           h == ExecuteTrade(g)
           m == [g.balance EXCEPT ![p] = @ + r.money - o.money,
                                  ![t] = @ + o.money - r.money]
           k == [g.cards EXCEPT ![p] = @ + r.cards - o.cards,
                                ![t] = @ + o.cards - r.cards]
<1>1. g.trade \in Trade /\ g.trade # NoTrade
  BY DEF GameDoc, MayAccept
<1>2. p \in Player /\ t \in Player /\ p # t /\ o \in Offer /\ r \in Offer
  BY <1>1 DEF Trade, Settlement, Parties
<1>3. o.money \in Nat /\ o.cards \in Nat /\ r.money \in Nat /\ r.cards \in Nat
  BY <1>2 DEF Offer
<1>4. g.balance \in [Player -> Int] /\ g.cards \in [Player -> Nat]
  BY DEF GameDoc
<1>5. o.money <= g.balance[p] /\ r.money <= g.balance[t]
  BY DEF MayAccept, ValidOffer
<1>6. h.balance = m /\ h.cards = k /\ h.deck = g.deck /\ Buildings(h) = Buildings(g)
  BY DEF ExecuteTrade, CloseTrade, Buildings, GameDoc
<1> HIDE DEF h, p, t, o, r
<1>7. /\ N \in Nat /\ p \in 1 .. N /\ t \in 1 .. N
      /\ g.balance \in [1 .. N -> Int] /\ g.cards \in [1 .. N -> Int]
  BY <1>2, <1>4, Sizes DEF Player
<1>8. SumTo(m, N) = SumTo(g.balance, N)
  <2>1. r.money \in Int /\ o.money \in Int
    BY <1>3
  <2>2. m = Swapped(g.balance, p, t, r.money, o.money)
    BY DEF Swapped
  <2> HIDE DEF m
  <2> QED BY <1>2, <1>7, <2>1, <2>2, SumSwapped
<1>9. SumTo(k, N) = SumTo(g.cards, N)
  <2>1. r.cards \in Int /\ o.cards \in Int
    BY <1>3
  <2>2. k = Swapped(g.cards, p, t, r.cards, o.cards)
    BY DEF Swapped
  <2> HIDE DEF k
  <2> QED BY <1>2, <1>7, <2>1, <2>2, SumSwapped
<1>10. ASSUME NEW q \in Player, m[q] < 0 PROVE g.balance[q] < 0
  <2>1. m[p] >= 0
    BY <1>2, <1>3, <1>4, <1>5
  <2>2. m[t] >= 0
    BY <1>2, <1>3, <1>4, <1>5
  <2>3. m[p] \in Int /\ m[t] \in Int
    BY <1>2, <1>3, <1>4
  <2>4. q # p /\ q # t
    <3> HIDE DEF m
    <3> QED BY <1>10, <2>1, <2>2, <2>3
  <2> QED BY <1>4, <1>10, <2>4
<1> QED BY <1>6, <1>8, <1>9, <1>10 DEF h

\* In a game in progress a bankruptcy and a surrender take a player out.
LEMMA DepartureShows ==
  ASSUME Sound(game), NEW p \in Player, DeclareBankruptcy(p) \/ Surrender(p),
         game.status = "in_progress"
  PROVE  game'.out # game.out
<1>1. game \in GameDoc /\ game.current \notin game.out
  BY DEF Sound, TableOK
<1>2. CASE DeclareBankruptcy(p)
  <2>1. p = game.current /\ Play(ResolveBankruptcy(game, p), p)
    BY <1>2 DEF DeclareBankruptcy, HoldsTurn
  <2>2. ResolveBankruptcy(game, p) \in GameDoc
    BY <2>1, ResolveBankruptcySound DEF Sound
  <2>3. p \in game'.out
    BY <1>1, <2>1, <2>2, PlayGoods, ResolveBankruptcyOut
  <2> QED BY <1>1, <2>1, <2>3
<1>3. CASE Surrender(p)
  <2>1. p = game.current /\ Play(ResolveSurrender(game, p), p)
    BY <1>3 DEF Surrender, HoldsTurn
  <2>2. Playing(game)
    BY <1>1, SoundIsPlaying
  <2>3. ResolveSurrender(game, p) \in GameDoc /\ ResolveSurrender(game, p).out # game.out
    BY <2>1, <2>2, ResolveSurrenderSound, ResolveSurrenderTrade DEF Sound
  <2> QED BY <2>1, <2>3, PlayGoods
<1> QED BY <1>2, <1>3

\* A surrender leaves an open trade open.
LEMMA SurrenderGoods ==
  ASSUME Sound(game), NEW p \in Player, Surrender(p)
  PROVE  game'.trade = game.trade
<1>1. p = game.current /\ p \notin game.out /\ Play(ResolveSurrender(game, p), p)
  BY DEF Surrender, HoldsTurn
<1>2. Playing(game)
  BY <1>1, SoundIsPlaying
<1>3. /\ ResolveSurrender(game, p) \in GameDoc
      /\ ResolveSurrender(game, p).trade = game.trade
  BY <1>1, <1>2, ResolveSurrenderSound, ResolveSurrenderTrade DEF Sound
<1> QED BY <1>1, <1>3, PlayGoods DEF Goods

\* So does a turn that times out; and it moves nothing unless it takes a player out.
LEMMA TurnTimeoutGoods ==
  ASSUME Sound(game), TurnTimeout
  PROVE  /\ game'.trade = game.trade
         /\ game'.out = game.out => Goods(game') = Goods(game)
<1> DEFINE p == game.current
           k == [game.strikes EXCEPT ![p] = @ + 1]
           h == [game EXCEPT !.strikes = k]
<1>1. /\ game \in GameDoc /\ p \in Player /\ p \notin game.out
      /\ game.status = "in_progress" /\ Commit(Settled(StrikeOut(game)))
  BY DEF Sound, TableOK, GameDoc, TurnTimeout
<1>2. StrikeOut(game) \in GameDoc
  BY <1>1, StrikeSound DEF StrikeOut, Sound
<1>3. game.strikes \in [Player -> 0 .. MaxStrikes]
  BY <1>1 DEF GameDoc
<1>4. game.strikes[p] + 1 \in 0 .. MaxStrikes
  BY <1>1, <1>3, Sizes DEF Sound, TableOK
<1>5. k \in [Player -> 0 .. MaxStrikes] /\ \A q \in Player \ {p} : k[q] = game.strikes[q]
  BY <1>3, <1>4
<1>6. StrikeOut(game) = IF h.strikes[p] >= MaxStrikes THEN ResolveSurrender(h, p)
                        ELSE AdvanceTurnOff(h, p)
  BY DEF StrikeOut
<1> HIDE DEF k
<1>7. h \in GameDoc
  BY <1>1, <1>5 DEF GameDoc
<1>8. /\ h.strikes = k /\ h.out = game.out /\ h.current = p
      /\ h.status = game.status /\ h.winner = game.winner
      /\ Goods(h) = Goods(game)
  BY <1>1 DEF Goods, Hand, Buildings, GameDoc
<1> HIDE DEF h
<1>9. Survivors(h) = Survivors(game)
  BY <1>8 DEF Survivors
<1>10. Goods(game') = Goods(StrikeOut(game)) /\ game'.out = StrikeOut(game).out
  BY <1>1, <1>2, CommitGoods
<1>11. CASE h.strikes[p] >= MaxStrikes
  <2>1. Playing(h)
    BY <1>1, <1>5, <1>7, <1>8, <1>9 DEF Playing, Sound, TableOK
  <2>2. StrikeOut(game).trade = h.trade /\ StrikeOut(game).out # h.out
    BY <1>6, <1>8, <1>11, <2>1, ResolveSurrenderTrade
  <2> QED BY <1>8, <1>10, <2>2 DEF Goods
<1>12. CASE ~ (h.strikes[p] >= MaxStrikes)
  <2>1. Goods(AdvanceTurnOff(h, p)) = Goods(h)
    BY <1>7 DEF AdvanceTurnOff, StartTurn, Goods, Hand, Buildings, GameDoc
  <2> QED BY <1>6, <1>8, <1>10, <1>12, <2>1 DEF Goods
<1> QED BY <1>11, <1>12

\* h is the game with one more strike against the turn holder, who surrenders.
Struck(h) ==
  /\ Playing(h)
  /\ h.out = game.out /\ h.current = game.current
  /\ h.balance = game.balance /\ h.debt = game.debt /\ Goods(h) = Goods(game)
  /\ ResolveSurrender(h, game.current) \in GameDoc
  /\ Commit(Settled(ResolveSurrender(h, game.current)))

\* A timeout that takes the turn holder out makes it surrender.
LEMMA TimeoutSurrenders ==
  ASSUME Sound(game), TurnTimeout, game'.out # game.out
  PROVE  \E h : Struck(h)
<1> DEFINE c == game.current
           k == [game.strikes EXCEPT ![c] = @ + 1]
           h == [game EXCEPT !.strikes = k]
<1>1. /\ game \in GameDoc /\ c \in Player /\ c \notin game.out
      /\ game.status = "in_progress" /\ Commit(Settled(StrikeOut(game)))
  BY DEF Sound, TableOK, GameDoc, TurnTimeout
<1>2. StrikeOut(game) \in GameDoc
  BY <1>1, StrikeSound DEF StrikeOut, Sound
<1>3. game.strikes \in [Player -> 0 .. MaxStrikes]
  BY <1>1 DEF GameDoc
<1>4. game.strikes[c] + 1 \in 0 .. MaxStrikes
  BY <1>1, <1>3, Sizes DEF Sound, TableOK
<1>5. k \in [Player -> 0 .. MaxStrikes] /\ \A q \in Player \ {c} : k[q] = game.strikes[q]
  BY <1>1, <1>3, <1>4
<1>6. StrikeOut(game) = IF h.strikes[c] >= MaxStrikes THEN ResolveSurrender(h, c)
                        ELSE AdvanceTurnOff(h, c)
  BY DEF StrikeOut
<1> HIDE DEF k
<1>7. h \in GameDoc
  BY <1>1, <1>5 DEF GameDoc
<1>8. /\ h.strikes = k /\ h.out = game.out /\ h.current = c
      /\ h.status = game.status /\ h.winner = game.winner
      /\ h.balance = game.balance /\ h.debt = game.debt /\ Goods(h) = Goods(game)
  BY <1>1 DEF Goods, Hand, Buildings, GameDoc
<1> HIDE DEF h
<1>9. Survivors(h) = Survivors(game)
  BY <1>8 DEF Survivors
<1>10. game'.out = StrikeOut(game).out
  BY <1>1, <1>2, CommitGoods
<1>11. h.strikes[c] >= MaxStrikes
  <2>1. AdvanceTurnOff(h, c).out = h.out
    BY <1>7 DEF AdvanceTurnOff, StartTurn, GameDoc
  <2> QED BY <1>6, <1>8, <1>10, <2>1
<1>12. Playing(h)
  BY <1>1, <1>5, <1>7, <1>8, <1>9 DEF Playing, Sound, TableOK
<1>13. Struck(h)
  BY <1>1, <1>2, <1>6, <1>8, <1>11, <1>12 DEF Struck
<1> QED BY <1>13

\* Two sums add up to the sum of what their terms add up to.
LEMMA SumAdded ==
  ASSUME NEW n \in Nat, NEW x \in [1 .. n -> Int], NEW y \in [1 .. n -> Int],
         NEW z \in [1 .. n -> Int], \A i \in 1 .. n : z[i] = x[i] + y[i]
  PROVE  SumTo(z, n) = SumTo(x, n) + SumTo(y, n)
<1>1. PICK f : PartialSums(f, y, n)
  BY SumUnfolds
<1> DEFINE d == [i \in 0 .. n |-> f[i]]
<1>2. d \in [0 .. n -> Int] /\ d[0] = 0 /\ d[n] = SumTo(y, n)
  BY <1>1 DEF PartialSums
<1>3. ASSUME NEW i \in 1 .. n PROVE z[i] - x[i] = d[i] - d[i - 1]
  <2>1. i \in 0 .. n /\ i - 1 \in 0 .. n
    OBVIOUS
  <2>2. d[i] = f[i] /\ d[i - 1] = f[i - 1] /\ f[i - 1] \in Int /\ f[i] = f[i - 1] + y[i]
    BY <1>1, <2>1 DEF PartialSums
  <2>3. z[i] = x[i] + y[i] /\ x[i] \in Int /\ y[i] \in Int
    OBVIOUS
  <2> HIDE DEF d
  <2> QED BY <2>2, <2>3
<1> HIDE DEF d
<1>4. Exceeds(d, x, z, n)
  BY <1>2, <1>3 DEF Exceeds
<1> QED BY <1>2, <1>4, SumsDiffer

\* What a win check and a turn that passes leave alone.
LEMMA DepartureGoods ==
  ASSUME NEW g \in GameDoc, NEW p
  PROVE  /\ Goods(CheckWin(g)) = Goods(g)
         /\ Goods(AdvanceTurnOff(CheckWin(g), p)) = Goods(g)
         /\ Goods(LeaveGame(g, p)) = Goods(g)
<1> DEFINE h == CheckWin(g)
<1>1. h \in GameDoc
  BY CheckWinTyped
<1>2. Goods(h) = Goods(g)
  BY DEF CheckWin, Goods, Hand, Buildings, GameDoc
<1>3. LeaveGame(g, p) \in {h, AdvanceTurnOff(h, p)}
  BY DEF LeaveGame
<1> HIDE DEF h
<1>4. Goods(AdvanceTurnOff(h, p)) = Goods(h)
  BY <1>1 DEF AdvanceTurnOff, StartTurn, Goods, Hand, Buildings, GameDoc
<1> QED BY <1>2, <1>3, <1>4 DEF h

\* A hand without jail cards leaves the decks as they are when it goes to the bank.
LEMMA NoCardsNoTrace ==
  ASSUME NEW g \in GameDoc, NEW p \in Player, g.cards[p] = 0
  PROVE  Hand(Eliminate(ReturnToBank(g, p), p)) = Hand(g)
<1> DEFINE k == [d \in Decks |-> g.deck[d] + g.cards[p]]
           c == [g.cards EXCEPT ![p] = 0]
<1>1. g.deck \in [Decks -> Nat] /\ g.cards \in [Player -> Nat]
  BY DEF GameDoc
<1>2. k = g.deck /\ c = g.cards
  BY <1>1
<1>3. Eliminate(ReturnToBank(g, p), p).deck = k /\ Eliminate(ReturnToBank(g, p), p).cards = c
  BY DEF Eliminate, ReturnToBank, GameDoc
<1> QED BY <1>2, <1>3 DEF Hand

\* The creditor of a bankrupt player takes over its jail cards and buildings.
LEMMA TakeOverGoods ==
  ASSUME NEW g \in GameDoc, NEW d \in Player, NEW c \in Player, c # d
  PROVE  LET h == Eliminate(TransferToCreditor(g, d, c), d)
         IN  JailCards(h) = JailCards(g) /\ Buildings(h) = Buildings(g)
<1> DEFINE x == g.cards
           y == [x EXCEPT ![c] = x[c] + x[d]]
           z == [y EXCEPT ![d] = 0]
           t == TransferToCreditor(g, d, c)
           h == Eliminate(t, d)
<1>1. x \in [1 .. N -> Int] /\ c \in 1 .. N /\ d \in 1 .. N /\ N \in Nat
  BY Sizes DEF GameDoc, Player
<1>2. x[c] \in Int /\ x[d] \in Int /\ x[c] + x[d] \in Int
  BY <1>1
<1>3. y \in [1 .. N -> Int] /\ y[d] = x[d] /\ 0 \in Int
  BY <1>1, <1>2
<1>4. SumTo(y, N) = SumTo(x, N) + ((x[c] + x[d]) - x[c])
  <2> HIDE DEF x
  <2> QED BY <1>1, <1>2, SumUpdated
<1>5. SumTo(z, N) = SumTo(y, N) + (0 - y[d])
  <2> HIDE DEF y
  <2> QED BY <1>1, <1>3, SumUpdated
<1>6. SumTo(x, N) \in Int
  <2> HIDE DEF x
  <2> QED BY <1>1, SumToInt
<1>7. SumTo(z, N) = SumTo(x, N)
  <2> DEFINE a == SumTo(x, N)
             u == x[c]
             v == x[d]
  <2>1. a \in Int /\ u \in Int /\ v \in Int /\ SumTo(y, N) = a + ((u + v) - u)
    BY <1>2, <1>4, <1>6
  <2>2. SumTo(z, N) = SumTo(y, N) + (0 - v)
    BY <1>3, <1>5
  <2> HIDE DEF a, u, v, x, y, z
  <2>3. SumTo(z, N) = a
    BY <2>1, <2>2
  <2> QED BY <2>3 DEF a
<1>8. t.cards = y /\ t.deck = g.deck /\ Buildings(t) = Buildings(g)
  BY DEF TransferToCreditor, Buildings, GameDoc
<1>9. t \in GameDoc
  <2>1. c \in 0 .. N
    BY <1>1
  <2> QED BY <2>1, TransferToCreditorKept DEF Kept
<1> HIDE DEF t, y
<1>10. h.cards = z /\ h.deck = g.deck /\ Buildings(h) = Buildings(g)
  BY <1>8, <1>9 DEF Eliminate, Buildings, GameDoc
<1> HIDE DEF h, z
<1> QED BY <1>7, <1>10 DEF JailCards, h, t

\* The card that is used goes to a deck.
LEMMA UseJailCardGoods ==
  ASSUME Sound(game), NEW p \in Player, UseJailCard(p)
  PROVE  /\ JailCards(game') = JailCards(game) /\ Buildings(game') = Buildings(game)
         /\ game'.trade = game.trade
<1> DEFINE h == CardUsed(game, p)
           k == [game.deck EXCEPT !["chance"] = @ + 1]
           m == [game.cards EXCEPT ![p] = game.cards[p] - 1]
<1>1. game \in GameDoc /\ game.cards[p] > 0 /\ Play(h, p)
  BY DEF Sound, UseJailCard, CardUsed
<1>2. h \in GameDoc
  BY <1>1, CardUsedKept DEF Kept
<1>3. h.deck = k /\ h.cards = m /\ Buildings(h) = Buildings(game) /\ h.trade = game.trade
  BY <1>1 DEF CardUsed, Buildings, GameDoc
<1>4. Goods(game') = Goods(h)
  BY <1>1, <1>2, PlayGoods
<1> HIDE DEF h
<1>5. game.deck \in [Decks -> Nat] /\ game.cards \in [1 .. N -> Int] /\ p \in 1 .. N
  BY <1>1 DEF GameDoc, Player
<1>6. N \in Nat /\ game.cards[p] \in Int /\ game.cards[p] - 1 \in Int
  BY <1>5, Sizes
<1>7. SumTo(m, N) = SumTo(game.cards, N) + ((game.cards[p] - 1) - game.cards[p])
  BY <1>5, <1>6, SumUpdated
<1>8. k["chance"] + k["chest"] = game.deck["chance"] + game.deck["chest"] + 1
  BY <1>5 DEF Decks
<1>9. SumTo(game.cards, N) \in Int
  BY <1>5, <1>6, SumToInt
<1>10. game.deck["chance"] \in Int /\ game.deck["chest"] \in Int
  BY <1>5 DEF Decks
<1> HIDE DEF k, m
<1>11. JailCards(h) = JailCards(game)
  <2>1. SumTo(m, N) = SumTo(game.cards, N) - 1
    BY <1>6, <1>7, <1>9
  <2> QED BY <1>3, <1>8, <1>9, <1>10, <2>1 DEF JailCards
<1>12. game' \in GameDoc
  BY UseJailCardContinues DEF Continues, Sound
<1>13. JailCards(game') = JailCards(h)
  BY <1>2, <1>4, <1>12, HandCounts DEF Goods
<1> QED BY <1>3, <1>4, <1>11, <1>13 DEF Goods

\* An offer and a counter-offer open a trade, or keep it open.
LEMMA OfferGoods ==
  ASSUME Sound(game), NEW p \in Player, ProposeTrade(p) \/ CounterTrade(p)
  PROVE  /\ Hand(game') = Hand(game) /\ Buildings(game') = Buildings(game)
         /\ game'.trade # NoTrade
<1>1. game \in GameDoc
  BY DEF Sound
<1>2. CASE ProposeTrade(p)
  <2>1. PICK q \in Player, o \in Offers, r \in Offers :
          MayPropose(game, p, q, o, r) /\ Play(Propose(game, p, q, o, r), p)
    BY <1>2 DEF ProposeTrade
  <2> DEFINE h == Propose(game, p, q, o, r)
             t == [proposer |-> p, target |-> q, offer |-> o, request |-> r]
  <2>2. o \in Offer /\ r \in Offer /\ game.offers < MaxOffers
    BY <2>1, EngineAssumption DEF MayPropose
  <2>3. h \in GameDoc
    BY <1>1, <2>2, ProposeKept DEF Kept
  <2>4. h.trade = t /\ Hand(h) = Hand(game) /\ Buildings(h) = Buildings(game)
    BY <1>1 DEF Propose, Hand, Buildings, GameDoc
  <2>5. t # NoTrade
    <3>1. t.proposer # NoTrade.proposer
      BY DEF NoTrade, NoOne, Player
    <3> QED BY <3>1
  <2> HIDE DEF h, t
  <2> QED BY <2>1, <2>3, <2>4, <2>5, PlayGoods DEF Goods, h
<1>3. CASE CounterTrade(p)
  <2>1. PICK o \in Offers : MayCounter(game, p, o) /\ PlayOutOfTurn(Counter(game, o), p)
    BY <1>3 DEF CounterTrade
  <2> DEFINE h == Counter(game, o)
  <2>2. o \in Offer /\ game.trade # NoTrade /\ game.trade \in Trade
    BY <1>1, <2>1, EngineAssumption DEF MayCounter, GameDoc
  <2>3. h \in GameDoc
    BY <1>1, <2>2, CounterKept DEF Kept
  <2>4. h.trade = [game.trade EXCEPT !.request = o] /\ Hand(h) = Hand(game)
        /\ Buildings(h) = Buildings(game)
    BY <1>1 DEF Counter, Hand, Buildings, GameDoc
  <2>5. h.trade # NoTrade
    <3>1. h.trade.proposer = game.trade.proposer /\ game.trade.proposer \in Player
      BY <2>2, <2>4 DEF Trade
    <3> QED BY <3>1 DEF NoTrade, NoOne, Player
  <2> HIDE DEF h
  <2> QED BY <2>1, <2>3, <2>4, <2>5, PlayOutOfTurnGoods DEF Goods, h
<1> QED BY <1>2, <1>3

\* A rejection and an expiry move nothing else,
LEMMA RefusalGoods ==
  ASSUME Sound(game), NEW p \in Player, RejectTrade(p) \/ ExpireTrade
  PROVE  /\ Hand(game') = Hand(game) /\ Buildings(game') = Buildings(game)
         /\ game.debt = NoDebt => game'.balance = game.balance
<1> DEFINE h == CloseTrade(game)
<1>1. game \in GameDoc /\ h \in GameDoc
  BY CloseTradeKept DEF Sound, Kept
<1>2. Hand(h) = Hand(game) /\ Buildings(h) = Buildings(game)
      /\ h.balance = game.balance /\ h.debt = game.debt
  BY <1>1 DEF CloseTrade, Hand, Buildings, GameDoc
<1>3. PlayOutOfTurn(h, p) \/ Commit(Settled(h))
  BY DEF RejectTrade, ExpireTrade
<1> HIDE DEF h
<1> QED BY <1>1, <1>2, <1>3, PlayOutOfTurnGoods, CommitGoods DEF Goods

\* and the exchange is fair.
LEMMA AcceptTradeGoods ==
  ASSUME Sound(game), Orderly(game), NEW p \in Player, AcceptTrade(p)
  PROVE  /\ SumTo(game'.balance, N) = SumTo(game.balance, N)
         /\ SumTo(game'.cards, N) = SumTo(game.cards, N)
         /\ \A q \in Player : game'.balance[q] < 0 => game.balance[q] < 0
         /\ game'.deck = game.deck /\ Buildings(game') = Buildings(game)
<1> DEFINE h == ExecuteTrade(game)
<1>1. game \in GameDoc /\ MayAccept(game, p) /\ PlayOutOfTurn(h, p)
  BY DEF Sound, AcceptTrade
<1>2. h \in GameDoc
  BY <1>1, ExecuteTradeKept DEF Kept
<1>3. /\ SumTo(h.balance, N) = SumTo(game.balance, N)
      /\ SumTo(h.cards, N) = SumTo(game.cards, N)
      /\ \A q \in Player : h.balance[q] < 0 => game.balance[q] < 0
      /\ h.deck = game.deck /\ Buildings(h) = Buildings(game)
  BY <1>1, ExecuteTradeFair DEF Orderly
<1> HIDE DEF h
<1> QED BY <1>1, <1>2, <1>3, PlayOutOfTurnGoods DEF Goods, Hand

\* Building and selling move neither jail cards nor trades.
LEMMA EstateGoods ==
  ASSUME Sound(game), NEW p \in Player, NEW s \in Square, BuildHouse(p, s) \/ SellHouse(p, s)
  PROVE  /\ Hand(game') = Hand(game) /\ game'.trade = game.trade
         /\ BuildHouse(p, s) => Buildings(game') = Buildings(Build(game, p, s))
         /\ SellHouse(p, s) => Buildings(game') = Buildings(Sell(game, p, s))
<1>1. game \in GameDoc
  BY DEF Sound
<1>2. ASSUME BuildHouse(p, s)
      PROVE  /\ Hand(game') = Hand(game) /\ game'.trade = game.trade
             /\ Buildings(game') = Buildings(Build(game, p, s))
  <2>1. MayBuild(game, p, s) /\ Play(Build(game, p, s), p)
    BY <1>2 DEF BuildHouse
  <2>2. Build(game, p, s) \in GameDoc
    BY <1>1, <2>1, BuildKept DEF Kept
  <2>3. Hand(Build(game, p, s)) = Hand(game) /\ Build(game, p, s).trade = game.trade
    BY <1>1 DEF Build, StockAfterBuilding, Hand, GameDoc
  <2> QED BY <2>1, <2>2, <2>3, PlayGoods DEF Goods
<1>3. ASSUME SellHouse(p, s)
      PROVE  /\ Hand(game') = Hand(game) /\ game'.trade = game.trade
             /\ Buildings(game') = Buildings(Sell(game, p, s))
  <2>1. MaySell(game, p, s) /\ Play(Sell(game, p, s), p)
    BY <1>3 DEF SellHouse
  <2>2. Sell(game, p, s) \in GameDoc
    BY <1>1, <2>1, SellKept DEF Kept
  <2>3. Hand(Sell(game, p, s)) = Hand(game) /\ Sell(game, p, s).trade = game.trade
    BY <1>1 DEF Sell, StockAfterSelling, Hand, GameDoc
  <2> QED BY <2>1, <2>2, <2>3, PlayGoods DEF Goods
<1> QED BY <1>2, <1>3

\* A bankruptcy to a player loses no jail card and no building, one to the bank no
\* jail card if the debtor holds none.
LEMMA BankruptcyGoods ==
  ASSUME Sound(game), Orderly(game), NEW p \in Player, DeclareBankruptcy(p)
  PROVE  /\ game.debt.creditor # NoOne =>
              JailCards(game') = JailCards(game) /\ Buildings(game') = Buildings(game)
         /\ game.cards[p] = 0 => JailCards(game') = JailCards(game)
<1> DEFINE c == game.debt.creditor
           handed == IF c # NoOne THEN TransferToCreditor(game, p, c) ELSE ReturnToBank(game, p)
           sent == Eliminate(handed, p)
           x == [sent.position EXCEPT ![p] = StartSquare]
           gone == [sent EXCEPT !.position = x, !.debt = NoDebt]
           h == ResolveBankruptcy(game, p)
<1>1. game \in GameDoc /\ p = game.current /\ c \in 0 .. N /\ Play(h, p)
      /\ game.debt.debtor = p /\ game.debt # NoDebt
  <2>1. game \in GameDoc /\ game.debt \in Debt \cup {NoDebt}
    BY DEF Sound, GameDoc
  <2>2. c \in 0 .. N
    BY <2>1, Sizes DEF Debt, NoDebt, NoOne
  <2> QED BY <2>1, <2>2 DEF DeclareBankruptcy, HoldsTurn
<1>2. c # p
  BY <1>1 DEF Orderly, Settlement, Parties
<1>3. c # NoOne => c \in Player
  BY <1>1, Sizes DEF NoOne, Player
<1>4. c # NoOne => JailCards(sent) = JailCards(game) /\ Buildings(sent) = Buildings(game)
  BY <1>1, <1>2, <1>3, TakeOverGoods
<1>5. c = NoOne /\ game.cards[p] = 0 => Hand(sent) = Hand(game)
  BY <1>1, NoCardsNoTrace
<1>6. handed \in GameDoc
  BY <1>1, TransferToCreditorKept, ReturnToBankKept DEF Kept
<1>7. h = IF CheckWin(gone).status = "finished" THEN CheckWin(gone)
          ELSE AdvanceTurnOff(CheckWin(gone), p)
  BY DEF ResolveBankruptcy
<1>8. h \in GameDoc
  BY <1>1, ResolveBankruptcySound DEF Sound
<1> HIDE DEF h, handed
<1>9. sent \in GameDoc
  BY <1>6, EliminateLeaves DEF EliminateTyped
<1> HIDE DEF sent
<1>10. x \in [Player -> Square]
  BY <1>9, Sizes DEF GameDoc
<1> HIDE DEF x
<1>11. gone \in GameDoc /\ Goods(gone) = Goods(sent)
  BY <1>9, <1>10 DEF Goods, Hand, Buildings, GameDoc
<1> HIDE DEF gone
<1>12. Goods(h) = Goods(gone)
  BY <1>7, <1>11, DepartureGoods
<1>13. Goods(game') = Goods(sent)
  BY <1>1, <1>8, <1>11, <1>12, PlayGoods
<1>14. game' \in GameDoc
  BY StepContinues DEF Continues, Sound, Next, PlayerCommand
<1>15. Hand(game') = Hand(sent) /\ Buildings(game') = Buildings(sent)
  BY <1>13 DEF Goods
<1>16. JailCards(game') = JailCards(sent)
  BY <1>9, <1>14, <1>15, HandCounts
<1>17. c = NoOne /\ game.cards[p] = 0 => JailCards(sent) = JailCards(game)
  BY <1>1, <1>5, <1>9, HandCounts
<1> QED BY <1>4, <1>15, <1>16, <1>17

\* A surrender leaves cards only where the leaver held some.
LEMMA ResolveSurrenderHand ==
  ASSUME NEW g, Playing(g), g.cards[g.current] = 0
  PROVE  Hand(ResolveSurrender(g, g.current)) = Hand(g)
<1> DEFINE p == g.current
           b == [q \in Player |-> g.balance[q] + CashShare(g, p, q)]
           shared == [g EXCEPT !.balance = b]
           stocked == RestoreStock(shared, p)
           gone == Eliminate(ReturnToBank(stocked, p), p)
<1>1. g \in GameDoc /\ p \in Player /\ p \notin g.out
  BY DEF Playing, GameDoc
<1>2. ResolveSurrender(g, p) = LeaveGame(gone, p)
  BY <1>1 DEF ResolveSurrender
<1>3. b \in [Player -> Int]
  BY <1>1, CashShareIsInt DEF GameDoc
<1> HIDE DEF b
<1>4. shared \in GameDoc /\ Hand(shared) = Hand(g) /\ shared.cards = g.cards
  <2>1. shared \in GameDoc
    BY <1>1, <1>3, SetBalance DEF Kept
  <2>2. shared.deck = g.deck /\ shared.cards = g.cards
    BY <1>1 DEF GameDoc
  <2> QED BY <2>1, <2>2 DEF Hand
<1> HIDE DEF shared
<1>5. stocked \in GameDoc /\ Hand(stocked) = Hand(g) /\ stocked.cards = g.cards
  <2>1. stocked \in GameDoc
    BY <1>1, <1>4, RestoreStockKept DEF Kept
  <2>2. stocked.deck = shared.deck /\ stocked.cards = shared.cards
    BY <1>4 DEF RestoreStock, GameDoc
  <2> QED BY <1>4, <2>1, <2>2 DEF Hand
<1> HIDE DEF stocked
<1>6. Hand(gone) = Hand(g)
  BY <1>1, <1>5, NoCardsNoTrace
<1>7. gone \in GameDoc
  <2>1. ReturnToBank(stocked, p) \in GameDoc
    BY <1>1, <1>5, ReturnToBankKept DEF Kept
  <2> QED BY <1>1, <2>1, EliminateLeaves DEF EliminateTyped
<1> HIDE DEF gone
<1>8. Goods(LeaveGame(gone, p)) = Goods(gone)
  BY <1>7, DepartureGoods
<1> QED BY <1>2, <1>6, <1>8 DEF Goods

\* The turn holder gives up, or is made to.
GivesUp == (\E p \in Player : Surrender(p)) \/ (TurnTimeout /\ game'.out # game.out)

\* Either way it takes the part of a surrender of a game with the same goods.
LEMMA GivingUp ==
  ASSUME Sound(game), GivesUp
  PROVE  \E h : /\ Playing(h) /\ Goods(h) = Goods(game) /\ h.current = game.current
                /\ Goods(game') = Goods(ResolveSurrender(h, h.current))
                /\ h.out = game.out /\ game'.out = ResolveSurrender(h, h.current).out
<1> DEFINE As(h) ==
      /\ Playing(h) /\ Goods(h) = Goods(game) /\ h.current = game.current
      /\ Goods(game') = Goods(ResolveSurrender(h, h.current))
      /\ h.out = game.out /\ game'.out = ResolveSurrender(h, h.current).out
<1>1. ASSUME NEW p \in Player, Surrender(p) PROVE As(game)
  <2>1. p = game.current /\ p \notin game.out /\ Play(ResolveSurrender(game, p), p)
    BY <1>1 DEF Surrender, HoldsTurn
  <2>2. Playing(game)
    BY <2>1, SoundIsPlaying
  <2>3. ResolveSurrender(game, p) \in GameDoc
    BY <2>1, <2>2, ResolveSurrenderSound DEF Sound
  <2> QED BY <2>1, <2>2, <2>3, PlayGoods
<1>2. ASSUME TurnTimeout, game'.out # game.out PROVE \E h : As(h)
  <2>1. PICK h : Struck(h)
    BY <1>2, TimeoutSurrenders
  <2>2. As(h)
    BY <2>1, CommitGoods DEF Struck
  <2> QED BY <2>2
<1> QED BY <1>1, <1>2 DEF GivesUp

\* The turn holder is the one that is out, and leaves no jail cards if it had none.
LEMMA GivingUpCards ==
  ASSUME Sound(game), [Next]_game, GivesUp
  PROVE  /\ game.current \in game'.out \ game.out
         /\ game.cards[game.current] = 0 => JailCards(game') = JailCards(game)
<1>1. PICK h : /\ Playing(h) /\ Goods(h) = Goods(game) /\ h.current = game.current
               /\ Goods(game') = Goods(ResolveSurrender(h, h.current))
               /\ h.out = game.out /\ game'.out = ResolveSurrender(h, h.current).out
  BY GivingUp
<1> DEFINE k == ResolveSurrender(h, h.current)
<1>2. game \in GameDoc /\ game' \in GameDoc
  BY StepContinues DEF Continues, Sound
<1>3. Leaves(h, k)
  BY <1>1, ResolveSurrenderSound
<1>4. game.current \in game'.out \ game.out
  <2>1. h.current \in Player /\ h.current \notin h.out
    BY <1>1 DEF Playing, GameDoc
  <2>2. h.current \in k.out
    BY <1>3, <2>1 DEF Leaves, Survivors
  <2> QED BY <1>1, <2>1, <2>2
<1>5. ASSUME game.cards[game.current] = 0 PROVE JailCards(game') = JailCards(game)
  <2>1. h.cards[h.current] = 0 /\ Hand(h) = Hand(game)
    BY <1>1, <1>5 DEF Goods, Hand
  <2>2. Hand(k) = Hand(h)
    BY <1>1, <2>1, ResolveSurrenderHand
  <2> HIDE DEF k
  <2>3. Hand(game') = Hand(game)
    BY <1>1, <2>1, <2>2 DEF Goods, k
  <2> QED BY <1>2, <2>3, HandCounts
<1> QED BY <1>4, <1>5

-----------------------------------------------------------------------------
(***************************************************************************)
(* What a step may never do: jail cards, trades, buildings                 *)
(***************************************************************************)

\* A bankruptcy that leaves no cards to the bank keeps the jail cards,
LEMMA BankruptcyKeepsJailCards ==
  ASSUME Sound(game), Orderly(game), NEW p \in Player, DeclareBankruptcy(p), ~LeavesCards(p)
  PROVE  JailCards(game') = JailCards(game)
<1>1. game.cards[p] \in Nat
  BY DEF Sound, GameDoc
<1>2. game.debt.creditor # NoOne \/ game.cards[p] = 0
  BY <1>1 DEF LeavesCards, Foreclosed
<1> QED BY <1>2, BankruptcyGoods

\* and so does every other command that leaves none.
LEMMA StepKeepsJailCards ==
  ASSUME Sound(game), Orderly(game), [Next]_game, \A p \in Player : ~LeavesCards(p)
  PROVE  JailCards(game') = JailCards(game)
<1>1. game \in GameDoc /\ game' \in GameDoc
  BY StepContinues DEF Continues, Sound
<1>2. Hand(game') = Hand(game) => JailCards(game') = JailCards(game)
  BY <1>1, HandCounts
<1>3. CASE UNCHANGED game
  BY <1>3
<1>4. ASSUME NEW p \in Player, DeclareBankruptcy(p)
      PROVE  JailCards(game') = JailCards(game)
  BY <1>4, BankruptcyKeepsJailCards
<1>5. CASE GivesUp /\ ~ \E p \in Player : DeclareBankruptcy(p)
  <2> DEFINE c == game.current
  <2>1. c \in game'.out \ game.out /\ c \in Player /\ game.cards[c] \in Nat
    BY <1>1, <1>5, GivingUpCards DEF GameDoc
  <2>2. game.cards[c] = 0
    BY <1>5, <2>1 DEF LeavesCards, Bankrupt
  <2> QED BY <1>5, <2>2, GivingUpCards
<1>6. CASE SchedulerCommand
  <2>1. 1 \in Player
    BY Sizes DEF Player
  <2>2. CASE AdvanceAuction
    BY <1>2, <2>1, <2>2, PlainCommandGoods DEF Goods
  <2>3. CASE ExpireTrade
    BY <1>2, <2>1, <2>3, RefusalGoods
  <2>4. CASE TurnTimeout /\ ~ GivesUp
    BY <1>2, <2>4, TurnTimeoutGoods DEF GivesUp, Goods
  <2> QED BY <1>4, <1>5, <1>6, <2>2, <2>3, <2>4 DEF SchedulerCommand
<1>7. ASSUME NEW p \in Player, PlayerCommand(p)
      PROVE  JailCards(game') = JailCards(game)
  <2>1. CASE RollDice(p)
    BY <2>1, RollDiceGoods
  <2>2. CASE \/ BuyProperty(p) \/ PassBuy(p) \/ EndTurn(p) \/ PayJailFine(p)
             \/ \E s \in Square : MortgageProperty(p, s) \/ UnmortgageProperty(p, s)
             \/ PlaceBid(p)
    BY <1>2, <2>2, PlainCommandGoods DEF Goods
  <2>3. CASE UseJailCard(p)
    BY <2>3, UseJailCardGoods
  <2>4. CASE \E s \in Square : BuildHouse(p, s) \/ SellHouse(p, s)
    BY <1>2, <2>4, EstateGoods
  <2>5. CASE DeclareBankruptcy(p) \/ Surrender(p)
    BY <1>4, <1>5, <2>5 DEF GivesUp
  <2>6. CASE ProposeTrade(p) \/ CounterTrade(p)
    BY <1>2, <2>6, OfferGoods
  <2>7. CASE RejectTrade(p)
    BY <1>2, <2>7, RefusalGoods
  <2>8. CASE AcceptTrade(p)
    BY <2>8, AcceptTradeGoods DEF JailCards
  <2> QED BY <1>7, <2>1, <2>2, <2>3, <2>4, <2>5, <2>6, <2>7, <2>8 DEF PlayerCommand
<1> QED BY <1>3, <1>6, <1>7 DEF Next

\* Unless a player leaves cards to the bank, get-out-of-jail cards only move between
\* the decks and the players, also when a debtor's go to its creditor.
THEOREM JailCardsAreConserved == Spec => JailCardsConserved
<1>1. Sound(game) /\ Orderly(game) /\ [Next]_game =>
        [(\A p \in Player : ~LeavesCards(p)) => JailCards(game') = JailCards(game)]_game
  BY StepKeepsJailCards
<1> QED BY <1>1, SpecOrderly, PTL DEF Spec, JailCardsConserved

\* An answer to a trade closes it fairly; nothing else closes one while no debt
\* is open.
Closed(g, h) ==
  /\ SumTo(h.balance, N) = SumTo(g.balance, N)
  /\ SumTo(h.cards, N) = SumTo(g.cards, N)
  /\ \A p \in Player : (h.balance[p] < 0 => g.balance[p] < 0) /\ h.cards[p] >= 0

\* The answer to a trade closes it fairly, whatever the step.
LEMMA StepClosesFairly ==
  ASSUME Sound(game), Orderly(game), [Next]_game,
         game.trade # NoTrade, game'.trade = NoTrade, game.debt = NoDebt
  PROVE  Closed(game, game')
<1>1. game \in GameDoc /\ game' \in GameDoc
  BY StepContinues DEF Continues, Sound
<1>2. \A q \in Player : game'.cards[q] \in Nat
  BY <1>1 DEF GameDoc
<1>3. game.trade # game'.trade
  OBVIOUS
<1>4. ASSUME Hand(game') = Hand(game), game'.balance = game.balance
      PROVE  Closed(game, game')
  BY <1>2, <1>4 DEF Closed, Hand
<1>5. CASE SchedulerCommand
  <2>1. 1 \in Player
    BY Sizes DEF Player
  <2>2. CASE AdvanceAuction
    BY <1>3, <2>1, <2>2, PlainCommandGoods DEF Goods
  <2>3. CASE ExpireTrade
    BY <1>4, <2>1, <2>3, RefusalGoods
  <2>4. CASE TurnTimeout
    BY <1>3, <2>4, TurnTimeoutGoods
  <2> QED BY <1>5, <2>2, <2>3, <2>4 DEF SchedulerCommand
<1>6. ASSUME NEW p \in Player, PlayerCommand(p) PROVE Closed(game, game')
  <2>1. CASE RollDice(p)
    BY <1>3, <2>1, RollDiceGoods
  <2>2. CASE \/ BuyProperty(p) \/ PassBuy(p) \/ EndTurn(p) \/ PayJailFine(p)
             \/ \E s \in Square : MortgageProperty(p, s) \/ UnmortgageProperty(p, s)
             \/ PlaceBid(p)
    BY <1>3, <2>2, PlainCommandGoods DEF Goods
  <2>3. CASE UseJailCard(p)
    BY <1>3, <2>3, UseJailCardGoods
  <2>4. CASE \E s \in Square : BuildHouse(p, s) \/ SellHouse(p, s)
    BY <1>3, <2>4, EstateGoods
  <2>5. CASE DeclareBankruptcy(p)
    BY <2>5 DEF DeclareBankruptcy
  <2>6. CASE Surrender(p)
    BY <1>3, <2>6, SurrenderGoods
  <2>7. CASE ProposeTrade(p) \/ CounterTrade(p)
    BY <2>7, OfferGoods
  <2>8. CASE RejectTrade(p)
    BY <1>4, <2>8, RefusalGoods
  <2>9. CASE AcceptTrade(p)
    BY <1>2, <2>9, AcceptTradeGoods DEF Closed
  <2> QED BY <1>6, <2>1, <2>2, <2>3, <2>4, <2>5, <2>6, <2>7, <2>8, <2>9 DEF PlayerCommand
<1>7. ~ UNCHANGED game
  BY <1>3
<1> QED BY <1>5, <1>6, <1>7 DEF Next

\* Closing a trade makes and loses no money and no jail cards, and overdraws
\* nobody.
THEOREM TradesAreSound == Spec => TradeSound
<1>1. Sound(game) /\ Orderly(game) /\ [Next]_game =>
        [game.trade # NoTrade /\ game'.trade = NoTrade /\ game.debt = NoDebt
         => /\ SumTo(game'.balance, N) = SumTo(game.balance, N)
            /\ SumTo(game'.cards, N) = SumTo(game.cards, N)
            /\ \A p \in Player : /\ game'.balance[p] < 0 => game.balance[p] < 0
                                /\ game'.cards[p] >= 0]_game
  BY StepClosesFairly DEF Closed
<1> QED BY <1>1, SpecOrderly, PTL DEF Spec, TradeSound

\* What a square of level v holds: that many houses, or one hotel.
HousesOf(v) == IF v = HotelLevel THEN 0 ELSE v
HotelsOf(v) == IF v = HotelLevel THEN 1 ELSE 0
HousesOn(x) == [t \in Square |-> HousesOf(x[t])]
HotelsOn(x) == {t \in Square : x[t] = HotelLevel}

\* When one square changes its level, the count of houses changes by what it
\* held and holds,
LEMMA HousesCount ==
  ASSUME NEW x \in [Square -> 0 .. HotelLevel], NEW s \in Square, NEW v \in 0 .. HotelLevel
  PROVE  SumTo(HousesOn([x EXCEPT ![s] = v]), Size)
           = SumTo(HousesOn(x), Size) + (HousesOf(v) - HousesOf(x[s]))
<1>1. Size \in Nat /\ HotelLevel \in Nat
  BY GameAssumption
<1>2. HousesOf(v) \in Int /\ \A t \in Square : HousesOf(x[t]) \in Int
  BY <1>1 DEF HousesOf
<1>3. HousesOn(x) \in [1 .. Size -> Int] /\ s \in 1 .. Size
  BY <1>2 DEF HousesOn, Square
<1>4. HousesOn([x EXCEPT ![s] = v]) = [HousesOn(x) EXCEPT ![s] = HousesOf(v)]
  BY DEF HousesOn
<1>5. HousesOn(x)[s] = HousesOf(x[s])
  BY DEF HousesOn
<1> DEFINE y == HousesOn(x)
           w == HousesOf(v)
<1>6. y \in [1 .. Size -> Int] /\ w \in Int
  BY <1>2, <1>3
<1> HIDE DEF y, w
<1>7. SumTo([y EXCEPT ![s] = w], Size) = SumTo(y, Size) + (w - y[s])
  BY <1>1, <1>3, <1>6, SumUpdated
<1> QED BY <1>4, <1>5, <1>7 DEF y, w

\* and so does the count of hotels.
LEMMA HotelsCount ==
  ASSUME NEW x \in [Square -> 0 .. HotelLevel], NEW s \in Square, NEW v \in 0 .. HotelLevel
  PROVE  Cardinality(HotelsOn([x EXCEPT ![s] = v]))
           = Cardinality(HotelsOn(x)) + (HotelsOf(v) - HotelsOf(x[s]))
<1> DEFINE A == HotelsOn(x)
           B == HotelsOn([x EXCEPT ![s] = v])
<1>1. IsFiniteSet(A) /\ IsFiniteSet(B)
  <2>1. IsFiniteSet(Square)
    BY GameAssumption, FS_Interval DEF Square
  <2>2. A \subseteq Square /\ B \subseteq Square
    BY DEF HotelsOn
  <2> QED BY <2>1, <2>2, FS_Subset
<1>2. Cardinality(A) \in Nat
  BY <1>1, FS_CardinalityType
<1>3. s \in A <=> x[s] = HotelLevel
  BY DEF HotelsOn
<1>4. B = IF v = HotelLevel THEN A \cup {s} ELSE A \ {s}
  BY DEF HotelsOn
<1>5. Cardinality(A \cup {s}) = IF s \in A THEN Cardinality(A) ELSE Cardinality(A) + 1
  BY <1>1, FS_AddElement
<1>6. Cardinality(A \ {s}) = IF s \in A THEN Cardinality(A) - 1 ELSE Cardinality(A)
  BY <1>1, FS_RemoveElement
<1> HIDE DEF A, B
<1>7. Cardinality(B) = Cardinality(A) + (HotelsOf(v) - HotelsOf(x[s]))
  BY <1>2, <1>3, <1>4, <1>5, <1>6 DEF HotelsOf
<1> QED BY <1>7 DEF A, B

\* The houses and hotels there are, with the bank and on the board.
Stock(g) ==
  <<g.houses + SumTo(HousesOn(g.level), Size), g.hotels + Cardinality(HotelsOn(g.level))>>

\* The stock is what StockConserved counts.
LEMMA StockCounts ==
  ASSUME NEW g \in GameDoc
  PROVE  Stock(g) = <<g.houses + Houses(g, Square), g.hotels + Cardinality(Hotels(g, Square))>>
<1>1. [s \in Square |-> IF s \in Square \ Hotels(g, Square) THEN g.level[s] ELSE 0]
        = HousesOn(g.level)
  BY DEF HousesOn, HousesOf, Hotels
<1>2. Hotels(g, Square) = HotelsOn(g.level)
  BY DEF Hotels, HotelsOn
<1> QED BY <1>1, <1>2 DEF Stock, Houses

\* A square goes to the level v and the bank takes back or gives out the
\* difference.
Restocked(g, h, s, v) ==
  /\ h.level = [g.level EXCEPT ![s] = v]
  /\ h.houses = g.houses - (HousesOf(v) - HousesOf(g.level[s]))
  /\ h.hotels = g.hotels - (HotelsOf(v) - HotelsOf(g.level[s]))

\* Such an exchange with the bank leaves the stock as it was.
LEMMA RestockedStock ==
  ASSUME NEW g \in GameDoc, NEW h, NEW s \in Square, NEW v \in 0 .. HotelLevel,
         Restocked(g, h, s, v)
  PROVE  Stock(h) = Stock(g)
<1> DEFINE A == SumTo(HousesOn(g.level), Size)
           B == Cardinality(HotelsOn(g.level))
           c == HousesOf(v) - HousesOf(g.level[s])
           d == HotelsOf(v) - HotelsOf(g.level[s])
<1>1. /\ g.level \in [Square -> 0 .. HotelLevel]
      /\ g.houses \in Int /\ g.hotels \in Int /\ HotelLevel \in Nat /\ Size \in Nat
  BY GameAssumption DEF GameDoc
<1>2. SumTo(HousesOn(h.level), Size) = A + c /\ Cardinality(HotelsOn(h.level)) = B + d
  BY <1>1, HousesCount, HotelsCount DEF Restocked
<1>3. h.houses = g.houses - c /\ h.hotels = g.hotels - d
  BY DEF Restocked
<1>4. c \in Int /\ d \in Int
  BY <1>1 DEF HousesOf, HotelsOf
<1>5. A \in Int
  <2>1. HousesOn(g.level) \in [1 .. Size -> Int]
    BY <1>1 DEF HousesOn, HousesOf, Square
  <2> QED BY <1>1, <2>1, SumToInt
<1>6. B \in Int
  <2>1. IsFiniteSet(Square) /\ HotelsOn(g.level) \subseteq Square
    BY <1>1, FS_Interval DEF Square, HotelsOn
  <2>2. B \in Nat
    BY <2>1, FS_Subset, FS_CardinalityType
  <2> QED BY <2>2
<1> HIDE DEF A, B, c, d
<1>7. h.houses + (A + c) = g.houses + A /\ h.hotels + (B + d) = g.hotels + B
  BY <1>1, <1>3, <1>4, <1>5, <1>6
<1> QED BY <1>2, <1>7 DEF Stock, A, B

\* Building and selling are of that kind.
LEMMA BuildRestocks ==
  ASSUME NEW g \in GameDoc, NEW p \in Player, NEW s \in Square, MayBuild(g, p, s)
  PROVE  Restocked(g, Build(g, p, s), s, g.level[s] + 1) /\ g.level[s] + 1 \in 0 .. HotelLevel
<1>1. /\ g.level[s] \in 0 .. HotelLevel /\ g.level[s] < HotelLevel /\ HotelLevel \in Nat
      /\ g.houses \in Int /\ g.hotels \in Int
  BY GameAssumption DEF GameDoc, MayBuild
<1>2. Build(g, p, s).level = [g.level EXCEPT ![s] = g.level[s] + 1]
  BY DEF Build, StockAfterBuilding, GameDoc
<1>3. CASE g.level[s] = HotelLevel - 1
  <2>1. Build(g, p, s).houses = g.houses + g.level[s] /\ Build(g, p, s).hotels = g.hotels - 1
    BY <1>3 DEF Build, StockAfterBuilding, GameDoc
  <2> QED BY <1>1, <1>2, <1>3, <2>1 DEF Restocked, HousesOf, HotelsOf
<1>4. CASE g.level[s] # HotelLevel - 1
  <2>1. Build(g, p, s).houses = g.houses - 1 /\ Build(g, p, s).hotels = g.hotels
    BY <1>4 DEF Build, StockAfterBuilding, GameDoc
  <2> QED BY <1>1, <1>2, <1>4, <2>1 DEF Restocked, HousesOf, HotelsOf
<1> QED BY <1>3, <1>4

\* Selling a building is such an exchange.
LEMMA SellRestocks ==
  ASSUME NEW g \in GameDoc, NEW p \in Player, NEW s \in Square, MaySell(g, p, s)
  PROVE  Restocked(g, Sell(g, p, s), s, g.level[s] - 1) /\ g.level[s] - 1 \in 0 .. HotelLevel
<1>1. /\ g.level[s] \in 0 .. HotelLevel /\ g.level[s] > 0 /\ HotelLevel \in Nat
      /\ g.houses \in Int /\ g.hotels \in Int
  BY GameAssumption DEF GameDoc, MaySell
<1>2. Sell(g, p, s).level = [g.level EXCEPT ![s] = g.level[s] - 1]
  BY DEF Sell, StockAfterSelling, GameDoc
<1>3. CASE g.level[s] = HotelLevel
  <2>1. /\ Sell(g, p, s).houses = g.houses - (HotelLevel - 1)
        /\ Sell(g, p, s).hotels = g.hotels + 1
    BY <1>3 DEF Sell, StockAfterSelling, GameDoc
  <2> QED BY <1>1, <1>2, <1>3, <2>1 DEF Restocked, HousesOf, HotelsOf
<1>4. CASE g.level[s] # HotelLevel
  <2>1. Sell(g, p, s).houses = g.houses + 1 /\ Sell(g, p, s).hotels = g.hotels
    BY <1>4 DEF Sell, StockAfterSelling, GameDoc
  <2> QED BY <1>1, <1>2, <1>4, <2>1 DEF Restocked, HousesOf, HotelsOf
<1> QED BY <1>3, <1>4

\* The buildings there are, on the squares of a player and on the others.
LEMMA BuildingsSplit ==
  ASSUME NEW g \in GameDoc, NEW p \in Player
  PROVE  /\ SumTo(HousesOn(g.level), Size)
              = SumTo(HousesOn(Cleared(g, p)), Size) + Houses(g, g.owned[p])
         /\ Cardinality(HotelsOn(g.level))
              = Cardinality(HotelsOn(Cleared(g, p))) + Cardinality(Hotels(g, g.owned[p]))
<1> DEFINE S == g.owned[p]
           x == HousesOn(Cleared(g, p))
           y == [s \in Square |-> IF s \in S \ Hotels(g, S) THEN g.level[s] ELSE 0]
           z == HousesOn(g.level)
           A == HotelsOn(Cleared(g, p))
           B == Hotels(g, S)
<1>1. /\ g.level \in [Square -> 0 .. HotelLevel] /\ S \subseteq Square
      /\ HotelLevel \in Nat /\ HotelLevel # 0 /\ Size \in Nat
  BY GameAssumption DEF GameDoc
<1>2. x \in [1 .. Size -> Int] /\ z \in [1 .. Size -> Int]
  BY <1>1 DEF HousesOn, HousesOf, Cleared, Square
<1>3. y \in [1 .. Size -> Int]
  BY <1>1 DEF Square
<1>4. ASSUME NEW s \in 1 .. Size PROVE z[s] = x[s] + y[s]
  <2>1. s \in Square /\ g.level[s] \in Int
    BY <1>1 DEF Square
  <2>2. z[s] = HousesOf(g.level[s])
    BY <2>1 DEF HousesOn
  <2>3. x[s] = HousesOf(IF s \in S THEN 0 ELSE g.level[s])
    BY <2>1 DEF HousesOn, Cleared
  <2>4. y[s] = IF s \in S /\ g.level[s] # HotelLevel THEN g.level[s] ELSE 0
    BY <2>1 DEF Hotels
  <2> HIDE DEF x, y, z, S
  <2> QED BY <1>1, <2>1, <2>2, <2>3, <2>4 DEF HousesOf
<1>5. Houses(g, S) = SumTo(y, Size)
  BY DEF Houses
<1>6. HotelsOn(g.level) = A \cup B /\ A \cap B = {}
  <2>1. \A s : s \in HotelsOn(g.level) <=> s \in Square /\ g.level[s] = HotelLevel
    BY DEF HotelsOn
  <2>2. \A s : s \in B <=> s \in S /\ g.level[s] = HotelLevel
    BY DEF Hotels
  <2>3. \A s : s \in A <=> s \in Square \ S /\ g.level[s] = HotelLevel
    BY <1>1 DEF HotelsOn, Cleared
  <2> HIDE DEF A, B, S
  <2> QED BY <1>1, <2>1, <2>2, <2>3
<1>7. IsFiniteSet(A) /\ IsFiniteSet(B)
  <2>1. IsFiniteSet(Square)
    BY <1>1, FS_Interval DEF Square
  <2>2. A \subseteq Square /\ B \subseteq Square
    BY <1>1 DEF HotelsOn, Hotels
  <2> QED BY <2>1, <2>2, FS_Subset
<1> HIDE DEF x, y, z, A, B
<1>8. SumTo(z, Size) = SumTo(x, Size) + SumTo(y, Size)
  BY <1>1, <1>2, <1>3, <1>4, SumAdded
<1>9. Cardinality(A \cup B) = Cardinality(A) + Cardinality(B)
  <2>1. Cardinality(A \cup B)
          = Cardinality(A) + Cardinality(B) - Cardinality(A \cap B)
    BY <1>7, FS_Union
  <2>2. Cardinality(A \cap B) = 0
    BY <1>6, FS_EmptySet
  <2>3. Cardinality(A) \in Nat /\ Cardinality(B) \in Nat
    BY <1>7, FS_CardinalityType
  <2> QED BY <2>1, <2>2, <2>3
<1> QED BY <1>5, <1>6, <1>8, <1>9 DEF x, z, A, B

\* What the bank takes back is what leaves the board.
LEMMA RestoredStock ==
  ASSUME NEW g \in GameDoc, NEW p \in Player
  PROVE  Stock(Eliminate(ReturnToBank(RestoreStock(g, p), p), p)) = Stock(g)
<1> DEFINE h == Eliminate(ReturnToBank(RestoreStock(g, p), p), p)
           a == SumTo(HousesOn(Cleared(g, p)), Size)
           b == Houses(g, g.owned[p])
           c == Cardinality(HotelsOn(Cleared(g, p)))
           d == Cardinality(Hotels(g, g.owned[p]))
<1>1. h.level = Cleared(g, p) /\ h.houses = g.houses + b /\ h.hotels = g.hotels + d
  BY DEF Eliminate, ReturnToBank, RestoreStock, Cleared, GameDoc
<1>2. g.houses \in Int /\ g.hotels \in Int /\ b \in Int /\ d \in Int
  <2>1. g.houses \in Int /\ g.hotels \in Int /\ g.owned[p] \in SUBSET Square
    BY DEF GameDoc
  <2>2. b \in Int /\ d \in Nat
    BY <2>1, BuildingsAreInt
  <2> QED BY <2>1, <2>2
<1>3. a \in Int /\ c \in Int
  <2>1. /\ g.level \in [Square -> 0 .. HotelLevel]
        /\ HotelLevel \in Nat /\ Size \in Nat
    BY GameAssumption DEF GameDoc
  <2>2. HousesOn(Cleared(g, p)) \in [1 .. Size -> Int]
    BY <2>1 DEF HousesOn, HousesOf, Cleared, Square
  <2>3. IsFiniteSet(Square) /\ HotelsOn(Cleared(g, p)) \subseteq Square
    BY <2>1, FS_Interval DEF Square, HotelsOn
  <2>4. c \in Nat
    BY <2>3, FS_Subset, FS_CardinalityType
  <2> QED BY <2>1, <2>2, <2>4, SumToInt
<1>4. SumTo(HousesOn(g.level), Size) = a + b /\ Cardinality(HotelsOn(g.level)) = c + d
  BY BuildingsSplit
<1>5. Stock(h) = <<(g.houses + b) + a, (g.hotels + d) + c>>
  BY <1>1 DEF Stock
<1>6. Stock(g) = <<g.houses + (a + b), g.hotels + (c + d)>>
  BY <1>4 DEF Stock
<1> HIDE DEF h, a, b, c, d
<1>7. (g.houses + b) + a = g.houses + (a + b) /\ (g.hotels + d) + c = g.hotels + (c + d)
  BY <1>2, <1>3
<1> QED BY <1>5, <1>6, <1>7 DEF h

\* So a surrender keeps the stock,
LEMMA ResolveSurrenderStock ==
  ASSUME NEW g, Playing(g)
  PROVE  Stock(ResolveSurrender(g, g.current)) = Stock(g)
<1> DEFINE p == g.current
           b == [q \in Player |-> g.balance[q] + CashShare(g, p, q)]
           shared == [g EXCEPT !.balance = b]
           stocked == RestoreStock(shared, p)
           gone == Eliminate(ReturnToBank(stocked, p), p)
<1>1. g \in GameDoc /\ p \in Player /\ p \notin g.out
  BY DEF Playing, GameDoc
<1>2. ResolveSurrender(g, p) = LeaveGame(gone, p)
  BY <1>1 DEF ResolveSurrender
<1>3. b \in [Player -> Int]
  BY <1>1, CashShareIsInt DEF GameDoc
<1> HIDE DEF b
<1>4. shared \in GameDoc /\ Stock(shared) = Stock(g)
  <2>1. shared \in GameDoc
    BY <1>1, <1>3, SetBalance DEF Kept
  <2>2. shared.level = g.level /\ shared.houses = g.houses /\ shared.hotels = g.hotels
    BY <1>1 DEF GameDoc
  <2> QED BY <2>1, <2>2 DEF Stock
<1> HIDE DEF shared
<1>5. Stock(gone) = Stock(g)
  BY <1>1, <1>4, RestoredStock
<1>6. gone \in GameDoc
  <2>1. stocked \in GameDoc
    BY <1>1, <1>4, RestoreStockKept DEF Kept
  <2>2. ReturnToBank(stocked, p) \in GameDoc
    BY <1>1, <2>1, ReturnToBankKept DEF Kept
  <2> QED BY <1>1, <2>2, EliminateLeaves DEF EliminateTyped
<1> HIDE DEF gone
<1>7. Goods(LeaveGame(gone, p)) = Goods(gone)
  BY <1>6, DepartureGoods
<1> QED BY <1>2, <1>5, <1>7 DEF Goods, Buildings, Stock

\* and so does whoever gives up.
LEMMA GivingUpStock ==
  ASSUME Sound(game), GivesUp
  PROVE  Stock(game') = Stock(game)
<1>1. PICK h : /\ Playing(h) /\ Goods(h) = Goods(game) /\ h.current = game.current
               /\ Goods(game') = Goods(ResolveSurrender(h, h.current))
               /\ h.out = game.out /\ game'.out = ResolveSurrender(h, h.current).out
  BY GivingUp
<1> DEFINE k == ResolveSurrender(h, h.current)
<1>2. Stock(k) = Stock(h)
  BY <1>1, ResolveSurrenderStock
<1> HIDE DEF k
<1>3. Stock(game') = Stock(k) /\ Stock(h) = Stock(game)
  BY <1>1 DEF k, Goods, Buildings, Stock
<1> QED BY <1>2, <1>3

\* Commands other than building, selling and eliminations touch no building.
LEMMA StepBuildings ==
  ASSUME Sound(game), Orderly(game), [Next]_game
  PROVE  \/ Buildings(game') = Buildings(game)
         \/ GivesUp
         \/ \E p \in Player : DeclareBankruptcy(p)
         \/ \E p \in Player, s \in Square : BuildHouse(p, s) \/ SellHouse(p, s)
<1>1. CASE UNCHANGED game
  BY <1>1
<1>2. CASE SchedulerCommand
  <2>1. 1 \in Player
    BY Sizes DEF Player
  <2>2. CASE AdvanceAuction
    BY <2>1, <2>2, PlainCommandGoods DEF Goods
  <2>3. CASE ExpireTrade
    BY <2>1, <2>3, RefusalGoods
  <2>4. CASE TurnTimeout
    BY <2>4, TurnTimeoutGoods DEF Goods, GivesUp
  <2> QED BY <1>2, <2>2, <2>3, <2>4 DEF SchedulerCommand
<1>3. ASSUME NEW p \in Player, PlayerCommand(p), ~ DeclareBankruptcy(p),
             ~ \E s \in Square : BuildHouse(p, s) \/ SellHouse(p, s)
      PROVE  Buildings(game') = Buildings(game) \/ GivesUp
  <2>1. CASE RollDice(p) \/ UseJailCard(p)
    BY <2>1, RollDiceGoods, UseJailCardGoods
  <2>2. CASE \/ BuyProperty(p) \/ PassBuy(p) \/ EndTurn(p) \/ PayJailFine(p)
             \/ \E s \in Square : MortgageProperty(p, s) \/ UnmortgageProperty(p, s)
             \/ PlaceBid(p)
    BY <2>2, PlainCommandGoods DEF Goods
  <2>3. CASE Surrender(p)
    BY <2>3 DEF GivesUp
  <2>4. CASE ProposeTrade(p) \/ CounterTrade(p)
    BY <2>4, OfferGoods
  <2>5. CASE RejectTrade(p)
    BY <2>5, RefusalGoods
  <2>6. CASE AcceptTrade(p)
    BY <2>6, AcceptTradeGoods
  <2> QED BY <1>3, <2>1, <2>2, <2>3, <2>4, <2>5, <2>6 DEF PlayerCommand
<1> QED BY <1>1, <1>2, <1>3 DEF Next

\* So the stock stays unless somebody goes bankrupt to the bank.
LEMMA StepKeepsStock ==
  ASSUME Sound(game), Orderly(game), [Next]_game, \A p \in Player : ~Foreclosed(p)
  PROVE  Stock(game') = Stock(game)
<1>1. game \in GameDoc
  BY DEF Sound
<1>2. ASSUME NEW h, Buildings(game') = Buildings(h) PROVE Stock(game') = Stock(h)
  BY <1>2 DEF Buildings, Stock
<1>3. ASSUME NEW p \in Player, NEW s \in Square, BuildHouse(p, s)
      PROVE  Stock(game') = Stock(game)
  <2>1. MayBuild(game, p, s) /\ Buildings(game') = Buildings(Build(game, p, s))
    BY <1>3, EstateGoods DEF BuildHouse
  <2> QED BY <1>1, <1>2, <2>1, BuildRestocks, RestockedStock
<1>4. ASSUME NEW p \in Player, NEW s \in Square, SellHouse(p, s)
      PROVE  Stock(game') = Stock(game)
  <2>1. MaySell(game, p, s) /\ Buildings(game') = Buildings(Sell(game, p, s))
    BY <1>4, EstateGoods DEF SellHouse
  <2> QED BY <1>1, <1>2, <2>1, SellRestocks, RestockedStock
<1>5. ASSUME NEW p \in Player, DeclareBankruptcy(p) PROVE Stock(game') = Stock(game)
  <2>1. game.debt.creditor # NoOne
    BY <1>5 DEF Foreclosed
  <2> QED BY <1>2, <1>5, <2>1, BankruptcyGoods
<1>6. CASE GivesUp
  BY <1>6, GivingUpStock
<1> QED BY <1>2, <1>3, <1>4, <1>5, <1>6, StepBuildings

\* Unless a player goes bankrupt to the bank, houses and hotels only move between the
\* bank and the board, whoever surrenders or is taken out with buildings.
THEOREM StockIsConserved == Spec => StockConserved
<1>1. Sound(game) /\ Orderly(game) /\ [Next]_game =>
        [(\A p \in Player : ~Foreclosed(p)) =>
           /\ game'.houses + Houses(game', Square) = game.houses + Houses(game, Square)
           /\ game'.hotels + Cardinality(Hotels(game', Square))
                = game.hotels + Cardinality(Hotels(game, Square))]_game
  <2> SUFFICES ASSUME Sound(game), Orderly(game), [Next]_game,
                      \A p \in Player : ~Foreclosed(p)
               PROVE  /\ game'.houses + Houses(game', Square) = game.houses + Houses(game, Square)
                      /\ game'.hotels + Cardinality(Hotels(game', Square))
                           = game.hotels + Cardinality(Hotels(game, Square))
    OBVIOUS
  <2>1. game \in GameDoc /\ game' \in GameDoc
    BY StepContinues DEF Continues, Sound
  <2>2. Stock(game') = Stock(game)
    BY StepKeepsStock
  <2> QED BY <2>1, <2>2, StockCounts
<1> QED BY <1>1, SpecOrderly, PTL DEF Spec, StockConserved

\* What a command other than an elimination does to the list of the turn holder:
\* only squares without buildings come and go.
Gains(g, h) ==
  \A s \in Square :
    (s \in g.owned[g.current]) # (s \in h.owned[g.current]) => g.level[s] = 0

Quiet(g, h) == h.out = g.out /\ Gains(g, h)

\* A handler that keeps the table and the lists is quiet,
LEMMA KeptQuiet ==
  ASSUME Sound(game), NEW p \in Player, NEW h, Kept(game, h), h.owned = game.owned,
         Play(h, p) \/ PlayOutOfTurn(h, p) \/ Commit(Settled(h))
  PROVE  Quiet(game, game')
<1>1. h \in GameDoc /\ h.out = game.out
  BY DEF Kept, Table
<1>2. game'.out = game.out /\ game'.owned = game.owned
  BY <1>1, PlayGoods, PlayOutOfTurnGoods, CommitGoods
<1> QED BY <1>2 DEF Quiet, Gains

\* and so are these commands.
LEMMA PlainCommandQuiet ==
  ASSUME Sound(game), NEW p \in Player,
         \/ RollDice(p) \/ PassBuy(p) \/ PayJailFine(p) \/ UseJailCard(p) \/ PlaceBid(p)
         \/ ProposeTrade(p) \/ CounterTrade(p) \/ RejectTrade(p) \/ ExpireTrade
         \/ \E s \in Square : BuildHouse(p, s) \/ SellHouse(p, s)
         \/ \E s \in Square : MortgageProperty(p, s) \/ UnmortgageProperty(p, s)
  PROVE  Quiet(game, game')
<1>1. game \in GameDoc
  BY DEF Sound
<1>2. CASE RollDice(p)
  <2>1. PICK dice \in Rolls : \E h \in RollOutcomes(game, p, dice) : Play(h, p)
    BY <1>2 DEF RollDice
  <2>2. PICK h \in RollOutcomes(game, p, dice) : Play(h, p)
    BY <2>1
  <2>3. Kept(game, h) /\ h.owned = game.owned
    BY <1>1, RollOutcomesKept, RollOutcomesRolled DEF Rolled
  <2> QED BY <2>2, <2>3, KeptQuiet
<1>3. CASE PassBuy(p)
  <2> DEFINE h == StartAuction(game, game.pending)
  <2>1. Play(h, p) /\ Kept(game, h)
    BY <1>1, <1>3, PendingIsSquare, StartAuctionKept DEF PassBuy
  <2>2. h.owned = game.owned
    BY <1>1 DEF StartAuction, GameDoc
  <2> HIDE DEF h
  <2> QED BY <2>1, <2>2, KeptQuiet
<1>4. CASE PayJailFine(p)
  <2> DEFINE f == Freed(game, p, JailFine)
             h == [f EXCEPT !.phase = "pre_roll"]
  <2>1. Play(h, p) /\ "pre_roll" \in Phases
    BY <1>4 DEF PayJailFine, Freed, Phases
  <2>2. Kept(game, f)
    BY <1>1, JailFineIsInt, FreedKept
  <2>3. f.owned = game.owned
    BY <1>1 DEF Freed, GameDoc
  <2> HIDE DEF f
  <2>4. Kept(game, h)
    BY <2>1, <2>2, SetPhase, KeptIsTransitive DEF Kept
  <2>5. h.owned = f.owned
    BY <2>2 DEF Kept, GameDoc
  <2> HIDE DEF h
  <2> QED BY <2>1, <2>3, <2>4, <2>5, KeptQuiet
<1>5. CASE UseJailCard(p)
  <2> DEFINE h == CardUsed(game, p)
  <2>1. game.cards[p] > 0 /\ Play(h, p)
    BY <1>5 DEF UseJailCard, CardUsed
  <2>2. Kept(game, h)
    BY <1>1, <2>1, CardUsedKept
  <2>3. h.owned = game.owned
    BY <1>1 DEF CardUsed, GameDoc
  <2> HIDE DEF h
  <2> QED BY <2>1, <2>2, <2>3, KeptQuiet
<1>6. CASE PlaceBid(p)
  <2>1. PICK n \in Bids : MayBid(game, p, n) /\ PlayOutOfTurn(PlaceBidBy(game, p, n), p)
    BY <1>6 DEF PlaceBid
  <2>2. n \in Nat /\ game.auction # NoAuction
    BY <2>1, EngineAssumption DEF MayBid
  <2> DEFINE h == PlaceBidBy(game, p, n)
  <2>3. Kept(game, h)
    BY <1>1, <2>2, PlaceBidKept
  <2>4. h.owned = game.owned
    BY <1>1 DEF PlaceBidBy, GameDoc
  <2> HIDE DEF h
  <2> QED BY <2>1, <2>3, <2>4, KeptQuiet DEF h
<1>7. CASE ProposeTrade(p)
  <2>1. PICK q \in Player, o \in Offers, r \in Offers :
          MayPropose(game, p, q, o, r) /\ Play(Propose(game, p, q, o, r), p)
    BY <1>7 DEF ProposeTrade
  <2> DEFINE h == Propose(game, p, q, o, r)
  <2>2. o \in Offer /\ r \in Offer /\ game.offers < MaxOffers
    BY <2>1, EngineAssumption DEF MayPropose
  <2>3. Kept(game, h)
    BY <1>1, <2>2, ProposeKept
  <2>4. h.owned = game.owned
    BY <1>1 DEF Propose, GameDoc
  <2> HIDE DEF h
  <2> QED BY <2>1, <2>3, <2>4, KeptQuiet DEF h
<1>8. CASE CounterTrade(p)
  <2>1. PICK o \in Offers : MayCounter(game, p, o) /\ PlayOutOfTurn(Counter(game, o), p)
    BY <1>8 DEF CounterTrade
  <2> DEFINE h == Counter(game, o)
  <2>2. o \in Offer /\ game.trade # NoTrade
    BY <2>1, EngineAssumption DEF MayCounter
  <2>3. Kept(game, h)
    BY <1>1, <2>2, CounterKept
  <2>4. h.owned = game.owned
    BY <1>1 DEF Counter, GameDoc
  <2> HIDE DEF h
  <2> QED BY <2>1, <2>3, <2>4, KeptQuiet DEF h
<1>9. CASE RejectTrade(p) \/ ExpireTrade
  <2> DEFINE h == CloseTrade(game)
  <2>1. Kept(game, h)
    BY <1>1, CloseTradeKept
  <2>2. h.owned = game.owned
    BY <1>1 DEF CloseTrade, GameDoc
  <2>3. PlayOutOfTurn(h, p) \/ Commit(Settled(h))
    BY <1>9 DEF RejectTrade, ExpireTrade
  <2> HIDE DEF h
  <2> QED BY <2>1, <2>2, <2>3, KeptQuiet
<1>10. ASSUME NEW s \in Square, BuildHouse(p, s) PROVE Quiet(game, game')
  <2> DEFINE h == Build(game, p, s)
  <2>1. Kept(game, h) /\ Play(h, p)
    BY <1>1, <1>10, BuildKept DEF BuildHouse
  <2>2. h.owned = game.owned
    BY <1>1 DEF Build, StockAfterBuilding, GameDoc
  <2> HIDE DEF h
  <2> QED BY <2>1, <2>2, KeptQuiet
<1>11. ASSUME NEW s \in Square, SellHouse(p, s) PROVE Quiet(game, game')
  <2> DEFINE h == Sell(game, p, s)
  <2>1. Kept(game, h) /\ Play(h, p)
    BY <1>1, <1>11, SellKept DEF SellHouse
  <2>2. h.owned = game.owned
    BY <1>1 DEF Sell, StockAfterSelling, GameDoc
  <2> HIDE DEF h
  <2> QED BY <2>1, <2>2, KeptQuiet
<1>12. ASSUME NEW s \in Square, MortgageProperty(p, s) PROVE Quiet(game, game')
  <2> DEFINE h == Mortgage(game, p, s)
  <2>1. Kept(game, h) /\ Play(h, p)
    BY <1>1, <1>12, MortgageKept DEF MortgageProperty
  <2>2. h.owned = game.owned
    BY <1>1 DEF Mortgage, GameDoc
  <2> HIDE DEF h
  <2> QED BY <2>1, <2>2, KeptQuiet
<1>13. ASSUME NEW s \in Square, UnmortgageProperty(p, s) PROVE Quiet(game, game')
  <2> DEFINE h == Redeem(game, p, s)
  <2>1. Kept(game, h) /\ Play(h, p)
    BY <1>1, <1>13, MortgageKept DEF UnmortgageProperty
  <2>2. h.owned = game.owned
    BY <1>1 DEF Redeem, GameDoc
  <2> HIDE DEF h
  <2> QED BY <2>1, <2>2, KeptQuiet
<1> QED BY <1>2, <1>3, <1>4, <1>5, <1>6, <1>7, <1>8, <1>9, <1>10, <1>11, <1>12, <1>13

\* Bought squares carry no building, nor do traded ones.
LEMMA OtherCommandQuiet ==
  ASSUME Sound(game), Orderly(game), NEW p \in Player,
         BuyProperty(p) \/ EndTurn(p) \/ AcceptTrade(p)
  PROVE  Quiet(game, game')
<1>1. game \in GameDoc /\ game.current \in Player
  BY DEF Sound, GameDoc
<1>2. CASE BuyProperty(p)
  <2> DEFINE s == game.pending
             h == Bought(game, p, s)
  <2>1. p = game.current /\ s \in Square /\ game.owner[s] = NoOne /\ Play(h, p)
    BY <1>1, <1>2, PendingIsSquare DEF BuyProperty, HoldsTurn
  <2>2. Kept(game, h)
    BY <1>1, <2>1, BoughtKept
  <2>3. h.owned = [game.owned EXCEPT ![p] = @ \cup {s}]
    BY <1>1 DEF Bought, GameDoc
  <2>4. game.level[s] = 0
    <3>1. game.level[s] \in Nat /\ ~ (game.level[s] > 0)
      BY <1>1, <2>1, Sizes DEF Orderly, Settlement, Built, GameDoc
    <3> QED BY <3>1
  <2> HIDE DEF h, s
  <2>5. game'.out = game.out /\ game'.owned = h.owned
    BY <2>1, <2>2, PlayGoods DEF Kept, Table
  <2>6. h.owned[p] = game.owned[p] \cup {s}
    BY <1>1, <2>3 DEF GameDoc
  <2> QED BY <2>1, <2>4, <2>5, <2>6 DEF Quiet, Gains
<1>3. CASE EndTurn(p)
  <2> DEFINE q == NextInList(game, p)
             h == StartTurn(game, q)
  <2>1. p \in Survivors(game) /\ Play(h, p)
    BY <1>3 DEF EndTurn, Survivors
  <2>2. q \in Player
    BY <2>1, NextInListIsNextActive, NextActiveSurvives DEF Survivors
  <2> HIDE DEF q
  <2>3. h \in GameDoc
    BY <1>1, <2>2, StartTurnTyped
  <2>4. h.out = game.out /\ h.owned = game.owned
    BY <1>1 DEF StartTurn, GameDoc
  <2> HIDE DEF h
  <2>5. game'.out = game.out /\ game'.owned = game.owned
    BY <2>1, <2>3, <2>4, PlayGoods
  <2> QED BY <2>5 DEF Quiet, Gains
<1>4. CASE AcceptTrade(p)
  <2> DEFINE h == ExecuteTrade(game)
             a == game.trade.proposer
             b == game.trade.target
             o == game.trade.offer
             r == game.trade.request
  <2>1. MayAccept(game, p) /\ PlayOutOfTurn(h, p)
    BY <1>4 DEF AcceptTrade
  <2>2. Kept(game, h)
    BY <1>1, <2>1, ExecuteTradeKept
  <2>3. h.owned = [game.owned EXCEPT ![a] = (@ \ o.squares) \cup r.squares,
                                     ![b] = (@ \cup o.squares) \ r.squares]
    BY <1>1 DEF ExecuteTrade, CloseTrade, GameDoc
  <2>4. \A s \in o.squares \cup r.squares : game.level[s] = 0
    BY <2>1 DEF MayAccept, ValidOffer
  <2> HIDE DEF h, a, b, o, r
  <2>5. game'.out = game.out /\ game'.owned = h.owned
    BY <2>1, <2>2, PlayOutOfTurnGoods DEF Kept, Table
  <2>6. \A c \in Player, s \in Square :
          s \notin o.squares \cup r.squares => (s \in h.owned[c] <=> s \in game.owned[c])
    BY <1>1, <2>3 DEF GameDoc
  <2> QED BY <1>1, <2>4, <2>5, <2>6 DEF Quiet, Gains
<1> QED BY <1>2, <1>3, <1>4

\* An auction that ends takes nobody out.
LEMMA AdvanceAuctionOut ==
  ASSUME Sound(game), AdvanceAuction
  PROVE  game'.out = game.out
<1> DEFINE h == ResolveAuction(game)
<1>1. Kept(game, h) /\ Commit(Settled(h))
  BY ResolveAuctionKept DEF Sound, AdvanceAuction
<1> HIDE DEF h
<1> QED BY <1>1, CommitGoods DEF Kept, Table

\* A player leaves a game in progress with nothing on its list.
LEMMA LeavesEmptyHanded ==
  ASSUME Sound(game), NEW p \in Player,
         \/ DeclareBankruptcy(p)
         \/ Surrender(p)
         \/ TurnTimeout /\ game'.out # game.out
  PROVE  game'.owned[game.current] = {}
<1>1. game \in GameDoc /\ game.current \in Player
  BY DEF Sound, GameDoc
<1>2. CASE DeclareBankruptcy(p)
  <2>1. p = game.current /\ Play(ResolveBankruptcy(game, p), p)
    BY <1>2 DEF DeclareBankruptcy, HoldsTurn
  <2>2. ResolveBankruptcy(game, p) \in GameDoc
    BY <2>1, ResolveBankruptcySound DEF Sound
  <2> QED BY <1>1, <2>1, <2>2, PlayGoods, ResolveBankruptcyOut
<1>3. CASE Surrender(p)
  <2>1. p = game.current /\ p \notin game.out /\ Play(ResolveSurrender(game, p), p)
    BY <1>3 DEF Surrender, HoldsTurn
  <2>2. Playing(game)
    BY <2>1, SoundIsPlaying
  <2>3. /\ ResolveSurrender(game, p) \in GameDoc
        /\ ResolveSurrender(game, p).owned[p] = {}
    BY <2>1, <2>2, ResolveSurrenderSound, ResolveSurrenderTrade DEF Sound
  <2> QED BY <2>1, <2>3, PlayGoods
<1>4. CASE TurnTimeout /\ game'.out # game.out
  <2>1. PICK h : Struck(h)
    BY <1>4, TimeoutSurrenders
  <2> QED BY <2>1, ResolveSurrenderTrade, CommitGoods DEF Struck
<1> QED BY <1>2, <1>3, <1>4

\* In a finished game the last leaver keeps the turn and may come to own squares
\* again: whatever is built on one of them, no square of its group that it does
\* not own carries a building.
Closing(g) ==
  g.status = "finished" =>
    \A s \in g.owned[g.current] : g.level[s] > 0 =>
      \A t \in GroupOf(s) \ g.owned[g.current] : g.level[t] = 0

\* A command of a finished game.
LEMMA FinishedCommand ==
  ASSUME Sound(game), Orderly(game), [Next]_game, game.status = "finished"
  PROVE  \/ UNCHANGED game
         \/ \E p \in Player : DeclareBankruptcy(p)
         \/ \E p \in Player, s \in Square : BuildHouse(p, s) \/ SellHouse(p, s)
         \/ Quiet(game, game') /\ game'.level = game.level
<1>1. CASE SchedulerCommand
  BY <1>1 DEF SchedulerCommand, AdvanceAuction, ExpireTrade, TurnTimeout
<1>2. ASSUME NEW p \in Player, PlayerCommand(p), ~ DeclareBankruptcy(p),
             ~ \E s \in Square : BuildHouse(p, s) \/ SellHouse(p, s)
      PROVE  Quiet(game, game')
  <2>1. ~ Surrender(p)
    BY DEF Surrender, HoldsTurn, Sound, TableOK
  <2>2. CASE BuyProperty(p) \/ EndTurn(p) \/ AcceptTrade(p)
    BY <2>2, OtherCommandQuiet
  <2> QED BY <1>2, <2>1, <2>2, PlainCommandQuiet DEF PlayerCommand
<1>3. ASSUME NEW p \in Player, DeclareBankruptcy(p) PROVE \E q \in Player : DeclareBankruptcy(q)
  BY <1>3
<1>4. Buildings(game') = Buildings(game) => game'.level = game.level
  BY DEF Buildings
<1>5. ~ GivesUp
  BY DEF GivesUp, TurnTimeout, Surrender, HoldsTurn, Sound, TableOK
<1> QED BY <1>1, <1>2, <1>4, <1>5, StepBuildings DEF Next

\* Every command keeps that so.
LEMMA StepClosing ==
  ASSUME Sound(game), Orderly(game), Closing(game), [Next]_game
  PROVE  Closing(game')
<1> DEFINE c == game.current
<1>1. game \in GameDoc /\ game' \in GameDoc /\ c \in Player
  BY StepContinues DEF Continues, Sound, GameDoc
<1>2. SUFFICES ASSUME game'.status = "finished" PROVE Closing(game')
  BY DEF Closing
<1>3. game'.current = c
  <2>1. \E w \in Player : Survivors(game') = {w}
    BY <1>2, StepContinues DEF Continues, Sound, TableOK
  <2>2. game'.winner # NoOne
    BY <1>2, <2>1, StepContinues DEF Continues, Sound, TableOK, Survivors, NoOne, Player
  <2> QED BY <2>1, <2>2, StepContinues DEF Continues, Stays, Passes, Leaves
<1>4. CASE game'.owned[c] = {}
  BY <1>3, <1>4 DEF Closing
<1>5. CASE game.status # "finished"
  <2>1. game.status = "in_progress"
    BY <1>1, <1>5 DEF GameDoc
  <2>2. game'.out # game.out
    <3>1. \E w \in Player : Survivors(game') = {w}
      BY <1>2, StepContinues DEF Continues, Sound, TableOK
    <3>2. ~ \E w \in Player : Survivors(game) = {w}
      BY <1>5 DEF Sound, TableOK
    <3> QED BY <3>1, <3>2 DEF Survivors
  <2>3. 1 \in Player
    BY Sizes DEF Player
  <2>4. CASE SchedulerCommand
    <3>1. ~ AdvanceAuction
      BY <2>2, AdvanceAuctionOut
    <3>2. ~ ExpireTrade
      BY <2>2, <2>3, PlainCommandQuiet DEF Quiet
    <3> QED BY <1>4, <2>2, <2>3, <2>4, <3>1, <3>2, LeavesEmptyHanded DEF SchedulerCommand
  <2>5. ASSUME NEW p \in Player, PlayerCommand(p) PROVE game'.owned[c] = {}
    <3>1. CASE DeclareBankruptcy(p) \/ Surrender(p)
      BY <3>1, LeavesEmptyHanded
    <3>2. CASE BuyProperty(p) \/ EndTurn(p) \/ AcceptTrade(p)
      BY <2>2, <3>2, OtherCommandQuiet DEF Quiet
    <3>3. Quiet(game, game') => FALSE
      BY <2>2 DEF Quiet
    <3> QED BY <2>5, <3>1, <3>2, <3>3, PlainCommandQuiet DEF PlayerCommand
  <2> QED BY <1>4, <2>2, <2>4, <2>5 DEF Next
<1>6. CASE game.status = "finished"
  <2>1. /\ game.level \in [Square -> Nat] /\ game'.level \in [Square -> Nat]
        /\ game.owned[c] \subseteq Square
    BY <1>1, Sizes DEF GameDoc
  <2>2. \A s \in game.owned[c] : game.level[s] > 0 =>
          \A t \in GroupOf(s) \ game.owned[c] : game.level[t] = 0
    BY <1>6 DEF Closing
  <2>3. CASE UNCHANGED game
    BY <2>3
  <2>4. CASE \E p \in Player : DeclareBankruptcy(p)
    BY <1>4, <2>4, LeavesEmptyHanded
  <2>5. ASSUME NEW p \in Player, NEW s \in Square, BuildHouse(p, s) \/ SellHouse(p, s)
        PROVE  Closing(game')
    <3>1. p = c
      BY <2>5 DEF BuildHouse, SellHouse, HoldsTurn
    <3>2. game'.owned = game.owned
      <4>1. CASE BuildHouse(p, s)
        <5>1. Build(game, p, s) \in GameDoc /\ Play(Build(game, p, s), p)
          BY <1>1, <4>1, BuildKept DEF BuildHouse, Kept
        <5>2. Build(game, p, s).owned = game.owned
          BY <1>1 DEF Build, StockAfterBuilding, GameDoc
        <5> QED BY <5>1, <5>2, PlayGoods
      <4>2. CASE SellHouse(p, s)
        <5>1. Sell(game, p, s) \in GameDoc /\ Play(Sell(game, p, s), p)
          BY <1>1, <4>2, SellKept DEF SellHouse, Kept
        <5>2. Sell(game, p, s).owned = game.owned
          BY <1>1 DEF Sell, StockAfterSelling, GameDoc
        <5> QED BY <5>1, <5>2, PlayGoods
      <4> QED BY <2>5, <4>1, <4>2
    <3>3. CASE BuildHouse(p, s)
      <4>1. MayBuild(game, p, s) /\ game'.level = [game.level EXCEPT ![s] = game.level[s] + 1]
        BY <1>1, <3>3, EstateGoods, BuildRestocks DEF BuildHouse, Buildings, Restocked
      <4>2. GroupOf(s) \subseteq game.owned[c] /\ s \in GroupOf(s)
        BY <3>1, <4>1 DEF MayBuild, Orderly, Settlement, Listed, GroupOf
      <4>3. ASSUME NEW u \in game.owned[c], game'.level[u] > 0,
                   NEW t \in GroupOf(u) \ game.owned[c]
            PROVE  game'.level[t] = 0
        <5>1. t \notin GroupOf(s) /\ u \notin GroupOf(s) /\ t \in Square
          BY <2>1, <4>2, <4>3 DEF GroupOf
        <5>2. game'.level[t] = game.level[t] /\ game'.level[u] = game.level[u]
          BY <2>1, <4>1, <4>2, <5>1
        <5> QED BY <2>2, <4>3, <5>2
      <4> QED BY <1>3, <3>2, <4>3 DEF Closing
    <3>4. CASE SellHouse(p, s)
      <4>1. MaySell(game, p, s) /\ game'.level = [game.level EXCEPT ![s] = game.level[s] - 1]
        BY <1>1, <3>4, EstateGoods, SellRestocks DEF SellHouse, Buildings, Restocked
      <4>2. \A u \in Square : game'.level[u] <= game.level[u]
        BY <2>1, <4>1
      <4>3. ASSUME NEW u \in game.owned[c], game'.level[u] > 0,
                   NEW t \in GroupOf(u) \ game.owned[c]
            PROVE  game'.level[t] = 0
        <5>1. t \in Square /\ u \in Square
          BY <2>1 DEF GroupOf
        <5>2. game.level[u] > 0
          BY <2>1, <4>2, <4>3, <5>1
        <5>3. game.level[t] = 0
          BY <2>2, <5>2
        <5> QED BY <2>1, <4>2, <5>1, <5>3
      <4> QED BY <1>3, <3>2, <4>3 DEF Closing
    <3> QED BY <2>5, <3>3, <3>4
  <2>6. CASE Quiet(game, game') /\ game'.level = game.level
    <3>1. game'.owned[c] \subseteq Square
      BY <1>1 DEF GameDoc
    <3>2. ASSUME NEW s \in game'.owned[c], game.level[s] > 0,
                 NEW t \in GroupOf(s) \ game'.owned[c]
          PROVE  game.level[t] = 0
      <4>1. s \in game.owned[c]
        BY <2>1, <2>6, <3>1, <3>2 DEF Quiet, Gains
      <4>2. t \in Square
        BY DEF GroupOf
      <4>3. CASE t \in game.owned[c]
        <5>1. t \notin game'.owned[c]
          BY <3>2
        <5> QED BY <2>6, <4>2, <4>3, <5>1 DEF Quiet, Gains
      <4>4. CASE t \notin game.owned[c]
        BY <2>2, <3>2, <4>1, <4>4
      <4> QED BY <4>3, <4>4
    <3> QED BY <1>3, <2>6, <3>2 DEF Closing
  <2> QED BY <1>6, <2>3, <2>4, <2>5, <2>6, FinishedCommand
<1> QED BY <1>5, <1>6

\* The buildings of an even group differ by one at most.
Even(x) == \A s \in Square : Street(s) => \A t \in GroupOf(s) : x[s] <= x[t] + 1

\* Building on a lowest square and selling from a highest keep a group even.
LEMMA RaisedEven ==
  ASSUME NEW x \in [Square -> Nat], NEW s \in Square, Even(x), NEW v \in Nat,
         \/ v = x[s] + 1 /\ \A t \in GroupOf(s) : x[s] <= x[t]
         \/ v = x[s] - 1 /\ \A t \in GroupOf(s) : x[t] <= x[s]
  PROVE  Even([x EXCEPT ![s] = v])
<1> DEFINE y == [x EXCEPT ![s] = v]
<1>1. ASSUME NEW u \in Square, Street(u), NEW t \in GroupOf(u) PROVE y[u] <= y[t] + 1
  <2>1. t \in Square /\ x[u] \in Nat /\ x[t] \in Nat /\ x[u] <= x[t] + 1
    BY <1>1 DEF Even, GroupOf
  <2>2. y[u] = (IF u = s THEN v ELSE x[u]) /\ y[t] = IF t = s THEN v ELSE x[t]
    BY <2>1
  <2>3. u = s => t \in GroupOf(s)
    OBVIOUS
  <2>4. t = s => u \in GroupOf(s)
    BY <1>1 DEF GroupOf
  <2>5. s \in GroupOf(s)
    BY DEF GroupOf
  <2> HIDE DEF y
  <2> QED BY <2>1, <2>2, <2>3, <2>4, <2>5
<1> QED BY <1>1 DEF Even

\* A command that takes nobody out keeps even groups even.
LEMMA StepKeepsEven ==
  ASSUME Sound(game), Orderly(game), Closing(game), [Next]_game, game'.out = game.out,
         Even(game.level)
  PROVE  Even(game'.level)
<1>1. game \in GameDoc /\ game.level \in [Square -> Nat]
  <2>1. game \in GameDoc
    BY DEF Sound
  <2>2. HotelLevel \in Nat /\ game.level \in [Square -> 0 .. HotelLevel]
    BY <2>1, GameAssumption DEF GameDoc
  <2>3. 0 .. HotelLevel \subseteq Nat
    BY <2>2
  <2> QED BY <2>1, <2>2, <2>3
<1>2. ASSUME NEW p \in Player, NEW s \in Square, BuildHouse(p, s)
      PROVE  Even(game'.level)
  <2>1. MayBuild(game, p, s) /\ game'.level = [game.level EXCEPT ![s] = game.level[s] + 1]
    BY <1>1, <1>2, EstateGoods, BuildRestocks DEF BuildHouse, Buildings, Restocked
  <2>2. \A t \in GroupOf(s) : game.level[s] <= game.level[t]
    BY <2>1 DEF MayBuild
  <2>3. game.level[s] + 1 \in Nat
    BY <1>1
  <2> QED BY <1>1, <2>1, <2>2, <2>3, RaisedEven
<1>3. ASSUME NEW p \in Player, NEW s \in Square, SellHouse(p, s)
      PROVE  Even(game'.level)
  <2>1. MaySell(game, p, s) /\ game'.level = [game.level EXCEPT ![s] = game.level[s] - 1]
    BY <1>1, <1>3, EstateGoods, SellRestocks DEF SellHouse, Buildings, Restocked
  <2>2. game.level[s] > 0 /\ \A t \in GroupOf(s) : game.level[t] <= game.level[s]
    BY <2>1 DEF MaySell
  <2>3. game.level[s] - 1 \in Nat
    BY <1>1, <2>2
  <2> QED BY <1>1, <2>1, <2>2, <2>3, RaisedEven
<1>4. ASSUME NEW p \in Player, DeclareBankruptcy(p) PROVE Even(game'.level)
  <2>1. game.status = "finished"
    <3>1. game.status # "in_progress"
      BY <1>4, DepartureShows
    <3> QED BY <1>1, <3>1 DEF GameDoc
  <2>2. p = game.current /\ Play(ResolveBankruptcy(game, p), p)
    BY <1>4 DEF DeclareBankruptcy, HoldsTurn
  <2>3. ResolveBankruptcy(game, p) \in GameDoc
    BY <2>2, ResolveBankruptcySound DEF Sound
  <2>4. game'.level \in {game.level, Cleared(game, p)}
    BY <1>1, <2>2, <2>3, PlayGoods, ResolveBankruptcyOut DEF Goods, Buildings
  <2>5. ASSUME NEW s \in Square, Street(s), NEW t \in GroupOf(s)
        PROVE  Cleared(game, p)[s] <= Cleared(game, p)[t] + 1
    <3>1. /\ t \in Square /\ game.level[s] <= game.level[t] + 1
          /\ game.level[s] \in Nat /\ game.level[t] \in Nat
      BY <1>1, <2>5 DEF Even, GroupOf
    <3>2. /\ Cleared(game, p)[s] = IF s \in game.owned[p] THEN 0 ELSE game.level[s]
          /\ Cleared(game, p)[t] = IF t \in game.owned[p] THEN 0 ELSE game.level[t]
      BY <3>1 DEF Cleared
    <3>3. s \in GroupOf(t)
      BY <2>5 DEF GroupOf
    <3>4. t \in game.owned[p] /\ game.level[t] > 0 /\ s \notin game.owned[p]
            => game.level[s] = 0
      BY <2>1, <2>2, <3>3 DEF Closing
    <3> QED BY <3>1, <3>2, <3>4
  <2> QED BY <2>4, <2>5 DEF Even
<1>5. Buildings(game') = Buildings(game) => Even(game'.level)
  BY DEF Buildings
<1>6. ~ GivesUp
  BY GivingUpCards
<1> QED BY <1>2, <1>3, <1>4, <1>5, <1>6, StepBuildings

\* Playing on in a finished game keeps its buildings together.
THEOREM SpecClosing == Spec => []Closing(game)
<1>1. Init => Closing(game)
  BY DEF Init, NewGame, Closing
<1>2. Sound(game) /\ Orderly(game) /\ Closing(game) /\ [Next]_game => Closing(game)'
  BY StepClosing
<1> QED BY <1>1, <1>2, SpecOrderly, PTL DEF Spec

\* No build, sale or trade makes an even group uneven, nor does a bankruptcy that
\* follows the end of the game.
THEOREM GroupsStayEven == Spec => StaysEven
<1>1. Sound(game) /\ Orderly(game) /\ Closing(game) /\ [Next]_game =>
        [EvenGroups(game) /\ game'.out = game.out => EvenGroups(game')]_game
  BY StepKeepsEven DEF EvenGroups, Even
<1> QED BY <1>1, SpecOrderly, SpecClosing, PTL DEF Spec, StaysEven

-----------------------------------------------------------------------------
(***************************************************************************)
(* A surrender divides the leaver's cash to the last unit                  *)
(***************************************************************************)

\* The members of R up to i.
UpTo(R, i) == {r \in R : r <= i}

\* Counting them one after the other.
LEMMA UpToCounts ==
  ASSUME NEW n \in Nat, NEW R \in SUBSET (1 .. n)
  PROVE  /\ \A i \in 0 .. n : Cardinality(UpTo(R, i)) \in Nat
         /\ Cardinality(UpTo(R, 0)) = 0
         /\ Cardinality(UpTo(R, n)) = Cardinality(R)
         /\ \A i \in 1 .. n : Cardinality(UpTo(R, i))
              = Cardinality(UpTo(R, i - 1)) + (IF i \in R THEN 1 ELSE 0)
<1>1. \A r \in R : r \in Int /\ 1 <= r /\ r <= n
  OBVIOUS
<1>2. \A r, i : r \in UpTo(R, i) <=> r \in R /\ r <= i
  BY DEF UpTo
<1>3. ASSUME NEW i PROVE IsFiniteSet(UpTo(R, i))
  <2>1. IsFiniteSet(1 .. n)
    BY FS_Interval
  <2>2. IsFiniteSet(R)
    BY <2>1, FS_Subset
  <2>3. UpTo(R, i) \subseteq R
    BY DEF UpTo
  <2> QED BY <2>2, <2>3, FS_Subset
<1>4. \A i : Cardinality(UpTo(R, i)) \in Nat
  BY <1>3, FS_CardinalityType
<1>5. Cardinality(UpTo(R, 0)) = 0
  <2>1. ASSUME NEW r \in UpTo(R, 0) PROVE FALSE
    <3>1. r \in R /\ r <= 0
      BY <1>2, Zenon
    <3>2. r \in Int /\ 1 <= r
      BY <1>1, <3>1
    <3> QED BY <3>1, <3>2
  <2>2. UpTo(R, 0) = {}
    BY <2>1, Zenon
  <2> QED BY <2>2, FS_EmptySet
<1>6. UpTo(R, n) = R
  <2>1. \A r : r \in UpTo(R, n) <=> r \in R
    BY <1>1, <1>2
  <2> QED BY <2>1, Zenon
<1>7. ASSUME NEW i \in 1 .. n
      PROVE  Cardinality(UpTo(R, i)) = Cardinality(UpTo(R, i - 1)) + (IF i \in R THEN 1 ELSE 0)
  <2>1. i \in Int /\ \A r \in R : r <= i <=> (r <= i - 1 \/ r = i)
    BY <1>1
  <2>2. CASE i \in R
    <3>1. \A r : r \in UpTo(R, i) <=> r \in UpTo(R, i - 1) \cup {i}
      BY <1>1, <1>2, <2>1, <2>2
    <3>2. UpTo(R, i) = UpTo(R, i - 1) \cup {i}
      BY <3>1, Zenon
    <3>3. i \notin UpTo(R, i - 1)
      BY <1>2, <2>1
    <3> QED BY <1>3, <2>2, <3>2, <3>3, FS_AddElement
  <2>3. CASE i \notin R
    <3>1. \A r : r \in UpTo(R, i) <=> r \in UpTo(R, i - 1)
      BY <1>1, <1>2, <2>1, <2>3
    <3>2. UpTo(R, i) = UpTo(R, i - 1)
      BY <3>1, Zenon
    <3> QED BY <1>4, <2>3, <3>2
  <2> QED BY <2>2, <2>3
<1> QED BY <1>4, <1>5, <1>6, <1>7

\* Every member of R gets an equal share of b, the first ones a unit more.
Share(R, b, i) ==
  IF i \in R
  THEN (b \div Cardinality(R)) +
       (IF Cardinality({r \in R : r < i}) < b % Cardinality(R) THEN 1 ELSE 0)
  ELSE 0

Lesser(a, b) == IF a < b THEN a ELSE b

\* What those up to i get together.
SharesUpTo(R, b, i) ==
  (b \div Cardinality(R)) * Cardinality(UpTo(R, i))
    + Lesser(b % Cardinality(R), Cardinality(UpTo(R, i)))

\* One more member gets one more share, and all of them get all there is.
LEMMA SharesAddUp ==
  ASSUME NEW n \in Nat, NEW R \in SUBSET (1 .. n), R # {}, NEW b \in Nat
  PROVE  /\ \A i \in 0 .. n : SharesUpTo(R, b, i) \in Int
         /\ SharesUpTo(R, b, 0) = 0
         /\ SharesUpTo(R, b, n) = b
         /\ \A i \in 1 .. n : Share(R, b, i) \in Int /\
              SharesUpTo(R, b, i) = SharesUpTo(R, b, i - 1) + Share(R, b, i)
<1> DEFINE C(i) == Cardinality(UpTo(R, i))
           H == Cardinality(R)
           k == b \div H
           m == b % H
<1>1. H \in Nat /\ H > 0
  <2>1. IsFiniteSet(1 .. n)
    BY FS_Interval
  <2>2. IsFiniteSet(R)
    BY <2>1, FS_Subset
  <2>3. H \in Nat /\ H # 0
    BY <2>2, FS_CardinalityType, FS_EmptySet
  <2> QED BY <2>3
<1>2. /\ \A i \in 0 .. n : C(i) \in Nat
      /\ C(0) = 0 /\ C(n) = H
      /\ \A i \in 1 .. n : C(i) = C(i - 1) + (IF i \in R THEN 1 ELSE 0)
  BY UpToCounts
<1>3. k \in Nat
  <2> HIDE DEF H
  <2> QED BY <1>1
<1>4. m \in Nat /\ m < H
  <2> HIDE DEF H
  <2>1. m \in 0 .. (H - 1)
    BY <1>1
  <2> QED BY <1>1, <2>1
<1>5. b = H * k + m
  <2> HIDE DEF H
  <2> QED BY <1>1, Z3
<1>6. \A i : SharesUpTo(R, b, i) = k * C(i) + Lesser(m, C(i))
  BY DEF SharesUpTo
<1>7. ASSUME NEW i \in 1 .. n
      PROVE  Share(R, b, i) = IF i \in R THEN k + (IF C(i - 1) < m THEN 1 ELSE 0) ELSE 0
  <2>1. i \in Int /\ \A r \in R : r < i <=> r <= i - 1
    OBVIOUS
  <2>2. {r \in R : r < i} = UpTo(R, i - 1)
    BY <2>1, Zenon DEF UpTo
  <2> QED BY <2>2 DEF Share
<1> HIDE DEF C, H, k, m
<1>8. ASSUME NEW i \in 0 .. n PROVE SharesUpTo(R, b, i) \in Int
  <2> DEFINE c == C(i)
  <2>1. c \in Nat /\ SharesUpTo(R, b, i) = k * c + Lesser(m, c)
    BY <1>2, <1>6
  <2> HIDE DEF c
  <2>2. k * c \in Int
    BY <1>3, <2>1
  <2>3. Lesser(m, c) \in Int
    BY <1>4, <2>1 DEF Lesser
  <2> QED BY <2>1, <2>2, <2>3
<1>9. SharesUpTo(R, b, 0) = 0
  BY <1>2, <1>3, <1>4, <1>6 DEF Lesser
<1>10. SharesUpTo(R, b, n) = b
  <2>1. SharesUpTo(R, b, n) = k * H + m
    BY <1>1, <1>2, <1>4, <1>6 DEF Lesser
  <2> QED BY <1>1, <1>3, <1>4, <1>5, <2>1
<1>11. ASSUME NEW i \in 1 .. n
       PROVE  /\ Share(R, b, i) \in Int
              /\ SharesUpTo(R, b, i) = SharesUpTo(R, b, i - 1) + Share(R, b, i)
  <2>1. C(i - 1) \in Nat /\ C(i) = C(i - 1) + (IF i \in R THEN 1 ELSE 0)
    <3>1. i - 1 \in 0 .. n
      OBVIOUS
    <3> QED BY <1>2, <3>1
  <2>2. Share(R, b, i) = IF i \in R THEN k + (IF C(i - 1) < m THEN 1 ELSE 0) ELSE 0
    BY <1>7
  <2>3. /\ SharesUpTo(R, b, i) = k * C(i) + Lesser(m, C(i))
        /\ SharesUpTo(R, b, i - 1) = k * C(i - 1) + Lesser(m, C(i - 1))
    BY <1>6
  <2>4. CASE i \notin R
    <3>1. C(i) = C(i - 1) /\ Share(R, b, i) = 0
      BY <2>1, <2>2, <2>4
    <3>2. SharesUpTo(R, b, i - 1) \in Int
      BY <1>3, <1>4, <2>1, <2>3 DEF Lesser
    <3> QED BY <2>3, <3>1, <3>2
  <2>5. CASE i \in R
    <3> DEFINE c == C(i - 1)
    <3>1. C(i) = c + 1 /\ c \in Nat /\ k \in Nat /\ m \in Nat
      BY <1>3, <1>4, <2>1, <2>5
    <3>2. k * (c + 1) = k * c + k /\ k * c \in Int
      <4> HIDE DEF c
      <4> QED BY <3>1, Z3
    <3>3. Lesser(m, c + 1) = Lesser(m, c) + (IF c < m THEN 1 ELSE 0) /\ Lesser(m, c) \in Int
      BY <3>1 DEF Lesser
    <3>4. Share(R, b, i) = k + (IF c < m THEN 1 ELSE 0)
      BY <2>2, <2>5
    <3> DEFINE e == IF c < m THEN 1 ELSE 0
    <3>5. e \in Int
      OBVIOUS
    <3> DEFINE z == k * c
               l == Lesser(m, c)
    <3>6. /\ SharesUpTo(R, b, i) = (z + k) + (l + e)
          /\ SharesUpTo(R, b, i - 1) = z + l
          /\ Share(R, b, i) = k + e
      BY <2>3, <3>1, <3>2, <3>3, <3>4
    <3>7. z \in Int /\ l \in Int /\ k \in Int
      BY <3>1, <3>2, <3>3
    <3> HIDE DEF z, l, e, c
    <3> QED BY <3>5, <3>6, <3>7
  <2> QED BY <2>4, <2>5
<1> QED BY <1>8, <1>9, <1>10, <1>11

\* y is x after the members of R have shared what p had.
Divided(x, y, p, R, n) ==
  \A i \in 1 .. n : y[i] = IF i = p THEN 0 ELSE x[i] + Share(R, x[p], i)

\* So handing p's cash to the members of R leaves the sum as it was.
LEMMA SumShared ==
  ASSUME NEW n \in Nat, NEW x \in [1 .. n -> Int], NEW p \in 1 .. n,
         NEW R \in SUBSET (1 .. n), R # {}, p \notin R, x[p] \in Nat,
         NEW y \in [1 .. n -> Int], Divided(x, y, p, R, n)
  PROVE  SumTo(y, n) = SumTo(x, n)
<1> DEFINE b == x[p]
           d == [i \in 0 .. n |-> SharesUpTo(R, b, i) - (IF i >= p THEN b ELSE 0)]
<1>1. /\ \A i \in 0 .. n : SharesUpTo(R, b, i) \in Int
      /\ SharesUpTo(R, b, 0) = 0
      /\ SharesUpTo(R, b, n) = b
      /\ \A i \in 1 .. n : Share(R, b, i) \in Int /\
           SharesUpTo(R, b, i) = SharesUpTo(R, b, i - 1) + Share(R, b, i)
  BY SharesAddUp
<1>2. d \in [0 .. n -> Int] /\ d[0] = 0 /\ d[n] = 0
  <2>1. b \in Int /\ p \in Int /\ ~ (0 >= p) /\ n >= p /\ 0 \in 0 .. n /\ n \in 0 .. n
    OBVIOUS
  <2>2. d[0] = 0 /\ d[n] = 0
    <3> HIDE DEF b
    <3>1. d[0] = SharesUpTo(R, b, 0) - 0 /\ d[n] = SharesUpTo(R, b, n) - b
      BY <2>1
    <3> HIDE DEF d
    <3> QED BY <1>1, <2>1, <3>1
  <2>3. ASSUME NEW i \in 0 .. n PROVE SharesUpTo(R, b, i) - (IF i >= p THEN b ELSE 0) \in Int
    <3>1. SharesUpTo(R, b, i) \in Int
      BY <1>1
    <3> HIDE DEF b
    <3> QED BY <2>1, <3>1
  <2> QED BY <2>2, <2>3
<1>3. ASSUME NEW i \in 1 .. n PROVE y[i] - x[i] = d[i] - d[i - 1]
  <2> DEFINE s == Share(R, b, i)
             t == SharesUpTo(R, b, i - 1)
  <2>1. i \in 0 .. n /\ i - 1 \in 0 .. n
    OBVIOUS
  <2>2. s \in Int /\ t \in Int /\ x[i] \in Int /\ b \in Int /\ SharesUpTo(R, b, i) = t + s
    BY <1>1, <2>1
  <2>3. d[i] = (t + s) - (IF i >= p THEN b ELSE 0) /\ d[i - 1] = t - (IF i - 1 >= p THEN b ELSE 0)
    BY <2>1, <2>2
  <2>4. y[i] = IF i = p THEN 0 ELSE x[i] + s
    BY DEF Divided
  <2>5. i = p => s = 0 /\ x[i] = b
    BY DEF Share
  <2> HIDE DEF d, s, t, b
  <2>6. CASE i = p
    BY <2>2, <2>3, <2>4, <2>5, <2>6
  <2>7. CASE i # p
    <3>1. (i >= p) <=> (i - 1 >= p)
      BY <2>7
    <3>2. y[i] = x[i] + s
      BY <2>4, <2>7
    <3> QED BY <2>2, <2>3, <3>1, <3>2
  <2> QED BY <2>6, <2>7
<1>4. Exceeds(d, x, y, n)
  BY <1>2, <1>3 DEF Exceeds
<1>5. SumTo(y, n) = SumTo(x, n) + d[n]
  BY <1>2, <1>4, SumsDiffer
<1>6. SumTo(x, n) \in Int
  BY SumToInt
<1> HIDE DEF d
<1> QED BY <1>2, <1>5, <1>6

\* A surrender divides the cash of the player that leaves among the others, and
\* opens and closes no debt.
LEMMA ResolveSurrenderMoney ==
  ASSUME NEW g, Playing(g), g.balance[g.current] >= 0
  PROVE  LET h == ResolveSurrender(g, g.current)
         IN  SumTo(h.balance, N) = SumTo(g.balance, N) /\ h.debt = g.debt
<1> DEFINE p == g.current
           R == Survivors(g) \ {p}
           b == [q \in Player |-> g.balance[q] + CashShare(g, p, q)]
           y == [b EXCEPT ![p] = 0]
           shared == [g EXCEPT !.balance = b]
           stocked == RestoreStock(shared, p)
           returned == ReturnToBank(stocked, p)
           gone == Eliminate(returned, p)
           won == CheckWin(gone)
           h == ResolveSurrender(g, p)
<1>1. /\ g \in GameDoc /\ p \in Player /\ p \notin g.out
      /\ g.balance \in [Player -> Int] /\ g.balance[p] \in Nat
  BY DEF Playing, GameDoc
<1>2. R \in SUBSET Player /\ p \notin R /\ R # {}
  <2>1. Survivors(g) # {p} /\ p \in Survivors(g) /\ Survivors(g) \subseteq Player
    BY <1>1 DEF Playing, Survivors
  <2> QED BY <2>1
<1>3. \A q \in Player : CashShare(g, p, q) \in Int
  BY <1>1, CashShareIsInt
<1>4. b \in [Player -> Int] /\ y \in [Player -> Int]
  BY <1>1, <1>3
<1>5. ASSUME NEW q \in Player, q # p
      PROVE  b[q] = g.balance[q] + Share(R, g.balance[p], q)
  <2>1. CASE g.balance[p] > 0 \/ q \notin R
    BY <1>5, <2>1 DEF CashShare, Share
  <2>2. CASE g.balance[p] = 0 /\ q \in R
    <3> DEFINE H == Cardinality(R)
               e == Cardinality({r \in R : r < q})
    <3>1. H \in Nat /\ H > 0 /\ e \in Nat
      <4>1. IsFiniteSet(Player)
        BY Sizes, FS_Interval DEF Player
      <4>2. IsFiniteSet(R) /\ IsFiniteSet({r \in R : r < q})
        BY <1>2, <4>1, FS_Subset
      <4>3. H \in Nat /\ H # 0
        BY <1>2, <4>2, FS_CardinalityType, FS_EmptySet
      <4> QED BY <4>2, <4>3, FS_CardinalityType
    <3>2. 0 \div H = 0 /\ 0 % H = 0
      <4> HIDE DEF H
      <4> QED BY <3>1, Z3
    <3>3. Share(R, g.balance[p], q) = (0 \div H) + (IF e < 0 % H THEN 1 ELSE 0)
      BY <2>2 DEF Share
    <3>4. b[q] = g.balance[q] + 0
      BY <2>2 DEF CashShare
    <3> HIDE DEF H, e, b, R
    <3> QED BY <3>1, <3>2, <3>3, <3>4
  <2> QED BY <1>1, <2>1, <2>2
<1>6. \A q \in Player : y[q] = IF q = p THEN 0 ELSE g.balance[q] + Share(R, g.balance[p], q)
  BY <1>4, <1>5
<1> HIDE DEF y, R
<1>7. SumTo(y, N) = SumTo(g.balance, N)
  <2> DEFINE x == g.balance
  <2>1. /\ N \in Nat /\ x \in [1 .. N -> Int] /\ p \in 1 .. N /\ y \in [1 .. N -> Int]
        /\ R \in SUBSET (1 .. N) /\ x[p] \in Nat /\ Divided(x, y, p, R, N)
    BY <1>1, <1>2, <1>4, <1>6, Sizes DEF Player, Divided
  <2> HIDE DEF x, p
  <2>2. SumTo(y, N) = SumTo(x, N)
    BY <1>2, <2>1, SumShared
  <2> QED BY <2>2 DEF x
<1>8. h = LeaveGame(gone, p)
  BY <1>1 DEF ResolveSurrender
<1> HIDE DEF h
<1> HIDE DEF b
<1>9. shared \in GameDoc /\ shared.balance = b /\ shared.debt = g.debt
  BY <1>1, <1>4, SetBalance DEF Kept, GameDoc
<1> HIDE DEF shared
<1>10. stocked \in GameDoc /\ stocked.balance = b /\ stocked.debt = g.debt
  BY <1>1, <1>9, RestoreStockKept DEF Kept, RestoreStock, GameDoc
<1> HIDE DEF stocked
<1>11. returned \in GameDoc /\ returned.balance = b /\ returned.debt = g.debt
  <2>1. returned \in GameDoc
    BY <1>1, <1>10, ReturnToBankKept DEF Kept
  <2>2. returned.balance = stocked.balance /\ returned.debt = stocked.debt
    BY <1>10 DEF ReturnToBank, GameDoc
  <2> QED BY <1>10, <2>1, <2>2
<1> HIDE DEF returned
<1>12. gone \in GameDoc
  BY <1>1, <1>11, EliminateLeaves DEF EliminateTyped
<1>13. gone.balance = y /\ gone.debt = g.debt
  BY <1>11 DEF Eliminate, GameDoc, y
<1> HIDE DEF gone
<1>14. won \in GameDoc /\ won.balance = y /\ won.debt = g.debt
  <2>1. won.balance = gone.balance /\ won.debt = gone.debt
    BY <1>12 DEF CheckWin, GameDoc
  <2> QED BY <1>12, <1>13, <2>1, CheckWinTyped
<1>15. h = won \/ h = AdvanceTurnOff(won, p)
  BY <1>8 DEF LeaveGame
<1> HIDE DEF won
<1>16. AdvanceTurnOff(won, p).balance = won.balance /\ AdvanceTurnOff(won, p).debt = won.debt
  BY <1>14 DEF AdvanceTurnOff, StartTurn, GameDoc
<1>17. h.balance = y /\ h.debt = g.debt
  BY <1>14, <1>15, <1>16
<1> QED BY <1>7, <1>17 DEF h

\* A player that leaves while no debt is open takes no money along.
LEMMA StepDividesCash ==
  ASSUME Sound(game), Orderly(game), [Next]_game, game.debt = NoDebt, game'.out # game.out,
         \A p \in game'.out \ game.out : game.balance[p] >= 0
  PROVE  SumTo(game'.balance, N) = SumTo(game.balance, N)
<1> DEFINE c == game.current
<1>1. game \in GameDoc /\ game' \in GameDoc /\ c \in Player
  BY StepContinues DEF Continues, Sound, GameDoc
<1>2. c \notin game.out /\ c \in game'.out
  <2>1. Leaves(game, game')
    BY StepContinues DEF Continues, Stays, Passes
  <2> QED BY <1>1, <2>1 DEF Leaves, Survivors
<1>3. game.balance[c] >= 0
  BY <1>2
<1>4. Playing(game)
  BY <1>2, SoundIsPlaying
<1>5. CASE Surrender(c)
  <2> DEFINE h == ResolveSurrender(game, c)
  <2>1. Play(h, c)
    BY <1>5 DEF Surrender
  <2>2. h \in GameDoc
    BY <1>4, ResolveSurrenderSound DEF Sound
  <2>3. SumTo(h.balance, N) = SumTo(game.balance, N) /\ h.debt = NoDebt
    BY <1>3, <1>4, ResolveSurrenderMoney
  <2> HIDE DEF h
  <2> QED BY <1>1, <2>1, <2>2, <2>3, PlayGoods
<1>6. CASE TurnTimeout
  <2>1. PICK h : Struck(h)
    BY <1>6, TimeoutSurrenders
  <2> DEFINE k == ResolveSurrender(h, c)
  <2>2. SumTo(k.balance, N) = SumTo(game.balance, N) /\ k.debt = NoDebt
    BY <1>3, <2>1, ResolveSurrenderMoney DEF Struck
  <2>3. k \in GameDoc /\ Commit(Settled(k))
    BY <2>1 DEF Struck
  <2> HIDE DEF k
  <2> QED BY <2>2, <2>3, CommitGoods
<1>7. 1 \in Player
  BY Sizes DEF Player
<1>8. CASE AdvanceAuction \/ ExpireTrade
  BY <1>7, <1>8, AdvanceAuctionOut, PlainCommandQuiet DEF Quiet
<1>9. ASSUME NEW p \in Player, PlayerCommand(p) PROVE Surrender(c)
  <2>1. ~ DeclareBankruptcy(p)
    BY DEF DeclareBankruptcy
  <2>2. Surrender(p) => p = c
    BY DEF Surrender, HoldsTurn
  <2>3. ~ Quiet(game, game')
    BY DEF Quiet
  <2>4. ~ (BuyProperty(p) \/ EndTurn(p) \/ AcceptTrade(p))
    BY <2>3, OtherCommandQuiet
  <2> QED BY <1>9, <2>1, <2>2, <2>3, <2>4, PlainCommandQuiet DEF PlayerCommand
<1> QED BY <1>5, <1>6, <1>8, <1>9 DEF Next, SchedulerCommand

\* A surrender splits the leaver's cash among the survivors to the last unit.
THEOREM SurrendersConserveMoney == Spec => SurrenderConservesMoney
<1>1. Sound(game) /\ Orderly(game) /\ [Next]_game =>
        [game.debt = NoDebt /\ (\A p \in game'.out \ game.out : game.balance[p] >= 0)
           /\ game'.out # game.out
         => SumTo(game'.balance, N) = SumTo(game.balance, N)]_game
  BY StepDividesCash
<1> QED BY <1>1, SpecOrderly, PTL DEF Spec, SurrenderConservesMoney

-----------------------------------------------------------------------------
(***************************************************************************)
(* What the action bar offers                                              *)
(***************************************************************************)

\* A button of the turn holder is lit when its command may be taken, but for the
\* exceptions that NothingHidden names,
LEMMA TurnCommandShown ==
  ASSUME NEW p \in Player, Sound(game), Orderly(game)
  PROVE  /\ RollDice(p) => "roll" \in Offered(game, p)
         /\ BuyProperty(p) => "buy" \in Offered(game, p)
         /\ EndTurn(p) => "end_turn" \in Offered(game, p)
         /\ UseJailCard(p) => "use_jail_card" \in Offered(game, p)
         /\ PayJailFine(p) => \/ "pay_jail_fine" \in Offered(game, p)
                              \/ game.balance[p] \in JailFine .. (ShownFine - 1)
         /\ Surrender(p) =>
              \/ "surrender" \in Offered(game, p)
              \/ game.phase \in {"auction", "trade_negotiation", "bankrupt_resolution"}
         /\ ProposeTrade(p) => \/ "trade" \in Offered(game, p)
                               \/ game.phase \notin {"pre_roll", "post_roll"}
                               \/ game.status = "finished"
         /\ DeclareBankruptcy(p) => \/ "declare_bankruptcy" \in Offered(game, p)
                                    \/ game.phase # "bankrupt_resolution"
<1>1. game.phase # "auction" /\ p = game.current => Offered(game, p) = TurnFlags(game, p)
  BY DEF Offered
<1>2. ASSUME RollDice(p) PROVE "roll" \in Offered(game, p)
  <2>1. p = game.current /\ game.phase \in {"jail_decision", "pre_roll"}
    BY <1>2 DEF RollDice, HoldsTurn
  <2> QED BY <1>1, <2>1 DEF TurnFlags
<1>3. ASSUME BuyProperty(p) PROVE "buy" \in Offered(game, p)
  <2>1. /\ p = game.current /\ game.phase \in {"post_roll", "must_pay_rent"}
        /\ game.pending # NoSquare /\ game.owner[game.pending] = NoOne
    BY <1>3 DEF BuyProperty, HoldsTurn
  <2>2. game.phase = "post_roll"
    BY <2>1 DEF Orderly, Turn
  <2> QED BY <1>1, <2>1, <2>2 DEF TurnFlags
<1>4. ASSUME EndTurn(p) PROVE "end_turn" \in Offered(game, p)
  <2>1. /\ p = game.current
        /\ game.phase \in {"post_roll", "must_pay_rent", "bankrupt_resolution"}
        /\ game.pending = NoSquare /\ game.debt = NoDebt
    BY <1>4 DEF EndTurn, HoldsTurn
  <2> QED BY <1>1, <2>1 DEF TurnFlags
<1>5. ASSUME UseJailCard(p) PROVE "use_jail_card" \in Offered(game, p)
  <2>1. p = game.current /\ game.phase = "jail_decision" /\ game.cards[p] > 0
    BY <1>5 DEF UseJailCard, HoldsTurn
  <2> QED BY <1>1, <2>1 DEF TurnFlags
<1>6. game \in GameDoc /\ TableOK(game)
  BY DEF Sound
<1>7. ASSUME PayJailFine(p), game.balance[p] \notin JailFine .. (ShownFine - 1)
      PROVE  "pay_jail_fine" \in Offered(game, p)
  <2>1. p = game.current /\ game.phase = "jail_decision" /\ game.balance[p] >= JailFine
    BY <1>7 DEF PayJailFine, HoldsTurn
  <2>2. game.balance[p] \in Int /\ JailFine \in Int /\ ShownFine \in Nat
    BY <1>6, JailFineIsInt, ActionBarAssumption DEF GameDoc
  <2>3. game.balance[p] >= ShownFine
    BY <1>7, <2>1, <2>2
  <2> QED BY <1>1, <2>1, <2>3 DEF TurnFlags
<1>8. ASSUME Surrender(p),
             game.phase \notin {"auction", "trade_negotiation", "bankrupt_resolution"}
      PROVE  "surrender" \in Offered(game, p)
  <2>1. p = game.current /\ p \notin game.out
    BY <1>8 DEF Surrender, HoldsTurn
  <2>2. game.status = "in_progress"
    BY <1>6, <2>1 DEF TableOK
  <2>3. game.phase \in {"jail_decision", "pre_roll", "post_roll", "must_pay_rent"}
    BY <1>6, <1>8, <2>2 DEF GameDoc, Phases, Orderly, Turn
  <2> QED BY <1>1, <2>1, <2>3 DEF TurnFlags
<1>9. ASSUME ProposeTrade(p), game.phase \in {"pre_roll", "post_roll"}, game.status # "finished"
      PROVE  "trade" \in Offered(game, p)
  <2>1. p = game.current /\ TradeFlag(game)
    BY <1>9 DEF ProposeTrade, HoldsTurn, MayPropose, TradeFlag
  <2>2. game.status = "in_progress"
    BY <1>6, <1>9 DEF GameDoc
  <2> QED BY <1>1, <1>9, <2>1, <2>2 DEF TurnFlags
<1>10. ASSUME DeclareBankruptcy(p), game.phase = "bankrupt_resolution"
       PROVE  "declare_bankruptcy" \in Offered(game, p)
  <2>1. p = game.current
    BY <1>10 DEF DeclareBankruptcy, HoldsTurn
  <2> QED BY <1>1, <1>10, <2>1 DEF TurnFlags
<1> QED BY <1>2, <1>3, <1>4, <1>5, <1>7, <1>8, <1>9, <1>10

\* so are those of its estate, because what it owns is on its list,
LEMMA EstateCommandShown ==
  ASSUME NEW p \in Player, Orderly(game), NEW s \in Square
  PROVE  /\ BuildHouse(p, s) => "build" \in Offered(game, p)
         /\ MortgageProperty(p, s) => "mortgage" \in Offered(game, p)
         /\ UnmortgageProperty(p, s) => "unmortgage" \in Offered(game, p)
<1>1. ASSUME HoldsTurn(p), game.phase \in BuildPhases
      PROVE  EstateFlags(game, p) \subseteq Offered(game, p)
  <2>1. Offered(game, p) = TurnFlags(game, p)
    BY <1>1 DEF Offered, HoldsTurn, BuildPhases
  <2> QED BY <1>1, <2>1 DEF TurnFlags, BuildPhases
<1>2. game.owner[s] = p => s \in game.owned[p]
  BY DEF Orderly, Settlement, Listed
<1>3. ASSUME BuildHouse(p, s) PROVE "build" \in Offered(game, p)
  <2>1. MayBuild(game, p, s) /\ HoldsTurn(p) /\ game.phase \in BuildPhases
    BY <1>3 DEF BuildHouse
  <2>2. s \in game.owned[p]
    BY <1>2, <2>1 DEF MayBuild, GroupOf
  <2>3. "build" \in EstateFlags(game, p)
    BY <2>1, <2>2 DEF EstateFlags
  <2> QED BY <1>1, <2>1, <2>3
<1>4. ASSUME MortgageProperty(p, s) PROVE "mortgage" \in Offered(game, p)
  <2>1. MayMortgage(game, p, s) /\ HoldsTurn(p) /\ game.phase \in BuildPhases
    BY <1>4 DEF MortgageProperty
  <2>2. s \in game.owned[p]
    BY <1>2, <2>1 DEF MayMortgage
  <2>3. "mortgage" \in EstateFlags(game, p)
    BY <2>1, <2>2 DEF EstateFlags
  <2> QED BY <1>1, <2>1, <2>3
<1>5. ASSUME UnmortgageProperty(p, s) PROVE "unmortgage" \in Offered(game, p)
  <2>1. MayRedeem(game, p, s) /\ HoldsTurn(p) /\ game.phase \in BuildPhases
    BY <1>5 DEF UnmortgageProperty
  <2>2. s \in game.owned[p]
    BY <1>2, <2>1 DEF MayRedeem
  <2>3. "unmortgage" \in EstateFlags(game, p)
    BY <2>1, <2>2 DEF EstateFlags
  <2> QED BY <1>1, <2>1, <2>3
<1> QED BY <1>3, <1>4, <1>5

\* and a bid of somebody else's than the highest bidder's.
LEMMA BidShown ==
  ASSUME NEW p \in Player, game \in GameDoc, PlaceBid(p), game.auction.bidder # p
  PROVE  "bid" \in Offered(game, p)
<1>1. PICK n \in Bids : MayBid(game, p, n)
  BY DEF PlaceBid
<1>2. n \in Nat /\ game.auction # NoAuction /\ game.auction \in Auction
  BY <1>1, EngineAssumption DEF MayBid, GameDoc
<1>3. game.auction.bid \in Nat /\ game.balance[p] \in Int
  BY <1>2 DEF Auction, GameDoc
<1>4. game.balance[p] > game.auction.bid
  BY <1>1, <1>2, <1>3 DEF MayBid
<1>5. game.phase = "auction" /\ BidFlag(game, p)
  BY <1>1, <1>2, <1>4 DEF MayBid, BidFlag
<1> QED BY <1>5 DEF Offered

\* What the engine would accept has its button lit, but for the five exceptions that
\* NothingHidden names (actions.py against engine.py).
THEOREM MovesAreShown == Spec => NothingHidden
<1> DEFINE Dark(p) ==
       LET dark == Flags \ Offered(game, p) IN
       /\ "roll" \in dark => ~RollDice(p)
       /\ "buy" \in dark => ~BuyProperty(p)
       /\ "end_turn" \in dark => ~EndTurn(p)
       /\ "use_jail_card" \in dark => ~UseJailCard(p)
       /\ "build" \in dark => ~\E s \in Square : BuildHouse(p, s)
       /\ "mortgage" \in dark => ~\E s \in Square : MortgageProperty(p, s)
       /\ "unmortgage" \in dark => ~\E s \in Square : UnmortgageProperty(p, s)
       /\ "pay_jail_fine" \in dark /\ PayJailFine(p) =>
            game.balance[p] \in JailFine .. (ShownFine - 1)
       /\ "surrender" \in dark /\ Surrender(p) =>
            game.phase \in {"auction", "trade_negotiation", "bankrupt_resolution"}
       /\ "trade" \in dark /\ ProposeTrade(p) =>
            game.phase \notin {"pre_roll", "post_roll"} \/ game.status = "finished"
       /\ "declare_bankruptcy" \in dark /\ DeclareBankruptcy(p) =>
            game.phase # "bankrupt_resolution"
       /\ "bid" \in dark /\ PlaceBid(p) => game.auction.bidder = p
<1>1. ASSUME Sound(game), Orderly(game), NEW p \in Player PROVE Dark(p)
  BY <1>1, TurnCommandShown, EstateCommandShown, BidShown DEF Sound
<1>2. Sound(game) /\ Orderly(game) => [\A p \in Player : Dark(p)]_game
  BY <1>1
<1> HIDE DEF Dark
<1>3. Spec => [][\A p \in Player : Dark(p)]_game
  BY <1>2, SpecOrderly, PTL
<1> QED BY <1>3 DEF NothingHidden, Dark
=============================================================================
