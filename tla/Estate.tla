------------------------------- MODULE Estate -------------------------------
(***************************************************************************)
(* Houses, hotels and mortgages (building.py).  The level of a square is   *)
(* the number of its buildings: 1 .. HotelLevel - 1 houses, or a hotel.    *)
(***************************************************************************)
EXTENDS GameRules

GroupOf(s) == {t \in Square : Group[t] = Group[s]}

Street(s) == Group[s] # 0

\* Mutants: building anywhere in the group; building beside a mortgage.
MayBuildUneven(g, p, s) ==
  /\ Street(s) /\ g.level[s] < HotelLevel
  /\ \A t \in GroupOf(s) : g.owner[t] = p /\ t \notin g.mortgaged
  /\ IF g.level[s] = HotelLevel - 1 THEN g.hotels > 0 ELSE g.houses > 0
  /\ g.balance[p] >= HouseCost[s]
MayBuildBesideMortgage(g, p, s) ==
  /\ Street(s) /\ g.level[s] < HotelLevel /\ s \notin g.mortgaged
  /\ \A t \in GroupOf(s) : g.owner[t] = p /\ g.level[s] <= g.level[t]
  /\ IF g.level[s] = HotelLevel - 1 THEN g.hotels > 0 ELSE g.houses > 0
  /\ g.balance[p] >= HouseCost[s]

\* On a lowest square of an unmortgaged group all of which is p's, while the
\* bank has the building.
MayBuild(g, p, s) ==
  /\ Street(s)
  /\ g.level[s] < HotelLevel
  /\ \A t \in GroupOf(s) :
       g.owner[t] = p /\ t \notin g.mortgaged /\ g.level[s] <= g.level[t]
  /\ IF g.level[s] = HotelLevel - 1 THEN g.hotels > 0 ELSE g.houses > 0
  /\ g.balance[p] >= HouseCost[s]

\* The building that takes a square from level to level + 1 changes the bank's
\* stock: a hotel takes the place of the houses below it.
StockAfterBuilding(g, level) ==
  IF level = HotelLevel - 1
  THEN [g EXCEPT !.houses = @ + level, !.hotels = @ - 1]
  ELSE [g EXCEPT !.houses = @ - 1]

\* Mutant: the houses a hotel turns back into are not taken from the bank.
StockAfterSellingFree(g, level) ==
  IF level = HotelLevel THEN [g EXCEPT !.hotels = @ + 1] ELSE [g EXCEPT !.houses = @ + 1]

StockAfterSelling(g, level) ==
  IF level = HotelLevel
  THEN [g EXCEPT !.houses = @ - (HotelLevel - 1), !.hotels = @ + 1]
  ELSE [g EXCEPT !.houses = @ + 1]

Build(g, p, s) ==
  [StockAfterBuilding(g, g.level[s]) EXCEPT !.level[s] = @ + 1,
                                            !.balance[p] = @ - HouseCost[s]]

\* From a highest square of its group, whoever owns the rest.  Nothing asks
\* whether the bank has the houses a hotel turns back into.
MaySell(g, p, s) ==
  /\ g.owner[s] = p
  /\ Street(s)
  /\ g.level[s] > 0
  /\ \A t \in GroupOf(s) : g.level[t] <= g.level[s]

Sell(g, p, s) ==
  [StockAfterSelling(g, g.level[s]) EXCEPT !.level[s] = @ - 1,
                                           !.balance[p] = @ + SellCredit[s]]

MayMortgage(g, p, s) ==
  /\ g.owner[s] = p
  /\ s \notin g.mortgaged
  /\ Purchasable(s)
  /\ g.level[s] = 0
  /\ Street(s) => \A t \in GroupOf(s) : g.level[t] = 0

Mortgage(g, p, s) ==
  [g EXCEPT !.mortgaged = @ \cup {s}, !.balance[p] = @ + MortgageValue[s]]

MayRedeem(g, p, s) ==
  /\ g.owner[s] = p
  /\ s \in g.mortgaged
  /\ g.balance[p] >= RedeemCost[s]

Redeem(g, p, s) ==
  [g EXCEPT !.mortgaged = @ \ {s}, !.balance[p] = @ - RedeemCost[s]]
=============================================================================
