------------------------------- MODULE MCGame -------------------------------
(***************************************************************************)
(* Small instances of the engine for TLC: each board is made so that one   *)
(* group of rules happens often and the others seldom or never.  A cfg     *)
(* substitutes the definitions below for the constants.                    *)
(***************************************************************************)
EXTENDS GameProperties

NoMoney == [s \in Square |-> 0]
Ones == [s \in Square |-> 1]
NoCards == [d \in Decks |-> {}]
NoGroups == [s \in Square |-> 0]
NoJailCards == [d \in Decks |-> 0]
NoBids == {}
NoOffers == {}
NoRents == {}
MinusOne == -1
MinusTwo == -2

Card(type, n) == [type |-> type, n |-> n, m |-> 0]

-----------------------------------------------------------------------------
\* Moves: GO, both decks, jail, goto_jail, a tax, and one property with a rent that
\* hardly anyone has.
MovesKind == <<"free", "chance", "free", "chest", "goto_jail", "tax", "property">>
MovesTax == [s \in Square |-> IF s = 6 THEN 1 ELSE 0]
MovesRolls == {<<1, 1>>, <<1, 2>>, <<2, 3>>}
MovesRents == {2}
MovesCards ==
  [chance |-> {Card("go_back", 4), Card("advance", 1), Card("jail_free", 0)},
   chest  |-> {Card("go_to_jail", 0), Card("collect", 1), Card("pay", 1), Card("pay_each", 1),
               Card("collect_from_each", 1), Card("advance_no_go", 6)}]
MovesJailCards == [chance |-> 1, chest |-> 0]

-----------------------------------------------------------------------------
\* Market: one property beside GO, auctions and debts, no trades.
MarketKind == <<"free", "property">>
MarketGroup == <<0, 1>>
MarketRolls == {<<1, 1>>, <<1, 2>>}
MarketBids == {1, 2}
MarketRents == {2}

-----------------------------------------------------------------------------
\* Estates: a group of two streets, a bank with few buildings, repairs, and trades
\* of a street, of money or of the jail card that chance holds.
EstatesKind == <<"chance", "property", "property">>
EstatesGroup == [s \in Square |-> IF s = 1 THEN 0 ELSE 1]
EstatesRolls == {<<0, 1>>, <<0, 2>>}
EstatesCards ==
  [chance |-> {[type |-> "repairs", n |-> 1, m |-> 2], Card("jail_free", 0)}, chest |-> {}]
EstatesJailCards == [chance |-> 1, chest |-> 0]
EstatesOffers ==
  {[NoOffer EXCEPT !.squares = {2}], [NoOffer EXCEPT !.money = 1], [NoOffer EXCEPT !.cards = 1]}

-----------------------------------------------------------------------------
\* Debts: one property whose rent may exceed what anyone has, and a tax.
DebtsKind == <<"free", "property", "tax">>
DebtsRolls == {<<1, 2>>, <<2, 2>>}
DebtsRents == {1, 3}
DebtsTax == [s \in Square |-> IF s = 3 THEN 2 ELSE 0]

-----------------------------------------------------------------------------
\* Silence: enough money that no bound ever stops the scheduler.
SilenceKind == <<"free", "property">>
SilenceRolls == {<<1, 2>>, <<1, 1>>}
SilenceRents == {2}
SilenceBids == {1}
SilenceOffers == {NoOffer}
=============================================================================
