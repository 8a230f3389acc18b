----------------------------- MODULE GameState -----------------------------
(***************************************************************************)
(* The authoritative game document of the Monopoly engine (schemas/        *)
(* state.py) as one record, the constants it depends on, and the helpers   *)
(* every rule uses.  The engine is a pure function of this record, so the  *)
(* rules (module GameRules) are operators from records to records or to    *)
(* sets of possible records, and only GameEngine has a variable.           *)
(*                                                                         *)
(* Left out, because no rule branches on it: names, tokens, net worth, the *)
(* event log, turn and round numbers, and the active card shown to clients.*)
(***************************************************************************)
EXTENDS Integers, FiniteSets

CONSTANTS
  N,              \* number of players, numbered by turn_order + 1
  Size,           \* number of squares of the board
  Kind,           \* Kind[s]: what the square s is, one of SquareKinds
  Price,          \* Price[s]: purchase price of s
  MortgageValue,  \* MortgageValue[s]: what mortgaging s pays
  RedeemCost,     \* RedeemCost[s]: what lifting the mortgage of s costs
  TransferFee,    \* interest a creditor pays per mortgaged square received
  Tax,            \* Tax[s]: amount due on the tax square s
  Group,          \* Group[s]: the colour group of the street s, 0 for none
  HouseCost,      \* HouseCost[s]: price of a house or hotel on s
  SellCredit,     \* SellCredit[s]: what the bank pays back for one
  HotelLevel,     \* buildings on a square with a hotel (5: four houses and one more)
  BankHouses,     \* bank_houses and bank_hotels of a new game
  BankHotels,
  Rents,          \* the rents a landing may owe
  Cards,          \* Cards[deck]: the effects in the "chance", "chest" deck
  JailFreeCards,  \* JailFreeCards[deck]: get-out-of-jail cards it starts with
  Rolls,          \* the pairs of dice a roll may show
  JailSquare,     \* where a jailed player stands
  StartBalance,   \* game_starting_balance
  GoSalary,       \* go_salary
  JailFine,       \* jail_fine
  JailTurns,      \* JAIL_TURNS_INITIAL
  DoublesLimit,   \* DOUBLES_JAIL_THRESHOLD
  MaxStrikes,     \* MAX_AFK_STRIKES
  MaxOffers       \* MAX_TRADE_OFFERS_PER_TURN

Player == 1 .. N
Square == 1 .. Size
Decks == {"chance", "chest"}

\* Absent values: the None of winner_id, owner_id, creditor_id and of positions.
NoOne == 0
NoSquare == 0

StartSquare == 1

SquareKinds == {"free", "property", "tax", "chance", "chest", "goto_jail"}

(***************************************************************************)
(* A card effect: its type and its amount, target square or step count n;  *)
(* repairs cost n per house and m per hotel.  The movement cards are       *)
(* "advance" (with GO salary), "advance_no_go" and "go_back";              *)
(* advance_to_nearest is an "advance" to the square it finds.              *)
(***************************************************************************)
EffectTypes ==
  {"advance", "advance_no_go", "go_back", "go_to_jail", "collect", "pay",
   "collect_from_each", "pay_each", "repairs", "jail_free"}
MoveEffects == {"advance", "advance_no_go", "go_back"}
Effect == [type : EffectTypes, n : Nat, m : Nat]

Phases ==
  {"pre_roll", "jail_decision", "post_roll", "must_pay_rent", "auction",
   "trade_negotiation", "bankrupt_resolution", "game_over"}

\* Phases whose inactivity timer the scheduler enforces.
ActiveTurnPhases == {"pre_roll", "jail_decision", "post_roll", "must_pay_rent"}

\* Phases in which houses and mortgages may be traded with the bank.
BuildPhases == {"pre_roll", "post_roll", "bankrupt_resolution"}

ASSUME GameAssumption ==
  /\ N \in Nat /\ N >= 2
  /\ Size \in Nat \ {0}
  /\ Kind \in [Square -> SquareKinds]
  /\ Price \in [Square -> Nat]
  /\ MortgageValue \in [Square -> Nat]
  /\ RedeemCost \in [Square -> Nat]
  /\ TransferFee \in Nat
  /\ Tax \in [Square -> Nat]
  /\ Group \in [Square -> Nat]
  /\ \A s \in Square : Group[s] # 0 => Kind[s] = "property"
  /\ HouseCost \in [Square -> Nat] /\ SellCredit \in [Square -> Nat]
  /\ HotelLevel \in Nat \ {0}
  /\ BankHouses \in Nat /\ BankHotels \in Nat
  /\ Rents \subseteq Nat
  /\ Cards \in [Decks -> SUBSET Effect]
  /\ \A d \in Decks : \A c \in Cards[d] :
       c.type \in {"advance", "advance_no_go"} => c.n \in Square
  /\ JailFreeCards \in [Decks -> Nat]
  /\ Rolls \subseteq Nat \X Nat
  /\ JailSquare \in Square
  /\ StartBalance \in Nat /\ GoSalary \in Nat /\ JailFine \in Nat
  /\ JailTurns \in Nat \ {0}
  /\ DoublesLimit \in Nat \ {0}
  /\ MaxStrikes \in Nat \ {0}
  /\ MaxOffers \in Nat

Offer == [money : Nat, squares : SUBSET Square, cards : Nat]

\* The nullable sub-states; their None is the record below each of them.
Auction == [pos : Square, bid : Nat, bidder : 0 .. N]
NoAuction == [pos |-> NoSquare, bid |-> 0, bidder |-> NoOne]

NoOffer == [money |-> 0, squares |-> {}, cards |-> 0]
Trade == [proposer : Player, target : Player, offer : Offer, request : Offer]
NoTrade == [proposer |-> NoOne, target |-> NoOne, offer |-> NoOffer, request |-> NoOffer]

Debt == [debtor : Player, creditor : 0 .. N, owed : Nat]
NoDebt == [debtor |-> NoOne, creditor |-> NoOne, owed |-> 0]

(***************************************************************************)
(* The game document.  A square's owner (spaces[].owner_id) and a player's *)
(* own list (owned_positions) are kept separately by the code, and here.   *)
(***************************************************************************)
GameDoc ==
  [status    : {"in_progress", "finished"},
   winner    : 0 .. N,
   phase     : Phases,
   current   : Player,                 \* current_player_id
   rolled    : BOOLEAN,                \* dice_roll is not None
   streak    : 0 .. DoublesLimit - 1,  \* doubles_streak
   offers    : 0 .. MaxOffers,         \* trade_offers_made
   pending   : 0 .. Size,              \* pending_buy_position
   position  : [Player -> Square],
   balance   : [Player -> Int],
   jail      : [Player -> 0 .. JailTurns],  \* turns_remaining, 0 for None
   out       : SUBSET Player,          \* the players that are is_bankrupt
   strikes   : [Player -> 0 .. MaxStrikes],
   cards     : [Player -> Nat],        \* get_out_of_jail_cards
   owner     : [Square -> 0 .. N],
   owned     : [Player -> SUBSET Square],
   mortgaged : SUBSET Square,
   level     : [Square -> 0 .. HotelLevel],  \* houses; HotelLevel for has_hotel
   houses    : Int,                    \* bank_houses
   hotels    : Int,                    \* bank_hotels
   deck      : [Decks -> Nat],         \* get-out-of-jail cards in each deck
   auction   : Auction \cup {NoAuction},
   trade     : Trade \cup {NoTrade},
   debt      : Debt \cup {NoDebt}]

\* new_game: everyone solvent on GO, the first of the shuffled order to move.
NewGame ==
  [status    |-> "in_progress",
   winner    |-> NoOne,
   phase     |-> "pre_roll",
   current   |-> 1,
   rolled    |-> FALSE,
   streak    |-> 0,
   offers    |-> 0,
   pending   |-> NoSquare,
   position  |-> [p \in Player |-> StartSquare],
   balance   |-> [p \in Player |-> StartBalance],
   jail      |-> [p \in Player |-> 0],
   out       |-> {},
   strikes   |-> [p \in Player |-> 0],
   cards     |-> [p \in Player |-> 0],
   owner     |-> [s \in Square |-> NoOne],
   owned     |-> [p \in Player |-> {}],
   mortgaged |-> {},
   level     |-> [s \in Square |-> 0],
   houses    |-> BankHouses,
   hotels    |-> BankHotels,
   deck      |-> JailFreeCards,
   auction   |-> NoAuction,
   trade     |-> NoTrade,
   debt      |-> NoDebt]

Purchasable(s) == Kind[s] = "property"
Survivors(g) == Player \ g.out

\* The sum of x[1] .. x[n], in turn order as the code's loops accumulate it.
SumTo(x, n) ==
  LET total[i \in 0 .. n] == IF i = 0 THEN 0 ELSE total[i - 1] + x[i]
  IN  total[n]

\* The least member of a set of integers.
Least(S) == CHOOSE m \in S : \A k \in S : m <= k
=============================================================================
