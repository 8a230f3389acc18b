SPECIFICATION Spec
CONSTANTS
  N = 3
  Size = 2
  Kind <- MarketKind
  Price <- Ones
  MortgageValue <- Ones
  RedeemCost <- Ones
  TransferFee = 1
  Tax <- NoMoney
  Group <- MarketGroup
  HouseCost <- NoMoney
  SellCredit <- NoMoney
  HotelLevel = 1
  BankHouses = 0
  BankHotels = 1
  Rents <- MarketRents
  Cards <- NoCards
  JailFreeCards <- NoJailCards
  Rolls <- MarketRolls
  JailSquare = 1
  StartBalance = 2
  GoSalary = 0
  JailFine = 1
  ShownFine = 2
  JailTurns = 1
  DoublesLimit = 2
  MaxStrikes = 1
  MaxOffers = 0
  Bids <- MarketBids
  Offers <- NoOffers
  MinCash <- MinusOne
  MaxCash = 3
INVARIANTS
  TurnHolderInGame
  OutcomeConsistent
  WaitingPhaseHasSubject
  OwnerListed
PROPERTIES
  NothingHidden
  PlaysElimination
  SurrenderConservesMoney
  StockConserved
CHECK_DEADLOCK FALSE
