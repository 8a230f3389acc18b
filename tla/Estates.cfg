SPECIFICATION Spec
CONSTANTS
  N = 2
  Size = 3
  Kind <- EstatesKind
  Price <- NoMoney
  MortgageValue <- NoMoney
  RedeemCost <- NoMoney
  TransferFee = 0
  Tax <- NoMoney
  Group <- EstatesGroup
  HouseCost <- Ones
  SellCredit <- NoMoney
  HotelLevel = 2
  BankHouses = 2
  BankHotels = 1
  Rents <- NoRents
  Cards <- EstatesCards
  JailFreeCards <- EstatesJailCards
  Rolls <- EstatesRolls
  JailSquare = 1
  StartBalance = 1
  GoSalary = 1
  JailFine = 0
  ShownFine = 0
  JailTurns = 1
  DoublesLimit = 2
  MaxStrikes = 1
  MaxOffers = 1
  Bids <- NoBids
  Offers <- EstatesOffers
  MinCash <- MinusOne
  MaxCash = 2
INVARIANTS
  TypeOK
  NoBuildingBesideMortgage
  WaitingPhaseHasSubject
PROPERTIES
  StaysEven
  StockConserved
  TradeSound
CHECK_DEADLOCK FALSE
