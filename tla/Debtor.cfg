SPECIFICATION Spec
CONSTANTS
  N = 3
  Size = 3
  Kind <- DebtsKind
  Price <- Ones
  MortgageValue <- Ones
  RedeemCost <- Ones
  TransferFee = 1
  Tax <- DebtsTax
  Group <- NoGroups
  HouseCost <- NoMoney
  SellCredit <- NoMoney
  HotelLevel = 1
  BankHouses = 0
  BankHotels = 0
  Rents <- DebtsRents
  Cards <- NoCards
  JailFreeCards <- NoJailCards
  Rolls <- DebtsRolls
  JailSquare = 1
  StartBalance = 1
  GoSalary = 1
  JailFine = 1
  ShownFine = 1
  JailTurns = 1
  DoublesLimit = 2
  MaxStrikes = 1
  MaxOffers = 0
  Bids <- NoBids
  Offers <- NoOffers
  MinCash <- MinusTwo
  MaxCash = 4
INVARIANT
  DebtorHoldsTurn
CHECK_DEADLOCK FALSE
