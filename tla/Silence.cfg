SPECIFICATION FairSpec
CONSTANTS
  N = 2
  Size = 2
  Kind <- SilenceKind
  Price <- Ones
  MortgageValue <- NoMoney
  RedeemCost <- NoMoney
  TransferFee = 0
  Tax <- NoMoney
  Group <- NoGroups
  HouseCost <- NoMoney
  SellCredit <- NoMoney
  HotelLevel = 1
  BankHouses = 0
  BankHotels = 0
  Rents <- SilenceRents
  Cards <- NoCards
  JailFreeCards <- NoJailCards
  Rolls <- SilenceRolls
  JailSquare = 1
  StartBalance = 1
  GoSalary = 0
  JailFine = 0
  ShownFine = 0
  JailTurns = 1
  DoublesLimit = 2
  MaxStrikes = 2
  MaxOffers = 1
  Bids <- SilenceBids
  Offers <- SilenceOffers
  MinCash <- MinusTwo
  MaxCash = 4
PROPERTIES
  SilentGameEnds
CHECK_DEADLOCK FALSE
