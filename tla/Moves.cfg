SPECIFICATION Spec
CONSTANTS
  N = 2
  Size = 7
  Kind <- MovesKind
  Price <- NoMoney
  MortgageValue <- NoMoney
  RedeemCost <- NoMoney
  TransferFee = 0
  Tax <- MovesTax
  Group <- NoGroups
  HouseCost <- NoMoney
  SellCredit <- NoMoney
  HotelLevel = 1
  BankHouses = 0
  BankHotels = 0
  Rents <- MovesRents
  Cards <- MovesCards
  JailFreeCards <- MovesJailCards
  Rolls <- MovesRolls
  JailSquare = 3
  StartBalance = 1
  GoSalary = 1
  JailFine = 1
  ShownFine = 1
  JailTurns = 2
  DoublesLimit = 2
  MaxStrikes = 2
  MaxOffers = 0
  Bids <- NoBids
  Offers <- NoOffers
  MinCash <- MinusTwo
  MaxCash = 3
INVARIANTS
  TypeOK
  JailedNotStuck
  StrikesOut
PROPERTIES
  JailCardsConserved
CHECK_DEADLOCK FALSE
