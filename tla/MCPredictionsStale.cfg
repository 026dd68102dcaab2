SPECIFICATION Spec
CONSTANTS
  Deal <- TwoBoards
  NoDeal = "none"
  DealerOf <- NorthThenEast
  Bids <- OneBid
  PassSides <- NoneOrEastWest
  MaxCalls = 2
  MaxDrops = 2

PROPERTY PredictedForThisBoard
