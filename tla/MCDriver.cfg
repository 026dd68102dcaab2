SPECIFICATION FairDriverSpec
CONSTANTS
  Boards <- MCBoards
  Calls <- MCCalls
  Tricks = 1
  Modes = {"bidAndPlay", "playOnly"}
  HumanSeats <- NorthSouth
  Task = {t1, t2}
  MaxKicks = 1
INVARIANTS
  DriverTypeOK
  OneDriver
  PauseHolds
PROPERTY BotsKeepGoing
