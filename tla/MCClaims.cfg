SPECIFICATION JudgedSpec
CONSTANTS
  Boards <- MCBoards
  Calls <- MCCalls
  Tricks = 1
  Modes = {"bidAndPlay", "bidOnly", "playOnly"}
  HumanSeats <- JustSouth
  Claimant = {c1, c2}
  Asks <- MCAsks
INVARIANTS
  ClaimsTypeOK
  OneClaim
  ClaimCreditedInFull
PROPERTIES
  UndoOfTurnWaits
  ClaimJudgedHere
SYMMETRY ClaimantsAlike
