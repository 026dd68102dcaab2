SPECIFICATION Spec
CONSTANTS
  h1 = h1
  h2 = h2
  p1 = p1
  shortSet = shortSet
  longSet = longSet
  NoSet = NoSet
  Host <- OneHost
  Arrival <- NoArrival
  SetSize <- OnlyLong
  FirstSet = NoSet
  FirstTables = 1
  MaxTables = 2
  MaxAsked = 3
  Adhoc = FALSE
  Setting = {"boardMode"}
  Value = {"play", "bid"}
  Default = "play"
PROPERTY AdvanceIsNext
