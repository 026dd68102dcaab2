SPECIFICATION Spec
CONSTANTS
  h1 = h1
  h2 = h2
  p1 = p1
  shortSet = shortSet
  longSet = longSet
  NoSet = NoSet
  Host <- TwoHosts
  Arrival <- OneArrival
  SetSize <- ShortAndLong
  FirstSet = NoSet
  FirstTables = 1
  MaxTables = 2
  MaxAsked = 3
  Adhoc = FALSE
  Setting = {"boardMode"}
  Value = {"play", "bid"}
  Default = "play"
SYMMETRY HostsAlike
INVARIANTS TypeOK InStep SettingsAgree WindowFits
