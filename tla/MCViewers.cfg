SPECIFICATION FairSpec
CONSTANTS
  c1 = c1
  s1 = s1
  s2 = s2
  Conn <- OneConn
  Sender <- TwoSenders
  Capacity = 2
  MaxId = 3
INVARIANTS TypeOK NothingLost NoGhosts
PROPERTY ClosedHangUp
