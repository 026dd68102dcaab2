SPECIFICATION Spec
CONSTANT Bids <- MCBids
INVARIANTS
  BidsAscend
  DoublesAnswer
  NothingAfterTheEnd
  AuctionBounded
