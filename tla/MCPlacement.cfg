SPECIFICATION Spec
CONSTANTS
  Person = {p1, p2, p3, p4}
  Nobody = Nobody
  Policies = {"one_per_south", "first_free", "two_per_ns", "pairs_ns", "manual"}
  HostTables = 2
  HostChairs <- JustSouth
  MaxMoves = 2
SYMMETRY PeopleAlike
INVARIANTS
  TypeOK
  NoNeedlessTable
  Evenly
  PartnersTogether
  SeatedOnce
