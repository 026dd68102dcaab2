SPECIFICATION Spec
CONSTANTS
  ann = ann
  bob = bob
  NoPerson = NoPerson
  Person <- TwoPeople
  Owner = ann
  Conn = {c1, c2}
  Host = {h1}
  NameOf <- SameName
  Chairs <- TwoChairs
  Adhoc = TRUE
  Policies = {"manual", "firstFree"}
  Invited <- JustBob
  Reservable <- JustSouth
  MaxActors = 3
SYMMETRY ActorsAlike
INVARIANT ReturnedIsHere
