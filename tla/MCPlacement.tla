---------------------------- MODULE MCPlacement ----------------------------
(* Arrivals are alike.  Of the policies one spreads people over all chairs, *)
(* one over two, one fills by pairs and one leaves them waiting.            *)
EXTENDS Placement, TLC

PeopleAlike == Permutations(Person)
JustSouth   == {South}
=============================================================================
