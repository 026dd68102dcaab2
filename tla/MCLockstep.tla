----------------------------- MODULE MCLockstep -----------------------------
(* Instances of Lockstep for TLC. *)
EXTENDS Lockstep

CONSTANTS h1, h2, p1, shortSet, longSet

TwoHosts == {h1, h2}
OneHost == {h1}
OneArrival == {p1}
NoArrival == {}
ShortAndLong == (shortSet :> 1) @@ (longSet :> 2)
HostsAlike == Permutations(TwoHosts)
OnlyLong == longSet :> 3
=============================================================================
