------------------------------ MODULE MCClaims ------------------------------
(* One card in each hand; South may be a human, and a claim of South may    *)
(* race with a ruling for East; one claim is for a trick too many.          *)
EXTENDS ClaimsJudged

C(suit, rank) == [suit |-> suit, rank |-> rank]

MCHands == (North :> {C(0, 5)}) @@ (East :> {C(3, 4)})
        @@ (South :> {C(0, 9)}) @@ (West :> {C(0, 3)})

MCBoards == {[dealer |-> East, hands |-> MCHands]}
MCCalls  == {Pass, Bid(1, 4)}
MCAsks   == {[seat |-> South, tricks |-> 1, ruling |-> FALSE],
             [seat |-> West,  tricks |-> 2, ruling |-> TRUE],
             [seat |-> East,  tricks |-> 0, ruling |-> TRUE]}
JustSouth == {South}

\* The claimants are alike.
ClaimantsAlike == Permutations(Claimant)
=============================================================================
