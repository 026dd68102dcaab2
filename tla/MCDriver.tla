----------------------------- MODULE MCDriver -----------------------------
(* One card in each hand and one bid; North and South may be humans, who    *)
(* may be on the declaring side together; the others are bots.              *)
EXTENDS BotDriver

C(suit, rank) == [suit |-> suit, rank |-> rank]

MCHands == (North :> {C(0, 5)}) @@ (East :> {C(3, 4)})
        @@ (South :> {C(0, 9)}) @@ (West :> {C(0, 3)})

MCBoards == {[dealer |-> East, hands |-> MCHands]}
MCCalls  == {Pass, Bid(1, 4)}
NorthSouth == {North, South}
=============================================================================
