------------------------------- MODULE MCTable -------------------------------
(* Two cards in each hand and two suits: ruffs, discards and revokes to     *)
(* refuse, at a trump contract or at notrump.  Two bids in one strain make  *)
(* its first bidder matter.                                                 *)
EXTENDS TableGame

C(suit, rank) == [suit |-> suit, rank |-> rank]

\* North holds both suits, East is void in one, so can ruff or discard.
MCHands == (North :> {C(0, 5), C(3, 2)}) @@ (East :> {C(3, 4), C(3, 7)})
        @@ (South :> {C(0, 9), C(3, 6)}) @@ (West :> {C(0, 3), C(0, 8)})

MCBoards == {[dealer |-> South, hands |-> MCHands]}
MCCalls  == {Pass, Bid(1, 3), Bid(2, 3), Bid(1, 4)}
=============================================================================
