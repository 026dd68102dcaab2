----------------------------- MODULE MCBidding -----------------------------
(* Auctions with three bids, two of them in one strain. *)
EXTENDS Bidding

MCBids == {Bid(1, 0), Bid(1, 4), Bid(2, 0)}
=============================================================================
