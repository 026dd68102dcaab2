--------------------------- MODULE MCPredictions ---------------------------
(* Instances of Predictions for TLC. *)
EXTENDS Predictions

TwoBids == {Bid(1, 0), Bid(1, 4)}
OneBid == {Bid(1, 4)}
TwoBoards == {"first", "second"}
NorthThenEast == [d \in TwoBoards |-> IF d = "first" THEN 0 ELSE 1]
NoneOrEastWest == {{}, {1}}
=============================================================================
