------------------------------- MODULE Bidding -------------------------------
(***************************************************************************)
(* The auction of one board as the table keeps it: the calls in order,     *)
(* each admitted by the legality check of TableState::apply, and cut back  *)
(* by undo (src/src/table.rs).                                             *)
(***************************************************************************)
EXTENDS Auction

CONSTANT Bids    \* the bids the players choose from; all 35 in the code

ASSUME BidsAssumption == Bids \subseteq AllBids

VARIABLE calls   \* the calls of the log, oldest first

Calls == {Pass, Double, Redouble} \cup Bids

Init == calls = <<>>

\* Slip: a pass goes in unchecked.
MakeCallOrPass(call) ==
  /\ IsPass(call) \/ IsLegal(calls, call)
  /\ calls' = Append(calls, call)

\* A call is appended only if it is legal after the calls so far.
MakeCall(call) ==
  /\ IsLegal(calls, call)
  /\ calls' = Append(calls, call)

\* Undo cuts the log back to any earlier length, without further checks.
UndoTo(n) ==
  /\ n \in 0 .. Len(calls)
  /\ calls' = SubSeq(calls, 1, n)

Next ==
  \/ \E call \in Calls : MakeCall(call)
  \/ \E n \in 0 .. Len(calls) : UndoTo(n)

Spec == Init /\ [][Next]_calls

-----------------------------------------------------------------------------

\* The log of an auction is a sequence of calls.
TypeOK == calls \in Seq(Calls)

\* Every bid outranks every earlier one, whatever calls stand between them:
\* the code compares a bid with the last bid only.
BidsAscend ==
  \A i, j \in DOMAIN calls :
    i < j /\ IsBid(calls[i]) /\ IsBid(calls[j]) => Outranks(calls[j], calls[i])

\* The call at i answers the one at j: made by the other side, with nothing
\* but passes between them.
Answers(i, j) ==
  /\ j < i
  /\ IsOpponent(i, j)
  /\ \A k \in j + 1 .. i - 1 : IsPass(calls[k])

\* A double stands against a bid of the other side, a redouble against a
\* double of the other side, and nothing but passes came between.
DoublesAnswer ==
  \A i \in DOMAIN calls :
    /\ IsDouble(calls[i])   => \E j \in DOMAIN calls : IsBid(calls[j]) /\ Answers(i, j)
    /\ IsRedouble(calls[i]) => \E j \in DOMAIN calls : IsDouble(calls[j]) /\ Answers(i, j)

\* No call was ever made in an auction that three passes had already ended.
NothingAfterTheEnd ==
  \A n \in 0 .. Len(calls) - 1 : ~IsComplete(SubSeq(calls, 1, n))

\* An auction cannot go on for ever: nine calls a bid at most, and four more.
AuctionBounded ==
  Len(calls) <= 4 + 9 * Cardinality({i \in DOMAIN calls : IsBid(calls[i])})

=============================================================================
