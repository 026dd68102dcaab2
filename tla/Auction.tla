------------------------------- MODULE Auction -------------------------------
(***************************************************************************)
(* The rules of the auction (src/src/engine/auction.rs): whose turn it is  *)
(* to call, which calls are legal, when the auction is over and what the   *)
(* contract is.  Indices into a sequence of calls start at 1 here and at   *)
(* 0 in the code.                                                          *)
(***************************************************************************)
EXTENDS Bridge

Pass     == [kind |-> "pass"]
Double   == [kind |-> "double"]
Redouble == [kind |-> "redouble"]
Bid(level, strain) == [kind |-> "bid", level |-> level, strain |-> strain]

AllBids  == {Bid(l, s) : l \in 1 .. 7, s \in Strain}
AllCalls == {Pass, Double, Redouble} \cup AllBids

IsPass(c)     == c.kind = "pass"
IsDouble(c)   == c.kind = "double"
IsRedouble(c) == c.kind = "redouble"
IsBid(c)      == c.kind = "bid"

-----------------------------------------------------------------------------

\* Higher level wins; at equal level clubs < diamonds < ... < notrump.
Outranks(b, c) ==
  \/ b.level > c.level
  \/ b.level = c.level /\ b.strain > c.strain

\* The seat that makes the i-th call of an auction opened by `dealer`, and
\* the seat to call after `calls`.
CallerAt(dealer, i) == SeatAfter(dealer, i - 1)
NextCaller(dealer, calls) == CallerAt(dealer, Len(calls) + 1)

\* Slip: four passes end every auction, not just a passed-out one.
IsCompleteByFour(calls) ==
  Len(calls) >= 4 /\ \A i \in Len(calls) - 3 .. Len(calls) : IsPass(calls[i])

\* At least four calls, and the last three are passes.
IsComplete(calls) ==
  /\ Len(calls) >= 4
  /\ \A i \in Len(calls) - 2 .. Len(calls) : IsPass(calls[i])

\* Slips: the scan runs from the front of the calls.
FirstBid(calls)    == SelectInSeq(calls, IsBid)
FirstAction(calls) == SelectInSeq(calls, LAMBDA c : ~IsPass(c))

\* Index of the last bid, 0 if there is none.
LastBid(calls) == SelectLastInSeq(calls, IsBid)

\* Index of the last call that is not a pass, 0 if all are passes.
LastAction(calls) == SelectLastInSeq(calls, LAMBDA c : ~IsPass(c))

\* Whether the call made at `target` came from the other side than the call
\* made at `current`.
IsOpponent(current, target) == current % 2 # target % 2

IsLegal(calls, call) ==
  LET last == LastAction(calls)
      bid  == LastBid(calls)
  IN  /\ ~IsComplete(calls)
      /\ \/ IsPass(call)
         \/ /\ IsBid(call)
            /\ call.level \in 1 .. 7
            /\ bid # 0 => Outranks(call, calls[bid])
         \/ /\ IsDouble(call)
            /\ last # 0
            /\ IsBid(calls[last])
            /\ IsOpponent(Len(calls) + 1, last)
         \/ /\ IsRedouble(call)
            /\ last # 0
            /\ IsDouble(calls[last])
            /\ IsOpponent(Len(calls) + 1, last)

-----------------------------------------------------------------------------
(* The contract.  The code delegates it to the bridge-types library: the   *)
(* last bid, as doubled or redoubled after it, declared by the first       *)
(* player of that side to have named its strain.                           *)

NoContract == [level |-> 0]

\* Slip: whoever made the last bid declares.
LastNamed(calls, bid) == {bid}

\* The bids, up to the last, that named its strain for its side.
Named(calls, bid) ==
  {i \in 1 .. bid : /\ IsBid(calls[i])
                    /\ calls[i].strain = calls[bid].strain
                    /\ ~IsOpponent(i, bid)}

Contract(dealer, calls) ==
  LET bid   == LastBid(calls)
      after == {calls[i] : i \in bid + 1 .. Len(calls)}
  IN  IF ~IsComplete(calls) \/ bid = 0
      THEN NoContract
      ELSE [level    |-> calls[bid].level,
            strain   |-> calls[bid].strain,
            doubled  |-> IF Redouble \in after THEN 2
                         ELSE IF Double \in after THEN 1 ELSE 0,
            declarer |-> CallerAt(dealer, Min(Named(calls, bid)))]

OpeningLeader(contract) == NextSeat(contract.declarer)
Dummy(contract)         == Partner(contract.declarer)

=============================================================================
