--------------------------- MODULE BiddingProofs ---------------------------
(***************************************************************************)
(* What the auction of a board guarantees for every set of bids and for    *)
(* auctions of every length, proved for the specification of Bidding.      *)
(***************************************************************************)
EXTENDS Bidding, FiniteSetTheorems, WellFoundedInduction, SequenceTheorems, TLAPS

\* A set of indices that is not empty has a greatest element, so that the
\* scan of the code for the last call of a kind finds one if there is one.
LEMMA LastIndex ==
  ASSUME NEW n \in Nat, NEW I \in SUBSET (1 .. n), I # {}
  PROVE  /\ Max(I) \in I
         /\ \A i \in I : i <= Max(I)
<1> DEFINE Room == {k \in Nat : n - k \in I}
<1>1. Room \in SUBSET Nat
  OBVIOUS
<1>2. Room # {}
  <2>1. PICK i \in I : TRUE
    OBVIOUS
  <2>2. n - i \in Nat /\ n - (n - i) = i
    OBVIOUS
  <2>3. n - i \in Room
    BY <2>1, <2>2
  <2> QED BY <2>3
<1>3. PICK x \in Room : \A y \in Room : <<y, x>> \notin OpToRel(<, Nat)
  <2> HIDE DEF Room
  <2> QED BY <1>1, <1>2, WFMin, NatLessThanWellFounded, Zenon
<1>4. \A a, b \in Nat : <<a, b>> \in OpToRel(<, Nat) <=> a < b
  BY DEF OpToRel
<1>5. \A y \in Room : ~(y < x)
  BY <1>1, <1>3, <1>4, Zenon
<1>6. \A i \in I : n - x >= i
  <2> TAKE i \in I
  <2>1. n - i \in Room
    OBVIOUS
  <2>2. ~(n - i < x)
    BY <2>1, <1>5
  <2> QED BY <2>2
<1>7. n - x \in I
  BY <1>3
<1>8. Max(I) \in I /\ \A i \in I : Max(I) >= i
  BY <1>6, <1>7 DEF Max
<1> QED BY <1>8

\* The same for a scan that yields 0 when there is none.
LEMMA LastWhere ==
  ASSUME NEW n \in Nat, NEW I \in SUBSET (1 .. n), NEW k,
         k = IF I # {} THEN Max(I) ELSE 0
  PROVE  /\ k \in 0 .. n
         /\ k # 0 => k \in I
         /\ \A i \in k + 1 .. n : i \notin I
<1>1. CASE I = {}
  BY <1>1
<1>2. CASE I # {}
  <2>1. k \in I /\ \A i \in I : i <= k
    BY <1>2, LastIndex
  <2> QED BY <2>1
<1> QED BY <1>1, <1>2

\* Where the last bid of an auction is, and its last call but passes.
LEMMA LastBidIndex ==
  ASSUME NEW c \in Seq(Calls)
  PROVE  /\ LastBid(c) \in 0 .. Len(c)
         /\ LastBid(c) # 0 => IsBid(c[LastBid(c)])
         /\ \A i \in LastBid(c) + 1 .. Len(c) : ~IsBid(c[i])
<1> DEFINE I == {i \in 1 .. Len(c) : IsBid(c[i])}
<1>1. LastBid(c) = IF I # {} THEN Max(I) ELSE 0
  BY DEF LastBid, SelectLastInSeq
<1>2. Len(c) \in Nat /\ I \in SUBSET (1 .. Len(c))
  OBVIOUS
<1>3. /\ LastBid(c) \in 0 .. Len(c)
      /\ LastBid(c) # 0 => LastBid(c) \in I
      /\ \A i \in LastBid(c) + 1 .. Len(c) : i \notin I
  <2> HIDE DEF I
  <2> QED BY <1>1, <1>2, LastWhere
<1>4. \A i \in LastBid(c) + 1 .. Len(c) : i \in 1 .. Len(c)
  BY <1>2, <1>3
<1> QED BY <1>3, <1>4

\* The same for the last call that is not a pass.
LEMMA LastActionIndex ==
  ASSUME NEW c \in Seq(Calls)
  PROVE  /\ LastAction(c) \in 0 .. Len(c)
         /\ LastAction(c) # 0 => ~IsPass(c[LastAction(c)])
         /\ \A i \in LastAction(c) + 1 .. Len(c) : IsPass(c[i])
<1> DEFINE I == {i \in 1 .. Len(c) : ~IsPass(c[i])}
<1>1. LastAction(c) = IF I # {} THEN Max(I) ELSE 0
  BY DEF LastAction, SelectLastInSeq
<1>2. Len(c) \in Nat /\ I \in SUBSET (1 .. Len(c))
  OBVIOUS
<1>3. /\ LastAction(c) \in 0 .. Len(c)
      /\ LastAction(c) # 0 => LastAction(c) \in I
      /\ \A i \in LastAction(c) + 1 .. Len(c) : i \notin I
  <2> HIDE DEF I
  <2> QED BY <1>1, <1>2, LastWhere
<1>4. \A i \in LastAction(c) + 1 .. Len(c) : i \in 1 .. Len(c)
  BY <1>2, <1>3
<1> QED BY <1>3, <1>4

\* What a bid of an auction is: a level and a strain.
LEMMA BidParts ==
  ASSUME NEW call \in Calls, IsBid(call)
  PROVE  call.level \in Int /\ call.strain \in Int
<1>1. call \in AllBids
  BY BidsAssumption DEF Calls, IsBid, Pass, Double, Redouble
<1> QED BY <1>1 DEF AllBids, Bid, Strain

-----------------------------------------------------------------------------
(* The calls of the log are calls the players may make. *)

\* The log holds calls, one to a place, whatever was made and undone.
THEOREM TypeCorrect == Spec => []TypeOK
<1>1. Init => TypeOK
  BY DEF Init, TypeOK
<1>2. TypeOK /\ [Next]_calls => TypeOK'
  <2> SUFFICES ASSUME TypeOK, [Next]_calls PROVE TypeOK'
    OBVIOUS
  <2>1. ASSUME NEW call \in Calls, MakeCall(call) PROVE TypeOK'
    BY <2>1 DEF TypeOK, MakeCall
  <2>2. ASSUME NEW n \in 0 .. Len(calls), UndoTo(n) PROVE TypeOK'
    BY <2>2 DEF TypeOK, UndoTo
  <2>3. CASE UNCHANGED calls
    BY <2>3 DEF TypeOK
  <2> QED BY <2>1, <2>2, <2>3 DEF Next
<1> QED BY <1>1, <1>2, PTL DEF Spec

\* What a step does to the log, call by call.
LEMMA MakeCallLog ==
  ASSUME TypeOK, NEW call \in Calls, MakeCall(call)
  PROVE  /\ Len(calls') = Len(calls) + 1
         /\ \A i \in 1 .. Len(calls) : calls'[i] = calls[i]
         /\ calls'[Len(calls) + 1] = call
         /\ IsLegal(calls, call)
  BY DEF TypeOK, MakeCall

\* An undo leaves the calls it keeps as they were.
LEMMA UndoToLog ==
  ASSUME TypeOK, NEW n \in 0 .. Len(calls), UndoTo(n)
  PROVE  /\ Len(calls') = n
         /\ \A i \in 1 .. n : calls'[i] = calls[i]
  BY DEF TypeOK, UndoTo

-----------------------------------------------------------------------------
(* Bids ascend.  A new bid is compared with the last bid alone; that it     *)
(* outranks the earlier ones follows because those ascend already.          *)

\* Outranking is transitive, which is why comparing with the last bid is enough.
LEMMA OutranksTransitive ==
  ASSUME NEW a \in Calls, NEW b \in Calls, NEW c \in Calls,
         IsBid(a), IsBid(b), IsBid(c), Outranks(a, b), Outranks(b, c)
  PROVE  Outranks(a, c)
  BY BidParts DEF Outranks

\* A legal bid outranks every bid so far, if those ascend.
LEMMA BidOutranksAll ==
  ASSUME TypeOK, BidsAscend, NEW call \in Calls, IsBid(call), IsLegal(calls, call),
         NEW i \in 1 .. Len(calls), IsBid(calls[i])
  PROVE  Outranks(call, calls[i])
<1> DEFINE last == LastBid(calls)
<1>1. /\ last \in 0 .. Len(calls)
      /\ \A k \in last + 1 .. Len(calls) : ~IsBid(calls[k])
      /\ last # 0 => IsBid(calls[last])
  BY LastBidIndex DEF TypeOK
<1>2. last # 0 => Outranks(call, calls[last])
  BY DEF IsLegal, IsPass, IsBid, IsDouble, IsRedouble
<1> HIDE DEF last
<1>3. Len(calls) \in Nat
  BY DEF TypeOK
<1>4. i <= last /\ last \in 1 .. Len(calls)
  BY <1>1, <1>3
<1>5. CASE i = last
  BY <1>2, <1>4, <1>5
<1>6. CASE i < last
  <2>1. Outranks(calls[last], calls[i])
    BY <1>1, <1>3, <1>4, <1>6 DEF BidsAscend, TypeOK
  <2>2. calls[i] \in Calls /\ calls[last] \in Calls
    BY <1>4 DEF TypeOK
  <2> QED BY <1>1, <1>2, <1>4, <2>1, <2>2, OutranksTransitive
<1> QED BY <1>3, <1>4, <1>5, <1>6

\* Every bid of an auction outranks every earlier one, however long the
\* auction and however it was undone and resumed (auction.rs, is_legal).
THEOREM BidsAlwaysAscend == Spec => []BidsAscend
<1>1. Init => BidsAscend
  BY DEF Init, BidsAscend
<1>2. TypeOK /\ BidsAscend /\ [Next]_calls => BidsAscend'
  <2> SUFFICES ASSUME TypeOK, BidsAscend, [Next]_calls PROVE BidsAscend'
    OBVIOUS
  <2> USE DEF TypeOK
  <2>1. ASSUME NEW call \in Calls, MakeCall(call) PROVE BidsAscend'
    <3>1. SUFFICES ASSUME NEW i \in 1 .. Len(calls'), NEW j \in 1 .. Len(calls'),
                          i < j, IsBid(calls'[i]), IsBid(calls'[j])
                   PROVE  Outranks(calls'[j], calls'[i])
      BY <2>1 DEF BidsAscend, MakeCall
    <3>2. CASE j <= Len(calls)
      BY <2>1, <3>1, <3>2, MakeCallLog DEF BidsAscend
    <3>3. CASE j = Len(calls) + 1
      BY <2>1, <3>1, <3>3, MakeCallLog, BidOutranksAll
    <3> QED BY <2>1, <3>2, <3>3, MakeCallLog
  <2>2. ASSUME NEW n \in 0 .. Len(calls), UndoTo(n) PROVE BidsAscend'
    BY <2>2, UndoToLog DEF BidsAscend, UndoTo
  <2>3. CASE UNCHANGED calls
    BY <2>3 DEF BidsAscend
  <2> QED BY <2>1, <2>2, <2>3 DEF Next
<1> QED BY <1>1, <1>2, TypeCorrect, PTL DEF Spec

-----------------------------------------------------------------------------
(* Doubles answer. *)

\* A double or redouble that the legality check admits answers the last
\* call that is not a pass.
LEMMA LegalDoubleAnswers ==
  ASSUME TypeOK, NEW call \in Calls, MakeCall(call),
         NEW n \in Nat, n = Len(calls) + 1
  PROVE  /\ IsDouble(call) =>
              \E j \in 1 .. Len(calls) : IsBid(calls'[j]) /\ Answers(n, j)'
         /\ IsRedouble(call) =>
              \E j \in 1 .. Len(calls) : IsDouble(calls'[j]) /\ Answers(n, j)'
<1> DEFINE last == LastAction(calls)
<1>1. PICK m \in Nat : m = last /\ m <= Len(calls)
  BY LastActionIndex DEF TypeOK
<1>2. Len(calls) \in Nat /\ \A k \in m + 1 .. Len(calls) : IsPass(calls[k])
  BY <1>1, LastActionIndex DEF TypeOK
<1>3. m # 0 /\ IsOpponent(n, m) => Answers(n, m)'
  <2> HIDE DEF last
  <2>1. \A k \in m + 1 .. n - 1 : IsPass(calls'[k])
    BY <1>1, <1>2, MakeCallLog
  <2> QED BY <1>1, <1>2, <2>1 DEF Answers, IsOpponent
<1>4. /\ IsDouble(call) => m # 0 /\ IsBid(calls[m]) /\ IsOpponent(n, m)
      /\ IsRedouble(call) => m # 0 /\ IsDouble(calls[m]) /\ IsOpponent(n, m)
  BY <1>1, MakeCallLog DEF IsLegal, IsPass, IsBid, IsDouble, IsRedouble
<1>5. m # 0 => calls'[m] = calls[m]
  BY <1>1, <1>2, MakeCallLog
<1> QED BY <1>1, <1>2, <1>3, <1>4, <1>5

\* A double stands against a bid of the other side, a redouble against a
\* double of the other side, with only passes between (auction.rs, is_legal).
THEOREM DoublesAlwaysAnswer == Spec => []DoublesAnswer
<1>1. Init => DoublesAnswer
  BY DEF Init, DoublesAnswer
<1>2. TypeOK /\ DoublesAnswer /\ [Next]_calls => DoublesAnswer'
  <2> SUFFICES ASSUME TypeOK, DoublesAnswer, [Next]_calls PROVE DoublesAnswer'
    OBVIOUS
  <2>0. Len(calls) \in Nat /\ DOMAIN calls = 1 .. Len(calls)
    BY DEF TypeOK
  <2>1. ASSUME NEW call \in Calls, MakeCall(call) PROVE DoublesAnswer'
    <3>1. DOMAIN calls' = 1 .. Len(calls) + 1
      BY <2>1 DEF MakeCall, TypeOK
    <3>2. \A i, j \in 1 .. Len(calls) : Answers(i, j) => Answers(i, j)'
      BY <2>0, <2>1, MakeCallLog DEF Answers
    <3>3. ASSUME NEW i \in 1 .. Len(calls)
          PROVE  /\ IsDouble(calls'[i]) =>
                      \E j \in DOMAIN calls' : IsBid(calls'[j]) /\ Answers(i, j)'
                 /\ IsRedouble(calls'[i]) =>
                      \E j \in DOMAIN calls' : IsDouble(calls'[j]) /\ Answers(i, j)'
      BY <2>0, <2>1, <3>1, <3>2, MakeCallLog DEF DoublesAnswer
    <3>4. PICK n \in Nat : n = Len(calls) + 1
      BY <2>0
    <3>5. /\ IsDouble(calls'[n]) =>
               \E j \in DOMAIN calls' : IsBid(calls'[j]) /\ Answers(n, j)'
          /\ IsRedouble(calls'[n]) =>
               \E j \in DOMAIN calls' : IsDouble(calls'[j]) /\ Answers(n, j)'
      BY <2>0, <2>1, <3>1, <3>4, MakeCallLog, LegalDoubleAnswers
    <3>6. \A i \in DOMAIN calls' : i = n \/ i \in 1 .. Len(calls)
      BY <2>0, <3>1, <3>4
    <3> QED BY <3>3, <3>5, <3>6 DEF DoublesAnswer
  <2>2. ASSUME NEW n \in 0 .. Len(calls), UndoTo(n) PROVE DoublesAnswer'
    <3>1. n \in Nat /\ DOMAIN calls' = 1 .. n
      BY <2>2 DEF UndoTo, TypeOK
    <3>2. \A i \in 1 .. n : \A j \in 1 .. Len(calls) :
             Answers(i, j) => j \in 1 .. n /\ Answers(i, j)'
      BY <2>0, <2>2, <3>1, UndoToLog DEF Answers
    <3> QED BY <2>0, <2>2, <3>1, <3>2, UndoToLog DEF DoublesAnswer
  <2>3. CASE UNCHANGED calls
    BY <2>3 DEF DoublesAnswer, Answers
  <2> QED BY <2>1, <2>2, <2>3 DEF Next
<1> QED BY <1>1, <1>2, TypeCorrect, PTL DEF Spec

-----------------------------------------------------------------------------
(* The auction ends once. *)

\* No call follows the passes that end an auction, undo or not: the table
\* admits a call only while the auction is not complete (auction.rs).
THEOREM NothingEverAfterTheEnd == Spec => []NothingAfterTheEnd
<1>1. Init => NothingAfterTheEnd
  BY DEF Init, NothingAfterTheEnd
<1>2. TypeOK /\ NothingAfterTheEnd /\ [Next]_calls => NothingAfterTheEnd'
  <2> SUFFICES ASSUME TypeOK, NothingAfterTheEnd, [Next]_calls
               PROVE  NothingAfterTheEnd'
    OBVIOUS
  <2>0. Len(calls) \in Nat /\ calls \in Seq(Calls)
    BY DEF TypeOK
  <2>1. ASSUME NEW call \in Calls, MakeCall(call) PROVE NothingAfterTheEnd'
    <3>1. Len(calls') = Len(calls) + 1 /\ ~IsComplete(calls)
      BY <2>1, MakeCallLog DEF IsLegal
    <3>2. \A n \in 0 .. Len(calls) : SubSeq(calls', 1, n) = SubSeq(calls, 1, n)
      BY <2>0, <2>1 DEF MakeCall
    <3>3. SubSeq(calls, 1, Len(calls)) = calls
      BY <2>0, SubSeqFull
    <3>4. ASSUME NEW n \in 0 .. Len(calls') - 1
          PROVE  ~IsComplete(SubSeq(calls', 1, n))
      <4>1. n \in 0 .. Len(calls) /\ (n = Len(calls) \/ n \in 0 .. Len(calls) - 1)
        BY <2>0, <3>1
      <4>2. SubSeq(calls', 1, n) = SubSeq(calls, 1, n)
        BY <3>2, <4>1
      <4>3. ~IsComplete(SubSeq(calls, 1, n))
        BY <3>1, <3>3, <4>1, Zenon DEF NothingAfterTheEnd
      <4> QED BY <4>2, <4>3, Zenon
    <3> QED BY <3>4 DEF NothingAfterTheEnd
  <2>2. ASSUME NEW m \in 0 .. Len(calls), UndoTo(m) PROVE NothingAfterTheEnd'
    <3>1. Len(calls') = m
      BY <2>2, UndoToLog
    <3>2. \A n \in 0 .. m : SubSeq(calls', 1, n) = SubSeq(calls, 1, n)
      BY <2>0, <2>2 DEF UndoTo
    <3>3. ASSUME NEW n \in 0 .. Len(calls') - 1
          PROVE  ~IsComplete(SubSeq(calls', 1, n))
      <4>1. n \in 0 .. Len(calls) - 1 /\ n \in 0 .. m
        BY <2>0, <3>1
      <4>2. ~IsComplete(SubSeq(calls, 1, n))
        BY <4>1 DEF NothingAfterTheEnd
      <4> QED BY <3>2, <4>1, <4>2
    <3> QED BY <3>3 DEF NothingAfterTheEnd
  <2>3. CASE UNCHANGED calls
    BY <2>3 DEF NothingAfterTheEnd
  <2> QED BY <2>1, <2>2, <2>3 DEF Next
<1> QED BY <1>1, <1>2, TypeCorrect, PTL DEF Spec

-----------------------------------------------------------------------------
(* Auctions are bounded.  Two passes at most before each of double, redouble *)
(* and the next bid; undo makes every prefix count.                          *)

\* The bids of an auction, by their places.
BidsOf(c) == {i \in DOMAIN c : IsBid(c[i])}

\* How far from a bid its last double or redouble can stand, itself included.
Stage(call) == IF IsBid(call) THEN 1 ELSE IF IsDouble(call) THEN 4 ELSE 7

\* The last call but passes stands within the room its bids made, and three
\* passes follow it at most.
Within(c) ==
  LET last == LastAction(c)
      bids == Cardinality(BidsOf(c))
  IN  /\ last = 0 => Len(c) <= 4
      /\ last # 0 => /\ bids >= 1
                     /\ Len(c) - last <= 3
                     /\ last <= 9 * bids - 6 + Stage(c[last])

\* Every log that undo can bring back is within bounds.
AllWithin == \A n \in 0 .. Len(calls) : Within(SubSeq(calls, 1, n))

\* What one more call makes of the last action and of the bids.
LEMMA OneMoreCall ==
  ASSUME NEW c \in Seq(Calls), NEW call \in Calls
  PROVE  LET more == Append(c, call)
         IN  /\ LastAction(more) = IF IsPass(call) THEN LastAction(c) ELSE Len(c) + 1
             /\ Cardinality(BidsOf(c)) \in Nat
             /\ Cardinality(BidsOf(more)) = Cardinality(BidsOf(c)) + (IF IsBid(call) THEN 1 ELSE 0)
<1> DEFINE more == Append(c, call)
           n == Len(c)
<1>1. /\ more \in Seq(Calls) /\ Len(more) = n + 1 /\ n \in Nat /\ more[n + 1] = call
      /\ \A i \in 1 .. n : more[i] = c[i]
      /\ DOMAIN c = 1 .. n /\ DOMAIN more = 1 .. n + 1
  BY AppendProperties
<1> HIDE DEF more, n
<1>2. LastAction(more) = IF IsPass(call) THEN LastAction(c) ELSE n + 1
  <2>1. /\ LastAction(more) \in 0 .. n + 1
        /\ LastAction(more) # 0 => ~IsPass(more[LastAction(more)])
        /\ \A i \in LastAction(more) + 1 .. n + 1 : IsPass(more[i])
    BY <1>1, LastActionIndex
  <2>2. /\ LastAction(c) \in 0 .. n
        /\ LastAction(c) # 0 => ~IsPass(c[LastAction(c)])
        /\ \A i \in LastAction(c) + 1 .. n : IsPass(c[i])
    BY LastActionIndex DEF n
  <2> QED BY <1>1, <2>1, <2>2
<1>3. IsFiniteSet(BidsOf(c)) /\ Cardinality(BidsOf(c)) \in Nat
  <2>1. IsFiniteSet(1 .. n)
    BY <1>1, FS_Interval
  <2> QED BY <1>1, <2>1, FS_Subset, FS_CardinalityType DEF BidsOf
<1>4. BidsOf(more) = IF IsBid(call) THEN BidsOf(c) \cup {n + 1} ELSE BidsOf(c)
  BY <1>1 DEF BidsOf
<1>5. n + 1 \notin BidsOf(c)
  BY <1>1 DEF BidsOf
<1>6. Cardinality(BidsOf(c) \cup {n + 1}) = Cardinality(BidsOf(c)) + 1
  BY <1>3, <1>5, FS_AddElement
<1> QED BY <1>2, <1>3, <1>4, <1>6 DEF more, n

\* A legal call keeps within bounds: unless the auction is over, two passes at
\* most stand before it, or three at the start.
LEMMA LegalWithin ==
  ASSUME NEW c \in Seq(Calls), NEW call \in Calls, IsLegal(c, call), Within(c)
  PROVE  Within(Append(c, call))
<1> DEFINE more == Append(c, call)
           n == Len(c)
           last == LastAction(c)
           bids == Cardinality(BidsOf(c))
           bids2 == Cardinality(BidsOf(more))
<1>1. /\ Len(more) = n + 1 /\ n \in Nat /\ more[n + 1] = call
      /\ \A i \in 1 .. n : more[i] = c[i]
  BY AppendProperties
<1>2. /\ LastAction(more) = IF IsPass(call) THEN last ELSE n + 1
      /\ bids \in Nat /\ bids2 = bids + (IF IsBid(call) THEN 1 ELSE 0)
  BY OneMoreCall
<1>3. last \in 0 .. n /\ (last # 0 => ~IsPass(c[last])) /\ \A i \in last + 1 .. n : IsPass(c[i])
  BY LastActionIndex
<1>4. n < 4 \/ n - last < 3
  <2>1. ~(n >= 4 /\ \A i \in n - 2 .. n : IsPass(c[i]))
    BY DEF IsLegal, IsComplete
  <2> HIDE DEF n, last
  <2> QED BY <1>1, <1>3, <2>1
<1>5. /\ last = 0 => n <= 4
      /\ last # 0 => bids >= 1 /\ n - last <= 3 /\ last <= 9 * bids - 6 + Stage(c[last])
  BY DEF Within
<1>6. Stage(c[last]) \in {1, 4, 7}
  BY DEF Stage
<1> DEFINE InBounds == /\ LastAction(more) = 0 => Len(more) <= 4
                       /\ LastAction(more) # 0 =>
                            /\ bids2 >= 1 /\ Len(more) - LastAction(more) <= 3
                            /\ LastAction(more) <= 9 * bids2 - 6 + Stage(more[LastAction(more)])
<1> HIDE DEF more, n, last, bids, bids2
<1>7. IsPass(call) => InBounds
  <2> SUFFICES ASSUME IsPass(call) PROVE InBounds
    OBVIOUS
  <2>1. LastAction(more) = last /\ bids2 = bids
    BY <1>2 DEF IsPass, IsBid
  <2>2. last # 0 => more[last] = c[last]
    BY <1>1, <1>3
  <2> QED BY <1>1, <1>3, <1>4, <1>5, <1>6, <2>1, <2>2
<1>8. IsBid(call) => InBounds
  <2> SUFFICES ASSUME IsBid(call) PROVE InBounds
    OBVIOUS
  <2>1. LastAction(more) = n + 1 /\ bids2 = bids + 1 /\ Stage(call) = 1
    BY <1>2 DEF IsPass, IsBid, Stage
  <2>2. n + 1 <= 9 * bids2 - 6 + 1
    BY <1>1, <1>2, <1>3, <1>4, <1>5, <1>6, <2>1
  <2> QED BY <1>1, <1>2, <2>1, <2>2
<1>9. IsDouble(call) \/ IsRedouble(call) => InBounds
  <2> SUFFICES ASSUME IsDouble(call) \/ IsRedouble(call) PROVE InBounds
    OBVIOUS
  <2>1. /\ LastAction(more) = n + 1 /\ bids2 = bids /\ last # 0
        /\ Stage(call) = Stage(c[last]) + 3
    BY <1>2 DEF IsPass, IsBid, IsDouble, IsRedouble, IsLegal, Stage, last
  <2>2. n + 1 <= 9 * bids - 6 + Stage(c[last]) + 3
    BY <1>1, <1>2, <1>3, <1>4, <1>5, <1>6, <2>1
  <2> QED BY <1>1, <1>2, <1>5, <1>6, <2>1, <2>2
<1>10. InBounds
  BY <1>7, <1>8, <1>9 DEF IsLegal
<1>11. bids2 = Cardinality(BidsOf(more))
  BY DEF bids2
<1>12. Within(more)
  BY <1>10, <1>11 DEF Within
<1> QED BY <1>12 DEF more

\* However calls are made and taken back, an auction has at most nine calls
\* for each of its bids and four more (auction.rs, is_legal; table.rs, apply
\* and undo_to).
THEOREM AuctionAlwaysBounded == Spec => []AuctionBounded
<1>1. ASSUME TypeOK, AllWithin PROVE AuctionBounded
  <2>1. Len(calls) \in 0 .. Len(calls) /\ SubSeq(calls, 1, Len(calls)) = calls
    BY <1>1 DEF TypeOK
  <2>2. Within(calls)
    BY <1>1, <2>1 DEF AllWithin
  <2> DEFINE last == LastAction(calls)
             bids == Cardinality(BidsOf(calls))
             n == Len(calls)
  <2>3. /\ last = 0 => n <= 4
        /\ last # 0 => bids >= 1 /\ n - last <= 3 /\ last <= 9 * bids - 6 + Stage(calls[last])
    BY <2>2 DEF Within
  <2>4. last \in 0 .. n /\ n \in Nat /\ bids \in Nat
    <3>1. Pass \in Calls
      BY DEF Calls
    <3> QED BY <1>1, <3>1, LastActionIndex, OneMoreCall DEF TypeOK
  <2>5. Stage(calls[last]) <= 7 /\ Stage(calls[last]) \in Nat
    BY DEF Stage
  <2> HIDE DEF last, bids, n
  <2>6. n <= 4 + 9 * bids
    BY <2>3, <2>4, <2>5
  <2> QED BY <2>6 DEF AuctionBounded, bids, n, BidsOf
<1>2. Init => AllWithin
  <2> SUFFICES ASSUME Init PROVE AllWithin
    OBVIOUS
  <2>1. \A n \in 0 .. Len(calls) : SubSeq(calls, 1, n) = <<>>
    BY DEF Init
  <2>2. LastAction(<<>>) = 0 /\ Len(<<>>) <= 4
    <3>1. <<>> \in Seq(Calls) /\ Len(<<>>) = 0
      BY EmptySeq
    <3>2. LastAction(<<>>) \in 0 .. Len(<<>>)
      BY <3>1, LastActionIndex
    <3> QED BY <3>1, <3>2
  <2> QED BY <2>1, <2>2 DEF AllWithin, Within
<1>3. TypeOK /\ AllWithin /\ [Next]_calls => AllWithin'
  <2> SUFFICES ASSUME TypeOK, AllWithin, [Next]_calls PROVE AllWithin'
    OBVIOUS
  <2>1. Len(calls) \in Nat /\ calls \in Seq(Calls)
    BY DEF TypeOK
  <2>2. ASSUME NEW call \in Calls, MakeCall(call) PROVE AllWithin'
    <3>1. Len(calls') = Len(calls) + 1 /\ calls' = Append(calls, call) /\ IsLegal(calls, call)
      BY <2>2, MakeCallLog DEF MakeCall
    <3>2. \A n \in 0 .. Len(calls) : SubSeq(calls', 1, n) = SubSeq(calls, 1, n)
      BY <2>1, <3>1
    <3>3. SubSeq(calls, 1, Len(calls)) = calls /\ SubSeq(calls', 1, Len(calls) + 1) = calls'
      BY <2>1, <3>1
    <3>4. Within(calls')
      <4>1. Within(calls)
        <5>1. Len(calls) \in 0 .. Len(calls)
          BY <2>1
        <5> QED BY <3>3, <5>1 DEF AllWithin
      <4> QED BY <2>1, <3>1, <4>1, LegalWithin
    <3>5. ASSUME NEW n \in 0 .. Len(calls') PROVE Within(SubSeq(calls', 1, n))
      <4>1. CASE n = Len(calls) + 1
        BY <3>3, <3>4, <4>1
      <4>2. CASE n # Len(calls) + 1
        <5>1. n \in 0 .. Len(calls)
          BY <2>1, <3>1, <4>2
        <5> QED BY <3>2, <5>1 DEF AllWithin
      <4> QED BY <4>1, <4>2
    <3> QED BY <3>5 DEF AllWithin
  <2>3. ASSUME NEW m \in 0 .. Len(calls), UndoTo(m) PROVE AllWithin'
    <3>1. Len(calls') = m
      BY <2>3, UndoToLog
    <3>2. \A n \in 0 .. m : SubSeq(calls', 1, n) = SubSeq(calls, 1, n) /\ n \in 0 .. Len(calls)
      BY <2>1, <2>3 DEF UndoTo
    <3> QED BY <3>1, <3>2 DEF AllWithin
  <2>4. CASE UNCHANGED calls
    BY <2>4 DEF AllWithin
  <2> QED BY <2>2, <2>3, <2>4 DEF Next
<1> QED BY <1>1, <1>2, <1>3, TypeCorrect, PTL DEF Spec

=============================================================================
