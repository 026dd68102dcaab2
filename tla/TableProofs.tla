---------------------------- MODULE TableProofs ----------------------------
(***************************************************************************)
(* What the event-sourced table guarantees for hands of every size and for *)
(* logs of every length, proved for the specification of TableLog; that    *)
(* folding its log plays the game of BridgeGame; and what claims add.      *)
(*                                                                         *)
(* An undo may bring any earlier log back, so what is inductive speaks of  *)
(* every prefix of the log: each is Sound, a log of calls, then plays,     *)
(* then at most one claim, whose plays follow the seats round the table    *)
(* from the leader of each trick.                                          *)
(***************************************************************************)
EXTENDS TableGame, ClaimsJudged, FiniteSetTheorems, SequenceTheorems, WellFoundedInduction, TLAPS

-----------------------------------------------------------------------------
(* Induction, recursion and extremes. *)

\* Induction over the naturals, for a set of them.
LEMMA Induct ==
  ASSUME NEW S, 0 \in S, \A n \in Nat : n \in S => n + 1 \in S
  PROVE  Nat \subseteq S
<1> SUFFICES ASSUME ~(Nat \subseteq S) PROVE FALSE
  OBVIOUS
<1> DEFINE Out == Nat \ S
<1>1. Out # {} /\ Out \subseteq Nat
  OBVIOUS
<1>2. PICK x \in Out : \A y \in Out : <<y, x>> \notin OpToRel(<, Nat)
  <2> HIDE DEF Out
  <2> QED BY <1>1, WFMin, NatLessThanWellFounded, Zenon
<1>3. \A a, b \in Nat : <<a, b>> \in OpToRel(<, Nat) <=> a < b
  BY DEF OpToRel
<1>4. x # 0 /\ x \in Nat
  BY <1>2
<1>5. x - 1 \in Nat /\ x - 1 < x /\ (x - 1) + 1 = x
  BY <1>4
<1>6. x - 1 \notin Out
  <2> HIDE DEF Out
  <2> QED BY <1>1, <1>2, <1>3, <1>5
<1> QED BY <1>2, <1>5, <1>6

\* A recursive function over an initial part of the naturals exists.
Steps(T, N, step) == \A n \in 1 .. N, x \in T : step[<<n, x>>] \in T
Recurs(f, T, base, N, step) ==
  f \in [0 .. N -> T] /\ f[0] = base /\ \A n \in 1 .. N : f[n] = step[<<n, f[n - 1]>>]

\* Such a function exists, whatever the step.
LEMMA Recursion ==
  ASSUME NEW T, NEW base \in T, NEW N \in Nat, NEW step, Steps(T, N, step)
  PROVE  \E f : Recurs(f, T, base, N, step)
<1> USE DEF Steps, Recurs
<1> DEFINE Up(m, f) == f[0] = base /\ \A n \in 1 .. m : f[n] = step[<<n, f[n - 1]>>]
           S == {m \in Nat : m <= N => \E f \in [0 .. m -> T] : Up(m, f)}
<1>1. 0 \in S
  <2> DEFINE g == [i \in 0 .. 0 |-> base]
  <2>1. g \in [0 .. 0 -> T] /\ Up(0, g)
    OBVIOUS
  <2> QED BY <2>1
<1>2. ASSUME NEW m \in Nat, m \in S PROVE m + 1 \in S
  <2> SUFFICES ASSUME m + 1 <= N PROVE \E g \in [0 .. m + 1 -> T] : Up(m + 1, g)
    OBVIOUS
  <2>1. PICK f \in [0 .. m -> T] : Up(m, f)
    BY <1>2
  <2>2. step[<<m + 1, f[m]>>] \in T
    BY <2>1
  <2> DEFINE g == [i \in 0 .. m + 1 |-> IF i = m + 1 THEN step[<<m + 1, f[m]>>] ELSE f[i]]
  <2>3. g \in [0 .. m + 1 -> T]
    BY <2>2
  <2>4. g[0] = base
    BY <2>1
  <2>5. ASSUME NEW n \in 1 .. m + 1 PROVE g[n] = step[<<n, g[n - 1]>>]
    <3>1. CASE n = m + 1
      <4>1. n - 1 = m /\ m \in 0 .. m + 1 /\ m # m + 1
        BY <3>1
      <4>2. g[n] = step[<<m + 1, f[m]>>] /\ g[m] = f[m]
        BY <3>1, <4>1
      <4> HIDE DEF g
      <4> QED BY <3>1, <4>1, <4>2
    <3>2. CASE n # m + 1
      <4>1. n \in 1 .. m /\ n - 1 \in 0 .. m /\ n - 1 # m + 1
        BY <3>2
      <4> QED BY <2>1, <4>1
    <3> QED BY <3>1, <3>2
  <2> QED BY <2>3, <2>4, <2>5
<1>3. N \in S
  <2> HIDE DEF S
  <2> QED BY <1>1, <1>2, Induct
<1> QED BY <1>3

\* A set of indices that is not empty has a greatest and a least element.
LEMMA LeastOf ==
  ASSUME NEW I \in SUBSET Nat, I # {}
  PROVE  \E x \in I : \A i \in I : x <= i
<1>1. PICK x \in I : \A y \in I : <<y, x>> \notin OpToRel(<, Nat)
  BY WFMin, NatLessThanWellFounded, Zenon
<1>2. \A a, b \in Nat : <<a, b>> \in OpToRel(<, Nat) <=> a < b
  BY DEF OpToRel
<1>3. \A y \in I : ~(y < x)
  BY <1>1, <1>2, Zenon
<1> QED BY <1>3

\* A set of indices that is not empty has a least and a greatest element.
LEMMA Extremes ==
  ASSUME NEW n \in Nat, NEW I \in SUBSET (1 .. n), I # {}
  PROVE  /\ Min(I) \in I /\ \A i \in I : Min(I) <= i
         /\ Max(I) \in I /\ \A i \in I : i <= Max(I)
<1>1. \E x \in I : \A i \in I : x <= i
  BY LeastOf
<1>2. Min(I) \in I /\ \A i \in I : Min(I) <= i
  BY <1>1 DEF Min
<1> DEFINE J == {k \in Nat : n - k \in I}
<1>3. J # {}
  <2>1. PICK i \in I : TRUE
    OBVIOUS
  <2>2. n - i \in Nat /\ n - (n - i) = i
    OBVIOUS
  <2> QED BY <2>1, <2>2
<1>4. PICK x \in J : \A j \in J : x <= j
  <2>1. J \in SUBSET Nat
    OBVIOUS
  <2> HIDE DEF J
  <2> QED BY <1>3, <2>1, LeastOf
<1>5. ASSUME NEW i \in I PROVE n - x >= i
  <2>1. n - i \in Nat /\ n - (n - i) = i /\ x \in Nat
    BY <1>4
  <2>2. n - i \in J
    BY <2>1
  <2>3. x <= n - i
    BY <1>4, <2>2
  <2> QED BY <2>1, <2>3
<1>6. n - x \in I
  BY <1>4
<1>7. Max(I) \in I /\ \A i \in I : Max(I) >= i
  BY <1>5, <1>6 DEF Max
<1>8. \A i \in I : i <= Max(I)
  BY <1>7
<1> QED BY <1>2, <1>7, <1>8

-----------------------------------------------------------------------------
(* The actions of a log and how they are told apart. *)

Cards == UNION {b.hands[s] : b \in Boards, s \in Seat}

CallActions  == {CallAction(s, c) : s \in Seat, c \in Calls}
PlayActions  == {PlayAction(s, c) : s \in Seat, c \in Cards}
ClaimActions == {ClaimAction(s, n) : s \in Seat, n \in Nat}
Action == CallActions \cup PlayActions \cup ClaimActions

Parts == [call : Seq(AllCalls), play : Seq(PlayActions), claim : Seq(ClaimActions)]

\* An action of each kind has what its kind carries.
LEMMA Kinds ==
  ASSUME NEW a \in Action
  PROVE  /\ a.type \in {"call", "play", "claim"}
         /\ a.seat \in Seat
         /\ a.type = "call" => a \in CallActions /\ a.call \in AllCalls
         /\ a.type = "play" => a \in PlayActions /\ a.card \in Cards
         /\ a.type = "claim" => a \in ClaimActions /\ a.tricks \in Nat
<1>1. CASE a \in CallActions
  BY <1>1, TableAssumption DEF CallActions, CallAction
<1>2. CASE a \in PlayActions
  BY <1>2 DEF PlayActions, PlayAction
<1>3. CASE a \in ClaimActions
  BY <1>3 DEF ClaimActions, ClaimAction
<1> QED BY <1>1, <1>2, <1>3 DEF Action

\* What the fold keeps of an action, and the log with an action more.
Entry(a) == IF a.type = "call" THEN a.call ELSE a
Empty    == [call |-> <<>>, play |-> <<>>, claim |-> <<>>]
With(log, a) == [log EXCEPT ![a.type] = Append(@, Entry(a))]

\* The parts of a log are sequences of their kinds of action.
LEMMA EmptyParts == Empty \in Parts
BY EmptySeq DEF Empty, Parts

\* An action is added to the part of its kind alone.
LEMMA WithParts ==
  ASSUME NEW log \in Parts, NEW a \in Action
  PROVE  /\ With(log, a) \in Parts
         /\ a.type = "call" => /\ With(log, a).call = Append(log.call, a.call)
                               /\ With(log, a).play = log.play
                               /\ With(log, a).claim = log.claim
         /\ a.type = "play" => /\ With(log, a).call = log.call
                               /\ With(log, a).play = Append(log.play, a)
                               /\ With(log, a).claim = log.claim
         /\ a.type = "claim" => /\ With(log, a).call = log.call
                                /\ With(log, a).play = log.play
                                /\ With(log, a).claim = Append(log.claim, a)
<1>1. log.call \in Seq(AllCalls) /\ log.play \in Seq(PlayActions) /\ log.claim \in Seq(ClaimActions)
  BY DEF Parts
<1>2. CASE a.type = "call"
  <2>1. With(log, a) = [log EXCEPT !.call = Append(log.call, a.call)]
    BY <1>2 DEF With, Entry, Parts
  <2>2. Append(log.call, a.call) \in Seq(AllCalls)
    BY <1>1, <1>2, Kinds, AppendProperties
  <2> QED BY <1>2, <2>1, <2>2 DEF Parts
<1>3. CASE a.type = "play"
  <2>1. With(log, a) = [log EXCEPT !.play = Append(log.play, a)]
    BY <1>3 DEF With, Entry, Parts
  <2>2. Append(log.play, a) \in Seq(PlayActions)
    BY <1>1, <1>3, Kinds, AppendProperties
  <2> QED BY <1>3, <2>1, <2>2 DEF Parts
<1>4. CASE a.type = "claim"
  <2>1. With(log, a) = [log EXCEPT !.claim = Append(log.claim, a)]
    BY <1>4 DEF With, Entry, Parts
  <2>2. Append(log.claim, a) \in Seq(ClaimActions)
    BY <1>1, <1>4, Kinds, AppendProperties
  <2> QED BY <1>4, <2>1, <2>2 DEF Parts
<1> QED BY <1>2, <1>3, <1>4, Kinds

\* The single pass of the fold over a log, place by place.
Splits(acts, f) ==
  f = [n \in 0 .. Len(acts) |-> IF n = 0 THEN Empty ELSE With(f[n - 1], acts[n])]

Scan(acts) == CHOOSE f : Splits(acts, f)

\* The pass goes through the log one action at a time.
LEMMA ScanIs ==
  ASSUME NEW acts \in Seq(Action)
  PROVE  /\ Split(acts) = Scan(acts)[Len(acts)]
         /\ Scan(acts)[0] = Empty
         /\ \A n \in 1 .. Len(acts) : Scan(acts)[n] = With(Scan(acts)[n - 1], acts[n])
         /\ \A n \in 0 .. Len(acts) : Scan(acts)[n] \in Parts
<1> DEFINE step == [p \in (1 .. Len(acts)) \X Parts |-> With(p[2], acts[p[1]])]
<1>1. \A n \in 1 .. Len(acts), x \in Parts : /\ step[<<n, x>>] = With(x, acts[n])
                                             /\ With(x, acts[n]) \in Parts
  BY WithParts
<1>2. \E f : Splits(acts, f)
  <2>1. Len(acts) \in Nat /\ Empty \in Parts
    BY EmptyParts
  <2>2. Steps(Parts, Len(acts), step)
    <3> HIDE DEF step
    <3> QED BY <1>1 DEF Steps
  <2>3. PICK f : Recurs(f, Parts, Empty, Len(acts), step)
    <3> HIDE DEF step
    <3> QED BY <2>1, <2>2, Recursion
  <2> DEFINE g == [n \in 0 .. Len(acts) |-> IF n = 0 THEN Empty ELSE With(f[n - 1], acts[n])]
  <2>4. ASSUME NEW n \in 0 .. Len(acts) PROVE f[n] = g[n]
    <3>1. CASE n = 0
      BY <3>1, <2>3 DEF Recurs
    <3>2. CASE n # 0
      <4>1. n \in 1 .. Len(acts) /\ n - 1 \in 0 .. Len(acts)
        BY <3>2
      <4>2. f[n] = With(f[n - 1], acts[n])
        <5> HIDE DEF step
        <5> QED BY <1>1, <2>3, <4>1 DEF Recurs
      <4> QED BY <3>2, <4>2
    <3> QED BY <3>1, <3>2
  <2>5. f = g
    BY <2>3, <2>4 DEF Recurs
  <2> QED BY <2>5 DEF Splits
<1> DEFINE h == Scan(acts)
<1>3. Splits(acts, h)
  BY <1>2 DEF Scan
<1>4. h[0] = Empty
  BY <1>3 DEF Splits
<1>5. \A n \in 1 .. Len(acts) : h[n] = With(h[n - 1], acts[n])
  BY <1>3 DEF Splits
<1>6. Split(acts) = h[Len(acts)]
  BY DEF Split, Scan, Splits, With, Entry, Empty
<1> HIDE DEF h
<1>7. \A n \in 0 .. Len(acts) : h[n] \in Parts
  <2> DEFINE S == {m \in Nat : m <= Len(acts) => h[m] \in Parts}
  <2>1. 0 \in S
    BY <1>4, EmptyParts
  <2>2. ASSUME NEW m \in Nat, m \in S PROVE m + 1 \in S
    <3> SUFFICES ASSUME m + 1 <= Len(acts) PROVE h[m + 1] \in Parts
      OBVIOUS
    <3>1. m + 1 \in 1 .. Len(acts) /\ (m + 1) - 1 = m /\ h[m] \in Parts
      BY <2>2
    <3>2. acts[m + 1] \in Action
      BY <3>1
    <3> QED BY <1>5, <3>1, <3>2, WithParts
  <2>3. Nat \subseteq S
    <3> HIDE DEF S
    <3> QED BY <2>1, <2>2, Induct
  <2> QED BY <2>3
<1> QED BY <1>4, <1>5, <1>6, <1>7 DEF h

\* What comes of the pass at its end.
LEMMA SplitParts ==
  ASSUME NEW acts \in Seq(Action)
  PROVE  /\ Split(acts) \in Parts
         /\ Split(acts).call \in Seq(AllCalls)
         /\ Split(acts).play \in Seq(PlayActions)
         /\ Split(acts).claim \in Seq(ClaimActions)
<1>1. Len(acts) \in 0 .. Len(acts)
  OBVIOUS
<1>2. Split(acts) \in Parts
  BY <1>1, ScanIs
<1> QED BY <1>2 DEF Parts

\* An empty log has empty parts.
LEMMA SplitEmpty == Split(<<>>) = Empty
<1>1. <<>> \in Seq(Action) /\ Len(<<>>) = 0
  BY EmptySeq
<1> QED BY <1>1, ScanIs

\* What an action adds to a log.
LEMMA SplitAppend ==
  ASSUME NEW acts \in Seq(Action), NEW a \in Action
  PROVE  Split(Append(acts, a)) = With(Split(acts), a)
<1> DEFINE more == Append(acts, a)
           N == Len(acts)
<1>1. /\ more \in Seq(Action) /\ Len(more) = N + 1 /\ N \in Nat
      /\ more[N + 1] = a
      /\ \A n \in 1 .. N : more[n] = acts[n]
  BY AppendProperties
<1>2. \A n \in 0 .. N : Scan(more)[n] = Scan(acts)[n]
  <2> DEFINE S == {m \in Nat : m <= N => Scan(more)[m] = Scan(acts)[m]}
  <2>1. 0 \in S
    BY <1>1, ScanIs
  <2>2. ASSUME NEW m \in Nat, m \in S PROVE m + 1 \in S
    <3> SUFFICES ASSUME m + 1 <= N PROVE Scan(more)[m + 1] = Scan(acts)[m + 1]
      OBVIOUS
    <3>1. m + 1 \in 1 .. N /\ m + 1 \in 1 .. Len(more) /\ (m + 1) - 1 = m
      BY <1>1
    <3>2. Scan(more)[m] = Scan(acts)[m]
      BY <2>2, <3>1
    <3>3. Scan(more)[m + 1] = With(Scan(more)[m], more[m + 1])
      BY <1>1, <3>1, ScanIs
    <3>4. Scan(acts)[m + 1] = With(Scan(acts)[m], acts[m + 1])
      BY <3>1, ScanIs
    <3> QED BY <1>1, <3>1, <3>2, <3>3, <3>4
  <2>3. Nat \subseteq S
    <3> HIDE DEF S
    <3> QED BY <2>1, <2>2, Induct
  <2> QED BY <2>3
<1> HIDE DEF more
<1>3. Split(more) = Scan(more)[N + 1]
  BY <1>1, ScanIs
<1>4. Scan(more)[N + 1] = With(Scan(more)[N], a)
  <2>1. N + 1 \in 1 .. Len(more) /\ (N + 1) - 1 = N
    BY <1>1
  <2> QED BY <1>1, <2>1, ScanIs
<1>5. Scan(more)[N] = Scan(acts)[N] /\ Split(acts) = Scan(acts)[N]
  BY <1>1, <1>2, ScanIs
<1> QED BY <1>3, <1>4, <1>5 DEF more

-----------------------------------------------------------------------------
(* The contract and the seats on lead. *)

\* Going round the table from anywhere ends at a seat.
LEMMA SeatAfterIsSeat ==
  ASSUME NEW s \in Int, NEW k \in Int
  PROVE  SeatAfter(s, k) \in Seat
BY DEF SeatAfter, Seat

\* Going round from any seat, the first four seats are all the seats.
LEMMA Round ==
  ASSUME NEW s \in Seat
  PROVE  /\ \A t \in Seat : \E k \in 0 .. 3 : t = SeatAfter(s, k)
         /\ \A j, k \in 0 .. 3 : SeatAfter(s, j) = SeatAfter(s, k) => j = k
         /\ \A k \in 0 .. 2 : NextSeat(SeatAfter(s, k)) = SeatAfter(s, k + 1)
         /\ SeatAfter(s, 0) = s
<1>1. s \in {0, 1, 2, 3}
  BY DEF Seat
<1> QED BY <1>1 DEF Seat, SeatAfter, NextSeat

\* A contract is declared by a seat; no contract is made before the auction
\* is over.
LEMMA ContractIs ==
  ASSUME NEW dealer \in Seat, NEW calls \in Seq(AllCalls)
  PROVE  /\ Contract(dealer, calls) # NoContract =>
              IsComplete(calls) /\ Contract(dealer, calls).declarer \in Seat
         /\ ~IsComplete(calls) => Contract(dealer, calls) = NoContract
<1> SUFFICES ASSUME Contract(dealer, calls) # NoContract
             PROVE  IsComplete(calls) /\ Contract(dealer, calls).declarer \in Seat
  BY DEF Contract
<1> DEFINE bid == LastBid(calls)
           I == {i \in 1 .. Len(calls) : IsBid(calls[i])}
<1>1. IsComplete(calls) /\ bid # 0
  BY DEF Contract
<1>2. Len(calls) \in Nat /\ I \in SUBSET (1 .. Len(calls))
  OBVIOUS
<1>3. bid = IF I # {} THEN Max(I) ELSE 0
  BY DEF LastBid, SelectLastInSeq
<1>4. bid \in I
  <2> HIDE DEF I
  <2> QED BY <1>1, <1>2, <1>3, Extremes
<1>5. Contract(dealer, calls).declarer = CallerAt(dealer, Min(Named(calls, bid)))
  BY <1>1 DEF Contract
<1>6. bid \in Nat /\ Named(calls, bid) \in SUBSET (1 .. bid)
  BY <1>4 DEF Named
<1>7. bid \in Named(calls, bid)
  BY <1>4 DEF Named, IsOpponent
<1>8. Min(Named(calls, bid)) \in 1 .. bid
  <2> HIDE DEF bid
  <2> QED BY <1>6, <1>7, Extremes
<1>9. dealer \in Int /\ Min(Named(calls, bid)) - 1 \in Int
  BY <1>6, <1>8 DEF Seat
<1>10. CallerAt(dealer, Min(Named(calls, bid))) \in Seat
  BY <1>9, SeatAfterIsSeat DEF CallerAt
<1> QED BY <1>1, <1>5, <1>10

\* A trick is won by a seat, whoever led it.
LEMMA WinnerIsSeat ==
  ASSUME NEW leader \in Seat, NEW cards, NEW trump
  PROVE  TrickWinner(leader, cards, trump) \in Seat
<1> DEFINE best(w, i) == IF Beats(cards[i], cards[w], cards[1].suit, trump) THEN i ELSE w
           w == best(best(best(1, 2), 3), 4)
<1>1. w \in 1 .. 4
  OBVIOUS
<1>2. leader \in Int /\ w - 1 \in Int
  BY <1>1 DEF Seat
<1>3. TrickWinner(leader, cards, trump) = SeatAfter(leader, w - 1)
  BY DEF TrickWinner
<1> HIDE DEF w
<1> QED BY <1>2, <1>3, SeatAfterIsSeat

\* The winner of the k-th trick of the plays, led by `leader`.
Winner(contract, played, k, leader) ==
  TrickWinner(leader,
              <<played[4 * (k - 1) + 1].card, played[4 * (k - 1) + 2].card,
                played[4 * (k - 1) + 3].card, played[4 * (k - 1) + 4].card>>,
              TrumpOf(contract.strain))

Leads(contract, played, lead) ==
  lead = [k \in 0 .. Len(played) \div 4 |->
            IF k = 0 THEN OpeningLeader(contract)
            ELSE Winner(contract, played, k, lead[k - 1])]

\* The seats on lead: the opening leader, then the winners in turn.
LEMMA LeadersAre ==
  ASSUME NEW contract, contract.declarer \in Seat, NEW played \in Seq(PlayActions)
  PROVE  LET lead == Leaders(contract, played)
             n    == Len(played) \div 4
         IN  /\ lead[0] = OpeningLeader(contract)
             /\ \A k \in 1 .. n : lead[k] = Winner(contract, played, k, lead[k - 1])
             /\ \A k \in 0 .. n : lead[k] \in Seat
<1> DEFINE n == Len(played) \div 4
           first == OpeningLeader(contract)
           step == [p \in (1 .. n) \X Seat |-> Winner(contract, played, p[1], p[2])]
<1>1. n \in Nat
  OBVIOUS
<1>2. first \in Seat
  <2>1. contract.declarer \in Int /\ 1 \in Int
    BY DEF Seat
  <2> QED BY <2>1, SeatAfterIsSeat DEF OpeningLeader, NextSeat
<1>3. \A k \in 1 .. n, s \in Seat : /\ step[<<k, s>>] = Winner(contract, played, k, s)
                                    /\ Winner(contract, played, k, s) \in Seat
  <2>1. \A k \in 1 .. n, s \in Seat : Winner(contract, played, k, s) \in Seat
    BY WinnerIsSeat DEF Winner
  <2> QED BY <2>1
<1> HIDE DEF n
<1>4. \E lead : Leads(contract, played, lead)
  <2>1. Steps(Seat, n, step)
    <3> HIDE DEF step
    <3> QED BY <1>3 DEF Steps
  <2>2. PICK f : Recurs(f, Seat, first, n, step)
    <3> HIDE DEF step, first
    <3> QED BY <1>1, <1>2, <2>1, Recursion
  <2> HIDE DEF step, first
  <2> DEFINE g == [k \in 0 .. n |-> IF k = 0 THEN first ELSE Winner(contract, played, k, f[k - 1])]
  <2>3. ASSUME NEW k \in 0 .. n PROVE f[k] = g[k]
    <3>1. CASE k = 0
      BY <3>1, <2>2 DEF Recurs
    <3>2. CASE k # 0
      <4>1. k \in 1 .. n /\ k - 1 \in 0 .. n
        BY <1>1, <3>2
      <4>2. f[k] = Winner(contract, played, k, f[k - 1])
        BY <1>3, <2>2, <4>1 DEF Recurs
      <4> QED BY <3>2, <4>2
    <3> QED BY <3>1, <3>2
  <2>4. f = g
    BY <2>2, <2>3 DEF Recurs
  <2> QED BY <2>4 DEF Leads, n, first
<1> DEFINE h == Leaders(contract, played)
<1>5. h = CHOOSE lead : Leads(contract, played, lead)
  BY DEF Leaders, Leads, Winner
<1>6. Leads(contract, played, h)
  BY <1>4, <1>5
<1> HIDE DEF h
<1>7. h[0] = first
  BY <1>1, <1>6 DEF Leads, n
<1>8. \A k \in 1 .. n : h[k] = Winner(contract, played, k, h[k - 1])
  BY <1>1, <1>6 DEF Leads, n
<1> HIDE DEF first
<1>9. \A k \in 0 .. n : h[k] \in Seat
  <2> DEFINE S == {m \in Nat : m <= n => h[m] \in Seat}
  <2>1. 0 \in S
    BY <1>2, <1>7
  <2>2. ASSUME NEW m \in Nat, m \in S PROVE m + 1 \in S
    <3> SUFFICES ASSUME m + 1 <= n PROVE h[m + 1] \in Seat
      OBVIOUS
    <3>1. m + 1 \in 1 .. n /\ (m + 1) - 1 = m /\ h[m] \in Seat
      BY <1>1, <2>2
    <3>2. h[m + 1] = Winner(contract, played, m + 1, h[m])
      BY <1>8, <3>1
    <3> QED BY <1>3, <3>1, <3>2
  <2>3. Nat \subseteq S
    <3> HIDE DEF S
    <3> QED BY <2>1, <2>2, Induct
  <2> QED BY <1>1, <2>3
<1> QED BY <1>7, <1>8, <1>9 DEF n, h, first

\* A card played changes no lead but, at the end of a trick, the next.
LEMMA LeadersAppend ==
  ASSUME NEW contract, contract.declarer \in Seat,
         NEW played \in Seq(PlayActions), NEW a \in PlayActions
  PROVE  \A k \in 0 .. Len(played) \div 4 :
           Leaders(contract, Append(played, a))[k] = Leaders(contract, played)[k]
<1> DEFINE more == Append(played, a)
           n == Len(played) \div 4
           m == Len(more) \div 4
           old == Leaders(contract, played)
           new == Leaders(contract, more)
<1>1. /\ more \in Seq(PlayActions) /\ Len(more) = Len(played) + 1
      /\ \A i \in 1 .. Len(played) : more[i] = played[i]
  BY AppendProperties
<1>2. n \in Nat /\ m \in Nat /\ n <= m /\ 4 * n <= Len(played)
  BY <1>1
<1>3. /\ old[0] = OpeningLeader(contract)
      /\ \A k \in 1 .. n : old[k] = Winner(contract, played, k, old[k - 1])
  BY LeadersAre
<1>4. /\ new[0] = OpeningLeader(contract)
      /\ \A k \in 1 .. m : new[k] = Winner(contract, more, k, new[k - 1])
  <2> HIDE DEF more
  <2> QED BY <1>1, LeadersAre
<1>5. ASSUME NEW k \in 1 .. n, NEW s
      PROVE  Winner(contract, more, k, s) = Winner(contract, played, k, s)
  <2> DEFINE j == 4 * (k - 1)
  <2>1. j \in Nat /\ j + 4 <= 4 * n
    BY <1>2
  <2>2. /\ j + 1 \in 1 .. Len(played) /\ j + 2 \in 1 .. Len(played)
        /\ j + 3 \in 1 .. Len(played) /\ j + 4 \in 1 .. Len(played)
    <3> HIDE DEF j, n
    <3> QED BY <1>2, <2>1
  <2>3. /\ more[j + 1] = played[j + 1] /\ more[j + 2] = played[j + 2]
        /\ more[j + 3] = played[j + 3] /\ more[j + 4] = played[j + 4]
    <3> HIDE DEF j, more
    <3> QED BY <1>1, <2>2
  <2> HIDE DEF more
  <2> QED BY <2>3 DEF Winner
<1> HIDE DEF more, n, m, old, new
<1> DEFINE S == {k \in Nat : k <= n => new[k] = old[k]}
<1>6. 0 \in S
  BY <1>3, <1>4
<1>7. ASSUME NEW k \in Nat, k \in S PROVE k + 1 \in S
  <2> SUFFICES ASSUME k + 1 <= n PROVE new[k + 1] = old[k + 1]
    OBVIOUS
  <2>1. k + 1 \in 1 .. n /\ k + 1 \in 1 .. m /\ (k + 1) - 1 = k /\ new[k] = old[k]
    BY <1>2, <1>7
  <2>2. new[k + 1] = Winner(contract, more, k + 1, new[k])
    BY <1>4, <2>1
  <2>3. old[k + 1] = Winner(contract, played, k + 1, old[k])
    BY <1>3, <2>1
  <2> QED BY <1>5, <2>1, <2>2, <2>3
<1>8. Nat \subseteq S
  <2> HIDE DEF S
  <2> QED BY <1>6, <1>7, Induct
<1> QED BY <1>2, <1>8 DEF n, old, new, more

-----------------------------------------------------------------------------
(* The fold of a log, by the parts of the log. *)

CallsOf(acts)  == Split(acts).call
PlaysOf(acts)  == Split(acts).play
ClaimsOf(acts) == Split(acts).claim

TheContract(b, acts) == Contract(b.dealer, CallsOf(acts))
LeadOf(b, acts)      == Leaders(TheContract(b, acts), PlaysOf(acts))

Done(acts)  == Len(PlaysOf(acts)) \div 4
Trick(acts) == SubSeq(PlaysOf(acts), 4 * Done(acts) + 1, Len(PlaysOf(acts)))

WonOf(b, acts) ==
  [s \in Side |-> Cardinality({k \in 1 .. Done(acts) : SideOf(LeadOf(b, acts)[k]) = s})]

\* The log has come to the play.
InPlay(b, acts) == IsComplete(CallsOf(acts)) /\ TheContract(b, acts) # NoContract

\* The fold while the auction goes on, after four passes, and in the play.
LEMMA FoldInAuction ==
  ASSUME NEW b, NEW acts, ~IsComplete(CallsOf(acts))
  PROVE  Fold(b, acts) =
           NoPlay("bidding", NextCaller(b.dealer, CallsOf(acts)), CallsOf(acts), PlaysOf(acts))
BY DEF Fold, CallsOf, PlaysOf

LEMMA FoldPassedOut ==
  ASSUME NEW b, NEW acts, IsComplete(CallsOf(acts)), TheContract(b, acts) = NoContract
  PROVE  Fold(b, acts) = NoPlay("complete", NoSeat, CallsOf(acts), PlaysOf(acts))
BY DEF Fold, CallsOf, PlaysOf, TheContract

LEMMA FoldInPlay ==
  ASSUME NEW b, NEW acts, InPlay(b, acts)
  PROVE  LET f == Fold(b, acts)
         IN  /\ f.phase = IF Over(Done(acts), ClaimsOf(acts)) THEN "complete" ELSE "play"
             /\ f.turn = IF Over(Done(acts), ClaimsOf(acts)) THEN NoSeat
                         ELSE IF Trick(acts) # <<>> THEN NextSeat(Last(Trick(acts)).seat)
                         ELSE LeadOf(b, acts)[Done(acts)]
             /\ f.calls = CallsOf(acts)
             /\ f.contract = TheContract(b, acts)
             /\ f.played = PlaysOf(acts)
             /\ f.completed = Done(acts)
             /\ f.leader = LeadOf(b, acts)[Done(acts)]
             /\ f.trick = Trick(acts)
             /\ f.won = IF ClaimsOf(acts) = <<>> THEN WonOf(b, acts)
                        ELSE Settle(WonOf(b, acts), Last(ClaimsOf(acts)), Tricks - Done(acts))
BY DEF Fold, InPlay, CallsOf, PlaysOf, ClaimsOf, TheContract, LeadOf, Done, Trick, WonOf

-----------------------------------------------------------------------------
(* Sound logs. *)

\* What a seat still holds, and whether it has played to the trick.
HandOf(b, acts, s) ==
  b.hands[s] \ {PlaysOf(acts)[i].card :
                   i \in {j \in DOMAIN PlaysOf(acts) : PlaysOf(acts)[j].seat = s}}

InTrick(acts, s) == \E i \in 4 * Done(acts) + 1 .. Len(PlaysOf(acts)) : PlaysOf(acts)[i].seat = s

\* The calls, then the plays of a contract, then a claim at most.
Ordered(b, acts) ==
  /\ Len(acts) = Len(CallsOf(acts)) + Len(PlaysOf(acts)) + Len(ClaimsOf(acts))
  /\ \A i \in 1 .. Len(acts) :
       acts[i].type = IF i <= Len(CallsOf(acts)) THEN "call"
                      ELSE IF i <= Len(CallsOf(acts)) + Len(PlaysOf(acts)) THEN "play" ELSE "claim"
  /\ Len(acts) > Len(CallsOf(acts)) => InPlay(b, acts)

\* Within each trick the seats play in turn, from its leader.
InTurn(b, acts) ==
  \A i \in 1 .. Len(PlaysOf(acts)) :
    PlaysOf(acts)[i].seat = SeatAfter(LeadOf(b, acts)[(i - 1) \div 4], (i - 1) % 4)

\* Every card is from the hand of the seat that played it, and played once.
OwnCards(b, acts) ==
  /\ \A i \in 1 .. Len(PlaysOf(acts)) : PlaysOf(acts)[i].card \in b.hands[PlaysOf(acts)[i].seat]
  /\ \A i, j \in 1 .. Len(PlaysOf(acts)) : PlaysOf(acts)[i].card = PlaysOf(acts)[j].card => i = j

\* A hand has lost a card for each trick done, and one for the trick in
\* progress if its seat has played to it.
HandsShrink(b, acts) ==
  /\ Len(PlaysOf(acts)) <= 4 * Tricks
  /\ \A s \in Seat :
       /\ IsFiniteSet(HandOf(b, acts, s))
       /\ Cardinality(HandOf(b, acts, s)) =
            Tricks - Done(acts) - (IF InTrick(acts, s) THEN 1 ELSE 0)

\* At most one claim, the last action, for tricks that were left.
ClaimFits(acts) ==
  /\ Len(ClaimsOf(acts)) <= 1
  /\ ClaimsOf(acts) # <<>> => /\ ClaimsOf(acts)[1] = acts[Len(acts)]
                              /\ Done(acts) < Tricks
                              /\ ClaimsOf(acts)[1].tricks <= Tricks - Done(acts)

Sound(b, acts) ==
  /\ acts \in Seq(Action)
  /\ Ordered(b, acts)
  /\ InTurn(b, acts)
  /\ OwnCards(b, acts)
  /\ HandsShrink(b, acts)
  /\ ClaimFits(acts)

-----------------------------------------------------------------------------
(* The fold of a sound log. *)

\* How far the play has come: whole tricks and the cards of one in progress.
LEMMA Progress ==
  ASSUME NEW acts \in Seq(Action)
  PROVE  /\ Len(PlaysOf(acts)) \in Nat /\ Done(acts) \in Nat
         /\ Len(PlaysOf(acts)) - 4 * Done(acts) \in 0 .. 3
         /\ Len(Trick(acts)) = Len(PlaysOf(acts)) - 4 * Done(acts)
         /\ Trick(acts) = <<>> <=> Len(PlaysOf(acts)) = 4 * Done(acts)
         /\ Trick(acts) # <<>> => Last(Trick(acts)) = PlaysOf(acts)[Len(PlaysOf(acts))]
         /\ DOMAIN Trick(acts) = 1 .. Len(Trick(acts))
         /\ \A i \in DOMAIN Trick(acts) : Trick(acts)[i] = PlaysOf(acts)[4 * Done(acts) + i]
<1> DEFINE plays == PlaysOf(acts)
           n == Done(acts)
<1>1. plays \in Seq(PlayActions)
  BY SplitParts DEF PlaysOf
<1>2. Len(plays) \in Nat /\ n \in Nat /\ Len(plays) - 4 * n \in 0 .. 3
  BY <1>1 DEF Done
<1> HIDE DEF plays, n
<1>3. 4 * n + 1 \in 1 .. Len(plays) + 1
  BY <1>2
<1> DEFINE t == SubSeq(plays, 4 * n + 1, Len(plays))
<1>4. /\ t \in Seq(PlayActions) /\ Len(t) = Len(plays) - 4 * n
      /\ \A i \in 1 .. Len(t) : t[i] = plays[4 * n + i]
  <2>1. Len(plays) \in 4 * n + 1 - 1 .. Len(plays)
    BY <1>2
  <2>2. /\ t \in Seq(PlayActions) /\ Len(t) = Len(plays) - (4 * n + 1) + 1
        /\ \A i \in 1 .. Len(plays) - (4 * n + 1) + 1 : t[i] = plays[4 * n + 1 + i - 1]
    BY <1>1, <1>3, <2>1, SubSeqProperties
  <2> HIDE DEF t
  <2>3. Len(plays) - (4 * n + 1) + 1 = Len(plays) - 4 * n
    BY <1>2
  <2>4. ASSUME NEW i \in 1 .. Len(t) PROVE t[i] = plays[4 * n + i]
    <3>1. 4 * n + 1 + i - 1 = 4 * n + i /\ i \in 1 .. Len(plays) - (4 * n + 1) + 1
      BY <1>2, <2>2, <2>3
    <3> QED BY <2>2, <3>1
  <2> QED BY <2>2, <2>3, <2>4
<1> HIDE DEF t
<1>5. t = <<>> <=> Len(t) = 0
  BY <1>4, EmptySeq
<1>6. t # <<>> => Last(t) = plays[Len(plays)]
  <2> SUFFICES ASSUME t # <<>> PROVE Last(t) = plays[Len(plays)]
    OBVIOUS
  <2>1. Len(t) = Len(plays) - 4 * n /\ Len(t) \in 1 .. Len(t)
    BY <1>2, <1>4, <1>5
  <2>2. 4 * n + Len(t) = Len(plays)
    BY <1>2, <2>1
  <2>3. t[Len(t)] = plays[4 * n + Len(t)]
    BY <1>4, <2>1
  <2> QED BY <2>2, <2>3 DEF Last
<1>7. t = Trick(acts)
  BY DEF plays, n, t, Trick
<1>8. t = <<>> <=> Len(plays) = 4 * n
  BY <1>2, <1>4, <1>5
<1>9. DOMAIN t = 1 .. Len(t)
  BY <1>4
<1> QED BY <1>2, <1>4, <1>6, <1>7, <1>8, <1>9 DEF plays, n

\* Seats by their place in the trick in progress.
LEMMA TrickSeats ==
  ASSUME NEW b \in Boards, NEW acts, Sound(b, acts)
  PROVE  LET n == Done(acts)
             r == Len(PlaysOf(acts)) - 4 * n
         IN  \A i \in 1 .. r : PlaysOf(acts)[4 * n + i].seat = SeatAfter(LeadOf(b, acts)[n], i - 1)
<1> DEFINE n == Done(acts)
           r == Len(PlaysOf(acts)) - 4 * n
<1>1. n \in Nat /\ r \in 0 .. 3 /\ Len(PlaysOf(acts)) = 4 * n + r
  BY Progress DEF Sound
<1> HIDE DEF n, r
<1>2. ASSUME NEW i \in 1 .. r
      PROVE  PlaysOf(acts)[4 * n + i].seat = SeatAfter(LeadOf(b, acts)[n], i - 1)
  <2> DEFINE j == 4 * n + i
  <2>1. j \in 1 .. Len(PlaysOf(acts))
    BY <1>1
  <2>2. (j - 1) \div 4 = n /\ (j - 1) % 4 = i - 1
    BY <1>1
  <2> HIDE DEF j
  <2>3. PlaysOf(acts)[j].seat = SeatAfter(LeadOf(b, acts)[(j - 1) \div 4], (j - 1) % 4)
    BY <2>1 DEF Sound, InTurn
  <2> QED BY <2>2, <2>3 DEF j
<1> QED BY <1>2 DEF n, r

\* What a seat on lead, and a contract, are in a sound log.
LEMMA PlayTyped ==
  ASSUME NEW b \in Boards, NEW acts, Sound(b, acts)
  PROVE  /\ CallsOf(acts) \in Seq(AllCalls) /\ PlaysOf(acts) \in Seq(PlayActions)
         /\ ClaimsOf(acts) \in Seq(ClaimActions)
         /\ b.dealer \in Seat
         /\ InPlay(b, acts) => /\ TheContract(b, acts).declarer \in Seat
                               /\ \A k \in 0 .. Done(acts) : LeadOf(b, acts)[k] \in Seat
                               /\ Done(acts) <= Tricks
<1>1. /\ CallsOf(acts) \in Seq(AllCalls) /\ PlaysOf(acts) \in Seq(PlayActions)
      /\ ClaimsOf(acts) \in Seq(ClaimActions)
  BY SplitParts DEF Sound, CallsOf, PlaysOf, ClaimsOf
<1>2. b.dealer \in Seat
  BY TableAssumption
<1>3. ASSUME InPlay(b, acts) PROVE TheContract(b, acts).declarer \in Seat
  BY <1>1, <1>2, <1>3, ContractIs DEF InPlay, TheContract
<1>4. ASSUME InPlay(b, acts) PROVE \A k \in 0 .. Done(acts) : LeadOf(b, acts)[k] \in Seat
  BY <1>1, <1>3, <1>4, LeadersAre DEF LeadOf, Done
<1>5. Done(acts) <= Tricks
  BY <1>1, TableAssumption DEF Sound, HandsShrink, Done
<1> QED BY <1>1, <1>2, <1>3, <1>4, <1>5

\* The seat on turn in the play is the next to play to the trick.
LEMMA TurnIs ==
  ASSUME NEW b \in Boards, NEW acts, Sound(b, acts), InPlay(b, acts),
         ~Over(Done(acts), ClaimsOf(acts))
  PROVE  LET n == Done(acts)
             r == Len(PlaysOf(acts)) - 4 * n
         IN  /\ Fold(b, acts).turn = SeatAfter(LeadOf(b, acts)[n], r)
             /\ Fold(b, acts).turn \in Seat
             /\ ~InTrick(acts, Fold(b, acts).turn)
             /\ \A s \in Seat : r = 3 /\ s # Fold(b, acts).turn => InTrick(acts, s)
<1> DEFINE n == Done(acts)
           r == Len(PlaysOf(acts)) - 4 * n
           l == LeadOf(b, acts)[n]
           t == Fold(b, acts).turn
<1>1. /\ n \in Nat /\ r \in 0 .. 3 /\ Len(PlaysOf(acts)) = 4 * n + r
      /\ Trick(acts) = <<>> <=> r = 0
      /\ Trick(acts) # <<>> => Last(Trick(acts)) = PlaysOf(acts)[4 * n + r]
  BY Progress DEF Sound
<1>2. l \in Seat
  <2>1. Done(acts) \in 0 .. Done(acts)
    BY <1>1
  <2> QED BY <2>1, PlayTyped
<1>3. \A i \in 1 .. r : PlaysOf(acts)[4 * n + i].seat = SeatAfter(l, i - 1)
  BY TrickSeats
<1>4. t = IF Trick(acts) # <<>> THEN NextSeat(Last(Trick(acts)).seat) ELSE l
  BY FoldInPlay
<1>5. \A s : InTrick(acts, s) <=> \E i \in 1 .. r : s = SeatAfter(l, i - 1)
  <2> HIDE DEF l, n, r
  <2>1. \A i : i \in 4 * n + 1 .. Len(PlaysOf(acts)) <=> (i \in Int /\ i - 4 * n \in 1 .. r)
    BY <1>1
  <2>2. \A i \in Int : 4 * n + (i - 4 * n) = i
    BY <1>1
  <2>3. \A i \in 1 .. r : 4 * n + i \in 4 * n + 1 .. Len(PlaysOf(acts))
    BY <1>1
  <2>4. ASSUME NEW s, InTrick(acts, s) PROVE \E i \in 1 .. r : s = SeatAfter(l, i - 1)
    <3>1. PICK j \in 4 * n + 1 .. Len(PlaysOf(acts)) : PlaysOf(acts)[j].seat = s
      BY <2>4 DEF InTrick, n
    <3>2. j - 4 * n \in 1 .. r /\ 4 * n + (j - 4 * n) = j
      BY <2>1, <2>2, <3>1
    <3>3. PlaysOf(acts)[4 * n + (j - 4 * n)].seat = SeatAfter(l, j - 4 * n - 1)
      BY <1>3, <3>2
    <3> QED BY <3>1, <3>2, <3>3
  <2>5. ASSUME NEW s, NEW i \in 1 .. r, s = SeatAfter(l, i - 1) PROVE InTrick(acts, s)
    <3>1. PlaysOf(acts)[4 * n + i].seat = s /\ 4 * n + i \in 4 * n + 1 .. Len(PlaysOf(acts))
      BY <1>3, <2>3, <2>5
    <3> QED BY <3>1 DEF InTrick, n
  <2> QED BY <2>4, <2>5
<1> HIDE DEF n, r, l, t
<1>6. t = SeatAfter(l, r)
  <2>1. CASE r = 0
    BY <1>1, <1>2, <1>4, <2>1, Round
  <2>2. CASE r # 0
    <3>1. r - 1 \in 0 .. 2 /\ r \in 1 .. r /\ (r - 1) + 1 = r
      BY <1>1, <2>2
    <3>2. PlaysOf(acts)[4 * n + r].seat = SeatAfter(l, r - 1)
      BY <1>3, <3>1
    <3>3. NextSeat(SeatAfter(l, r - 1)) = SeatAfter(l, r)
      BY <1>2, <3>1, Round
    <3> QED BY <1>1, <1>4, <2>2, <3>2, <3>3
  <2> QED BY <2>1, <2>2
<1>7. t \in Seat
  BY <1>1, <1>2, <1>6, SeatAfterIsSeat DEF Seat
<1>8. ~InTrick(acts, t)
  <2> SUFFICES ASSUME NEW i \in 1 .. r, t = SeatAfter(l, i - 1) PROVE FALSE
    BY <1>5
  <2>1. i - 1 \in 0 .. 3 /\ r \in 0 .. 3 /\ i - 1 # r
    BY <1>1
  <2> QED BY <1>2, <1>6, <2>1, Round
<1>9. ASSUME NEW s \in Seat, r = 3, s # t PROVE InTrick(acts, s)
  <2>1. PICK k \in 0 .. 3 : s = SeatAfter(l, k)
    BY <1>2, Round
  <2>2. k + 1 \in 1 .. r /\ (k + 1) - 1 = k
    BY <1>6, <1>9, <2>1
  <2> QED BY <1>5, <2>1, <2>2
<1> QED BY <1>6, <1>7, <1>8, <1>9 DEF n, r, l, t

-----------------------------------------------------------------------------
(* What an admitted action does to a sound log. *)

\* What the phase says of the log.
LEMMA Phases ==
  ASSUME NEW b, NEW acts
  PROVE  /\ Fold(b, acts).phase = "bidding" => ~IsComplete(CallsOf(acts))
         /\ Fold(b, acts).phase = "play" => InPlay(b, acts) /\ ~Over(Done(acts), ClaimsOf(acts))
<1>1. CASE ~IsComplete(CallsOf(acts))
  BY <1>1, FoldInAuction DEF NoPlay
<1>2. CASE IsComplete(CallsOf(acts)) /\ TheContract(b, acts) = NoContract
  BY <1>2, FoldPassedOut DEF NoPlay
<1>3. CASE InPlay(b, acts)
  BY <1>3, FoldInPlay DEF InPlay
<1> QED BY <1>1, <1>2, <1>3 DEF InPlay

\* The parts of a log one action longer.
LEMMA Parted ==
  ASSUME NEW acts \in Seq(Action), NEW a \in Action
  PROVE  LET more == Append(acts, a)
         IN  /\ more \in Seq(Action) /\ Len(more) = Len(acts) + 1
             /\ more[Len(acts) + 1] = a
             /\ \A i \in 1 .. Len(acts) : more[i] = acts[i]
             /\ CallsOf(more) = IF a.type = "call" THEN Append(CallsOf(acts), a.call)
                                ELSE CallsOf(acts)
             /\ PlaysOf(more) = IF a.type = "play" THEN Append(PlaysOf(acts), a) ELSE PlaysOf(acts)
             /\ ClaimsOf(more) = IF a.type = "claim" THEN Append(ClaimsOf(acts), a)
                                 ELSE ClaimsOf(acts)
<1> DEFINE more == Append(acts, a)
<1>1. /\ more \in Seq(Action) /\ Len(more) = Len(acts) + 1
      /\ more[Len(acts) + 1] = a
      /\ \A i \in 1 .. Len(acts) : more[i] = acts[i]
  BY AppendProperties
<1>2. Split(more) = With(Split(acts), a) /\ Split(acts) \in Parts
  BY SplitAppend, SplitParts
<1> HIDE DEF more
<1>3. /\ CallsOf(more) = IF a.type = "call" THEN Append(CallsOf(acts), a.call) ELSE CallsOf(acts)
      /\ PlaysOf(more) = IF a.type = "play" THEN Append(PlaysOf(acts), a) ELSE PlaysOf(acts)
      /\ ClaimsOf(more) = IF a.type = "claim" THEN Append(ClaimsOf(acts), a) ELSE ClaimsOf(acts)
  <2>1. a.type \in {"call", "play", "claim"}
    BY Kinds
  <2>2. /\ CallsOf(more) = With(Split(acts), a).call /\ CallsOf(acts) = Split(acts).call
        /\ PlaysOf(more) = With(Split(acts), a).play /\ PlaysOf(acts) = Split(acts).play
        /\ ClaimsOf(more) = With(Split(acts), a).claim /\ ClaimsOf(acts) = Split(acts).claim
    BY <1>2 DEF CallsOf, PlaysOf, ClaimsOf
  <2>3. CASE a.type = "call"
    BY <1>2, <2>2, <2>3, WithParts
  <2>4. CASE a.type = "play"
    BY <1>2, <2>2, <2>4, WithParts
  <2>5. CASE a.type = "claim"
    BY <1>2, <2>2, <2>5, WithParts
  <2> QED BY <2>1, <2>3, <2>4, <2>5
<1> QED BY <1>1, <1>3 DEF more

\* The parts of an empty log.
LEMMA NothingPlayed ==
  /\ CallsOf(<<>>) = <<>> /\ PlaysOf(<<>>) = <<>> /\ ClaimsOf(<<>>) = <<>>
  /\ <<>> \in Seq(Action) /\ Len(<<>>) = 0
BY SplitEmpty, EmptySeq DEF CallsOf, PlaysOf, ClaimsOf, Empty

\* Before the first card every hand is as it was dealt.
LEMMA NoneHeldBack ==
  ASSUME NEW b \in Boards, NEW acts, PlaysOf(acts) = <<>>
  PROVE  InTurn(b, acts) /\ OwnCards(b, acts) /\ HandsShrink(b, acts) /\ Done(acts) = 0
<1>1. Len(PlaysOf(acts)) = 0 /\ DOMAIN PlaysOf(acts) = {}
  BY EmptySeq
<1>2. Done(acts) = 0
  BY <1>1 DEF Done
<1>3. InTurn(b, acts) /\ OwnCards(b, acts)
  BY <1>1 DEF InTurn, OwnCards
<1>4. ASSUME NEW s \in Seat
      PROVE  HandOf(b, acts, s) = b.hands[s] /\ ~InTrick(acts, s)
  BY <1>1, <1>2 DEF HandOf, InTrick
<1>5. \A s \in Seat : IsFiniteSet(b.hands[s]) /\ Cardinality(b.hands[s]) = Tricks
  BY TableAssumption
<1>6. Tricks \in Nat
  BY TableAssumption
<1>7. HandsShrink(b, acts)
  BY <1>1, <1>2, <1>4, <1>5, <1>6 DEF HandsShrink
<1> QED BY <1>2, <1>3, <1>7

\* A fresh table is sound.
LEMMA SoundEmpty ==
  ASSUME NEW b \in Boards
  PROVE  Sound(b, <<>>)
<1>1. Ordered(b, <<>>)
  BY NothingPlayed DEF Ordered
<1>2. ClaimFits(<<>>)
  BY NothingPlayed DEF ClaimFits
<1> QED BY <1>1, <1>2, NothingPlayed, NoneHeldBack DEF Sound

\* A call is admitted in the auction alone.
LEMMA SoundCall ==
  ASSUME NEW b \in Boards, NEW acts, Sound(b, acts), NEW a \in Action,
         a.type = "call", Admits(b, acts, a)
  PROVE  Sound(b, Append(acts, a))
<1> DEFINE more == Append(acts, a)
<1>1. ~IsComplete(CallsOf(acts))
  BY Phases DEF Admits
<1>2. acts \in Seq(Action) /\ Ordered(b, acts)
  BY DEF Sound
<1>3. /\ more \in Seq(Action) /\ Len(more) = Len(acts) + 1
      /\ more[Len(acts) + 1] = a
      /\ \A i \in 1 .. Len(acts) : more[i] = acts[i]
      /\ CallsOf(more) = Append(CallsOf(acts), a.call)
      /\ PlaysOf(more) = PlaysOf(acts) /\ ClaimsOf(more) = ClaimsOf(acts)
  BY <1>2, Parted
<1> HIDE DEF more
<1>4. /\ CallsOf(acts) \in Seq(AllCalls) /\ PlaysOf(acts) \in Seq(PlayActions)
      /\ ClaimsOf(acts) \in Seq(ClaimActions)
  BY PlayTyped
<1>5. /\ Len(CallsOf(acts)) \in Nat /\ Len(PlaysOf(acts)) \in Nat /\ Len(ClaimsOf(acts)) \in Nat
      /\ Len(acts) \in Nat
  BY <1>2, <1>4
<1>6. ~(Len(acts) > Len(CallsOf(acts)))
  BY <1>1, <1>2 DEF Ordered, InPlay
<1>7. Len(acts) = Len(CallsOf(acts)) /\ Len(PlaysOf(acts)) = 0 /\ Len(ClaimsOf(acts)) = 0
  BY <1>2, <1>5, <1>6 DEF Ordered
<1>8. PlaysOf(more) = <<>> /\ ClaimsOf(more) = <<>>
  BY <1>3, <1>4, <1>7, EmptySeq
<1>9. Len(CallsOf(more)) = Len(CallsOf(acts)) + 1
  BY <1>3, <1>4, Kinds, AppendProperties
<1>10. Ordered(b, more)
  <2>1. Len(<<>>) = 0
    BY EmptySeq
  <2>2. ASSUME NEW i \in 1 .. Len(more) PROVE more[i].type = "call"
    <3>1. CASE i = Len(acts) + 1
      BY <1>3, <3>1
    <3>2. CASE i \in 1 .. Len(acts)
      <4>1. acts[i].type = "call"
        BY <1>2, <1>7, <3>2 DEF Ordered
      <4> QED BY <1>3, <3>2, <4>1
    <3> QED BY <1>3, <1>5, <3>1, <3>2
  <2> QED BY <1>3, <1>5, <1>7, <1>8, <1>9, <2>1, <2>2 DEF Ordered
<1>11. ClaimFits(more)
  BY <1>8, EmptySeq DEF ClaimFits
<1> QED BY <1>3, <1>8, <1>10, <1>11, NoneHeldBack DEF Sound, more

\* A claim is admitted in the play alone, for tricks that are left.
LEMMA SoundClaim ==
  ASSUME NEW b \in Boards, NEW acts, Sound(b, acts), NEW a \in Action,
         a.type = "claim", Admits(b, acts, a)
  PROVE  Sound(b, Append(acts, a))
<1> DEFINE more == Append(acts, a)
<1>1. /\ InPlay(b, acts) /\ ~Over(Done(acts), ClaimsOf(acts))
      /\ a.tricks <= TricksLeft(Fold(b, acts))
      /\ Fold(b, acts).phase = "play"
  BY Phases DEF Admits
<1>2. acts \in Seq(Action) /\ Ordered(b, acts)
  BY DEF Sound
<1>3. /\ more \in Seq(Action) /\ Len(more) = Len(acts) + 1
      /\ more[Len(acts) + 1] = a
      /\ \A i \in 1 .. Len(acts) : more[i] = acts[i]
      /\ ClaimsOf(more) = Append(ClaimsOf(acts), a)
      /\ PlaysOf(more) = PlaysOf(acts) /\ CallsOf(more) = CallsOf(acts)
  BY <1>2, Parted
<1> HIDE DEF more
<1>4. /\ CallsOf(acts) \in Seq(AllCalls) /\ PlaysOf(acts) \in Seq(PlayActions)
      /\ Done(acts) <= Tricks
  BY <1>1, PlayTyped
<1>5. /\ Len(CallsOf(acts)) \in Nat /\ Len(PlaysOf(acts)) \in Nat
      /\ Len(acts) \in Nat /\ Done(acts) \in Nat /\ Tricks \in Nat
  BY <1>2, <1>4, TableAssumption DEF Done
<1>6. ClaimsOf(acts) = <<>> /\ Done(acts) < Tricks
  BY <1>1, <1>4, <1>5 DEF Over
<1>7. ClaimsOf(more) = <<a>> /\ Len(ClaimsOf(more)) = 1 /\ ClaimsOf(more)[1] = a
  BY <1>3, <1>6
<1>8. a.tricks <= Tricks - Done(acts)
  BY <1>1, FoldInPlay DEF TricksLeft
<1>9. Len(acts) = Len(CallsOf(acts)) + Len(PlaysOf(acts))
  BY <1>2, <1>5, <1>6, EmptySeq DEF Ordered
<1>10. Ordered(b, more)
  <2>1. ASSUME NEW i \in 1 .. Len(more)
        PROVE  more[i].type = IF i <= Len(CallsOf(more)) THEN "call"
                      ELSE IF i <= Len(CallsOf(more)) + Len(PlaysOf(more)) THEN "play" ELSE "claim"
    <3>1. CASE i = Len(acts) + 1
      BY <1>3, <1>5, <1>9, <3>1
    <3>2. CASE i \in 1 .. Len(acts)
      BY <1>2, <1>3, <3>2 DEF Ordered
    <3> QED BY <1>3, <1>5, <3>1, <3>2
  <2>2. InPlay(b, more)
    BY <1>1, <1>3 DEF InPlay, TheContract
  <2> QED BY <1>3, <1>5, <1>7, <1>9, <2>1, <2>2 DEF Ordered
<1>11. Done(more) = Done(acts) /\ LeadOf(b, more) = LeadOf(b, acts)
  BY <1>3 DEF Done, LeadOf, TheContract
<1>12. InTurn(b, more) /\ OwnCards(b, more)
  BY <1>3, <1>11 DEF Sound, InTurn, OwnCards
<1>13. HandsShrink(b, more)
  <2>1. \A s : HandOf(b, more, s) = HandOf(b, acts, s) /\ InTrick(more, s) = InTrick(acts, s)
    BY <1>3, <1>11 DEF HandOf, InTrick
  <2> QED BY <1>3, <1>11, <2>1 DEF Sound, HandsShrink
<1>14. ClaimFits(more)
  BY <1>3, <1>6, <1>7, <1>8, <1>11 DEF ClaimFits
<1> QED BY <1>3, <1>10, <1>12, <1>13, <1>14 DEF Sound, more

\* What a card played adds to a sound log.
LEMMA PlayAdds ==
  ASSUME NEW b \in Boards, NEW acts, Sound(b, acts), NEW a \in Action,
         a.type = "play", Admits(b, acts, a)
  PROVE  LET more  == Append(acts, a)
             plays == PlaysOf(acts)
             after == PlaysOf(more)
             n     == Done(acts)
             r     == Len(plays) - 4 * n
         IN  /\ InPlay(b, acts) /\ ~Over(n, ClaimsOf(acts))
             /\ a.card \in Legal(b, Fold(b, acts), a.seat)
             /\ /\ more \in Seq(Action) /\ Len(more) = Len(acts) + 1
                /\ more[Len(acts) + 1] = a
                /\ \A i \in 1 .. Len(acts) : more[i] = acts[i]
                /\ CallsOf(more) = CallsOf(acts) /\ ClaimsOf(more) = ClaimsOf(acts)
             /\ a.seat \in Seat /\ a \in PlayActions
             /\ /\ Len(plays) \in Nat /\ Tricks \in Nat
                /\ n \in Nat /\ r \in 0 .. 3 /\ Len(plays) = 4 * n + r
             /\ /\ Fold(b, acts).turn = a.seat
                /\ a.seat = SeatAfter(LeadOf(b, acts)[n], r) /\ ~InTrick(acts, a.seat)
                /\ \A s \in Seat : r = 3 /\ s # a.seat => InTrick(acts, s)
             /\ a.card \in HandOf(b, acts, a.seat)
             /\ ClaimsOf(acts) = <<>> /\ n < Tricks
             /\ TheContract(b, more) = TheContract(b, acts) /\ InPlay(b, more)
             /\ /\ plays \in Seq(PlayActions) /\ after \in Seq(PlayActions)
                /\ Len(after) = Len(plays) + 1 /\ after[Len(plays) + 1] = a
                /\ \A i \in 1 .. Len(plays) : after[i] = plays[i]
             /\ /\ r < 3 => Done(more) = n
                /\ r = 3 => Done(more) = n + 1 /\ Len(after) = 4 * (n + 1)
             /\ \A k \in 0 .. n : LeadOf(b, more)[k] = LeadOf(b, acts)[k]
             /\ \A s : HandOf(b, more, s) = IF s = a.seat THEN HandOf(b, acts, s) \ {a.card}
                                             ELSE HandOf(b, acts, s)
<1> DEFINE more == Append(acts, a)
           plays == PlaysOf(acts)
           n == Done(acts)
           r == Len(plays) - 4 * n
           f == Fold(b, acts)
<1>1. /\ InPlay(b, acts) /\ ~Over(n, ClaimsOf(acts))
      /\ f.turn = a.seat
      /\ a.card \in Legal(b, f, a.seat)
  BY Phases DEF Admits
<1>2. acts \in Seq(Action) /\ Ordered(b, acts)
  BY DEF Sound
<1>3. /\ more \in Seq(Action) /\ Len(more) = Len(acts) + 1
      /\ more[Len(acts) + 1] = a
      /\ \A i \in 1 .. Len(acts) : more[i] = acts[i]
      /\ CallsOf(more) = CallsOf(acts) /\ ClaimsOf(more) = ClaimsOf(acts)
      /\ PlaysOf(more) = Append(plays, a)
  BY <1>2, Parted
<1>4. /\ CallsOf(acts) \in Seq(AllCalls) /\ plays \in Seq(PlayActions)
      /\ n <= Tricks /\ TheContract(b, acts).declarer \in Seat
  BY <1>1, PlayTyped
<1>5. a.seat \in Seat /\ a \in PlayActions
  BY Kinds
<1>6. /\ Len(CallsOf(acts)) \in Nat /\ Len(plays) \in Nat /\ Tricks \in Nat
      /\ Len(acts) \in Nat /\ n \in Nat /\ r \in 0 .. 3 /\ Len(plays) = 4 * n + r
  BY <1>2, <1>4, TableAssumption DEF Done
<1>7. a.seat = SeatAfter(LeadOf(b, acts)[n], r) /\ ~InTrick(acts, a.seat)
      /\ \A s \in Seat : r = 3 /\ s # a.seat => InTrick(acts, s)
  BY <1>1, TurnIs
<1>8. f.played = plays
  BY <1>1, FoldInPlay
<1>9. a.card \in HandOf(b, acts, a.seat)
  BY <1>1, <1>8 DEF Legal, LegalCards, Remaining, HandOf
<1>10. ClaimsOf(acts) = <<>> /\ n < Tricks
  BY <1>1, <1>4, <1>6 DEF Over
<1>11. TheContract(b, more) = TheContract(b, acts) /\ InPlay(b, more)
  BY <1>1, <1>3 DEF TheContract, InPlay
<1> DEFINE after == PlaysOf(more)
<1>12. /\ after \in Seq(PlayActions) /\ Len(after) = Len(plays) + 1
       /\ after[Len(plays) + 1] = a
       /\ \A i \in 1 .. Len(plays) : after[i] = plays[i]
  BY <1>3, <1>4, <1>5, AppendProperties
<1>13. /\ r < 3 => Done(more) = n
       /\ r = 3 => Done(more) = n + 1 /\ Len(after) = 4 * (n + 1)
  <2>1. Done(more) = Len(after) \div 4
    BY DEF Done
  <2> HIDE DEF plays, n, r, after
  <2>2. CASE r < 3
    <3>1. Len(after) = 4 * n + (r + 1) /\ r + 1 \in 0 .. 3
      BY <1>6, <1>12, <2>2
    <3>2. (4 * n + (r + 1)) \div 4 = n
      BY <1>6, <3>1
    <3> QED BY <2>1, <2>2, <3>1, <3>2
  <2>3. CASE r = 3
    <3>1. Len(after) = 4 * (n + 1)
      BY <1>6, <1>12, <2>3
    <3>2. (4 * (n + 1)) \div 4 = n + 1
      BY <1>6
    <3> QED BY <2>1, <2>3, <3>1, <3>2
  <2> QED BY <1>6, <2>2, <2>3
<1>14. \A k \in 0 .. n : LeadOf(b, more)[k] = LeadOf(b, acts)[k]
  <2>1. \A k \in 0 .. Len(plays) \div 4 :
          Leaders(TheContract(b, acts), Append(plays, a))[k]
            = Leaders(TheContract(b, acts), plays)[k]
    BY <1>4, <1>5, LeadersAppend
  <2> QED BY <1>3, <1>11, <2>1 DEF LeadOf, Done
<1> HIDE DEF more, plays, n, r, f, after
<1>15. \A s : HandOf(b, more, s) = IF s = a.seat THEN HandOf(b, acts, s) \ {a.card}
                                   ELSE HandOf(b, acts, s)
  <2> TAKE s
  <2> DEFINE old == {plays[i].card : i \in {j \in DOMAIN plays : plays[j].seat = s}}
             new == {after[i].card : i \in {j \in DOMAIN after : after[j].seat = s}}
  <2>1. DOMAIN plays = 1 .. Len(plays) /\ DOMAIN after = 1 .. Len(plays) + 1
    BY <1>4, <1>12
  <2>2. \A i \in 1 .. Len(plays) + 1 : i = Len(plays) + 1 \/ i \in 1 .. Len(plays)
    BY <1>6
  <2>3. 1 .. Len(plays) \subseteq 1 .. Len(plays) + 1 /\ Len(plays) + 1 \in 1 .. Len(plays) + 1
    BY <1>6
  <2>4. CASE s = a.seat
    <3>1. new = old \cup {a.card}
      BY <1>12, <2>1, <2>2, <2>3, <2>4
    <3> QED BY <2>4, <3>1 DEF HandOf, plays, after
  <2>5. CASE s # a.seat
    <3>1. new = old
      BY <1>12, <2>1, <2>2, <2>3, <2>5
    <3> QED BY <2>5, <3>1 DEF HandOf, plays, after
  <2> QED BY <2>4, <2>5
<1> QED BY <1>1, <1>3, <1>4, <1>5, <1>6, <1>7, <1>8, <1>9, <1>10, <1>11, <1>12, <1>13, <1>14, <1>15
         DEF more, plays, n, r, f, after

\* A card is admitted in the play alone, from the hand on turn.
LEMMA SoundPlay ==
  ASSUME NEW b \in Boards, NEW acts, Sound(b, acts), NEW a \in Action,
         a.type = "play", Admits(b, acts, a)
  PROVE  Sound(b, Append(acts, a))
<1> DEFINE more == Append(acts, a)
           plays == PlaysOf(acts)
           n == Done(acts)
           r == Len(plays) - 4 * n
           f == Fold(b, acts)
<1>1. /\ InPlay(b, acts) /\ ~Over(n, ClaimsOf(acts))
      /\ f.turn = a.seat
      /\ a.card \in Legal(b, f, a.seat)
  BY PlayAdds
<1>2. acts \in Seq(Action) /\ Ordered(b, acts)
  BY PlayAdds DEF Sound
<1>3. /\ more \in Seq(Action) /\ Len(more) = Len(acts) + 1
      /\ more[Len(acts) + 1] = a
      /\ \A i \in 1 .. Len(acts) : more[i] = acts[i]
      /\ CallsOf(more) = CallsOf(acts) /\ ClaimsOf(more) = ClaimsOf(acts)
      /\ PlaysOf(more) = Append(plays, a)
  BY PlayAdds
<1>4. /\ CallsOf(acts) \in Seq(AllCalls) /\ plays \in Seq(PlayActions)
      /\ n <= Tricks /\ TheContract(b, acts).declarer \in Seat
  BY <1>1, PlayTyped
<1>5. a.seat \in Seat /\ a \in PlayActions
  BY PlayAdds
<1>6. /\ Len(CallsOf(acts)) \in Nat /\ Len(plays) \in Nat /\ Tricks \in Nat
      /\ Len(acts) \in Nat /\ n \in Nat /\ r \in 0 .. 3 /\ Len(plays) = 4 * n + r
  BY <1>2, <1>4, PlayAdds
<1>7. a.seat = SeatAfter(LeadOf(b, acts)[n], r) /\ ~InTrick(acts, a.seat)
      /\ \A s \in Seat : r = 3 /\ s # a.seat => InTrick(acts, s)
  BY PlayAdds
<1>9. a.card \in HandOf(b, acts, a.seat)
  BY PlayAdds
<1>10. ClaimsOf(acts) = <<>> /\ n < Tricks
  BY PlayAdds
<1>11. TheContract(b, more) = TheContract(b, acts) /\ InPlay(b, more)
  BY PlayAdds
<1> DEFINE after == PlaysOf(more)
<1>12. /\ after \in Seq(PlayActions) /\ Len(after) = Len(plays) + 1
       /\ after[Len(plays) + 1] = a
       /\ \A i \in 1 .. Len(plays) : after[i] = plays[i]
  BY PlayAdds
<1>13. /\ r < 3 => Done(more) = n
       /\ r = 3 => Done(more) = n + 1 /\ Len(after) = 4 * (n + 1)
  BY PlayAdds
<1>14. \A k \in 0 .. n : LeadOf(b, more)[k] = LeadOf(b, acts)[k]
  BY PlayAdds
<1> HIDE DEF more, plays, n, r, f, after
<1>15. Ordered(b, more)
  <2>1. Len(ClaimsOf(acts)) = 0
    BY <1>10, EmptySeq
  <2>2. Len(acts) = Len(CallsOf(acts)) + Len(plays)
    BY <1>2, <1>6, <2>1 DEF Ordered, plays
  <2>3. ASSUME NEW i \in 1 .. Len(more)
        PROVE  more[i].type = IF i <= Len(CallsOf(more)) THEN "call"
                      ELSE IF i <= Len(CallsOf(more)) + Len(after) THEN "play" ELSE "claim"
    <3>1. CASE i = Len(acts) + 1
      <4>1. more[i].type = "play"
        BY <1>3, <3>1
      <4>2. /\ ~(i <= Len(CallsOf(acts)))
            /\ i <= Len(CallsOf(acts)) + Len(after)
        BY <1>6, <1>12, <2>2, <3>1
      <4> QED BY <1>3, <4>1, <4>2
    <3>2. CASE i \in 1 .. Len(acts)
      <4>1. acts[i].type = IF i <= Len(CallsOf(acts)) THEN "call"
                           ELSE IF i <= Len(CallsOf(acts)) + Len(plays) THEN "play" ELSE "claim"
        BY <1>2, <3>2 DEF Ordered, plays
      <4>2. i <= Len(CallsOf(acts)) + Len(plays)
        BY <2>2, <3>2
      <4> QED BY <1>3, <1>6, <1>12, <3>2, <4>1, <4>2
    <3> QED BY <1>3, <1>6, <3>1, <3>2
  <2> QED BY <1>3, <1>6, <1>11, <1>12, <2>1, <2>2, <2>3 DEF Ordered, after
<1>16. InTurn(b, more)
  <2> SUFFICES ASSUME NEW i \in 1 .. Len(after)
               PROVE  after[i].seat = SeatAfter(LeadOf(b, more)[(i - 1) \div 4], (i - 1) % 4)
    BY DEF InTurn, after
  <2>1. CASE i = Len(plays) + 1
    <3>1. (i - 1) \div 4 = n /\ (i - 1) % 4 = r /\ n \in 0 .. n
      BY <1>6, <2>1
    <3>2. LeadOf(b, more)[n] = LeadOf(b, acts)[n]
      BY <1>14, <3>1
    <3> QED BY <1>7, <1>12, <2>1, <3>1, <3>2
  <2>2. CASE i \in 1 .. Len(plays)
    <3>1. (i - 1) \div 4 \in 0 .. n
      BY <1>6, <2>2
    <3>2. plays[i].seat = SeatAfter(LeadOf(b, acts)[(i - 1) \div 4], (i - 1) % 4)
      BY <2>2 DEF Sound, InTurn, plays
    <3>3. LeadOf(b, more)[(i - 1) \div 4] = LeadOf(b, acts)[(i - 1) \div 4]
      BY <1>14, <3>1
    <3> QED BY <1>12, <2>2, <3>2, <3>3
  <2> QED BY <1>6, <1>12, <2>1, <2>2
<1>17. /\ a.card \in b.hands[a.seat]
       /\ \A i \in 1 .. Len(plays) : plays[i].card # a.card
  <2>1. a.card \in b.hands[a.seat]
    BY <1>9 DEF HandOf
  <2>2. ASSUME NEW i \in 1 .. Len(plays), plays[i].card = a.card PROVE FALSE
    <3>1. plays[i].card \in b.hands[plays[i].seat]
      BY DEF Sound, OwnCards, plays
    <3>2. plays[i] \in PlayActions
      BY <1>4
    <3>3. plays[i].seat \in Seat
      BY <3>2 DEF PlayActions, PlayAction
    <3>4. plays[i].seat = a.seat
      BY <1>5, <2>1, <2>2, <3>1, <3>3, TableAssumption
    <3>5. i \in DOMAIN PlaysOf(acts)
      BY <1>4 DEF plays
    <3> QED BY <1>9, <2>2, <3>4, <3>5 DEF HandOf, plays
  <2> QED BY <2>1, <2>2
<1>18. OwnCards(b, more)
  <2>1. ASSUME NEW i \in 1 .. Len(after) PROVE after[i].card \in b.hands[after[i].seat]
    <3>1. CASE i = Len(plays) + 1
      BY <1>12, <1>17, <3>1
    <3>2. CASE i \in 1 .. Len(plays)
      BY <1>12, <3>2 DEF Sound, OwnCards, plays
    <3> QED BY <1>6, <1>12, <3>1, <3>2
  <2>2. ASSUME NEW i \in 1 .. Len(after), NEW j \in 1 .. Len(after), after[i].card = after[j].card
        PROVE  i = j
    <3>1. \A k \in 1 .. Len(after) : k = Len(plays) + 1 \/ k \in 1 .. Len(plays)
      BY <1>6, <1>12
    <3>2. CASE i = Len(plays) + 1 /\ j = Len(plays) + 1
      BY <3>2
    <3>3. CASE i \in 1 .. Len(plays) /\ j = Len(plays) + 1
      BY <1>12, <1>17, <2>2, <3>3
    <3>4. CASE i = Len(plays) + 1 /\ j \in 1 .. Len(plays)
      BY <1>12, <1>17, <2>2, <3>4
    <3>5. CASE i \in 1 .. Len(plays) /\ j \in 1 .. Len(plays)
      BY <1>12, <2>2, <3>5 DEF Sound, OwnCards, plays
    <3> QED BY <3>1, <3>2, <3>3, <3>4, <3>5
  <2> QED BY <2>1, <2>2 DEF OwnCards, after
<1>19. \A s : HandOf(b, more, s) = IF s = a.seat THEN HandOf(b, acts, s) \ {a.card}
                                   ELSE HandOf(b, acts, s)
  BY PlayAdds DEF more
<1>20. /\ r < 3 => \A s : InTrick(more, s) <=> InTrick(acts, s) \/ s = a.seat
       /\ r = 3 => \A s : ~InTrick(more, s)
  <2>1. ASSUME r < 3, NEW s PROVE InTrick(more, s) <=> InTrick(acts, s) \/ s = a.seat
    <3>1. Done(more) = n
      BY <1>13, <2>1
    <3>2. \A i : i \in 4 * n + 1 .. Len(after)
                   <=> i \in 4 * n + 1 .. Len(plays) \/ i = Len(plays) + 1
      BY <1>6, <1>12
    <3>3. \A i \in 4 * n + 1 .. Len(plays) : i \in 1 .. Len(plays)
      BY <1>6
    <3>4. InTrick(more, s) <=> \E i \in 4 * n + 1 .. Len(after) : after[i].seat = s
      BY <3>1 DEF InTrick, after
    <3>5. InTrick(acts, s) <=> \E i \in 4 * n + 1 .. Len(plays) : plays[i].seat = s
      BY DEF InTrick, plays, n
    <3> QED BY <1>12, <3>2, <3>3, <3>4, <3>5
  <2>2. ASSUME r = 3, NEW s PROVE ~InTrick(more, s)
    <3>1. 4 * Done(more) = Len(after)
      BY <1>13, <2>2
    <3>2. 4 * Done(more) + 1 .. Len(after) = {}
      BY <1>6, <1>12, <3>1
    <3> QED BY <3>2 DEF InTrick, after
  <2> QED BY <2>1, <2>2
<1>21. HandsShrink(b, more)
  <2>1. Len(after) <= 4 * Tricks
    BY <1>6, <1>10, <1>12
  <2>2. \A s \in Seat :
          /\ IsFiniteSet(HandOf(b, acts, s))
          /\ Cardinality(HandOf(b, acts, s)) = Tricks - n - (IF InTrick(acts, s) THEN 1 ELSE 0)
    BY DEF Sound, HandsShrink, n
  <2>3. ASSUME NEW s \in Seat
        PROVE  /\ IsFiniteSet(HandOf(b, more, s))
               /\ Cardinality(HandOf(b, more, s)) =
                    Tricks - Done(more) - (IF InTrick(more, s) THEN 1 ELSE 0)
    <3>1. CASE s = a.seat
      <4>1. HandOf(b, more, s) = HandOf(b, acts, s) \ {a.card} /\ a.card \in HandOf(b, acts, s)
        BY <1>9, <1>19, <3>1
      <4>2. IsFiniteSet(HandOf(b, acts, s)) /\ Cardinality(HandOf(b, acts, s)) = Tricks - n
        BY <1>6, <1>7, <2>2, <3>1
      <4>3. /\ IsFiniteSet(HandOf(b, more, s))
            /\ Cardinality(HandOf(b, more, s)) = Tricks - n - 1
        BY <4>1, <4>2, FS_RemoveElement
      <4>4. r < 3 => Done(more) = n /\ InTrick(more, s)
        BY <1>13, <1>20, <3>1
      <4>5. r = 3 => Done(more) = n + 1 /\ ~InTrick(more, s)
        BY <1>13, <1>20, <3>1
      <4> QED BY <1>6, <4>3, <4>4, <4>5
    <3>2. CASE s # a.seat
      <4>1. HandOf(b, more, s) = HandOf(b, acts, s)
        BY <1>19, <3>2
      <4>2. r < 3 => Done(more) = n /\ (InTrick(more, s) <=> InTrick(acts, s))
        BY <1>13, <1>20, <3>2
      <4>3. r = 3 => Done(more) = n + 1 /\ ~InTrick(more, s) /\ InTrick(acts, s)
        BY <1>7, <1>13, <1>20, <3>2
      <4> QED BY <1>6, <2>2, <4>1, <4>2, <4>3
    <3> QED BY <3>1, <3>2
  <2> QED BY <2>1, <2>3 DEF HandsShrink, after
<1>22. ClaimFits(more)
  BY <1>3, <1>10, EmptySeq DEF ClaimFits
<1> QED BY <1>3, <1>15, <1>16, <1>18, <1>21, <1>22 DEF Sound, more

-----------------------------------------------------------------------------
(* Every prefix of the log is sound: what the operations preserve. *)

\* The log and every log an undo can bring back.
AllSound(b, acts) ==
  /\ b \in Boards
  /\ acts \in Seq(Action)
  /\ \A n \in 0 .. Len(acts) : Sound(b, SubSeq(acts, 1, n))

Inv == AllSound(board, actions)

\* The prefixes of a longer log are those of the log, and itself.
LEMMA LongerPrefixes ==
  ASSUME NEW acts \in Seq(Action), NEW a \in Action, NEW n \in 0 .. Len(acts)
  PROVE  /\ SubSeq(Append(acts, a), 1, n) = SubSeq(acts, 1, n)
         /\ SubSeq(Append(acts, a), 1, Len(acts) + 1) = Append(acts, a)
<1>1. Len(acts) \in Nat
  OBVIOUS
<1> QED BY <1>1

\* The whole log is one of its prefixes.
LEMMA SoundNow ==
  ASSUME NEW b, NEW acts, AllSound(b, acts)
  PROVE  b \in Boards /\ Sound(b, acts)
<1>1. acts \in Seq(Action) /\ Len(acts) \in 0 .. Len(acts)
  BY DEF AllSound
<1>2. SubSeq(acts, 1, Len(acts)) = acts
  BY <1>1
<1>3. Sound(b, SubSeq(acts, 1, Len(acts)))
  BY <1>1 DEF AllSound
<1> QED BY <1>2, <1>3 DEF AllSound

\* A fresh table has but the empty log.
LEMMA AllSoundEmpty ==
  ASSUME NEW b \in Boards
  PROVE  AllSound(b, <<>>)
<1>1. <<>> \in Seq(Action) /\ Len(<<>>) = 0 /\ 0 \in 0 .. Len(<<>>)
  BY EmptySeq
<1>2. SubSeq(<<>>, 1, 0) = <<>>
  OBVIOUS
<1>3. \A n \in 0 .. Len(<<>>) : n = 0
  BY <1>1
<1> QED BY <1>1, <1>2, <1>3, SoundEmpty DEF AllSound

\* Applying an action, to the table of any module that has one.
LEMMA ApplyKeeps ==
  ASSUME NEW b, NEW acts, AllSound(b, acts), NEW a \in Action, Admits(b, acts, a)
  PROVE  AllSound(b, Append(acts, a))
<1>1. b \in Boards /\ Sound(b, acts) /\ acts \in Seq(Action)
  BY SoundNow DEF AllSound
<1>2. Sound(b, Append(acts, a))
  BY <1>1, Kinds, SoundCall, SoundPlay, SoundClaim
<1>3. Append(acts, a) \in Seq(Action) /\ Len(Append(acts, a)) = Len(acts) + 1 /\ Len(acts) \in Nat
  BY <1>1, AppendProperties
<1>4. ASSUME NEW n \in 0 .. Len(acts) + 1 PROVE Sound(b, SubSeq(Append(acts, a), 1, n))
  <2>1. CASE n = Len(acts) + 1
    <3>1. Len(acts) \in 0 .. Len(acts)
      BY <1>3
    <3>2. SubSeq(Append(acts, a), 1, n) = Append(acts, a)
      BY <1>1, <2>1, <3>1, LongerPrefixes
    <3> QED BY <1>2, <3>2
  <2>2. CASE n \in 0 .. Len(acts)
    <3>1. SubSeq(Append(acts, a), 1, n) = SubSeq(acts, 1, n)
      BY <1>1, <2>2, LongerPrefixes
    <3> QED BY <2>2, <3>1 DEF AllSound
  <2> QED BY <1>3, <2>1, <2>2
<1> QED BY <1>1, <1>3, <1>4 DEF AllSound

\* Undoing, to any length, to the table of any module that has one.
LEMMA UndoKeeps ==
  ASSUME NEW b, NEW acts, AllSound(b, acts), NEW n \in 0 .. Len(acts)
  PROVE  AllSound(b, SubSeq(acts, 1, n))
<1>1. acts \in Seq(Action) /\ Len(acts) \in Nat
  BY DEF AllSound
<1>2. /\ SubSeq(acts, 1, n) \in Seq(Action) /\ Len(SubSeq(acts, 1, n)) = n
      /\ \A m \in 0 .. n : SubSeq(SubSeq(acts, 1, n), 1, m) = SubSeq(acts, 1, m)
  <2>1. SubSeq(acts, 1, n) \in Seq(Action) /\ Len(SubSeq(acts, 1, n)) = n
    BY <1>1
  <2>2. ASSUME NEW m \in 0 .. n PROVE SubSeq(SubSeq(acts, 1, n), 1, m) = SubSeq(acts, 1, m)
    BY <1>1, <2>1
  <2> QED BY <2>1, <2>2
<1>3. \A m \in 0 .. n : m \in 0 .. Len(acts)
  BY <1>1
<1> QED BY <1>2, <1>3 DEF AllSound

\* A card of a hand makes an action.
LEMMA HandsAreCards ==
  ASSUME NEW b \in Boards, NEW s \in Seat, NEW c \in b.hands[s]
  PROVE  PlayAction(s, c) \in Action
BY DEF Action, PlayActions, Cards

\* The inductive invariant: at the start, after every step, and always.
LEMMA InitInv == Init => Inv
BY AllSoundEmpty DEF Init, Inv

LEMMA StepInv == Inv /\ [Next]_vars => Inv'
<1> SUFFICES ASSUME Inv, [Next]_vars PROVE AllSound(board', actions')
  BY DEF Inv
<1> USE DEF Inv
<1>1. ASSUME NEW a \in Action, Apply(a) PROVE AllSound(board', actions')
  BY <1>1, ApplyKeeps DEF Apply
<1>2. ASSUME NEW s \in Seat, NEW c \in Calls, Apply(CallAction(s, c))
      PROVE  AllSound(board', actions')
  <2>1. CallAction(s, c) \in Action
    BY TableAssumption DEF Action, CallActions
  <2> QED BY <1>1, <1>2, <2>1
<1>3. ASSUME NEW s \in Seat, NEW c \in board.hands[s], Apply(PlayAction(s, c))
      PROVE  AllSound(board', actions')
  <2>1. PlayAction(s, c) \in Action
    BY HandsAreCards DEF AllSound
  <2> QED BY <1>1, <1>3, <2>1
<1>4. ASSUME NEW s \in Seat, NEW n \in 0 .. Tricks, Apply(ClaimAction(s, n))
      PROVE  AllSound(board', actions')
  <2>1. ClaimAction(s, n) \in Action
    BY TableAssumption DEF Action, ClaimActions
  <2> QED BY <1>1, <1>4, <2>1
<1>5. ASSUME NEW n \in 0 .. Len(actions), UndoTo(n) PROVE AllSound(board', actions')
  BY <1>5, UndoKeeps DEF UndoTo
<1>6. ASSUME NEW b \in Boards, NewTable(b) PROVE AllSound(board', actions')
  BY <1>6, AllSoundEmpty DEF NewTable
<1>7. CASE UNCHANGED vars
  BY <1>7 DEF vars
<1> QED BY <1>2, <1>3, <1>4, <1>5, <1>6, <1>7 DEF Next

LEMMA InvAlways == Spec => []Inv
<1> QED BY InitInv, StepInv, PTL DEF Spec

\* The log of the game, with its history variables, is a log of the table.
THEOREM GamePlaysTheTable == GameSpec => Spec
<1>1. GameInit => Init
  BY DEF GameInit
<1>2. [Next /\ Remember]_<<board, actions, position, past>> => [Next]_vars
  BY DEF vars
<1> QED BY <1>1, <1>2, PTL DEF GameSpec, Spec

-----------------------------------------------------------------------------
(* What holds of the fold of a sound log. *)

\* Until a contract is made nothing is played or claimed.
LEMMA NothingYet ==
  ASSUME NEW b \in Boards, NEW acts, Sound(b, acts), ~InPlay(b, acts)
  PROVE  /\ PlaysOf(acts) = <<>> /\ ClaimsOf(acts) = <<>>
         /\ Len(acts) = Len(CallsOf(acts))
         /\ Fold(b, acts).played = <<>> /\ Fold(b, acts).trick = <<>>
         /\ Fold(b, acts).completed = 0 /\ Fold(b, acts).leader = NoSeat
         /\ Fold(b, acts).contract = NoContract
<1>1. /\ CallsOf(acts) \in Seq(AllCalls) /\ PlaysOf(acts) \in Seq(PlayActions)
      /\ ClaimsOf(acts) \in Seq(ClaimActions) /\ acts \in Seq(Action)
  BY PlayTyped DEF Sound
<1>2. /\ Len(acts) = Len(CallsOf(acts)) + Len(PlaysOf(acts)) + Len(ClaimsOf(acts))
      /\ ~(Len(acts) > Len(CallsOf(acts)))
  BY DEF Sound, Ordered
<1>3. Len(PlaysOf(acts)) = 0 /\ Len(ClaimsOf(acts)) = 0 /\ Len(acts) = Len(CallsOf(acts))
  BY <1>1, <1>2
<1>4. PlaysOf(acts) = <<>> /\ ClaimsOf(acts) = <<>>
  BY <1>1, <1>3, EmptySeq
<1>5. CASE ~IsComplete(CallsOf(acts))
  BY <1>3, <1>4, <1>5, FoldInAuction DEF NoPlay
<1>6. CASE IsComplete(CallsOf(acts)) /\ TheContract(b, acts) = NoContract
  BY <1>3, <1>4, <1>6, FoldPassedOut DEF NoPlay
<1> QED BY <1>5, <1>6 DEF InPlay

\* What the fold of a sound log is made of.
LEMMA FoldTyped ==
  ASSUME NEW b \in Boards, NEW acts, Sound(b, acts)
  PROVE  LET f == Fold(b, acts)
         IN  /\ f.phase \in {"bidding", "play", "complete"}
             /\ {f.turn, f.leader} \subseteq Seat \cup {NoSeat}
             /\ f.phase = "complete" <=> f.turn = NoSeat
             /\ f.completed = Done(acts) /\ f.completed \in 0 .. Tricks
             /\ f.played = PlaysOf(acts) /\ f.trick = Trick(acts) /\ Len(f.trick) \in 0 .. 3
<1>1. NoSeat \notin Seat /\ Tricks \in Nat
  BY TableAssumption DEF NoSeat, Seat
<1>2. /\ Done(acts) \in Nat /\ Len(Trick(acts)) \in 0 .. 3 /\ Done(acts) \in 0 .. Done(acts)
      /\ Trick(acts) = <<>> <=> Len(PlaysOf(acts)) = 4 * Done(acts)
  <2>1. acts \in Seq(Action)
    BY DEF Sound
  <2>2. Done(acts) \in Nat /\ Len(Trick(acts)) \in 0 .. 3
    BY <2>1, Progress
  <2>3. Trick(acts) = <<>> <=> Len(PlaysOf(acts)) = 4 * Done(acts)
    BY <2>1, Progress
  <2> QED BY <2>2, <2>3
<1>3. CASE ~InPlay(b, acts)
  <2>1. PlaysOf(acts) = <<>> /\ Len(PlaysOf(acts)) = 0
    BY <1>3, NothingYet, EmptySeq
  <2>2. Done(acts) = 0
    BY <2>1 DEF Done
  <2>3. Trick(acts) = <<>>
    BY <1>2, <2>1, <2>2
  <2>4. NextCaller(b.dealer, CallsOf(acts)) \in Seat
    <3>1. b.dealer \in Seat /\ Len(CallsOf(acts)) \in Nat
      BY PlayTyped
    <3>2. b.dealer \in Int /\ Len(CallsOf(acts)) + 1 - 1 \in Int
      BY <3>1 DEF Seat
    <3> QED BY <3>2, SeatAfterIsSeat DEF NextCaller, CallerAt
  <2>5. \/ Fold(b, acts).phase = "bidding" /\ Fold(b, acts).turn \in Seat
        \/ Fold(b, acts).phase = "complete" /\ Fold(b, acts).turn = NoSeat
    <3>1. CASE ~IsComplete(CallsOf(acts))
      <4>1. /\ Fold(b, acts).phase = "bidding"
            /\ Fold(b, acts).turn = NextCaller(b.dealer, CallsOf(acts))
        BY <3>1, FoldInAuction DEF NoPlay
      <4> QED BY <2>4, <4>1
    <3>2. CASE IsComplete(CallsOf(acts)) /\ TheContract(b, acts) = NoContract
      BY <3>2, FoldPassedOut DEF NoPlay
    <3> QED BY <1>3, <3>1, <3>2 DEF InPlay
  <2> QED BY <1>1, <1>2, <1>3, <2>1, <2>2, <2>3, <2>5, NothingYet
<1>4. CASE InPlay(b, acts)
  <2>1. LeadOf(b, acts)[Done(acts)] \in Seat /\ Done(acts) <= Tricks
    BY <1>2, <1>4, PlayTyped
  <2>2. CASE Over(Done(acts), ClaimsOf(acts))
    BY <1>1, <1>2, <1>4, <2>1, <2>2, FoldInPlay
  <2>3. CASE ~Over(Done(acts), ClaimsOf(acts))
    <3>1. Fold(b, acts).turn \in Seat
      BY <1>4, <2>3, TurnIs
    <3> QED BY <1>1, <1>2, <1>4, <2>1, <2>3, <3>1, FoldInPlay
  <2> QED BY <2>2, <2>3
<1> QED BY <1>3, <1>4

\* What a seat holds, and whether it is in the trick, by the fold.
LEMMA HandsByFold ==
  ASSUME NEW b \in Boards, NEW acts, Sound(b, acts), NEW s \in Seat
  PROVE  LET f == Fold(b, acts)
         IN  /\ Remaining(b, f, s) = HandOf(b, acts, s)
             /\ InTrick(acts, s) <=> \E i \in DOMAIN f.trick : f.trick[i].seat = s
<1> DEFINE f == Fold(b, acts)
           n == Done(acts)
           plays == PlaysOf(acts)
<1>1. f.played = plays /\ f.trick = Trick(acts)
  BY FoldTyped
<1>2. Remaining(b, f, s) = HandOf(b, acts, s)
  BY <1>1 DEF Remaining, HandOf
<1>3. /\ n \in Nat /\ Len(plays) \in Nat
      /\ DOMAIN Trick(acts) = 1 .. Len(plays) - 4 * n
      /\ \A i \in DOMAIN Trick(acts) : Trick(acts)[i] = plays[4 * n + i]
  BY Progress DEF Sound
<1> HIDE DEF n, plays, f
<1>4. ASSUME InTrick(acts, s) PROVE \E i \in DOMAIN f.trick : f.trick[i].seat = s
  <2>1. PICK j \in 4 * n + 1 .. Len(plays) : plays[j].seat = s
    BY <1>4 DEF InTrick, n, plays
  <2>2. j - 4 * n \in 1 .. Len(plays) - 4 * n /\ 4 * n + (j - 4 * n) = j
    BY <1>3, <2>1
  <2>3. Trick(acts)[j - 4 * n] = plays[j]
    BY <1>3, <2>2
  <2> QED BY <1>1, <1>3, <2>1, <2>2, <2>3
<1>5. ASSUME NEW i \in DOMAIN f.trick, f.trick[i].seat = s PROVE InTrick(acts, s)
  <2>1. 4 * n + i \in 4 * n + 1 .. Len(plays) /\ plays[4 * n + i].seat = s
    BY <1>1, <1>3, <1>5
  <2> QED BY <2>1 DEF InTrick, n, plays
<1> QED BY <1>2, <1>4, <1>5 DEF f

\* Each property of TableGame, of a log that is sound.
LEMMA TypesOfSound ==
  ASSUME board \in Boards, Sound(board, actions)
  PROVE  TypeOK
<1>1. \A i \in DOMAIN actions : actions[i] \in Action
  BY DEF Sound
<1>2. \A i \in DOMAIN actions : /\ actions[i].type \in {"call", "play", "claim"}
                                /\ actions[i].seat \in Seat
  BY <1>1, Kinds
<1>3. LET f == Fold(board, actions)
      IN  /\ f.phase \in {"bidding", "play", "complete"}
          /\ {f.turn, f.leader} \subseteq Seat \cup {NoSeat}
          /\ f.completed \in 0 .. Tricks /\ Len(f.trick) \in 0 .. 3
  BY FoldTyped
<1> QED BY <1>2, <1>3 DEF TypeOK

LEMMA OrderOfSound ==
  ASSUME board \in Boards, Sound(board, actions)
  PROVE  LogInOrder
<1>1. /\ Len(CallsOf(actions)) \in Nat /\ Len(PlaysOf(actions)) \in Nat
      /\ Len(ClaimsOf(actions)) \in Nat
      /\ DOMAIN actions = 1 .. Len(actions) /\ Len(actions) \in Nat
  BY PlayTyped DEF Sound
<1>2. Len(ClaimsOf(actions)) <= 1
  BY DEF Sound, ClaimFits
<1>3. /\ Len(actions) = Len(CallsOf(actions)) + Len(PlaysOf(actions)) + Len(ClaimsOf(actions))
      /\ \A i \in 1 .. Len(actions) :
           actions[i].type = IF i <= Len(CallsOf(actions)) THEN "call"
                             ELSE IF i <= Len(CallsOf(actions)) + Len(PlaysOf(actions))
                                  THEN "play" ELSE "claim"
  BY DEF Sound, Ordered
<1> QED BY <1>1, <1>2, <1>3 DEF LogInOrder

LEMMA CardsOfSound ==
  ASSUME board \in Boards, Sound(board, actions)
  PROVE  CardsConserved
<1> DEFINE f == Fold(board, actions)
           held(s) == Cardinality(Remaining(board, f, s))
<1>1. f.played = PlaysOf(actions) /\ f.completed = Done(actions)
  BY FoldTyped
<1>2. DOMAIN PlaysOf(actions) = 1 .. Len(PlaysOf(actions))
  BY PlayTyped
<1>3. /\ \A i, j \in DOMAIN f.played : f.played[i].card = f.played[j].card => i = j
      /\ \A i \in DOMAIN f.played : f.played[i].card \in board.hands[f.played[i].seat]
  BY <1>1, <1>2 DEF Sound, OwnCards
<1>4. ASSUME NEW s \in Seat
      PROVE  held(s) = Tricks - f.completed
                       - (IF \E i \in DOMAIN f.trick : f.trick[i].seat = s THEN 1 ELSE 0)
  <2>1. Cardinality(HandOf(board, actions, s)) =
          Tricks - Done(actions) - (IF InTrick(actions, s) THEN 1 ELSE 0)
    BY DEF Sound, HandsShrink
  <2>2. Remaining(board, f, s) = HandOf(board, actions, s)
        /\ (InTrick(actions, s) <=> \E i \in DOMAIN f.trick : f.trick[i].seat = s)
    BY HandsByFold
  <2> HIDE DEF f
  <2> QED BY <1>1, <2>1, <2>2
<1> QED BY <1>3, <1>4 DEF CardsConserved

\* The tricks won by the two sides are the tricks played.
LEMMA WonByFold ==
  ASSUME NEW b \in Boards, NEW acts, Sound(b, acts), InPlay(b, acts)
  PROVE  /\ WonOf(b, acts)[0] \in Nat /\ WonOf(b, acts)[1] \in Nat
         /\ WonOf(b, acts)[0] + WonOf(b, acts)[1] = Done(acts)
         /\ WonOf(b, acts) \in [Side -> Nat]
<1> DEFINE n == Done(acts)
           lead == LeadOf(b, acts)
           W(s) == {k \in 1 .. n : SideOf(lead[k]) = s}
<1>1. n \in Nat
  BY Progress DEF Sound
<1>2. \A k \in 1 .. n : lead[k] \in Seat
  <2>1. \A k \in 1 .. n : k \in 0 .. n
    BY <1>1
  <2> QED BY <2>1, PlayTyped
<1>3. \A k \in 1 .. n : SideOf(lead[k]) \in {0, 1}
  BY <1>2 DEF SideOf, Seat
<1> HIDE DEF n, lead
<1>4. IsFiniteSet(1 .. n) /\ Cardinality(1 .. n) = n
  BY <1>1, FS_Interval
<1>5. W(0) \cup W(1) = 1 .. n /\ W(0) \cap W(1) = {}
  BY <1>3
<1>6. IsFiniteSet(W(0)) /\ IsFiniteSet(W(1))
  BY <1>4, FS_Subset
<1>7. Cardinality(W(0)) \in Nat /\ Cardinality(W(1)) \in Nat
  BY <1>6, FS_CardinalityType
<1>8. Cardinality(W(0)) + Cardinality(W(1)) = n
  <2>1. Cardinality(W(0) \cup W(1)) =
          Cardinality(W(0)) + Cardinality(W(1)) - Cardinality(W(0) \cap W(1))
    <3> HIDE DEF W
    <3> QED BY <1>6, FS_Union
  <2>2. Cardinality(W(0) \cap W(1)) = 0
    BY <1>5, FS_EmptySet
  <2>3. Cardinality(W(0) \cup W(1)) = n
    BY <1>4, <1>5
  <2> HIDE DEF W
  <2> QED BY <1>7, <2>1, <2>2, <2>3
<1>9. WonOf(b, acts) = [s \in Side |-> Cardinality(W(s))]
  BY DEF WonOf, n, lead
<1> HIDE DEF W
<1> QED BY <1>7, <1>8, <1>9 DEF Side, n

\* A claim settles every trick that is left, in full.
LEMMA SettledInFull ==
  ASSUME NEW won \in [Side -> Nat], NEW a \in ClaimActions, NEW left \in Nat, a.tricks <= left
  PROVE  LET settled == Settle(won, a, left)
         IN  /\ settled[0] + settled[1] = won[0] + won[1] + left
             /\ settled[SideOf(a.seat)] >= a.tricks
<1>1. a.tricks \in Nat /\ a.seat \in Seat
  BY DEF ClaimActions, ClaimAction
<1>2. SideOf(a.seat) \in Side
  BY <1>1 DEF SideOf, Seat, Side
<1>3. won[0] \in Nat /\ won[1] \in Nat /\ won[SideOf(a.seat)] \in Nat
  BY <1>2 DEF Side
<1>4. \A s \in Side :
        Settle(won, a, left)[s] = won[s] + IF s = SideOf(a.seat) THEN a.tricks ELSE left - a.tricks
  BY DEF Settle
<1>5. CASE SideOf(a.seat) = 0
  BY <1>1, <1>3, <1>4, <1>5 DEF Side
<1>6. CASE SideOf(a.seat) = 1
  BY <1>1, <1>3, <1>4, <1>6 DEF Side
<1> QED BY <1>2, <1>5, <1>6 DEF Side

\* The claim of a sound log, by the fold.
LEMMA ClaimByFold ==
  ASSUME NEW b \in Boards, NEW acts, Sound(b, acts), ClaimsOf(acts) # <<>>
  PROVE  /\ InPlay(b, acts)
         /\ Last(ClaimsOf(acts)) = acts[Len(acts)]
         /\ acts[Len(acts)] \in ClaimActions
         /\ Tricks - Done(acts) \in Nat
         /\ acts[Len(acts)].tricks <= Tricks - Done(acts)
<1>1. InPlay(b, acts)
  BY NothingYet
<1>2. ClaimsOf(acts) \in Seq(ClaimActions)
  BY PlayTyped
<1>3. Len(ClaimsOf(acts)) = 1
  <2> DEFINE m == Len(ClaimsOf(acts))
  <2>1. Len(ClaimsOf(acts)) \in Nat /\ Len(ClaimsOf(acts)) # 0
    BY <1>2, EmptySeq
  <2>2. Len(ClaimsOf(acts)) <= 1
    BY DEF Sound, ClaimFits
  <2>3. m \in Nat /\ m # 0 /\ m <= 1
    BY <2>1, <2>2
  <2> HIDE DEF m
  <2>4. m = 1
    BY <2>3
  <2> QED BY <2>4 DEF m
<1>4. Last(ClaimsOf(acts)) = acts[Len(acts)] /\ acts[Len(acts)] \in ClaimActions
  BY <1>2, <1>3 DEF Last, Sound, ClaimFits
<1>5. Tricks \in Nat /\ Done(acts) \in Nat
  BY TableAssumption, Progress DEF Sound
<1>6. Done(acts) < Tricks /\ acts[Len(acts)].tricks <= Tricks - Done(acts)
  BY DEF Sound, ClaimFits
<1> QED BY <1>1, <1>4, <1>5, <1>6

LEMMA TricksOfSound ==
  ASSUME board \in Boards, Sound(board, actions)
  PROVE  TricksAccounted
<1> DEFINE f == Fold(board, actions)
           n == Done(actions)
           won == WonOf(board, actions)
<1>1. CASE ~InPlay(board, actions)
  BY <1>1, NothingYet DEF TricksAccounted
<1>2. CASE InPlay(board, actions)
  <2>1. /\ f.phase = IF Over(n, ClaimsOf(actions)) THEN "complete" ELSE "play"
        /\ f.completed = n
        /\ f.won = IF ClaimsOf(actions) = <<>> THEN won
                   ELSE Settle(won, Last(ClaimsOf(actions)), Tricks - n)
    BY <1>2, FoldInPlay
  <2>2. won[0] \in Nat /\ won[1] \in Nat /\ won[0] + won[1] = n /\ won \in [Side -> Nat]
    BY <1>2, WonByFold
  <2>3. n \in Nat /\ Tricks \in Nat
    BY TableAssumption, Progress DEF Sound
  <2> HIDE DEF f, n, won
  <2>4. CASE ClaimsOf(actions) = <<>>
    BY <2>1, <2>2, <2>3, <2>4 DEF TricksAccounted, Over, f
  <2>5. CASE ClaimsOf(actions) # <<>>
    <3>1. /\ Last(ClaimsOf(actions)) \in ClaimActions /\ Tricks - n \in Nat
          /\ Last(ClaimsOf(actions)).tricks <= Tricks - n
      BY <2>5, ClaimByFold DEF n
    <3>2. f.won[0] + f.won[1] = won[0] + won[1] + (Tricks - n)
      BY <2>1, <2>2, <2>5, <3>1, SettledInFull
    <3>3. f.phase = "complete" /\ f.won[0] + f.won[1] = Tricks
      BY <2>1, <2>2, <2>3, <2>5, <3>2 DEF Over
    <3> QED BY <3>3 DEF TricksAccounted, f
  <2> QED BY <2>4, <2>5
<1> QED BY <1>1, <1>2

LEMMA NeverStuckIfSound ==
  ASSUME board \in Boards, Sound(board, actions)
  PROVE  NeverStuck
<1> DEFINE f == Fold(board, actions)
<1>1. f.phase = "complete" <=> f.turn = NoSeat
  BY FoldTyped
<1>2. ASSUME f.phase = "play" PROVE Legal(board, f, f.turn) # {}
  <2>1. InPlay(board, actions) /\ ~Over(Done(actions), ClaimsOf(actions))
    BY <1>2, Phases
  <2>2. f.turn \in Seat /\ ~InTrick(actions, f.turn)
    BY <2>1, TurnIs
  <2> HIDE DEF f
  <2>3. Tricks \in Nat /\ Done(actions) \in Nat /\ Done(actions) < Tricks
    <3>1. Tricks \in Nat /\ Done(actions) \in Nat
      BY TableAssumption, Progress DEF Sound
    <3>2. Done(actions) <= Tricks /\ Done(actions) # Tricks
      BY <2>1, PlayTyped DEF Over
    <3> QED BY <3>1, <3>2
  <2>4. Cardinality(HandOf(board, actions, f.turn)) = Tricks - Done(actions)
    BY <2>2, <2>3 DEF Sound, HandsShrink
  <2>5. HandOf(board, actions, f.turn) # {}
    BY <2>3, <2>4, FS_EmptySet
  <2>6. Remaining(board, f, f.turn) = HandOf(board, actions, f.turn)
    BY <2>2, HandsByFold DEF f
  <2> QED BY <2>5, <2>6 DEF Legal, LegalCards
<1>3. ASSUME f.phase = "bidding" PROVE Admits(board, actions, CallAction(f.turn, Pass))
  <2>1. ~IsComplete(CallsOf(actions))
    BY <1>3, Phases
  <2>2. f.calls = CallsOf(actions)
    BY <2>1, FoldInAuction DEF NoPlay
  <2>3. IsLegal(f.calls, Pass)
    BY <2>1, <2>2 DEF IsLegal, IsPass, Pass
  <2> QED BY <1>3, <2>3 DEF Admits, CallAction
<1> QED BY <1>1, <1>2, <1>3 DEF NeverStuck

-----------------------------------------------------------------------------
(* The theorems. *)

\* The phase, the seat on turn and the tricks of the table are of their
\* types, and every action of the log is a call, a card or a claim of a
\* seat (table.rs, fold).
THEOREM TypeCorrect == Spec => []TypeOK
<1>1. Inv => TypeOK
  BY SoundNow, TypesOfSound DEF Inv
<1> QED BY InvAlways, <1>1, PTL

\* Whatever is made and undone, a log holds its calls before its plays and
\* a claim only at its end (table.rs, apply and undo_to).
THEOREM LogStaysInOrder == Spec => []LogInOrder
<1>1. Inv => LogInOrder
  BY SoundNow, OrderOfSound DEF Inv
<1> QED BY InvAlways, <1>1, PTL

\* No card is played twice, or by a seat it was not dealt to, and the hands
\* shrink together (table.rs, remaining and fold).
THEOREM CardsStayConserved == Spec => []CardsConserved
<1>1. Inv => CardsConserved
  BY SoundNow, CardsOfSound DEF Inv
<1> QED BY InvAlways, <1>1, PTL

\* The tricks of the two sides add up to those played, or to all of them at
\* the end, also when a claim shares out the rest (table.rs, fold).
THEOREM TricksAddUp == Spec => []TricksAccounted
<1>1. Inv => TricksAccounted
  BY SoundNow, TricksOfSound DEF Inv
<1> QED BY InvAlways, <1>1, PTL

\* A game in progress has a seat on turn with something legal to do
\* (table.rs, apply and fold).
THEOREM TableNeverStuck == Spec => []NeverStuck
<1>1. Inv => NeverStuck
  BY SoundNow, NeverStuckIfSound DEF Inv
<1> QED BY InvAlways, <1>1, PTL

-----------------------------------------------------------------------------
(* The auction, by its last bid and its last call that is not a pass. *)

\* The last bid, and the last call that is not a pass, are what they say.
LastIs(calls, last, Is(_)) ==
  /\ last \in 0 .. Len(calls)
  /\ last # 0 => Is(calls[last])
  /\ \A i \in 1 .. Len(calls) : i > last => ~Is(calls[i])

IsAction(c) == ~IsPass(c)

\* The code's two searches from the end find them.
LEMMA LastBidIs ==
  ASSUME NEW calls \in Seq(AllCalls)
  PROVE  /\ LastIs(calls, LastBid(calls), IsBid)
         /\ \A m : LastIs(calls, m, IsBid) => m = LastBid(calls)
<1> DEFINE I == {i \in 1 .. Len(calls) : IsBid(calls[i])}
           bid == LastBid(calls)
<1>1. Len(calls) \in Nat /\ I \in SUBSET (1 .. Len(calls))
  OBVIOUS
<1>2. bid = IF I # {} THEN Max(I) ELSE 0
  BY DEF LastBid, SelectLastInSeq
<1> HIDE DEF bid
<1>3. ASSUME I # {} PROVE bid \in I /\ \A i \in I : i <= bid
  <2>1. bid = Max(I)
    BY <1>2, <1>3
  <2> HIDE DEF I
  <2> QED BY <1>1, <1>3, <2>1, Extremes
<1>4. LastIs(calls, bid, IsBid)
  <2>1. CASE I = {}
    BY <1>1, <1>2, <2>1 DEF LastIs
  <2>2. CASE I # {}
    BY <1>1, <1>3, <2>2 DEF LastIs
  <2> QED BY <2>1, <2>2
<1>5. ASSUME NEW m, LastIs(calls, m, IsBid) PROVE m = bid
  BY <1>1, <1>4, <1>5 DEF LastIs
<1> QED BY <1>4, <1>5 DEF bid

\* The same of the last call that is not a pass.
LEMMA LastActionIs ==
  ASSUME NEW calls \in Seq(AllCalls)
  PROVE  /\ LastIs(calls, LastAction(calls), IsAction)
         /\ \A m : LastIs(calls, m, IsAction) => m = LastAction(calls)
<1> DEFINE I == {i \in 1 .. Len(calls) : IsAction(calls[i])}
           last == LastAction(calls)
<1>1. Len(calls) \in Nat /\ I \in SUBSET (1 .. Len(calls))
  OBVIOUS
<1>2. last = IF I # {} THEN Max(I) ELSE 0
  BY DEF LastAction, SelectLastInSeq, IsAction
<1> HIDE DEF last
<1>3. ASSUME I # {} PROVE last \in I /\ \A i \in I : i <= last
  <2>1. last = Max(I)
    BY <1>2, <1>3
  <2> HIDE DEF I
  <2> QED BY <1>1, <1>3, <2>1, Extremes
<1>4. LastIs(calls, last, IsAction)
  <2>1. CASE I = {}
    BY <1>1, <1>2, <2>1 DEF LastIs
  <2>2. CASE I # {}
    BY <1>1, <1>3, <2>2 DEF LastIs
  <2> QED BY <2>1, <2>2
<1>5. ASSUME NEW m, LastIs(calls, m, IsAction) PROVE m = last
  BY <1>1, <1>4, <1>5 DEF LastIs
<1> QED BY <1>4, <1>5 DEF last

\* What one more call makes them.
LEMMA LastAppend ==
  ASSUME NEW calls \in Seq(AllCalls), NEW c \in AllCalls
  PROVE  LET more == Append(calls, c)
         IN  /\ LastBid(more) = IF IsBid(c) THEN Len(calls) + 1 ELSE LastBid(calls)
             /\ LastAction(more) = IF IsPass(c) THEN LastAction(calls) ELSE Len(calls) + 1
<1> DEFINE more == Append(calls, c)
<1>1. /\ more \in Seq(AllCalls) /\ Len(more) = Len(calls) + 1 /\ Len(calls) \in Nat
      /\ more[Len(calls) + 1] = c
      /\ \A i \in 1 .. Len(calls) : more[i] = calls[i]
  BY AppendProperties
<1> HIDE DEF more
<1>2. LastIs(more, IF IsBid(c) THEN Len(calls) + 1 ELSE LastBid(calls), IsBid)
  BY <1>1, LastBidIs DEF LastIs
<1>3. LastIs(more, IF IsPass(c) THEN LastAction(calls) ELSE Len(calls) + 1, IsAction)
  BY <1>1, LastActionIs DEF LastIs, IsAction
<1> QED BY <1>1, <1>2, <1>3, LastBidIs, LastActionIs DEF more

\* An auction is over once three passes follow its fourth call or a later.
LEMMA CompleteIs ==
  ASSUME NEW calls \in Seq(AllCalls)
  PROVE  IsComplete(calls) <=> Len(calls) >= 4 /\ Len(calls) - LastAction(calls) >= 3
<1>1. LastIs(calls, LastAction(calls), IsAction) /\ Len(calls) \in Nat
  BY LastActionIs
<1> QED BY <1>1 DEF LastIs, IsAction, IsComplete

\* A double is of a bid of the other side, and is the only call made of it.
DoubleStands(calls) ==
  LET last == LastAction(calls)
      bid  == LastBid(calls)
  IN  IsDouble(calls[last]) =>
        /\ IsOpponent(bid, last)
        /\ {i \in bid + 1 .. Len(calls) : ~IsPass(calls[i])} = {last}

\* What legality makes of an auction.
AuctionOK(calls) == LastAction(calls) # 0 => LastBid(calls) # 0 /\ DoubleStands(calls)

\* Calls are told apart by their kinds.
LEMMA CallKinds ==
  ASSUME NEW c \in AllCalls
  PROVE  /\ c.kind \in {"pass", "bid", "double", "redouble"}
         /\ IsBid(c) => c.level \in 1 .. 7 /\ c.strain \in Strain
BY DEF AllCalls, AllBids, Pass, Double, Redouble, Bid, IsBid

\* The calls after the last bid that are not passes.
Since(calls) == {i \in LastBid(calls) + 1 .. Len(calls) : ~IsPass(calls[i])}

\* What a further call makes of them.
LEMMA SinceAppend ==
  ASSUME NEW calls \in Seq(AllCalls), NEW c \in AllCalls
  PROVE  Since(Append(calls, c)) = IF IsBid(c) THEN {}
                                   ELSE IF IsPass(c) THEN Since(calls)
                                   ELSE Since(calls) \cup {Len(calls) + 1}
<1> DEFINE more == Append(calls, c)
           n == Len(calls)
<1>1. /\ more \in Seq(AllCalls) /\ Len(more) = n + 1 /\ n \in Nat
      /\ more[n + 1] = c
      /\ \A i \in 1 .. n : more[i] = calls[i]
  BY AppendProperties
<1>2. LastBid(more) = IF IsBid(c) THEN n + 1 ELSE LastBid(calls)
  BY LastAppend
<1>3. LastBid(calls) \in 0 .. n
  BY LastBidIs DEF LastIs
<1> HIDE DEF more, n
<1>4. CASE IsBid(c)
  <2>1. LastBid(more) + 1 .. Len(more) = {}
    BY <1>1, <1>2, <1>4
  <2> QED BY <1>4, <2>1 DEF Since, more
<1>5. CASE ~IsBid(c)
  <2>1. \A i : i \in LastBid(more) + 1 .. Len(more)
                 <=> i \in LastBid(calls) + 1 .. n \/ i = n + 1
    BY <1>1, <1>2, <1>3, <1>5
  <2>2. \A i \in LastBid(calls) + 1 .. n : more[i] = calls[i] /\ i # n + 1
    BY <1>1, <1>3
  <2>3. CASE IsPass(c)
    BY <1>1, <1>5, <2>1, <2>2, <2>3 DEF Since, more, n
  <2>4. CASE ~IsPass(c)
    BY <1>1, <1>5, <2>1, <2>2, <2>4 DEF Since, more, n
  <2> QED BY <2>3, <2>4
<1> QED BY <1>4, <1>5

\* A legal call keeps an auction legal.
LEMMA LegalKeeps ==
  ASSUME NEW calls \in Seq(AllCalls), NEW c \in AllCalls,
         AuctionOK(calls), IsLegal(calls, c)
  PROVE  AuctionOK(Append(calls, c))
<1> DEFINE more == Append(calls, c)
           n == Len(calls)
           last == LastAction(calls)
           bid == LastBid(calls)
<1>1. /\ Len(more) = n + 1 /\ n \in Nat /\ more[n + 1] = c
      /\ \A i \in 1 .. n : more[i] = calls[i]
  BY AppendProperties
<1>2. /\ LastBid(more) = IF IsBid(c) THEN n + 1 ELSE bid
      /\ LastAction(more) = IF IsPass(c) THEN last ELSE n + 1
  BY LastAppend
<1>3. /\ LastIs(calls, last, IsAction) /\ LastIs(calls, bid, IsBid)
      /\ Since(more) = IF IsBid(c) THEN {}
                       ELSE IF IsPass(c) THEN Since(calls) ELSE Since(calls) \cup {n + 1}
  BY LastActionIs, LastBidIs, SinceAppend
<1> HIDE DEF more, n, last, bid
<1>4. CASE IsPass(c)
  <2> SUFFICES ASSUME last # 0 PROVE LastBid(more) # 0 /\ DoubleStands(more)
    BY <1>2, <1>4 DEF AuctionOK, more
  <2>1. ~IsBid(c) /\ bid # 0 /\ DoubleStands(calls) /\ last \in 1 .. n
    BY <1>3, <1>4 DEF AuctionOK, LastIs, IsPass, IsBid, last, bid, n
  <2>2. LastBid(more) = bid /\ LastAction(more) = last /\ Since(more) = Since(calls)
        /\ more[last] = calls[last]
    BY <1>1, <1>2, <1>3, <1>4, <2>1
  <2>3. DoubleStands(more)
    BY <2>1, <2>2 DEF DoubleStands, Since, last, bid
  <2> QED BY <2>1, <2>2, <2>3
<1>5. CASE IsBid(c)
  <2>1. ~IsPass(c) /\ ~IsDouble(c)
    BY <1>5 DEF IsPass, IsBid, IsDouble
  <2>2. LastAction(more) = n + 1 /\ LastBid(more) = n + 1
    BY <1>2, <1>5, <2>1
  <2> QED BY <1>1, <2>1, <2>2 DEF AuctionOK, DoubleStands, more
<1>6. CASE IsDouble(c)
  <2>1. ~IsPass(c) /\ ~IsBid(c) /\ ~IsRedouble(c)
    BY <1>6 DEF IsPass, IsBid, IsDouble, IsRedouble
  <2>2. LastAction(more) = n + 1 /\ LastBid(more) = bid
    BY <1>2, <2>1
  <2>3. last # 0 /\ IsBid(calls[last]) /\ IsOpponent(n + 1, last)
    BY <1>6, <2>1 DEF IsLegal, last, n
  <2>4. bid = last
    BY <1>1, <1>3, <2>3 DEF LastIs, IsAction, IsPass, IsBid, n
  <2>5. Since(calls) = {}
    BY <1>3, <2>4 DEF LastIs, Since, IsAction, bid
  <2>6. Since(more) = {n + 1}
    BY <1>3, <2>1, <2>5
  <2>7. IsOpponent(bid, n + 1)
    BY <2>3, <2>4 DEF IsOpponent
  <2> QED BY <2>2, <2>3, <2>4, <2>6, <2>7 DEF AuctionOK, DoubleStands, Since, more
<1>7. CASE IsRedouble(c)
  <2>1. ~IsPass(c) /\ ~IsBid(c) /\ ~IsDouble(c)
    BY <1>7 DEF IsPass, IsBid, IsDouble, IsRedouble
  <2>2. LastAction(more) = n + 1 /\ LastBid(more) = bid
    BY <1>2, <2>1
  <2>3. last # 0
    BY <1>7, <2>1 DEF IsLegal, IsRedouble, IsDouble, last
  <2>4. bid # 0
    BY <2>3 DEF AuctionOK, last, bid
  <2> QED BY <1>1, <2>1, <2>2, <2>4 DEF AuctionOK, DoubleStands, more
<1> QED BY <1>4, <1>5, <1>6, <1>7, CallKinds DEF IsPass, IsBid, IsDouble, IsRedouble

\* The seats that named strain x[2] for side x[1].
NamedFor(b, calls, x) ==
  {i \in DOMAIN calls : /\ IsBid(calls[i])
                        /\ calls[i].strain = x[2]
                        /\ SideOf(CallerAt(b.dealer, i)) = x[1]}

\* Callers are seats, and their sides alternate.
LEMMA Callers ==
  ASSUME NEW dealer \in Seat, NEW i \in Nat \ {0}
  PROVE  /\ CallerAt(dealer, i) \in Seat
         /\ SideOf(CallerAt(dealer, i)) = (dealer + i + 1) % 2
         /\ SideOf(CallerAt(dealer, i)) \in Side
         /\ NextSeat(CallerAt(dealer, i)) = CallerAt(dealer, i + 1)
<1>1. dealer \in 0 .. 3 /\ i \in Nat
  BY DEF Seat
<1>2. CallerAt(dealer, i) = (dealer + (i - 1)) % 4
  BY DEF CallerAt, SeatAfter
<1>3. SideOf(CallerAt(dealer, i)) = (dealer + i + 1) % 2
  BY <1>1, <1>2 DEF SideOf
<1>4. CallerAt(dealer, i) \in Seat
  BY <1>1, <1>2 DEF Seat
<1>5. NextSeat(CallerAt(dealer, i)) = CallerAt(dealer, i + 1)
  BY <1>1, <1>2 DEF CallerAt, NextSeat, SeatAfter
<1> QED BY <1>1, <1>3, <1>4, <1>5 DEF Side

\* Calls an odd number of places apart are of opponents.
LEMMA Opponents ==
  ASSUME NEW dealer \in Seat, NEW i \in Nat \ {0}, NEW j \in Nat \ {0}
  PROVE  IsOpponent(i, j) <=> SideOf(CallerAt(dealer, i)) # SideOf(CallerAt(dealer, j))
<1>1. dealer \in Nat
  BY DEF Seat
<1>2. (dealer + i + 1) % 2 = (dealer + j + 1) % 2 <=> i % 2 = j % 2
  BY <1>1
<1>3. /\ SideOf(CallerAt(dealer, i)) = (dealer + i + 1) % 2
      /\ SideOf(CallerAt(dealer, j)) = (dealer + j + 1) % 2
  BY Callers
<1>4. IsOpponent(i, j) <=> i % 2 # j % 2
  BY DEF IsOpponent
<1> QED BY <1>2, <1>3, <1>4

\* The first to name each strain, once a seat has made a bid.
NamedBy(first, seat, bid) ==
  [first EXCEPT ![<<SideOf(seat), bid.strain>>] = IF @ = NoSeat THEN seat ELSE @]

\* Who first named a strain, after a further call.
LEMMA NamedAppend ==
  ASSUME NEW b, b.dealer \in Seat, NEW calls \in Seq(AllCalls), NEW c \in AllCalls
  PROVE  LET more == Append(calls, c)
             seat == CallerAt(b.dealer, Len(calls) + 1)
         IN  /\ FirstNamed(b, calls) \in [Side \X Strain -> Seat \cup {NoSeat}]
             /\ ~IsBid(c) => FirstNamed(b, more) = FirstNamed(b, calls)
             /\ IsBid(c) => FirstNamed(b, more) = NamedBy(FirstNamed(b, calls), seat, c)
<1> DEFINE more == Append(calls, c)
           n == Len(calls)
           seat == CallerAt(b.dealer, n + 1)
           was(y) == NamedFor(b, calls, y)
           is(y) == NamedFor(b, more, y)
           first(I) == IF I = {} THEN NoSeat ELSE CallerAt(b.dealer, Min(I))
<1>1. /\ more \in Seq(AllCalls) /\ Len(more) = n + 1 /\ n \in Nat
      /\ more[n + 1] = c
      /\ \A i \in 1 .. n : more[i] = calls[i]
  BY AppendProperties
<1>2. DOMAIN more = 1 .. n + 1 /\ DOMAIN calls = 1 .. n
  BY <1>1
<1>3. \A i : i \in 1 .. n + 1 <=> i \in 1 .. n \/ i = n + 1
  BY <1>1
<1>4. FirstNamed(b, calls) = [y \in Side \X Strain |-> first(was(y))]
  BY DEF FirstNamed, NamedFor
<1>5. FirstNamed(b, more) = [y \in Side \X Strain |-> first(is(y))]
  BY DEF FirstNamed, NamedFor
<1> HIDE DEF more
<1>6. ASSUME NEW y
      PROVE  is(y) = IF IsBid(c) /\ c.strain = y[2] /\ SideOf(seat) = y[1]
                     THEN was(y) \cup {n + 1} ELSE was(y)
  BY <1>1, <1>2, <1>3 DEF NamedFor
<1>7. ASSUME NEW y
      PROVE  was(y) \in SUBSET (1 .. n)
  BY <1>2 DEF NamedFor
<1> HIDE DEF was, is
<1>8. ASSUME NEW y, was(y) # {} PROVE Min(was(y)) \in was(y) /\ Min(was(y)) \in 1 .. n
  BY <1>1, <1>7, <1>8, Extremes
<1>9. ASSUME NEW y
      PROVE  first(was(y)) \in Seat \cup {NoSeat} /\ (was(y) # {} => first(was(y)) \in Seat)
  BY <1>8, Callers
<1>10. ASSUME NEW y
       PROVE  Min(was(y) \cup {n + 1}) = IF was(y) = {} THEN n + 1 ELSE Min(was(y))
  <2> DEFINE I == was(y)
             J == I \cup {n + 1}
  <2>1. I \in SUBSET (1 .. n) /\ J \in SUBSET (1 .. n + 1) /\ J # {} /\ n + 1 \in Nat
    BY <1>1, <1>3, <1>7
  <2> HIDE DEF I
  <2>2. Min(J) \in J /\ \A i \in J : Min(J) <= i
    <3> HIDE DEF J
    <3> QED BY <2>1, Extremes
  <2>3. I # {} => Min(I) \in I /\ \A i \in I : Min(I) <= i
    BY <1>1, <2>1, Extremes
  <2>4. CASE I = {}
    BY <2>2, <2>4 DEF I
  <2>5. CASE I # {}
    <3>1. Min(I) \in 1 .. n /\ Min(I) \in J /\ Min(J) <= Min(I)
      BY <2>1, <2>2, <2>3, <2>5
    <3>2. Min(J) \in I
      BY <1>1, <2>1, <2>2, <3>1
    <3>3. Min(I) <= Min(J) /\ Min(J) \in 1 .. n
      BY <2>1, <2>3, <3>2
    <3> QED BY <2>5, <3>1, <3>3 DEF I
  <2> QED BY <2>4, <2>5
<1> HIDE DEF seat
<1>11. ASSUME ~IsBid(c) PROVE FirstNamed(b, more) = FirstNamed(b, calls)
  BY <1>4, <1>5, <1>6, <1>11
<1>12. ASSUME IsBid(c)
       PROVE  FirstNamed(b, more) = NamedBy(FirstNamed(b, calls), seat, c)
  <2> DEFINE x == <<SideOf(seat), c.strain>>
             next == [FirstNamed(b, calls) EXCEPT ![x] = IF @ = NoSeat THEN seat ELSE @]
  <2>1. ASSUME NEW y \in Side \X Strain PROVE first(is(y)) = next[y]
    <3>1. CASE y # x
      <4>1. ~(c.strain = y[2] /\ SideOf(seat) = y[1])
        BY <3>1
      <4>2. is(y) = was(y)
        BY <1>6, <4>1
      <4> QED BY <1>4, <3>1, <4>2
    <3>2. CASE y = x
      <4>1. is(y) = was(y) \cup {n + 1}
        BY <1>6, <1>12, <3>2
      <4>2. first(is(y)) = CallerAt(b.dealer, IF was(y) = {} THEN n + 1 ELSE Min(was(y)))
        BY <1>10, <4>1
      <4>3. next[y] = IF first(was(y)) = NoSeat THEN seat ELSE first(was(y))
        BY <1>4, <3>2
      <4>4. CASE was(y) = {}
        BY <4>2, <4>3, <4>4 DEF seat
      <4>5. CASE was(y) # {}
        <5>1. first(was(y)) \in Seat /\ first(was(y)) # NoSeat
          BY <1>9, <4>5 DEF Seat, NoSeat
        <5> HIDE DEF next
        <5> QED BY <4>2, <4>3, <4>5, <5>1
      <4> QED BY <4>4, <4>5
    <3> QED BY <3>1, <3>2
  <2>2. next = [y \in Side \X Strain |-> next[y]]
    BY <1>4
  <2> HIDE DEF next
  <2>3. FirstNamed(b, more) = next
    BY <1>5, <2>1, <2>2
  <2> QED BY <2>3 DEF next, NamedBy
<1>13. FirstNamed(b, calls) \in [Side \X Strain -> Seat \cup {NoSeat}]
  BY <1>4, <1>9
<1> QED BY <1>11, <1>12, <1>13 DEF more, seat

-----------------------------------------------------------------------------
(* The position of a sound log. *)

\* The high bid of an auction, and the side that made it.
High(calls) ==
  LET bid == LastBid(calls)
  IN  IF bid = 0 THEN [level |-> 0, strain |-> 0]
      ELSE [level |-> calls[bid].level, strain |-> calls[bid].strain]

HighSide(b, calls) ==
  LET bid == LastBid(calls)
  IN  IF bid = 0 THEN NoSeat ELSE SideOf(CallerAt(b.dealer, bid))

\* A position, by the auction and by what the play has come to.
Where(b, calls, phase, turn, hands, leader, trick, won) ==
  [phase    |-> phase,
   turn     |-> turn,
   high     |-> High(calls),
   highSide |-> HighSide(b, calls),
   doubled  |-> DoubledTimes(calls),
   passes   |-> Len(calls) - LastAction(calls),
   named    |-> FirstNamed(b, calls),
   hands    |-> hands,
   leader   |-> leader,
   trick    |-> trick,
   won      |-> won]

\* The position a log stands for.
Position(b, acts) == PositionOf(b, Fold(b, acts))

\* A position is the record of its fields, so is what its fields are.
Fields == {"phase", "turn", "high", "highSide", "doubled", "passes", "named", "hands",
           "leader", "trick", "won"}
IsPosition(p) == DOMAIN p = Fields /\ p = [x \in Fields |-> p[x]]

\* A position put together from its fields has them.
LEMMA WhereIsPosition ==
  ASSUME NEW b, NEW calls, NEW phase, NEW turn, NEW hands, NEW leader, NEW trick, NEW won
  PROVE  LET p == Where(b, calls, phase, turn, hands, leader, trick, won)
         IN  /\ IsPosition(p)
             /\ p.phase = phase /\ p.turn = turn /\ p.hands = hands
             /\ p.leader = leader /\ p.trick = trick /\ p.won = won
             /\ p.high = High(calls) /\ p.highSide = HighSide(b, calls)
             /\ p.doubled = DoubledTimes(calls)
             /\ p.passes = Len(calls) - LastAction(calls)
             /\ p.named = FirstNamed(b, calls)
BY DEF Where, IsPosition, Fields

\* The position behind a fold, put together so.
LEMMA PositionIs ==
  ASSUME NEW b, NEW f
  PROVE  PositionOf(b, f) = Where(b, f.calls, f.phase, f.turn,
                                  [s \in Seat |-> Remaining(b, f, s)], f.leader,
                                  [i \in DOMAIN f.trick |-> f.trick[i].card], f.won)
BY DEF PositionOf, Where, High, HighSide

\* The position before the first card.
LEMMA PositionUnplayed ==
  ASSUME NEW b \in Boards, NEW acts, Sound(b, acts),
         PlaysOf(acts) = <<>>, ClaimsOf(acts) = <<>>
  PROVE  LET calls == CallsOf(acts)
             none  == [s \in Side |-> 0]
             lead  == OpeningLeader(TheContract(b, acts))
         IN  /\ ~IsComplete(calls) =>
                  Position(b, acts) = Where(b, calls, "bidding", NextCaller(b.dealer, calls),
                                            b.hands, NoSeat, <<>>, none)
             /\ IsComplete(calls) /\ TheContract(b, acts) = NoContract =>
                  Position(b, acts) = Where(b, calls, "complete", NoSeat,
                                            b.hands, NoSeat, <<>>, none)
             /\ InPlay(b, acts) =>
                  Position(b, acts) = Where(b, calls, "play", lead,
                                            b.hands, lead, <<>>, none)
<1> DEFINE f == Fold(b, acts)
           none == [s \in Side |-> 0]
           lead == OpeningLeader(TheContract(b, acts))
<1>1. /\ f.played = <<>> /\ f.trick = <<>> /\ Done(acts) = 0
  <2>1. Len(PlaysOf(acts)) = 0 /\ Done(acts) = 0
    BY EmptySeq, NoneHeldBack
  <2>2. Trick(acts) = <<>>
    BY <2>1, Progress DEF Sound
  <2> QED BY <2>1, <2>2, FoldTyped
<1>2. [s \in Seat |-> Remaining(b, f, s)] = b.hands
  <2>1. b.hands \in [Seat -> SUBSET Card]
    BY TableAssumption
  <2>2. \A s \in Seat : Remaining(b, f, s) = b.hands[s]
    BY <1>1 DEF Remaining
  <2> QED BY <2>1, <2>2
<1>3. [i \in DOMAIN f.trick |-> f.trick[i].card] = <<>>
  BY <1>1
<1>4. Position(b, acts) = Where(b, f.calls, f.phase, f.turn, b.hands, f.leader, <<>>, f.won)
  BY <1>2, <1>3, PositionIs DEF Position
<1>5. ASSUME ~IsComplete(CallsOf(acts))
      PROVE  Position(b, acts) = Where(b, CallsOf(acts), "bidding",
               NextCaller(b.dealer, CallsOf(acts)), b.hands, NoSeat, <<>>, none)
  <2>1. /\ f.calls = CallsOf(acts) /\ f.phase = "bidding" /\ f.leader = NoSeat
        /\ f.turn = NextCaller(b.dealer, CallsOf(acts)) /\ f.won = none
    BY <1>5, FoldInAuction DEF NoPlay
  <2> HIDE DEF f
  <2> QED BY <1>4, <2>1
<1>6. ASSUME IsComplete(CallsOf(acts)), TheContract(b, acts) = NoContract
      PROVE  Position(b, acts) = Where(b, CallsOf(acts), "complete", NoSeat,
                                       b.hands, NoSeat, <<>>, none)
  <2>1. /\ f.calls = CallsOf(acts) /\ f.phase = "complete" /\ f.leader = NoSeat
        /\ f.turn = NoSeat /\ f.won = none
    BY <1>6, FoldPassedOut DEF NoPlay
  <2> HIDE DEF f
  <2> QED BY <1>4, <2>1
<1>7. ASSUME InPlay(b, acts)
      PROVE  Position(b, acts) = Where(b, CallsOf(acts), "play", lead, b.hands, lead, <<>>, none)
  <2>1. ~Over(Done(acts), ClaimsOf(acts))
    BY <1>1, TableAssumption DEF Over
  <2>2. LeadOf(b, acts)[0] = lead
    BY <1>7, PlayTyped, LeadersAre DEF LeadOf
  <2>3. /\ f.calls = CallsOf(acts) /\ f.phase = "play" /\ f.leader = lead /\ f.turn = lead
        /\ f.won = WonOf(b, acts)
    <3>1. Trick(acts) = <<>>
      BY <1>1, FoldTyped
    <3> QED BY <1>1, <1>7, <2>1, <2>2, <3>1, FoldInPlay
  <2>4. WonOf(b, acts) = none
    <3>1. WonOf(b, acts) \in [Side -> Nat]
      BY <1>7, WonByFold
    <3>2. WonOf(b, acts)[0] = 0 /\ WonOf(b, acts)[1] = 0
      BY <1>1, <1>7, WonByFold
    <3> QED BY <3>1, <3>2 DEF Side
  <2> HIDE DEF f
  <2> QED BY <1>4, <2>3, <2>4
<1> QED BY <1>5, <1>6, <1>7

-----------------------------------------------------------------------------
(* The calls are moves of the game. *)

\* The game has the seats and the sides of the table.
LEMMA SameSeats ==
  /\ \A s : Game!NextSeat(s) = NextSeat(s) /\ Game!SideOf(s) = SideOf(s)
  /\ \A s, k : Game!SeatAfter(s, k) = SeatAfter(s, k)
  /\ Game!NoSeat = NoSeat /\ Game!Seat = Seat /\ Game!Side = Side /\ Game!Strain = Strain
BY DEF Game!NextSeat, NextSeat, Game!SideOf, SideOf, Game!SeatAfter, SeatAfter, Game!NoSeat, NoSeat,
       Game!Seat, Seat, Game!Side, Side, Game!Strain, Strain

\* The auction after a pass.
LEMMA AfterPass ==
  ASSUME NEW b, b.dealer \in Seat, NEW calls \in Seq(AllCalls), NEW c \in AllCalls, IsPass(c)
  PROVE  LET more == Append(calls, c)
         IN  /\ High(more) = High(calls) /\ HighSide(b, more) = HighSide(b, calls)
             /\ DoubledTimes(more) = DoubledTimes(calls)
             /\ Len(more) - LastAction(more) = Len(calls) - LastAction(calls) + 1
             /\ FirstNamed(b, more) = FirstNamed(b, calls)
             /\ LastBid(more) = LastBid(calls) /\ LastAction(more) = LastAction(calls)
             /\ Len(more) = Len(calls) + 1
<1> DEFINE more == Append(calls, c)
<1>1. ~IsBid(c)
  BY DEF IsPass, IsBid
<1>2. /\ Len(more) = Len(calls) + 1 /\ Len(calls) \in Nat
      /\ \A i \in 1 .. Len(calls) : more[i] = calls[i]
  BY AppendProperties
<1>3. LastBid(more) = LastBid(calls) /\ LastAction(more) = LastAction(calls)
  BY <1>1, LastAppend
<1>4. /\ LastBid(calls) \in 0 .. Len(calls)
      /\ LastAction(calls) \in 0 .. Len(calls)
  BY LastBidIs, LastActionIs DEF LastIs
<1>5. Since(more) = Since(calls)
  BY <1>1, SinceAppend
<1>6. FirstNamed(b, more) = FirstNamed(b, calls)
  BY <1>1, NamedAppend
<1>7. DoubledTimes(more) = DoubledTimes(calls)
  BY <1>5 DEF DoubledTimes, Since
<1> HIDE DEF more
<1>8. High(more) = High(calls) /\ HighSide(b, more) = HighSide(b, calls)
  BY <1>2, <1>3, <1>4 DEF High, HighSide
<1> QED BY <1>2, <1>3, <1>4, <1>6, <1>7, <1>8 DEF more

\* The auction after a bid.
LEMMA AfterBid ==
  ASSUME NEW b, b.dealer \in Seat, NEW calls \in Seq(AllCalls), NEW c \in AllCalls, IsBid(c)
  PROVE  LET more == Append(calls, c)
             seat == NextCaller(b.dealer, calls)
         IN  /\ High(more) = [level |-> c.level, strain |-> c.strain]
             /\ HighSide(b, more) = SideOf(seat)
             /\ DoubledTimes(more) = 0
             /\ Len(more) - LastAction(more) = 0
             /\ FirstNamed(b, more) = NamedBy(FirstNamed(b, calls), seat, c)
<1> DEFINE more == Append(calls, c)
<1>1. ~IsPass(c)
  BY DEF IsPass, IsBid
<1>2. /\ Len(more) = Len(calls) + 1 /\ Len(calls) \in Nat /\ more[Len(calls) + 1] = c
  BY AppendProperties
<1>3. LastBid(more) = Len(calls) + 1 /\ LastAction(more) = Len(calls) + 1
  BY <1>1, LastAppend
<1>4. Since(more) = {}
  BY SinceAppend
<1>5. DoubledTimes(more) = 0
  BY <1>4, FS_EmptySet DEF DoubledTimes, Since
<1>6. FirstNamed(b, more) = NamedBy(FirstNamed(b, calls), NextCaller(b.dealer, calls), c)
  BY NamedAppend DEF NextCaller
<1> HIDE DEF more
<1>7. High(more) = [level |-> c.level, strain |-> c.strain]
      /\ HighSide(b, more) = SideOf(NextCaller(b.dealer, calls))
  BY <1>2, <1>3 DEF High, HighSide, NextCaller
<1> QED BY <1>2, <1>3, <1>5, <1>6, <1>7 DEF more

\* The auction after a double or a redouble.
LEMMA AfterDouble ==
  ASSUME NEW b, b.dealer \in Seat, NEW calls \in Seq(AllCalls), NEW c \in AllCalls,
         IsDouble(c) \/ IsRedouble(c), AuctionOK(calls), IsLegal(calls, c)
  PROVE  LET more  == Append(calls, c)
             times == IF IsDouble(c) THEN 1 ELSE 2
         IN  /\ High(more) = High(calls) /\ HighSide(b, more) = HighSide(b, calls)
             /\ DoubledTimes(more) = times
             /\ DoubledTimes(calls) = times - 1
             /\ LastBid(calls) # 0
             /\ (times = 1) <=> (HighSide(b, calls) # SideOf(NextCaller(b.dealer, calls)))
             /\ Len(more) - LastAction(more) = 0
             /\ FirstNamed(b, more) = FirstNamed(b, calls)
<1> DEFINE more == Append(calls, c)
           n == Len(calls)
           bid == LastBid(calls)
           last == LastAction(calls)
           times == IF IsDouble(c) THEN 1 ELSE 2
<1>1. ~IsPass(c) /\ ~IsBid(c) /\ (IsDouble(c) <=> ~IsRedouble(c))
  BY DEF IsPass, IsBid, IsDouble, IsRedouble
<1>2. /\ Len(more) = n + 1 /\ n \in Nat /\ more[n + 1] = c
      /\ \A i \in 1 .. n : more[i] = calls[i]
  BY AppendProperties
<1>3. LastBid(more) = bid /\ LastAction(more) = n + 1
  BY <1>1, LastAppend
<1>4. LastIs(calls, bid, IsBid) /\ LastIs(calls, last, IsAction)
  BY LastBidIs, LastActionIs
<1>5. Since(more) = Since(calls) \cup {n + 1}
  BY <1>1, SinceAppend
<1>6. FirstNamed(b, more) = FirstNamed(b, calls)
  BY <1>1, NamedAppend
<1> HIDE DEF more, n, bid, last
<1>7. High(more) = High(calls) /\ HighSide(b, more) = HighSide(b, calls)
  BY <1>2, <1>3, <1>4 DEF High, HighSide, LastIs, bid, n
<1>8. last \in 1 .. n /\ bid \in 1 .. n /\ IsOpponent(n + 1, last)
  BY <1>1, <1>4 DEF IsLegal, AuctionOK, LastIs, last, bid, n
<1>9. HighSide(b, calls) = SideOf(CallerAt(b.dealer, bid))
  BY <1>8 DEF HighSide, bid
<1>10. IsOpponent(bid, n + 1) <=> HighSide(b, calls) # SideOf(NextCaller(b.dealer, calls))
  BY <1>2, <1>8, <1>9, Opponents DEF NextCaller, n
<1>11. CASE IsDouble(c)
  <2>1. IsBid(calls[last])
    BY <1>1, <1>11 DEF IsLegal, last
  <2>2. bid = last
    BY <1>2, <1>4, <1>8, <2>1 DEF LastIs, IsAction, IsPass, IsBid, n
  <2>3. Since(calls) = {}
    BY <1>4, <2>2 DEF LastIs, Since, IsAction, bid
  <2>4. Since(more) = {n + 1}
    BY <1>5, <2>3
  <2>5. DoubledTimes(more) = 1 /\ DoubledTimes(calls) = 0
    BY <2>3, <2>4, FS_EmptySet, FS_Singleton DEF DoubledTimes, Since
  <2>6. IsOpponent(bid, n + 1)
    BY <1>8, <2>2 DEF IsOpponent
  <2> QED BY <1>2, <1>3, <1>6, <1>7, <1>8, <1>10, <1>11, <2>5, <2>6 DEF more, bid, n
<1>12. CASE IsRedouble(c)
  <2>1. IsDouble(calls[last])
    BY <1>1, <1>12 DEF IsLegal, last
  <2>2. IsOpponent(bid, last) /\ Since(calls) = {last}
    BY <1>8, <2>1 DEF AuctionOK, DoubleStands, Since, last, bid
  <2>3. Since(more) = {last} \cup {n + 1} /\ last # n + 1
    BY <1>2, <1>5, <1>8, <2>2
  <2>4. DoubledTimes(calls) = 1
    BY <2>2, FS_Singleton DEF DoubledTimes, Since
  <2>5. DoubledTimes(more) = 2
    <3>1. IsFiniteSet({last}) /\ Cardinality({last}) = 1
      BY FS_Singleton
    <3>2. n + 1 \notin {last}
      BY <2>3
    <3>3. Cardinality({last} \cup {n + 1}) = Cardinality({last}) + 1
      BY <3>1, <3>2, FS_AddElement
    <3>4. DoubledTimes(more) = Cardinality(Since(more))
      BY DEF DoubledTimes, Since
    <3>5. Cardinality(Since(more)) = Cardinality({last}) + 1
      BY <2>3, <3>3
    <3> QED BY <3>1, <3>4, <3>5
  <2>6. ~IsOpponent(bid, n + 1)
    BY <1>2, <1>8, <2>2 DEF IsOpponent
  <2> QED BY <1>1, <1>2, <1>3, <1>6, <1>7, <1>8, <1>10, <1>12, <2>4, <2>5, <2>6 DEF more, bid, n
<1> QED BY <1>11, <1>12

\* The declarer is the seat that first named the strain of the high bid.
LEMMA DeclarerIs ==
  ASSUME NEW b, b.dealer \in Seat, NEW calls \in Seq(AllCalls),
         IsComplete(calls), LastBid(calls) # 0
  PROVE  /\ Contract(b.dealer, calls) # NoContract
         /\ Contract(b.dealer, calls).strain = High(calls).strain
         /\ OpeningLeader(Contract(b.dealer, calls)) =
              NextSeat(FirstNamed(b, calls)[<<HighSide(b, calls), High(calls).strain>>])
<1> DEFINE bid == LastBid(calls)
           contract == Contract(b.dealer, calls)
           side == SideOf(CallerAt(b.dealer, bid))
           strain == calls[bid].strain
<1>1. /\ bid \in 1 .. Len(calls) /\ Len(calls) \in Nat /\ IsBid(calls[bid])
      /\ \A i \in 1 .. Len(calls) : i > bid => ~IsBid(calls[i])
  BY LastBidIs DEF LastIs
<1>2. calls[bid].level \in 1 .. 7 /\ strain \in Strain
  BY <1>1, CallKinds
<1>3. /\ contract.level = calls[bid].level /\ contract.strain = strain
      /\ contract.declarer = CallerAt(b.dealer, Min(Named(calls, bid)))
  BY DEF Contract
<1>4. contract # NoContract
  BY <1>2, <1>3 DEF NoContract
<1>5. High(calls).strain = strain /\ HighSide(b, calls) = side
  BY DEF High, HighSide
<1> HIDE DEF bid, strain
<1>6. Named(calls, bid) = NamedFor(b, calls, <<side, strain>>)
  <2>1. DOMAIN calls = 1 .. Len(calls)
    OBVIOUS
  <2>2. \A i \in 1 .. Len(calls) : IsOpponent(i, bid) <=> SideOf(CallerAt(b.dealer, i)) # side
    BY <1>1, Opponents
  <2>3. ASSUME NEW i
        PROVE  i \in 1 .. bid /\ IsBid(calls[i]) <=> i \in 1 .. Len(calls) /\ IsBid(calls[i])
    BY <1>1
  <2> QED BY <2>1, <2>2, <2>3 DEF Named, NamedFor, strain
<1>7. bid \in Named(calls, bid)
  BY <1>1 DEF Named, IsOpponent
<1>8. FirstNamed(b, calls)[<<side, strain>>] = contract.declarer
  <2>1. <<side, strain>> \in Side \X Strain
    BY <1>1, <1>2, Callers
  <2>2. FirstNamed(b, calls) =
          [x \in Side \X Strain |->
             IF NamedFor(b, calls, x) = {} THEN NoSeat
             ELSE CallerAt(b.dealer, Min(NamedFor(b, calls, x)))]
    BY DEF FirstNamed, NamedFor
  <2> HIDE DEF contract, side
  <2> QED BY <1>3, <1>6, <1>7, <2>1, <2>2
<1> QED BY <1>3, <1>4, <1>5, <1>8 DEF OpeningLeader

\* A call admitted to the log is the move of the game of the same kind.
LEMMA CallMoves ==
  ASSUME NEW b \in Boards, NEW acts, Sound(b, acts), AuctionOK(CallsOf(acts)),
         NEW a \in Action, a.type = "call", a.call \in Calls, Admits(b, acts, a)
  PROVE  Game!Moves(Position(b, acts), Position(b, Append(acts, a)))
<1> DEFINE c == a.call
           calls == CallsOf(acts)
           more == Append(acts, a)
           after == Append(calls, c)
           p == Position(b, acts)
           q == Position(b, more)
           seat == NextCaller(b.dealer, calls)
           none == [s \in Side |-> 0]
           k == Len(calls) - LastAction(calls)
<1>1. ~IsComplete(calls) /\ IsLegal(calls, c)
  <2>1. ~IsComplete(calls)
    BY Phases DEF Admits
  <2>2. Fold(b, acts).calls = calls
    BY <2>1, FoldInAuction DEF NoPlay
  <2> QED BY <2>1, <2>2 DEF Admits
<1>2. /\ calls \in Seq(AllCalls) /\ b.dealer \in Seat /\ c \in AllCalls /\ acts \in Seq(Action)
  BY PlayTyped, Kinds DEF Sound
<1>3. /\ PlaysOf(acts) = <<>> /\ ClaimsOf(acts) = <<>>
  BY <1>1, NothingYet DEF InPlay
<1>4. /\ Sound(b, more) /\ CallsOf(more) = after
      /\ PlaysOf(more) = <<>> /\ ClaimsOf(more) = <<>>
  BY <1>2, <1>3, SoundCall, Parted
<1>5. p = Where(b, calls, "bidding", seat, b.hands, NoSeat, <<>>, none)
  BY <1>1, <1>3, PositionUnplayed
<1>6. /\ ~IsComplete(after) =>
           q = Where(b, after, "bidding", NextCaller(b.dealer, after), b.hands, NoSeat, <<>>, none)
      /\ IsComplete(after) /\ TheContract(b, more) = NoContract =>
           q = Where(b, after, "complete", NoSeat, b.hands, NoSeat, <<>>, none)
      /\ IsComplete(after) /\ TheContract(b, more) # NoContract =>
           q = Where(b, after, "play", OpeningLeader(TheContract(b, more)), b.hands,
                     OpeningLeader(TheContract(b, more)), <<>>, none)
  BY <1>4, PositionUnplayed DEF InPlay
<1>7. TheContract(b, more) = Contract(b.dealer, after)
  BY <1>4 DEF TheContract
<1>8. /\ after \in Seq(AllCalls) /\ Len(calls) \in Nat /\ Len(after) = Len(calls) + 1
      /\ LastAction(calls) \in 0 .. Len(calls) /\ LastBid(calls) \in 0 .. Len(calls)
      /\ LastBid(calls) # 0 => IsBid(calls[LastBid(calls)])
  BY <1>2, AppendProperties, LastActionIs, LastBidIs DEF LastIs
<1>9. /\ IsComplete(calls) <=> Len(calls) >= 4 /\ Len(calls) - LastAction(calls) >= 3
      /\ IsComplete(after) <=> Len(after) >= 4 /\ Len(after) - LastAction(after) >= 3
  BY <1>2, <1>8, CompleteIs
<1>10. NextCaller(b.dealer, after) = NextSeat(seat) /\ seat \in Seat
  <2>1. Len(calls) + 1 \in Nat \ {0}
    BY <1>8
  <2>2. NextSeat(CallerAt(b.dealer, Len(calls) + 1)) = CallerAt(b.dealer, Len(calls) + 1 + 1)
        /\ CallerAt(b.dealer, Len(calls) + 1) \in Seat
    BY <1>2, <2>1, Callers
  <2> QED BY <1>8, <2>2 DEF NextCaller
<1>11. LastAction(calls) # 0 => LastBid(calls) # 0
  BY DEF AuctionOK
<1>12. High(calls) = Game!NoBid <=> LastBid(calls) = 0
  <2>1. LastBid(calls) # 0 => calls[LastBid(calls)].level \in 1 .. 7
    BY <1>2, <1>8, CallKinds
  <2> QED BY <2>1 DEF High, Game!NoBid
<1>13. LastAction(calls) = 0 => LastBid(calls) = 0
  BY <1>2, <1>8, LastActionIs DEF LastIs, IsAction, IsPass, IsBid
<1> HIDE DEF p, q, after, seat, none, calls, c
<1>14. ASSUME IsPass(c) PROVE Game!CallMade(p, q, c)
  <2> USE <1>14
  <2>1. /\ High(after) = High(calls) /\ HighSide(b, after) = HighSide(b, calls)
        /\ DoubledTimes(after) = DoubledTimes(calls)
        /\ Len(after) - LastAction(after) = k + 1
        /\ FirstNamed(b, after) = FirstNamed(b, calls)
        /\ LastBid(after) = LastBid(calls) /\ LastAction(after) = LastAction(calls)
    BY <1>2, AfterPass DEF after
  <2> HIDE DEF k
  <2>2. k \in Nat /\ k # 4 - 0 /\ (IsComplete(after) <=> Len(calls) >= 3 /\ k >= 2)
    BY <1>1, <1>8, <1>9, <2>1 DEF k
  <2>3. /\ p.phase = "bidding" /\ p.turn = seat
        /\ p.hands = b.hands /\ p.leader = NoSeat /\ p.trick = <<>> /\ p.won = none
        /\ p.high = High(calls) /\ p.highSide = HighSide(b, calls)
        /\ p.doubled = DoubledTimes(calls) /\ p.passes = k /\ p.named = FirstNamed(b, calls)
    BY <1>5, WhereIsPosition DEF k
  <2>4. IsPosition(p) /\ p.passes = k
    BY <1>5, WhereIsPosition DEF k
  <2>5. Game!PassMade(p, q)
    <3>1. CASE k + 1 = 4
      <4>1. IsComplete(after) /\ LastBid(after) = 0
        <5>1. Len(calls) = 3 /\ LastAction(calls) = 0 /\ LastBid(calls) = 0
          <6>1. Len(calls) - LastAction(calls) = 3
            BY <1>8, <3>1 DEF k
          <6>2. ~(Len(calls) >= 4)
            BY <1>1, <1>9, <6>1
          <6>3. Len(calls) = 3 /\ LastAction(calls) = 0
            <7> DEFINE n == Len(calls)
                       l == LastAction(calls)
            <7>1. n \in Nat /\ l \in 0 .. n /\ n - l = 3 /\ ~(n >= 4)
              BY <1>8, <6>1, <6>2
            <7> HIDE DEF n, l
            <7>2. n = 3 /\ l = 0
              BY <7>1
            <7> QED BY <7>2 DEF n, l
          <6> QED BY <1>13, <6>3
        <5> QED BY <2>1, <2>2, <3>1, <5>1
      <4>2. Contract(b.dealer, after) = NoContract
        BY <4>1 DEF Contract
      <4>3. q = Where(b, after, "complete", NoSeat, b.hands, NoSeat, <<>>, none)
        BY <1>6, <1>7, <4>1, <4>2
      <4>4. IsPosition(q)
        BY <4>3, WhereIsPosition
      <4>5. /\ q.phase = "complete" /\ q.turn = NoSeat
            /\ q.hands = p.hands /\ q.leader = p.leader /\ q.trick = p.trick /\ q.won = p.won
            /\ q.high = p.high /\ q.highSide = p.highSide /\ q.doubled = p.doubled
            /\ q.passes = p.passes + 1 /\ q.named = p.named
        BY <2>1, <2>3, <4>3, WhereIsPosition
      <4>6. q = [[p EXCEPT !.passes = p.passes + 1, !.turn = Game!NextSeat(@)]
                   EXCEPT !.phase = "complete", !.turn = Game!NoSeat]
        BY <2>4, <4>4, <4>5, SameSeats DEF IsPosition, Fields
      <4> QED BY <2>4, <3>1, <4>6 DEF Game!PassMade
    <3>2. CASE k + 1 = 3 /\ High(calls) # Game!NoBid
      <4> DEFINE lead == NextSeat(p.named[<<p.highSide, p.high.strain>>])
      <4>1. IsComplete(after) /\ LastBid(after) # 0
        <5>1. LastBid(calls) # 0 /\ LastAction(calls) # 0
          BY <1>12, <1>13, <3>2
        <5> QED BY <1>8, <2>1, <2>2, <3>2, <5>1 DEF k
      <4>2. /\ Contract(b.dealer, after) # NoContract
            /\ OpeningLeader(Contract(b.dealer, after)) = lead
        BY <1>2, <1>8, <2>1, <2>3, <4>1, DeclarerIs
      <4>3. q = Where(b, after, "play", lead, b.hands, lead, <<>>, none)
        BY <1>6, <1>7, <4>1, <4>2
      <4> HIDE DEF lead
      <4>4. IsPosition(q)
        BY <4>3, WhereIsPosition
      <4>5. /\ q.phase = "play" /\ q.turn = lead
            /\ q.hands = p.hands /\ q.leader = lead /\ q.trick = p.trick /\ q.won = p.won
            /\ q.high = p.high /\ q.highSide = p.highSide /\ q.doubled = p.doubled
            /\ q.passes = p.passes + 1 /\ q.named = p.named
        BY <2>1, <2>3, <4>3, WhereIsPosition
      <4>6. q = [[p EXCEPT !.passes = p.passes + 1, !.turn = Game!NextSeat(@)]
                   EXCEPT !.phase = "play", !.turn = lead, !.leader = lead]
        BY <2>4, <4>4, <4>5, SameSeats DEF IsPosition, Fields
      <4>7. lead = Game!NextSeat(p.named[<<p.highSide, p.high.strain>>])
        BY SameSeats DEF lead
      <4> QED BY <2>2, <2>3, <2>4, <3>2, <4>6, <4>7 DEF Game!PassMade
    <3>3. CASE k + 1 # 4 /\ ~(k + 1 = 3 /\ High(calls) # Game!NoBid)
      <4>1. ~IsComplete(after)
        <5>1. CASE k + 1 = 3
          <6>1. LastBid(calls) = 0 /\ LastAction(calls) = 0
            BY <1>11, <1>12, <3>3, <5>1
          <6> QED BY <1>8, <1>9, <2>2, <5>1, <6>1 DEF k
        <5>2. CASE k + 1 # 3
          BY <1>1, <1>8, <1>9, <2>2, <3>3, <5>2 DEF k
        <5> QED BY <5>1, <5>2
      <4>2. q = Where(b, after, "bidding", NextSeat(seat), b.hands, NoSeat, <<>>, none)
        BY <1>6, <1>10, <4>1
      <4>3. IsPosition(q)
        BY <4>2, WhereIsPosition
      <4>4. /\ q.phase = p.phase /\ q.turn = NextSeat(p.turn)
            /\ q.hands = p.hands /\ q.leader = p.leader /\ q.trick = p.trick /\ q.won = p.won
            /\ q.high = p.high /\ q.highSide = p.highSide /\ q.doubled = p.doubled
            /\ q.passes = p.passes + 1 /\ q.named = p.named
        BY <2>1, <2>3, <4>2, WhereIsPosition
      <4>5. q = [p EXCEPT !.passes = p.passes + 1, !.turn = Game!NextSeat(@)]
        BY <2>4, <4>3, <4>4, SameSeats DEF IsPosition, Fields
      <4> QED BY <2>3, <2>4, <3>3, <4>5 DEF Game!PassMade
    <3> QED BY <3>1, <3>2, <3>3
  <2> QED BY <2>3, <2>5 DEF Game!CallMade, IsPass
<1>15. /\ p.phase = "bidding" /\ p.turn = seat
       /\ p.hands = b.hands /\ p.leader = NoSeat /\ p.trick = <<>> /\ p.won = none
       /\ p.high = High(calls) /\ p.highSide = HighSide(b, calls)
       /\ p.doubled = DoubledTimes(calls) /\ p.named = FirstNamed(b, calls)
       /\ IsPosition(p)
  BY <1>5, WhereIsPosition
<1>16. ASSUME IsBid(c) PROVE Game!CallMade(p, q, c)
  <2>1. /\ High(after) = [level |-> c.level, strain |-> c.strain]
        /\ HighSide(b, after) = SideOf(seat)
        /\ DoubledTimes(after) = 0
        /\ Len(after) - LastAction(after) = 0
        /\ FirstNamed(b, after) = NamedBy(FirstNamed(b, calls), seat, c)
    BY <1>2, <1>16, AfterBid DEF after, seat
  <2>2. ~IsComplete(after)
    BY <1>9, <2>1
  <2>3. q = Where(b, after, "bidding", NextSeat(seat), b.hands, NoSeat, <<>>, none)
    BY <1>6, <1>10, <2>2
  <2>4. \/ c.level > p.high.level
        \/ c.level = p.high.level /\ c.strain > p.high.strain
    <3>1. ~IsPass(c) /\ ~IsDouble(c) /\ ~IsRedouble(c) /\ c.level \in 1 .. 7
      BY <1>2, <1>16, CallKinds DEF IsPass, IsBid, IsDouble, IsRedouble
    <3>2. LastBid(calls) # 0 => Outranks(c, calls[LastBid(calls)])
      BY <1>1, <3>1 DEF IsLegal
    <3>3. CASE LastBid(calls) = 0
      BY <1>15, <3>1, <3>3 DEF High
    <3>4. CASE LastBid(calls) # 0
      BY <1>15, <3>2, <3>4 DEF High, Outranks
    <3> QED BY <3>3, <3>4
  <2>5. IsPosition(p) /\ IsPosition(q)
    BY <1>15, <2>3, WhereIsPosition
  <2>6. /\ q.phase = p.phase /\ q.turn = Game!NextSeat(p.turn)
        /\ q.hands = p.hands /\ q.leader = p.leader /\ q.trick = p.trick /\ q.won = p.won
        /\ q.high = [level |-> c.level, strain |-> c.strain]
        /\ q.highSide = Game!SideOf(p.turn) /\ q.doubled = 0
        /\ q.passes = 0
    BY <1>15, <2>1, <2>3, WhereIsPosition, SameSeats
  <2>7. q.named = [p.named EXCEPT ![<<Game!SideOf(p.turn), c.strain>>] =
                     IF @ = Game!NoSeat THEN p.turn ELSE @]
    <3>1. q.named = NamedBy(p.named, p.turn, c)
      BY <1>15, <2>1, <2>3, WhereIsPosition
    <3>2. Game!SideOf(p.turn) = SideOf(p.turn) /\ Game!NoSeat = NoSeat
      BY SameSeats
    <3> QED BY <3>1, <3>2 DEF NamedBy
  <2>8. q = [p EXCEPT !.high = [level |-> c.level, strain |-> c.strain],
                      !.highSide = Game!SideOf(p.turn), !.doubled = 0, !.passes = 0,
                      !.named[<<Game!SideOf(p.turn), c.strain>>] =
                         IF @ = Game!NoSeat THEN p.turn ELSE @,
                      !.turn = Game!NextSeat(@)]
    BY <2>5, <2>6, <2>7 DEF IsPosition, Fields
  <2>9. Game!BidMade(p, q, c)
    BY <2>4, <2>8 DEF Game!BidMade
  <2> QED BY <1>15, <1>16, <2>9 DEF Game!CallMade, IsBid
<1>17. ASSUME IsDouble(c) \/ IsRedouble(c) PROVE Game!CallMade(p, q, c)
  <2> DEFINE times == IF IsDouble(c) THEN 1 ELSE 2
  <2>1. /\ High(after) = High(calls) /\ HighSide(b, after) = HighSide(b, calls)
        /\ DoubledTimes(after) = times
        /\ DoubledTimes(calls) = times - 1
        /\ LastBid(calls) # 0
        /\ (times = 1) <=> (HighSide(b, calls) # SideOf(seat))
        /\ Len(after) - LastAction(after) = 0
        /\ FirstNamed(b, after) = FirstNamed(b, calls)
    BY <1>1, <1>2, <1>17, AfterDouble DEF after, seat, calls
  <2>2. ~IsComplete(after)
    BY <1>9, <2>1
  <2>3. q = Where(b, after, "bidding", NextSeat(seat), b.hands, NoSeat, <<>>, none)
    BY <1>6, <1>10, <2>2
  <2> HIDE DEF times
  <2>4. IsPosition(p) /\ IsPosition(q)
    BY <1>15, <2>3, WhereIsPosition
  <2>5. /\ q.phase = p.phase /\ q.turn = Game!NextSeat(p.turn)
        /\ q.hands = p.hands /\ q.leader = p.leader /\ q.trick = p.trick /\ q.won = p.won
        /\ q.high = p.high /\ q.highSide = p.highSide /\ q.named = p.named
        /\ q.doubled = times /\ q.passes = 0
    BY <1>15, <2>1, <2>3, WhereIsPosition, SameSeats
  <2>6. q = [p EXCEPT !.doubled = times, !.passes = 0, !.turn = Game!NextSeat(@)]
    BY <2>4, <2>5 DEF IsPosition, Fields
  <2>7. Game!DoubleMade(p, q, times)
    BY <1>12, <1>15, <2>1, <2>6, SameSeats DEF Game!DoubleMade
  <2>8. CASE IsDouble(c)
    BY <1>15, <2>7, <2>8 DEF Game!CallMade, IsDouble, times
  <2>9. CASE IsRedouble(c)
    <3>1. times = 2
      BY <2>9 DEF times, IsDouble, IsRedouble
    <3> QED BY <1>15, <2>7, <2>9, <3>1 DEF Game!CallMade, IsRedouble
  <2> QED BY <1>17, <2>8, <2>9
<1>18. Game!CallMade(p, q, c)
  BY <1>2, <1>14, <1>16, <1>17, CallKinds DEF IsPass, IsBid, IsDouble, IsRedouble
<1> QED BY <1>18 DEF Game!Moves, p, q, c

-----------------------------------------------------------------------------
(* A claim is a move of the game. *)

\* The hands, and the cards of the trick in progress.
\* The four hands after a log, and the cards of the trick in progress.
Hands(b, acts) == [s \in Seat |-> HandOf(b, acts, s)]
TrickCards(acts) == [i \in DOMAIN Trick(acts) |-> Trick(acts)[i].card]

\* The position once a contract is made.
LEMMA PositionInPlay ==
  ASSUME NEW b \in Boards, NEW acts, Sound(b, acts), InPlay(b, acts)
  PROVE  LET f == Fold(b, acts)
         IN  Position(b, acts) =
               Where(b, CallsOf(acts), f.phase, f.turn, Hands(b, acts),
                     LeadOf(b, acts)[Done(acts)], TrickCards(acts), f.won)
<1> DEFINE f == Fold(b, acts)
<1>1. /\ f.calls = CallsOf(acts) /\ f.leader = LeadOf(b, acts)[Done(acts)]
      /\ f.trick = Trick(acts)
  BY FoldInPlay
<1>2. [s \in Seat |-> Remaining(b, f, s)] = Hands(b, acts)
  BY HandsByFold DEF Hands
<1>3. [i \in DOMAIN f.trick |-> f.trick[i].card] = TrickCards(acts)
  BY <1>1 DEF TrickCards
<1> QED BY <1>1, <1>2, <1>3, PositionIs DEF Position

\* Two entries of the score set, one after the other.
LEMMA ScoreSet ==
  ASSUME NEW p, IsPosition(p), NEW i, NEW j, i # j, NEW x, NEW y, NEW z, NEW turn
  PROVE  [p EXCEPT !.phase = "complete", !.turn = turn, !.won[i] = @ + x, !.won[j] = @ + y - z] =
           [[p EXCEPT !.phase = "complete", !.turn = turn]
              EXCEPT !.won = [@ EXCEPT ![i] = p.won[i] + x, ![j] = p.won[j] + y - z]]
<1>1. "won" \in DOMAIN p
  BY DEF IsPosition, Fields
<1> QED BY <1>1

\* A claim admitted to the log is a claim in the game, and shares the same tricks.
LEMMA ClaimMoves ==
  ASSUME NEW b \in Boards, NEW acts, Sound(b, acts),
         NEW a \in Action, a.type = "claim", Admits(b, acts, a)
  PROVE  Game!Moves(Position(b, acts), Position(b, Append(acts, a)))
<1> DEFINE more == Append(acts, a)
           p == Position(b, acts)
           q == Position(b, more)
           f == Fold(b, acts)
           g == Fold(b, more)
           won == WonOf(b, acts)
           left == Tricks - Done(acts)
           side == SideOf(a.seat)
<1>1. InPlay(b, acts) /\ ~Over(Done(acts), ClaimsOf(acts)) /\ acts \in Seq(Action)
  BY Phases DEF Admits, Sound
<1>2. /\ Sound(b, more) /\ CallsOf(more) = CallsOf(acts)
      /\ PlaysOf(more) = PlaysOf(acts) /\ ClaimsOf(more) = Append(ClaimsOf(acts), a)
  BY <1>1, SoundClaim, Parted
<1>3. ClaimsOf(acts) = <<>>
  BY <1>1 DEF Over
<1>4. ClaimsOf(more) # <<>> /\ Last(ClaimsOf(more)) = a
  BY <1>2, <1>3 DEF Last
<1>5. /\ Done(more) = Done(acts) /\ Trick(more) = Trick(acts)
      /\ LeadOf(b, more) = LeadOf(b, acts) /\ InPlay(b, more)
  BY <1>1, <1>2 DEF Done, Trick, LeadOf, TheContract, InPlay
<1>6. /\ WonOf(b, more) = won /\ TrickCards(more) = TrickCards(acts)
      /\ Hands(b, more) = Hands(b, acts)
  <2>1. WonOf(b, more) = won /\ TrickCards(more) = TrickCards(acts)
    BY <1>5 DEF WonOf, TrickCards
  <2>2. \A s : HandOf(b, more, s) = HandOf(b, acts, s)
    BY <1>2 DEF HandOf
  <2> QED BY <2>1, <2>2 DEF Hands
<1>7. f.phase = "play" /\ f.won = won
  BY <1>1, <1>3, FoldInPlay
<1>8. g.phase = "complete" /\ g.turn = NoSeat /\ g.won = Settle(won, a, left)
  <2>1. Over(Done(more), ClaimsOf(more))
    BY <1>4 DEF Over
  <2> QED BY <1>4, <1>5, <1>6, <2>1, FoldInPlay
<1>9. /\ won \in [Side -> Nat] /\ won[0] \in Nat /\ won[1] \in Nat
      /\ won[0] + won[1] = Done(acts)
  BY <1>1, WonByFold
<1>10. /\ a.seat \in Seat /\ a.tricks \in Nat /\ a.tricks <= left
       /\ left \in Nat /\ Tricks \in Nat /\ Done(acts) \in Nat
  <2>1. a.seat \in Seat /\ a.tricks \in Nat /\ a = more[Len(more)]
    BY <1>1, Kinds, AppendProperties
  <2> QED BY <1>2, <1>4, <1>5, <2>1, ClaimByFold, TableAssumption, Progress DEF Sound
<1>11. p = Where(b, CallsOf(acts), "play", f.turn, Hands(b, acts),
                 LeadOf(b, acts)[Done(acts)], TrickCards(acts), won)
  BY <1>1, <1>7, PositionInPlay
<1>12. q = Where(b, CallsOf(acts), "complete", NoSeat, Hands(b, acts),
                 LeadOf(b, acts)[Done(acts)], TrickCards(acts), Settle(won, a, left))
  BY <1>2, <1>5, <1>6, <1>8, PositionInPlay
<1> HIDE DEF p, q, f, g, more, won, left, side
<1>13. IsPosition(p) /\ IsPosition(q)
  BY <1>11, <1>12, WhereIsPosition
<1>14. /\ p.phase = "play" /\ p.won = won
       /\ q.phase = "complete" /\ q.turn = Game!NoSeat /\ q.won = Settle(won, a, left)
  BY <1>11, <1>12, WhereIsPosition, SameSeats
<1>15. /\ q.high = p.high /\ q.highSide = p.highSide /\ q.doubled = p.doubled
       /\ q.passes = p.passes /\ q.named = p.named /\ q.hands = p.hands
       /\ q.leader = p.leader /\ q.trick = p.trick
  BY <1>11, <1>12, WhereIsPosition
<1>16. Tricks - p.won[0] - p.won[1] = left
  BY <1>9, <1>10, <1>14 DEF left
<1>17. side \in {0, 1}
  BY <1>10 DEF side, SideOf, Seat
<1>18. Settle(won, a, left) =
         [won EXCEPT ![side] = won[side] + a.tricks,
                     ![1 - side] = won[1 - side] + left - a.tricks]
  <2>1. \A s \in Side :
          Settle(won, a, left)[s] = won[s] + IF s = side THEN a.tricks ELSE left - a.tricks
    BY <1>10 DEF Settle, side
  <2>2. /\ DOMAIN Settle(won, a, left) = Side
        /\ Settle(won, a, left) = [s \in Side |-> Settle(won, a, left)[s]]
    BY DEF Settle
  <2> DEFINE given == [won EXCEPT ![side] = won[side] + a.tricks,
                                  ![1 - side] = won[1 - side] + left - a.tricks]
  <2>3. given = [s \in Side |-> given[s]]
    BY <1>9
  <2>4. given[side] = won[side] + a.tricks /\ given[1 - side] = won[1 - side] + left - a.tricks
    BY <1>9, <1>17 DEF Side
  <2> HIDE DEF given
  <2>5. \A s \in Side : s = side \/ s = 1 - side
    BY <1>17 DEF Side
  <2>6. ASSUME NEW s \in Side PROVE given[s] = Settle(won, a, left)[s]
    <3>1. CASE s = side
      BY <2>1, <2>4, <3>1
    <3>2. CASE s = 1 - side
      BY <1>9, <1>10, <1>17, <2>1, <2>4, <3>2 DEF Side
    <3> QED BY <2>5, <3>1, <3>2
  <2> QED BY <2>2, <2>3, <2>6 DEF given
<1>19. q = [p EXCEPT !.phase = "complete", !.turn = Game!NoSeat,
                     !.won[side] = @ + a.tricks,
                     !.won[1 - side] = @ + left - a.tricks]
  <2>1. q.won = [p.won EXCEPT ![side] = p.won[side] + a.tricks,
                              ![1 - side] = p.won[1 - side] + left - a.tricks]
    BY <1>14, <1>18
  <2>2. q.phase = "complete" /\ q.turn = Game!NoSeat /\ side # 1 - side
    BY <1>14, <1>17
  <2>3. q = [[p EXCEPT !.phase = "complete", !.turn = Game!NoSeat]
               EXCEPT !.won = [@ EXCEPT ![side] = p.won[side] + a.tricks,
                                        ![1 - side] = p.won[1 - side] + left - a.tricks]]
    <3>1. IsPosition(p) /\ IsPosition(q)
      BY <1>13
    <3> QED BY <1>15, <2>1, <2>2, <3>1 DEF IsPosition, Fields
  <2> QED BY <1>13, <2>2, <2>3, ScoreSet
<1>20. Game!Claimed(p, q, a.seat, a.tricks)
  <2>1. a.tricks \in 0 .. left /\ Game!SideOf(a.seat) = side
    BY <1>10, SameSeats DEF side
  <2> QED BY <1>14, <1>16, <1>19, <2>1 DEF Game!Claimed
<1>21. a.tricks \in 0 .. Tricks
  BY <1>10 DEF left
<1> QED BY <1>10, <1>20, <1>21, SameSeats DEF Game!Moves, p, q, more

-----------------------------------------------------------------------------
(* A card played is a move of the game. *)

\* A card beats another when it has more power.
LEMMA BeatsByPower ==
  ASSUME NEW x \in Card, NEW y \in Card, NEW led \in Suit, NEW strain \in Strain
  PROVE  /\ Beats(x, y, led, TrumpOf(strain))
              <=> Game!Power(x, led, strain) > Game!Power(y, led, strain)
         /\ Game!Power(x, led, strain) \in Nat
         /\ /\ Game!Power(x, led, strain) >= 100
            /\ Game!Power(x, led, strain) = Game!Power(y, led, strain)
            => x = y
         /\ x.suit = led => Game!Power(x, led, strain) >= 100
<1>1. /\ x.suit \in 0 .. 3 /\ x.rank \in 2 .. 14 /\ y.suit \in 0 .. 3 /\ y.rank \in 2 .. 14
      /\ led \in 0 .. 3 /\ strain \in 0 .. 4
  BY DEF Card, Suit, Strain
<1>2. x = [suit |-> x.suit, rank |-> x.rank] /\ y = [suit |-> y.suit, rank |-> y.rank]
  BY DEF Card
<1>3. \A c \in {x, y} : c.suit \in TrumpOf(strain) <=> c.suit = strain
  BY <1>1 DEF TrumpOf, NoTrump
<1> DEFINE px == Game!Power(x, led, strain)
           py == Game!Power(y, led, strain)
<1>4. /\ px = IF x.suit = strain THEN 200 + x.rank ELSE IF x.suit = led THEN 100 + x.rank ELSE 0
      /\ py = IF y.suit = strain THEN 200 + y.rank ELSE IF y.suit = led THEN 100 + y.rank ELSE 0
  BY DEF Game!Power
<1> HIDE DEF px, py
<1>5. Beats(x, y, led, TrumpOf(strain)) <=> px > py
  BY <1>1, <1>3, <1>4 DEF Beats
<1>6. px \in Nat /\ (x.suit = led => px >= 100)
  BY <1>1, <1>4
<1>7. ASSUME px >= 100, px = py PROVE x = y
  <2>1. x.suit = y.suit /\ x.rank = y.rank
    BY <1>1, <1>4, <1>7
  <2> QED BY <1>2, <2>1
<1> QED BY <1>5, <1>6, <1>7 DEF px, py

\* The scan of a trick finds the one card with the most power.
LEMMA WinnerHasMostPower ==
  ASSUME NEW cards, \A i \in 1 .. 4 : cards[i] \in Card,
         \A i, j \in 1 .. 4 : cards[i] = cards[j] => i = j,
         NEW strain \in Strain, NEW leader, NEW best \in 1 .. 4,
         \A j \in 1 .. 4 : Game!Power(cards[j], cards[1].suit, strain)
                             <= Game!Power(cards[best], cards[1].suit, strain)
  PROVE  TrickWinner(leader, cards, TrumpOf(strain)) = SeatAfter(leader, best - 1)
<1> DEFINE led == cards[1].suit
           power(i) == Game!Power(cards[i], led, strain)
           later(w, i) == IF Beats(cards[i], cards[w], led, TrumpOf(strain)) THEN i ELSE w
           two == later(1, 2)
           three == later(two, 3)
           w == later(three, 4)
<1>1. led \in Suit
  BY DEF Card
<1>2. \A i, j \in 1 .. 4 :
        /\ Beats(cards[i], cards[j], led, TrumpOf(strain)) <=> power(i) > power(j)
        /\ power(i) \in Nat
        /\ power(i) >= 100 /\ power(i) = power(j) => i = j
  BY <1>1, BeatsByPower
<1>3. power(1) >= 100
  BY <1>1, BeatsByPower
<1>4. \A i \in 1 .. 4, j \in 1 .. 4 :
        later(i, j) \in 1 .. 4 /\ later(i, j) = IF power(j) > power(i) THEN j ELSE i
  BY <1>2
<1>5. TrickWinner(leader, cards, TrumpOf(strain)) = SeatAfter(leader, w - 1)
  BY DEF TrickWinner
<1>6. \A j \in 1 .. 4 : power(j) <= power(best)
  OBVIOUS
<1> HIDE DEF power, later, led
<1>7. two \in 1 .. 4 /\ power(1) <= power(two) /\ power(2) <= power(two)
  BY <1>2, <1>4
<1> HIDE DEF two
<1>8. three \in 1 .. 4 /\ power(two) <= power(three) /\ power(3) <= power(three)
  BY <1>2, <1>4, <1>7
<1> HIDE DEF three
<1>9. w \in 1 .. 4 /\ power(three) <= power(w) /\ power(4) <= power(w)
  BY <1>2, <1>4, <1>8
<1> HIDE DEF w
<1>10. power(w) = power(best)
  <2>1. power(w) <= power(best)
    BY <1>6, <1>9
  <2>2. /\ power(1) \in Nat /\ power(2) \in Nat /\ power(3) \in Nat /\ power(4) \in Nat
        /\ power(two) \in Nat /\ power(three) \in Nat /\ power(w) \in Nat /\ power(best) \in Nat
    BY <1>2, <1>7, <1>8, <1>9
  <2>3. best = 1 \/ best = 2 \/ best = 3 \/ best = 4
    OBVIOUS
  <2>4. power(best) <= power(w)
    BY <1>7, <1>8, <1>9, <2>2, <2>3
  <2> QED BY <2>1, <2>2, <2>4
<1>11. power(best) >= 100
  BY <1>2, <1>3, <1>6
<1>12. w = best
  BY <1>2, <1>9, <1>10, <1>11
<1> QED BY <1>5, <1>12

\* One of four numbers is the greatest.
LEMMA Greatest ==
  ASSUME NEW power(_), \A i \in 1 .. 4 : power(i) \in Nat
  PROVE  \E best \in 1 .. 4 : \A j \in 1 .. 4 : power(j) <= power(best)
<1> DEFINE more(i, j) == IF power(j) > power(i) THEN j ELSE i
           x == more(1, 2)
           y == more(3, 4)
           z == more(x, y)
<1>1. \A i, j \in 1 .. 4 : more(i, j) \in 1 .. 4 /\ power(i) <= power(more(i, j))
                           /\ power(j) <= power(more(i, j))
  OBVIOUS
<1> HIDE DEF more
<1>2. x \in 1 .. 4 /\ y \in 1 .. 4 /\ z \in 1 .. 4
  BY <1>1
<1>3. /\ power(1) <= power(x) /\ power(2) <= power(x) /\ power(3) <= power(y)
      /\ power(4) <= power(y) /\ power(x) <= power(z) /\ power(y) <= power(z)
  BY <1>1, <1>2
<1> HIDE DEF x, y, z
<1>4. \A j \in 1 .. 4 : power(j) <= power(z)
  <2>1. \A j \in 1 .. 4 : j = 1 \/ j = 2 \/ j = 3 \/ j = 4
    OBVIOUS
  <2>2. /\ power(1) \in Nat /\ power(2) \in Nat /\ power(3) \in Nat /\ power(4) \in Nat
        /\ power(x) \in Nat /\ power(y) \in Nat /\ power(z) \in Nat
    BY <1>2
  <2>3. power(1) <= power(z) /\ power(2) <= power(z) /\ power(3) <= power(z) /\ power(4) <= power(z)
    BY <1>3, <2>2
  <2> QED BY <2>1, <2>3
<1> QED BY <1>2, <1>4

\* The cards of the trick in progress.
LEMMA TrickCardsAre ==
  ASSUME NEW b \in Boards, NEW acts, Sound(b, acts)
  PROVE  LET r == Len(PlaysOf(acts)) - 4 * Done(acts)
         IN  /\ TrickCards(acts) \in Seq(Card)
             /\ Len(TrickCards(acts)) = r
             /\ \A i \in 1 .. r : /\ TrickCards(acts)[i] = PlaysOf(acts)[4 * Done(acts) + i].card
                                   /\ Trick(acts)[i].card = TrickCards(acts)[i]
             /\ Trick(acts) = <<>> <=> r = 0
<1> DEFINE n == Done(acts)
           plays == PlaysOf(acts)
           r == Len(plays) - 4 * n
<1>1. /\ Len(plays) \in Nat /\ n \in Nat /\ r \in 0 .. 3 /\ Len(Trick(acts)) = r
      /\ DOMAIN Trick(acts) = 1 .. r
      /\ \A i \in 1 .. r : Trick(acts)[i] = plays[4 * n + i]
      /\ Trick(acts) = <<>> <=> Len(plays) = 4 * n
  BY Progress DEF Sound
<1>2. TrickCards(acts) = [i \in 1 .. r |-> plays[4 * n + i].card]
  BY <1>1 DEF TrickCards
<1>3. ASSUME NEW i \in 1 .. Len(plays) PROVE plays[i].card \in Card
  <2>1. plays[i].card \in b.hands[plays[i].seat] /\ plays[i] \in PlayActions
    BY PlayTyped DEF Sound, OwnCards
  <2>2. plays[i].seat \in Seat
    BY <2>1 DEF PlayActions, PlayAction
  <2> QED BY <2>1, <2>2, TableAssumption
<1> HIDE DEF n, plays, r
<1>4. \A i \in 1 .. r : 4 * n + i \in 1 .. Len(plays)
  BY <1>1 DEF r
<1>5. TrickCards(acts) \in Seq(Card) /\ Len(TrickCards(acts)) = r
  <2>1. r \in Nat /\ TrickCards(acts) \in [1 .. r -> Card]
    BY <1>1, <1>2, <1>3, <1>4
  <2> QED BY <2>1
<1> QED BY <1>1, <1>2, <1>5 DEF n, plays, r

\* What a card adds to the trick, and the trick to the score.
LEMMA TrickGrows ==
  ASSUME NEW b \in Boards, NEW acts, Sound(b, acts), NEW a \in Action,
         a.type = "play", Admits(b, acts, a)
  PROVE  LET trick == Append(TrickCards(acts), a.card)
             n     == Done(acts)
             r     == Len(PlaysOf(acts)) - 4 * n
             after == PlaysOf(Append(acts, a))
         IN  /\ trick \in Seq(Card) /\ Len(trick) = r + 1 /\ a.card \in Card
             /\ \A i \in 1 .. r + 1 : trick[i] = after[4 * n + i].card
             /\ \A i, j \in 1 .. r + 1 : trick[i] = trick[j] => i = j
<1> DEFINE trick == Append(TrickCards(acts), a.card)
           n == Done(acts)
           plays == PlaysOf(acts)
           r == Len(plays) - 4 * n
           after == PlaysOf(Append(acts, a))
<1>1. /\ Len(plays) \in Nat /\ n \in Nat /\ r \in 0 .. 3 /\ Len(plays) = 4 * n + r
      /\ Len(after) = Len(plays) + 1 /\ after[Len(plays) + 1] = a
      /\ \A i \in 1 .. Len(plays) : after[i] = plays[i]
  BY PlayAdds
<1>2. a.card \in Card
  <2>1. a.seat \in Seat /\ a.card \in HandOf(b, acts, a.seat)
    BY PlayAdds
  <2> QED BY <2>1, TableAssumption DEF HandOf
<1>3. /\ TrickCards(acts) \in Seq(Card) /\ Len(TrickCards(acts)) = r
      /\ \A i \in 1 .. r : TrickCards(acts)[i] = plays[4 * n + i].card
  BY TrickCardsAre
<1>4. /\ trick \in Seq(Card) /\ Len(trick) = r + 1 /\ trick[r + 1] = a.card
      /\ \A i \in 1 .. r : trick[i] = TrickCards(acts)[i]
  BY <1>2, <1>3, AppendProperties
<1>5. Sound(b, Append(acts, a))
  BY SoundPlay
<1>6. \A i, j \in 1 .. Len(after) : after[i].card = after[j].card => i = j
  BY <1>5 DEF Sound, OwnCards
<1> HIDE DEF trick, n, plays, r, after
<1>7. \A i \in 1 .. r + 1 : trick[i] = after[4 * n + i].card
  <2> TAKE i \in 1 .. r + 1
  <2>1. CASE i = r + 1
    <3>1. 4 * n + i = Len(plays) + 1
      BY <1>1, <2>1
    <3> QED BY <1>1, <1>4, <2>1, <3>1
  <2>2. CASE i \in 1 .. r
    <3>1. 4 * n + i \in 1 .. Len(plays)
      BY <1>1, <2>2
    <3> QED BY <1>1, <1>3, <1>4, <2>2, <3>1
  <2> QED BY <1>1, <2>1, <2>2
<1>8. ASSUME NEW i \in 1 .. r + 1, NEW j \in 1 .. r + 1, trick[i] = trick[j] PROVE i = j
  <2>1. 4 * n + i \in 1 .. Len(after) /\ 4 * n + j \in 1 .. Len(after)
    BY <1>1
  <2>2. 4 * n + i = 4 * n + j
    BY <1>6, <1>7, <1>8, <2>1
  <2> QED BY <1>1, <2>2
<1> QED BY <1>2, <1>4, <1>7, <1>8 DEF trick, n, plays, r, after

\* The score before and after a trick.
LEMMA ScoreGrows ==
  ASSUME NEW b \in Boards, NEW acts, Sound(b, acts), NEW a \in Action,
         a.type = "play", Admits(b, acts, a)
  PROVE  LET more == Append(acts, a)
             n    == Done(acts)
             r    == Len(PlaysOf(acts)) - 4 * n
             side == SideOf(LeadOf(b, more)[n + 1])
         IN  /\ r < 3 => WonOf(b, more) = WonOf(b, acts)
             /\ r = 3 => WonOf(b, more) = [WonOf(b, acts) EXCEPT ![side] = @ + 1]
<1> DEFINE more == Append(acts, a)
           n == Done(acts)
           r == Len(PlaysOf(acts)) - 4 * n
           lead == LeadOf(b, acts)
           next == LeadOf(b, more)
           W(s) == {k \in 1 .. n : SideOf(lead[k]) = s}
           X(s) == {k \in 1 .. Done(more) : SideOf(next[k]) = s}
<1>1. /\ n \in Nat
      /\ r < 3 => Done(more) = n
      /\ r = 3 => Done(more) = n + 1
      /\ \A k \in 0 .. n : next[k] = lead[k]
  BY PlayAdds
<1>2. /\ WonOf(b, acts) = [s \in Side |-> Cardinality(W(s))]
      /\ WonOf(b, more) = [s \in Side |-> Cardinality(X(s))]
  BY DEF WonOf
<1> HIDE DEF n, r, lead, next, more
<1>3. ASSUME r < 3 PROVE \A s : X(s) = W(s)
  BY <1>1, <1>3
<1>4. ASSUME r = 3, NEW s
      PROVE  X(s) = IF s = SideOf(next[n + 1]) THEN W(s) \cup {n + 1} ELSE W(s)
  <2>1. \A k : k \in 1 .. n + 1 <=> k \in 1 .. n \/ k = n + 1
    BY <1>1
  <2>2. \A k \in 1 .. n : next[k] = lead[k]
    BY <1>1
  <2> QED BY <1>1, <1>4, <2>1, <2>2
<1>5. \A s : IsFiniteSet(W(s)) /\ n + 1 \notin W(s)
  <2>1. IsFiniteSet(1 .. n)
    BY <1>1, FS_Interval
  <2>2. \A s : W(s) \subseteq 1 .. n
    OBVIOUS
  <2> HIDE DEF W
  <2>3. \A s : IsFiniteSet(W(s))
    BY <2>1, <2>2, FS_Subset
  <2>4. n + 1 \notin 1 .. n
    BY <1>1
  <2> QED BY <2>2, <2>3, <2>4
<1> HIDE DEF W, X
<1>6. ASSUME r < 3 PROVE WonOf(b, more) = WonOf(b, acts)
  BY <1>2, <1>3, <1>6
<1>7. ASSUME r = 3
      PROVE  WonOf(b, more) = [WonOf(b, acts) EXCEPT ![SideOf(next[n + 1])] = @ + 1]
  <2>1. ASSUME NEW s \in Side
        PROVE  Cardinality(X(s)) = IF s = SideOf(next[n + 1]) THEN Cardinality(W(s)) + 1
                                   ELSE Cardinality(W(s))
    <3>1. CASE s = SideOf(next[n + 1])
      <4>1. X(s) = W(s) \cup {n + 1}
        BY <1>4, <1>7, <3>1
      <4> QED BY <1>5, <3>1, <4>1, FS_AddElement
    <3>2. CASE s # SideOf(next[n + 1])
      BY <1>4, <1>7, <3>2
    <3> QED BY <3>1, <3>2
  <2> QED BY <1>2, <2>1
<1> QED BY <1>6, <1>7 DEF more, n, r, next

\* A contract is in the strain of the high bid.
LEMMA StrainIs ==
  ASSUME NEW b \in Boards, NEW acts, Sound(b, acts), InPlay(b, acts)
  PROVE  /\ TheContract(b, acts).strain = High(CallsOf(acts)).strain
         /\ High(CallsOf(acts)).strain \in Strain
<1> DEFINE calls == CallsOf(acts)
           bid == LastBid(calls)
<1>1. calls \in Seq(AllCalls) /\ b.dealer \in Seat
  BY PlayTyped
<1>2. IsComplete(calls) /\ bid # 0
  BY DEF InPlay, TheContract, Contract
<1>3. TheContract(b, acts).strain = High(calls).strain
  BY <1>1, <1>2, DeclarerIs DEF TheContract
<1>4. bid \in 1 .. Len(calls) /\ IsBid(calls[bid])
  BY <1>1, <1>2, LastBidIs DEF LastIs
<1>5. calls[bid].strain \in Strain
  BY <1>1, <1>4, CallKinds
<1> QED BY <1>2, <1>3, <1>5 DEF High

\* The position after a card in the middle of a trick.
LEMMA MidTrick ==
  ASSUME NEW b \in Boards, NEW acts, Sound(b, acts), NEW a \in Action,
         a.type = "play", Admits(b, acts, a), Len(PlaysOf(acts)) - 4 * Done(acts) < 3
  PROVE  Position(b, Append(acts, a)) =
           Where(b, CallsOf(acts), "play", NextSeat(a.seat), Hands(b, Append(acts, a)),
                 LeadOf(b, acts)[Done(acts)], Append(TrickCards(acts), a.card), WonOf(b, acts))
<1> DEFINE more == Append(acts, a)
           n == Done(acts)
           r == Len(PlaysOf(acts)) - 4 * n
           after == PlaysOf(more)
           trick == Append(TrickCards(acts), a.card)
           g == Fold(b, more)
<1>1. /\ n \in Nat /\ r \in 0 .. 3 /\ Len(PlaysOf(acts)) = 4 * n + r /\ Len(PlaysOf(acts)) \in Nat
      /\ Done(more) = n /\ n < Tricks /\ Tricks \in Nat
      /\ Len(after) = Len(PlaysOf(acts)) + 1 /\ after[Len(PlaysOf(acts)) + 1] = a
      /\ InPlay(b, more) /\ CallsOf(more) = CallsOf(acts)
  BY PlayAdds
<1>2. /\ ClaimsOf(more) = <<>> /\ LeadOf(b, more)[n] = LeadOf(b, acts)[n]
  <2>1. n \in 0 .. n
    BY <1>1
  <2> QED BY <2>1, PlayAdds
<1>3. Sound(b, more) /\ more \in Seq(Action)
  BY SoundPlay DEF Sound
<1>4. ~Over(Done(more), ClaimsOf(more))
  BY <1>1, <1>2 DEF Over
<1>5. Trick(more) # <<>> /\ Last(Trick(more)) = a
  <2>1. Len(after) # 4 * Done(more) /\ after[Len(after)] = a
    <3> HIDE DEF n, r, after, more
    <3> QED BY <1>1
  <2> QED BY <1>3, <2>1, Progress
<1>6. WonOf(b, more) = WonOf(b, acts)
  BY ScoreGrows
<1>7. TrickCards(more) = trick
  <2>1. /\ trick \in Seq(Card) /\ Len(trick) = r + 1
        /\ \A i \in 1 .. r + 1 : trick[i] = after[4 * n + i].card
    BY TrickGrows
  <2>2. Len(after) - 4 * Done(more) = r + 1
    BY <1>1
  <2>3. /\ TrickCards(more) \in Seq(Card) /\ Len(TrickCards(more)) = r + 1
        /\ \A i \in 1 .. r + 1 : TrickCards(more)[i] = after[4 * n + i].card
    BY <1>1, <1>3, <2>2, TrickCardsAre
  <2> HIDE DEF trick, n, r, after, more
  <2> QED BY <2>1, <2>3, SeqEqual
<1>8. /\ g.phase = "play" /\ g.turn = NextSeat(a.seat) /\ g.won = WonOf(b, acts)
  BY <1>1, <1>2, <1>4, <1>5, <1>6, FoldInPlay
<1> HIDE DEF g, more
<1>9. Position(b, more) = Where(b, CallsOf(more), g.phase, g.turn, Hands(b, more),
                                LeadOf(b, more)[Done(more)], TrickCards(more), g.won)
  BY <1>1, <1>3, PositionInPlay DEF g
<1> QED BY <1>1, <1>2, <1>7, <1>8, <1>9 DEF more

\* The winner of the trick after the n-th.
LEMMA WinnerOf ==
  ASSUME NEW contract, NEW played, NEW n \in Nat, NEW leader
  PROVE  Winner(contract, played, n + 1, leader) =
           TrickWinner(leader, <<played[4 * n + 1].card, played[4 * n + 2].card,
                                 played[4 * n + 3].card, played[4 * n + 4].card>>,
                       TrumpOf(contract.strain))
<1>1. \A i \in 1 .. 4 : 4 * ((n + 1) - 1) + i = 4 * n + i
  OBVIOUS
<1> QED BY <1>1 DEF Winner

\* The position after the card that ends a trick.
LEMMA TrickEnds ==
  ASSUME NEW b \in Boards, NEW acts, Sound(b, acts), NEW a \in Action,
         a.type = "play", Admits(b, acts, a), Len(PlaysOf(acts)) - 4 * Done(acts) = 3,
         NEW best \in 1 .. 4,
         LET trick    == Append(TrickCards(acts), a.card)
             power(i) == Game!Power(trick[i], trick[1].suit, High(CallsOf(acts)).strain)
         IN  \A j \in 1 .. 4 : power(j) <= power(best)
  PROVE  LET more   == Append(acts, a)
             winner == SeatAfter(LeadOf(b, acts)[Done(acts)], best - 1)
             done   == \A s \in Seat : HandOf(b, more, s) = {}
         IN  Position(b, more) =
               Where(b, CallsOf(acts), IF done THEN "complete" ELSE "play",
                     IF done THEN NoSeat ELSE winner, Hands(b, more), winner, <<>>,
                     [WonOf(b, acts) EXCEPT ![SideOf(winner)] = @ + 1])
<1> DEFINE more == Append(acts, a)
           n == Done(acts)
           after == PlaysOf(more)
           trick == Append(TrickCards(acts), a.card)
           g == Fold(b, more)
           winner == SeatAfter(LeadOf(b, acts)[n], best - 1)
           done == \A s \in Seat : HandOf(b, more, s) = {}
           strain == High(CallsOf(acts)).strain
<1>1. /\ n \in Nat /\ Len(after) = 4 * (n + 1) /\ after \in Seq(PlayActions)
      /\ Done(more) = n + 1 /\ n < Tricks /\ Tricks \in Nat
      /\ InPlay(b, more) /\ CallsOf(more) = CallsOf(acts)
      /\ InPlay(b, acts) /\ TheContract(b, more) = TheContract(b, acts)
  BY PlayAdds
<1>2. /\ ClaimsOf(more) = <<>> /\ LeadOf(b, more)[n] = LeadOf(b, acts)[n]
  <2>1. n \in 0 .. n
    BY <1>1
  <2>2. \A k \in 0 .. n : LeadOf(b, more)[k] = LeadOf(b, acts)[k]
    BY PlayAdds
  <2>3. ClaimsOf(more) = <<>>
    BY PlayAdds
  <2> QED BY <2>1, <2>2, <2>3
<1>3. Sound(b, more) /\ more \in Seq(Action)
  BY SoundPlay DEF Sound
<1>4. Over(Done(more), ClaimsOf(more)) <=> n + 1 = Tricks
  BY <1>1, <1>2 DEF Over
<1>5. Trick(more) = <<>>
  BY <1>1, <1>3, Progress
<1>6. TrickCards(more) = <<>>
  BY <1>5 DEF TrickCards
<1>7. LeadOf(b, more)[n + 1] = winner
  <2>1. /\ Len(trick) = 4 /\ \A i \in 1 .. 4 : trick[i] \in Card
        /\ \A i \in 1 .. 4 : trick[i] = after[4 * n + i].card
        /\ \A i, j \in 1 .. 4 : trick[i] = trick[j] => i = j
    <3>1. trick \in Seq(Card) /\ Len(trick) = 3 + 1
      BY TrickGrows
    <3>2. \A i \in 1 .. 3 + 1 : trick[i] = after[4 * n + i].card
      BY TrickGrows
    <3>3. \A i, j \in 1 .. 3 + 1 : trick[i] = trick[j] => i = j
      BY TrickGrows
    <3>4. 3 + 1 = 4
      OBVIOUS
    <3> HIDE DEF trick, after, n
    <3>5. Len(trick) = 4 /\ \A i \in 1 .. 4 : trick[i] \in Card
      <4>1. trick \in Seq(Card) /\ Len(trick) = 4
        BY <3>1, <3>4
      <4> QED BY <4>1, ElementOfSeq
    <3>6. \A i \in 1 .. 4 : trick[i] = after[4 * n + i].card
      BY <3>2, <3>4
    <3>7. \A i, j \in 1 .. 4 : trick[i] = trick[j] => i = j
      BY <3>3, <3>4
    <3> QED BY <3>5, <3>6, <3>7
  <2>2. strain \in Strain /\ TheContract(b, acts).strain = strain
    BY <1>1, StrainIs
  <2>3. TrickWinner(LeadOf(b, acts)[n], trick, TrumpOf(strain)) = winner
    <3>1. \A j \in 1 .. 4 : Game!Power(trick[j], trick[1].suit, strain)
                             <= Game!Power(trick[best], trick[1].suit, strain)
      OBVIOUS
    <3> HIDE DEF trick, strain, n
    <3> QED BY <2>1, <2>2, <3>1, WinnerHasMostPower
  <2>4. LeadOf(b, more)[n + 1] = Winner(TheContract(b, acts), after, n + 1, LeadOf(b, acts)[n])
    <3>1. n + 1 \in 1 .. Len(after) \div 4 /\ (n + 1) - 1 = n
      <4>1. Len(after) \div 4 = n + 1
        BY <1>1 DEF Done
      <4> HIDE DEF n, after
      <4>2. n + 1 \in 1 .. n + 1 /\ (n + 1) - 1 = n
        BY <1>1
      <4> QED BY <4>1, <4>2
    <3>2. TheContract(b, more).declarer \in Seat
      BY <1>1, <1>3, PlayTyped
    <3>3. LeadOf(b, more)[n + 1] = Winner(TheContract(b, more), after, n + 1,
                                          LeadOf(b, more)[(n + 1) - 1])
      BY <1>1, <3>1, <3>2, LeadersAre DEF LeadOf
    <3> QED BY <1>1, <1>2, <3>1, <3>3
  <2>5. Winner(TheContract(b, acts), after, n + 1, LeadOf(b, acts)[n]) =
          TrickWinner(LeadOf(b, acts)[n], <<trick[1], trick[2], trick[3], trick[4]>>,
                      TrumpOf(strain))
    <3>1. /\ trick[1] = after[4 * n + 1].card /\ trick[2] = after[4 * n + 2].card
          /\ trick[3] = after[4 * n + 3].card /\ trick[4] = after[4 * n + 4].card
      <4> HIDE DEF trick, after, n
      <4> QED BY <2>1
    <3> HIDE DEF trick, after, n, strain
    <3>2. Winner(TheContract(b, acts), after, n + 1, LeadOf(b, acts)[n]) =
            TrickWinner(LeadOf(b, acts)[n],
              <<after[4 * n + 1].card, after[4 * n + 2].card,
                after[4 * n + 3].card, after[4 * n + 4].card>>,
              TrumpOf(TheContract(b, acts).strain))
      BY <1>1, WinnerOf
    <3> QED BY <2>2, <3>1, <3>2
  <2>6. TrickWinner(LeadOf(b, acts)[n], <<trick[1], trick[2], trick[3], trick[4]>>, TrumpOf(strain))
          = TrickWinner(LeadOf(b, acts)[n], trick, TrumpOf(strain))
    <3> DEFINE same == <<trick[1], trick[2], trick[3], trick[4]>>
    <3> HIDE DEF trick, strain, n
    <3>1. same[1] = trick[1] /\ same[2] = trick[2] /\ same[3] = trick[3] /\ same[4] = trick[4]
      OBVIOUS
    <3> HIDE DEF same
    <3> DEFINE best4(cards) ==
                 LET on(w, i) == IF Beats(cards[i], cards[w], cards[1].suit, TrumpOf(strain))
                                 THEN i ELSE w
                 IN  on(on(on(1, 2), 3), 4)
    <3>2. best4(same) = best4(trick)
      BY <3>1
    <3> QED BY <3>2 DEF TrickWinner
  <2> QED BY <2>3, <2>4, <2>5, <2>6
<1>8. WonOf(b, more) = [WonOf(b, acts) EXCEPT ![SideOf(winner)] = @ + 1]
  BY <1>7, ScoreGrows
<1>9. done <=> n + 1 = Tricks
  <2>1. ASSUME NEW s \in Seat
        PROVE  IsFiniteSet(HandOf(b, more, s)) /\ Cardinality(HandOf(b, more, s)) = Tricks - (n + 1)
    <3>1. ~InTrick(more, s)
      <4>1. 4 * Done(more) + 1 .. Len(after) = {}
        BY <1>1
      <4> QED BY <4>1 DEF InTrick
    <3> QED BY <1>1, <1>3, <3>1 DEF Sound, HandsShrink
  <2>2. \A s \in Seat : HandOf(b, more, s) = {} <=> Tricks - (n + 1) = 0
    BY <2>1, FS_EmptySet
  <2>3. 0 \in Seat /\ (Tricks - (n + 1) = 0 <=> n + 1 = Tricks)
    BY <1>1 DEF Seat
  <2> QED BY <2>2, <2>3
<1>10. /\ g.phase = IF done THEN "complete" ELSE "play"
       /\ g.turn = IF done THEN NoSeat ELSE winner
       /\ g.won = [WonOf(b, acts) EXCEPT ![SideOf(winner)] = @ + 1]
  <2>1. /\ g.phase = IF Over(Done(more), ClaimsOf(more)) THEN "complete" ELSE "play"
        /\ g.turn = IF Over(Done(more), ClaimsOf(more)) THEN NoSeat ELSE LeadOf(b, more)[Done(more)]
        /\ g.won = WonOf(b, more)
    BY <1>1, <1>2, <1>5, FoldInPlay
  <2> HIDE DEF g, done, winner, more
  <2> QED BY <1>1, <1>4, <1>7, <1>8, <1>9, <2>1
<1> HIDE DEF g, more, done, winner
<1>11. Position(b, more) = Where(b, CallsOf(more), g.phase, g.turn, Hands(b, more),
                                 LeadOf(b, more)[Done(more)], TrickCards(more), g.won)
  BY <1>1, <1>3, PositionInPlay DEF g
<1> QED BY <1>1, <1>6, <1>7, <1>10, <1>11 DEF more, done, winner

\* The best card of a full trick has the most power.
LEMMA BestIs ==
  ASSUME NEW trick \in Seq(Card), Len(trick) = 4, NEW strain \in Strain
  PROVE  /\ Game!Best(trick, strain) \in 1 .. 4
         /\ \A j \in 1 .. 4 :
              Game!Power(trick[j], trick[1].suit, strain)
                <= Game!Power(trick[Game!Best(trick, strain)], trick[1].suit, strain)
<1> DEFINE power(i) == Game!Power(trick[i], trick[1].suit, strain)
<1>1. DOMAIN trick = 1 .. 4
  OBVIOUS
<1>2. \A i \in 1 .. 4 : trick[i] \in Card
  BY ElementOfSeq
<1>3. \A i \in 1 .. 4 : power(i) \in Nat
  <2>1. trick[1].suit \in Suit
    BY <1>2 DEF Card
  <2> QED BY <1>2, <2>1, BeatsByPower
<1>4. Game!Best(trick, strain) =
        CHOOSE i \in 1 .. 4 : \A j \in 1 .. 4 : power(j) <= power(i)
  BY <1>1 DEF Game!Best
<1> HIDE DEF power
<1>5. \E i \in 1 .. 4 : \A j \in 1 .. 4 : power(j) <= power(i)
  BY <1>3, Greatest
<1>6. /\ Game!Best(trick, strain) \in 1 .. 4
      /\ \A j \in 1 .. 4 : power(j) <= power(Game!Best(trick, strain))
  BY <1>4, <1>5
<1> QED BY <1>6 DEF power

\* The positions a card leads to, by what of a position changes.
Played(p, card, trick) ==
  [p EXCEPT !.hands[p.turn] = @ \ {card}, !.trick = trick, !.turn = Game!NextSeat(@)]
TrickWon(p, winner) ==
  [p EXCEPT !.trick = <<>>, !.leader = winner, !.turn = winner,
            !.won[Game!SideOf(winner)] = @ + 1]
Ended(p) == [p EXCEPT !.phase = "complete", !.turn = Game!NoSeat]

\* Positions with the same fields are the same.
LEMMA SamePosition ==
  ASSUME NEW p, NEW q, IsPosition(p), IsPosition(q), \A x \in Fields : p[x] = q[x]
  PROVE  p = q
BY DEF IsPosition

\* The fields after a card.
LEMMA PlayedIs ==
  ASSUME NEW p, IsPosition(p), NEW card, NEW trick
  PROVE  LET q == Played(p, card, trick)
         IN  /\ IsPosition(q)
             /\ q.hands = [p.hands EXCEPT ![p.turn] = @ \ {card}]
             /\ q.trick = trick /\ q.turn = Game!NextSeat(p.turn)
             /\ q.phase = p.phase /\ q.high = p.high /\ q.highSide = p.highSide
             /\ q.doubled = p.doubled /\ q.passes = p.passes /\ q.named = p.named
             /\ q.leader = p.leader /\ q.won = p.won
<1>1. IsPosition(Played(p, card, trick))
  BY DEF IsPosition, Fields, Played
<1>2. Played(p, card, trick).hands = [p.hands EXCEPT ![p.turn] = @ \ {card}]
  BY DEF IsPosition, Fields, Played
<1>3. Played(p, card, trick).trick = trick
  BY DEF IsPosition, Fields, Played
<1>4. Played(p, card, trick).turn = Game!NextSeat(p.turn)
  BY DEF IsPosition, Fields, Played
<1> DEFINE q == Played(p, card, trick)
<1>5. /\ q.phase = p.phase /\ q.high = p.high /\ q.highSide = p.highSide
      /\ q.doubled = p.doubled /\ q.passes = p.passes /\ q.named = p.named
      /\ q.leader = p.leader /\ q.won = p.won
  BY DEF IsPosition, Fields, Played
<1> QED BY <1>1, <1>2, <1>3, <1>4, <1>5

\* The fields after a trick is won.
LEMMA TrickWonIs ==
  ASSUME NEW p, IsPosition(p), NEW winner
  PROVE  LET q == TrickWon(p, winner)
         IN  /\ IsPosition(q)
             /\ q.won = [p.won EXCEPT ![Game!SideOf(winner)] = @ + 1]
             /\ q.trick = <<>> /\ q.turn = winner /\ q.leader = winner
             /\ q.phase = p.phase /\ q.high = p.high /\ q.highSide = p.highSide
             /\ q.doubled = p.doubled /\ q.passes = p.passes /\ q.named = p.named
             /\ q.hands = p.hands
<1>1. IsPosition(TrickWon(p, winner))
  BY DEF IsPosition, Fields, TrickWon
<1>2. TrickWon(p, winner).won = [p.won EXCEPT ![Game!SideOf(winner)] = @ + 1]
  BY DEF IsPosition, Fields, TrickWon
<1>3. TrickWon(p, winner).trick = <<>>
  BY DEF IsPosition, Fields, TrickWon
<1>4. TrickWon(p, winner).turn = winner /\ TrickWon(p, winner).leader = winner
  BY DEF IsPosition, Fields, TrickWon
<1> DEFINE q == TrickWon(p, winner)
<1>5. /\ q.phase = p.phase /\ q.high = p.high /\ q.highSide = p.highSide
      /\ q.doubled = p.doubled /\ q.passes = p.passes /\ q.named = p.named
      /\ q.hands = p.hands
  BY DEF IsPosition, Fields, TrickWon
<1> QED BY <1>1, <1>2, <1>3, <1>4, <1>5

\* The fields once the board is over.
LEMMA EndedIs ==
  ASSUME NEW p, IsPosition(p)
  PROVE  /\ IsPosition(Ended(p))
         /\ Ended(p).phase = "complete" /\ Ended(p).turn = Game!NoSeat
         /\ \A x \in Fields \ {"phase", "turn"} : Ended(p)[x] = p[x]
BY DEF IsPosition, Fields, Ended

\* A card admitted to the log is the same card played in the game.
LEMMA PlayMoves ==
  ASSUME NEW b \in Boards, NEW acts, Sound(b, acts), NEW a \in Action,
         a.type = "play", Admits(b, acts, a)
  PROVE  Game!Moves(Position(b, acts), Position(b, Append(acts, a)))
<1> DEFINE more == Append(acts, a)
           n == Done(acts)
           r == Len(PlaysOf(acts)) - 4 * n
           p == Position(b, acts)
           q == Position(b, more)
           card == a.card
           calls == CallsOf(acts)
           lead == LeadOf(b, acts)[n]
           trick == Append(TrickCards(acts), card)
           won == WonOf(b, acts)
<1>1. /\ InPlay(b, acts) /\ ~Over(n, ClaimsOf(acts)) /\ ClaimsOf(acts) = <<>>
      /\ Fold(b, acts).turn = a.seat /\ card \in Legal(b, Fold(b, acts), a.seat)
      /\ a.seat \in Seat /\ card \in HandOf(b, acts, a.seat) /\ r \in 0 .. 3
  BY PlayAdds
<1>2. /\ Fold(b, acts).phase = "play" /\ Fold(b, acts).won = won
      /\ Fold(b, acts).trick = Trick(acts)
  BY <1>1, FoldInPlay
<1>3. p = Where(b, calls, "play", a.seat, Hands(b, acts), lead, TrickCards(acts), won)
  BY <1>1, <1>2, PositionInPlay
<1>4. /\ IsPosition(p) /\ p.phase = "play" /\ p.turn = a.seat /\ p.hands = Hands(b, acts)
      /\ p.leader = lead /\ p.trick = TrickCards(acts) /\ p.won = won
      /\ p.high = High(calls)
  BY <1>3, WhereIsPosition
<1>5. /\ trick \in Seq(Card) /\ Len(trick) = r + 1 /\ card \in Card
  BY TrickGrows
<1>6. /\ TrickCards(acts) \in Seq(Card) /\ Len(TrickCards(acts)) = r
      /\ Trick(acts) = <<>> <=> r = 0
      /\ \A i \in 1 .. r : Trick(acts)[i].card = TrickCards(acts)[i]
  BY TrickCardsAre
<1>7. p.hands[p.turn] = HandOf(b, acts, a.seat)
  BY <1>1, <1>4 DEF Hands
<1>8. Hands(b, more) = [p.hands EXCEPT ![p.turn] = @ \ {card}]
  <2>1. \A s : HandOf(b, more, s) = IF s = a.seat THEN HandOf(b, acts, s) \ {card}
                                    ELSE HandOf(b, acts, s)
    BY PlayAdds
  <2> HIDE DEF more, card, p
  <2> QED BY <1>4, <2>1 DEF Hands
<1> HIDE DEF more, n, r, p, q, card, calls, lead, won
<1>9. card.suit = trick[1].suit \/ \A c \in p.hands[p.turn] : c.suit # trick[1].suit
  <2>1. Remaining(b, Fold(b, acts), a.seat) = HandOf(b, acts, a.seat)
    BY <1>1, HandsByFold
  <2>2. CASE r = 0
    <3>1. TrickCards(acts) = <<>>
      BY <1>6, <2>2, EmptySeq
    <3> QED BY <3>1
  <2>3. CASE r # 0
    <3>1. trick[1] = TrickCards(acts)[1] /\ Trick(acts)[1].card = TrickCards(acts)[1]
          /\ Trick(acts) # <<>>
      BY <1>1, <1>5, <1>6, <2>3, AppendProperties
    <3>2. LeadSuit(Fold(b, acts)) = {trick[1].suit}
      BY <1>2, <3>1 DEF LeadSuit
    <3> HIDE DEF trick
    <3>3. card \in LegalCards(HandOf(b, acts, a.seat), {trick[1].suit})
      BY <1>1, <2>1, <3>2 DEF Legal
    <3> QED BY <1>7, <3>3 DEF LegalCards
  <2> QED BY <2>2, <2>3
<1> DEFINE next == Played(p, card, trick)
           best == Game!Best(trick, p.high.strain)
           winner == Game!SeatAfter(p.leader, best - 1)
           after == TrickWon(next, winner)
           result == IF Len(trick) < 4 THEN next
                     ELSE IF \A s \in Game!Seat : after.hands[s] = {} THEN Ended(after)
                     ELSE after
<1> HIDE DEF trick
<1>10. /\ IsPosition(next) /\ next.hands = Hands(b, more)
       /\ next.trick = trick /\ next.turn = Game!NextSeat(p.turn)
       /\ next.phase = "play" /\ next.leader = lead /\ next.won = won
       /\ next.high = p.high /\ next.highSide = p.highSide /\ next.doubled = p.doubled
       /\ next.passes = p.passes /\ next.named = p.named
  <2>1. IsPosition(p)
    BY <1>4
  <2> HIDE DEF next
  <2>2. /\ IsPosition(next) /\ next.hands = [p.hands EXCEPT ![p.turn] = @ \ {card}]
        /\ next.trick = trick /\ next.turn = Game!NextSeat(p.turn)
        /\ next.phase = p.phase /\ next.leader = p.leader /\ next.won = p.won
        /\ next.high = p.high /\ next.highSide = p.highSide /\ next.doubled = p.doubled
        /\ next.passes = p.passes /\ next.named = p.named
    BY <2>1, PlayedIs DEF next
  <2> QED BY <1>4, <1>8, <2>2
<1>11. /\ p.high = High(calls) /\ p.highSide = HighSide(b, calls)
       /\ p.doubled = DoubledTimes(calls) /\ p.passes = Len(calls) - LastAction(calls)
       /\ p.named = FirstNamed(b, calls)
  BY <1>3, WhereIsPosition
<1> HIDE DEF next
<1>12. q = result
  <2>1. CASE r < 3
    <3>1. q = Where(b, calls, "play", NextSeat(a.seat), Hands(b, more), lead, trick, won)
      BY <2>1, MidTrick DEF q, more, n, r, calls, lead, won, card, trick
    <3>2. IsPosition(q)
      BY <3>1, WhereIsPosition
    <3>3. /\ q.phase = "play" /\ q.turn = NextSeat(a.seat) /\ q.hands = Hands(b, more)
          /\ q.leader = lead /\ q.trick = trick /\ q.won = won
          /\ q.high = High(calls) /\ q.highSide = HighSide(b, calls)
          /\ q.doubled = DoubledTimes(calls) /\ q.passes = Len(calls) - LastAction(calls)
          /\ q.named = FirstNamed(b, calls)
      BY <3>1, WhereIsPosition
    <3>4. NextSeat(a.seat) = Game!NextSeat(p.turn)
      BY <1>4, SameSeats
    <3>5. \A x \in Fields : q[x] = next[x]
      BY <1>10, <1>11, <3>3, <3>4 DEF Fields
    <3>6. q = next
      BY <1>10, <3>2, <3>5, SamePosition
    <3>7. Len(trick) < 4
      BY <1>1, <1>5, <2>1
    <3> QED BY <3>6, <3>7
  <2>2. CASE r = 3
    <3>1. Len(trick) = 4 /\ p.high.strain \in Strain /\ p.high.strain = High(calls).strain
      BY <1>1, <1>4, <1>5, <2>2, StrainIs DEF calls
    <3>2. /\ best \in 1 .. 4
          /\ \A j \in 1 .. 4 : Game!Power(trick[j], trick[1].suit, High(calls).strain)
                                 <= Game!Power(trick[best], trick[1].suit, High(calls).strain)
      BY <1>5, <3>1, BestIs
    <3>3. winner = SeatAfter(lead, best - 1)
      BY <1>4, SameSeats
    <3> DEFINE done == \A s \in Seat : HandOf(b, more, s) = {}
    <3>4. q = Where(b, calls, IF done THEN "complete" ELSE "play",
                    IF done THEN NoSeat ELSE winner, Hands(b, more), winner, <<>>,
                    [won EXCEPT ![SideOf(winner)] = @ + 1])
      <4> HIDE DEF best, winner
      <4>1. /\ best \in 1 .. 4
            /\ \A j \in 1 .. 4 :
                 Game!Power(Append(TrickCards(acts), a.card)[j],
                            Append(TrickCards(acts), a.card)[1].suit,
                            High(CallsOf(acts)).strain)
                   <= Game!Power(Append(TrickCards(acts), a.card)[best],
                                 Append(TrickCards(acts), a.card)[1].suit,
                                 High(CallsOf(acts)).strain)
        BY <3>2 DEF trick, calls, card
      <4>2. Len(PlaysOf(acts)) - 4 * Done(acts) = 3
        BY <2>2 DEF r, n
      <4>3. winner = SeatAfter(LeadOf(b, acts)[Done(acts)], best - 1)
        BY <3>3 DEF lead, n
      <4> HIDE DEF trick
      <4> DEFINE place == SeatAfter(LeadOf(b, acts)[Done(acts)], best - 1)
                 none == \A s \in Seat : HandOf(b, Append(acts, a), s) = {}
      <4>4. Position(b, Append(acts, a)) =
              Where(b, CallsOf(acts), IF none THEN "complete" ELSE "play",
                    IF none THEN NoSeat ELSE place, Hands(b, Append(acts, a)), place, <<>>,
                    [WonOf(b, acts) EXCEPT ![SideOf(place)] = @ + 1])
        BY <4>1, <4>2, TrickEnds
      <4> QED BY <4>3, <4>4 DEF q, more, calls, won
    <3> HIDE DEF best, winner, done
    <3> DEFINE phase == IF done THEN "complete" ELSE "play"
               turn == IF done THEN NoSeat ELSE winner
               score == [won EXCEPT ![SideOf(winner)] = @ + 1]
    <3>5. q = Where(b, calls, phase, turn, Hands(b, more), winner, <<>>, score)
      BY <3>4
    <3> HIDE DEF score, phase, turn
    <3>6. IsPosition(q)
      BY <3>5, WhereIsPosition
    <3>7. /\ q.phase = phase /\ q.turn = turn /\ q.hands = Hands(b, more)
          /\ q.leader = winner /\ q.trick = <<>> /\ q.won = score
          /\ q.high = High(calls) /\ q.highSide = HighSide(b, calls)
          /\ q.doubled = DoubledTimes(calls) /\ q.passes = Len(calls) - LastAction(calls)
          /\ q.named = FirstNamed(b, calls)
      BY <3>5, WhereIsPosition
    <3>8. /\ IsPosition(after) /\ after.phase = "play" /\ after.turn = winner
          /\ after.hands = Hands(b, more) /\ after.leader = winner /\ after.trick = <<>>
          /\ after.won = score
          /\ after.high = p.high /\ after.highSide = p.highSide
          /\ after.doubled = p.doubled /\ after.passes = p.passes /\ after.named = p.named
      <4>1. Game!SideOf(winner) = SideOf(winner)
        BY SameSeats
      <4> QED BY <1>10, <4>1, TrickWonIs DEF score
    <3> HIDE DEF after
    <3>9. done <=> \A s \in Game!Seat : after.hands[s] = {}
      <4>1. Game!Seat = Seat
        BY SameSeats
      <4> QED BY <3>8, <4>1 DEF Hands, done
    <3>10. CASE done
      <4> DEFINE end == Ended(after)
      <4>1. /\ IsPosition(end) /\ end.phase = "complete" /\ end.turn = NoSeat
            /\ \A x \in Fields \ {"phase", "turn"} : end[x] = after[x]
        BY <3>8, SameSeats, EndedIs
      <4> HIDE DEF end
      <4>2. phase = "complete" /\ turn = NoSeat
        BY <3>10 DEF phase, turn
      <4>3. \A x \in Fields : q[x] = end[x]
        BY <1>11, <3>7, <3>8, <4>1, <4>2 DEF Fields
      <4>4. q = end
        BY <3>6, <4>1, <4>3, SamePosition
      <4> QED BY <3>1, <3>9, <3>10, <4>4 DEF end
    <3>11. CASE ~done
      <4>1. phase = "play" /\ turn = winner
        BY <3>11 DEF phase, turn
      <4>2. \A x \in Fields : q[x] = after[x]
        BY <1>11, <3>7, <3>8, <4>1 DEF Fields
      <4>3. q = after
        BY <3>6, <3>8, <4>2, SamePosition
      <4> QED BY <3>1, <3>9, <3>11, <4>3
    <3> QED BY <3>10, <3>11
  <2> QED BY <1>1, <2>1, <2>2
<1>13. Game!CardPlayed(p, q, card)
  <2>1. trick = Append(p.trick, card)
    BY <1>4 DEF trick
  <2>2. card \in p.hands[p.turn]
    BY <1>1, <1>7 DEF card
  <2> QED BY <1>4, <1>9, <1>12, <2>1, <2>2 DEF Game!CardPlayed, Played, TrickWon, Ended, next
<1>14. card \in UNION {p.hands[s] : s \in Game!Seat}
  BY <1>1, <1>4, <1>7, SameSeats DEF card
<1> QED BY <1>13, <1>14 DEF Game!Moves, p, q, more

-----------------------------------------------------------------------------
(* The table plays the game: the history variables and the refinement. *)

\* The auction of the log, and of every log an undo can bring back, is legal.
AuctionsOK(acts) == \A n \in 0 .. Len(acts) : AuctionOK(CallsOf(SubSeq(acts, 1, n)))

\* The positions the proper prefixes of a log stand for, shortest first.
PastOf(b, acts) == [k \in 1 .. Len(acts) |-> Position(b, SubSeq(acts, 1, k - 1))]

\* The inductive invariant of the table with its history.
GameInv ==
  /\ Inv
  /\ AuctionsOK(actions)
  /\ position = Position(board, actions)
  /\ past = PastOf(board, actions)

\* The whole log is one of its prefixes.
LEMMA AuctionNow ==
  ASSUME NEW acts \in Seq(Action), AuctionsOK(acts)
  PROVE  AuctionOK(CallsOf(acts))
<1>1. Len(acts) \in 0 .. Len(acts) /\ SubSeq(acts, 1, Len(acts)) = acts
  OBVIOUS
<1> QED BY <1>1 DEF AuctionsOK

\* A fresh table has no auction and no past, and the position of the deal.
LEMMA FreshTable ==
  ASSUME NEW b \in Boards
  PROVE  /\ AuctionsOK(<<>>)
         /\ PastOf(b, <<>>) = <<>>
         /\ Position(b, <<>>) = Game!Deal(b)
<1>1. /\ CallsOf(<<>>) = <<>> /\ PlaysOf(<<>>) = <<>> /\ ClaimsOf(<<>>) = <<>>
  BY SplitEmpty DEF Empty, CallsOf, PlaysOf, ClaimsOf
<1>2. <<>> \in Seq(AllCalls) /\ Len(<<>>) = 0 /\ DOMAIN <<>> = {}
  BY EmptySeq
<1>3. LastAction(<<>>) = 0 /\ LastBid(<<>>) = 0 /\ ~IsComplete(<<>>)
  <2> SUFFICES ASSUME NEW none \in Seq(AllCalls), Len(none) = 0
               PROVE  LastAction(none) = 0 /\ LastBid(none) = 0 /\ ~IsComplete(none)
    BY <1>2
  <2>1. LastIs(none, LastAction(none), IsAction) /\ LastIs(none, LastBid(none), IsBid)
    BY LastActionIs, LastBidIs
  <2>2. LastAction(none) \in 0 .. 0 /\ LastBid(none) \in 0 .. 0
    BY <2>1 DEF LastIs
  <2>3. LastAction(none) = 0 /\ LastBid(none) = 0
    BY <2>2
  <2>4. ~(Len(none) >= 4)
    OBVIOUS
  <2> QED BY <2>3, <2>4, CompleteIs
<1>4. AuctionsOK(<<>>)
  <2>1. \A n \in 0 .. Len(<<>>) : n = 0 /\ SubSeq(<<>>, 1, n) = <<>>
    BY <1>2
  <2> QED BY <1>1, <1>3, <2>1 DEF AuctionsOK, AuctionOK
<1>5. PastOf(b, <<>>) = <<>>
  BY <1>2 DEF PastOf
<1>6. Sound(b, <<>>) /\ b.dealer \in Seat
  BY SoundEmpty, TableAssumption
<1>8. Position(b, <<>>) = Where(b, <<>>, "bidding", NextCaller(b.dealer, <<>>), b.hands,
                                NoSeat, <<>>, [s \in Side |-> 0])
  BY <1>1, <1>3, <1>6, PositionUnplayed
<1>9. NextCaller(b.dealer, <<>>) = b.dealer
  BY <1>2, <1>6 DEF NextCaller, CallerAt, SeatAfter, Seat
<1>10. High(<<>>) = Game!NoBid /\ HighSide(b, <<>>) = NoSeat
  BY <1>3 DEF High, HighSide, Game!NoBid
<1>11. DoubledTimes(<<>>) = 0
  <2>1. {i \in LastBid(<<>>) + 1 .. Len(<<>>) : ~IsPass(<<>>[i])} = {}
    BY <1>2, <1>3
  <2> QED BY <2>1, FS_EmptySet DEF DoubledTimes
<1>12. FirstNamed(b, <<>>) = [x \in Side \X Strain |-> NoSeat]
  <2>1. \A x : {i \in DOMAIN <<>> : /\ IsBid(<<>>[i])
                                    /\ <<>>[i].strain = x[2]
                                    /\ SideOf(CallerAt(b.dealer, i)) = x[1]} = {}
    BY <1>2
  <2> QED BY <2>1 DEF FirstNamed
<1>13. Position(b, <<>>) = Game!Deal(b)
  <2>1. Len(<<>>) - LastAction(<<>>) = 0
    BY <1>2, <1>3
  <2> QED BY <1>8, <1>9, <1>10, <1>11, <1>12, <2>1, SameSeats DEF Where, Game!Deal
<1> QED BY <1>4, <1>5, <1>13

\* An admitted action keeps the auctions legal and remembers the position.
LEMMA ApplyRemembers ==
  ASSUME NEW b, NEW acts, AllSound(b, acts), AuctionsOK(acts),
         NEW a \in Action, Admits(b, acts, a)
  PROVE  /\ AuctionsOK(Append(acts, a))
         /\ PastOf(b, Append(acts, a)) = Append(PastOf(b, acts), Position(b, acts))
<1> DEFINE more == Append(acts, a)
           N == Len(acts)
<1>1. /\ acts \in Seq(Action) /\ N \in Nat /\ Len(more) = N + 1 /\ Sound(b, acts)
      /\ AuctionOK(CallsOf(acts)) /\ CallsOf(acts) \in Seq(AllCalls) /\ b \in Boards
  <2>1. acts \in Seq(Action) /\ Sound(b, acts) /\ b \in Boards
    BY SoundNow DEF AllSound
  <2> QED BY <2>1, AuctionNow, PlayTyped, AppendProperties
<1>2. /\ SubSeq(more, 1, N + 1) = more /\ SubSeq(acts, 1, N) = acts
      /\ \A n \in 0 .. N : SubSeq(more, 1, n) = SubSeq(acts, 1, n)
  <2>1. N \in 0 .. N /\ SubSeq(acts, 1, N) = acts
    BY <1>1
  <2>2. \A n \in 0 .. N : SubSeq(more, 1, n) = SubSeq(acts, 1, n)
    BY <1>1, LongerPrefixes
  <2>3. SubSeq(more, 1, N + 1) = more
    BY <1>1, <2>1, LongerPrefixes
  <2> QED BY <2>1, <2>2, <2>3
<1> HIDE DEF more, N
<1>3. AuctionOK(CallsOf(more))
  <2>1. CASE a.type = "call"
    <3>1. IsLegal(CallsOf(acts), a.call)
      <4>1. ~IsComplete(CallsOf(acts))
        BY <2>1, Phases DEF Admits
      <4>2. Fold(b, acts).calls = CallsOf(acts)
        BY <4>1, FoldInAuction DEF NoPlay
      <4> QED BY <2>1, <4>2 DEF Admits
    <3>2. a.call \in AllCalls
      BY <2>1, Kinds
    <3>3. CallsOf(more) = Append(CallsOf(acts), a.call)
      BY <1>1, <2>1, Parted DEF more
    <3> QED BY <1>1, <3>1, <3>2, <3>3, LegalKeeps
  <2>2. CASE a.type # "call"
    <3>1. CallsOf(more) = CallsOf(acts)
      BY <1>1, <2>2, Kinds, Parted DEF more
    <3> QED BY <1>1, <3>1
  <2> QED BY <2>1, <2>2
<1>4. AuctionsOK(more)
  <2> SUFFICES ASSUME NEW n \in 0 .. N + 1 PROVE AuctionOK(CallsOf(SubSeq(more, 1, n)))
    BY <1>1 DEF AuctionsOK
  <2>1. CASE n = N + 1
    BY <1>2, <1>3, <2>1
  <2>2. CASE n # N + 1
    <3>1. n \in 0 .. N
      BY <1>1, <2>2
    <3> QED BY <1>2, <3>1 DEF AuctionsOK, N
  <2> QED BY <2>1, <2>2
<1>5. PastOf(b, more) = Append(PastOf(b, acts), Position(b, acts))
  <2> DEFINE old == PastOf(b, acts)
             new == PastOf(b, more)
             pos(k) == Position(b, SubSeq(acts, 1, k - 1))
  <2>1. new = [k \in 1 .. N + 1 |-> Position(b, SubSeq(more, 1, k - 1))]
    BY <1>1 DEF PastOf
  <2>2. \A k \in 1 .. N + 1 : SubSeq(more, 1, k - 1) = SubSeq(acts, 1, k - 1)
    <3>1. \A k \in 1 .. N + 1 : k - 1 \in 0 .. N
      BY <1>1
    <3> QED BY <1>2, <3>1
  <2>3. new = [k \in 1 .. N + 1 |-> pos(k)]
    BY <2>1, <2>2
  <2>4. old = [k \in 1 .. N |-> pos(k)] /\ Position(b, acts) = pos(N + 1)
    <3>1. (N + 1) - 1 = N
      BY <1>1
    <3> QED BY <1>2, <3>1 DEF PastOf, N
  <2> HIDE DEF old, new, pos
  <2>5. Append(old, pos(N + 1)) = [k \in 1 .. N + 1 |-> pos(k)]
    BY <1>1, <2>4
  <2> QED BY <2>3, <2>4, <2>5 DEF old, new
<1> QED BY <1>4, <1>5 DEF more

\* Undo brings back the auction, the position and the past of a shorter log.
LEMMA UndoRemembers ==
  ASSUME NEW b, NEW acts \in Seq(Action), AuctionsOK(acts), NEW n \in 0 .. Len(acts)
  PROVE  /\ AuctionsOK(SubSeq(acts, 1, n))
         /\ PastOf(b, SubSeq(acts, 1, n)) = SubSeq(PastOf(b, acts), 1, n)
         /\ n < Len(acts) => /\ n + 1 \in 1 .. Len(acts)
                             /\ PastOf(b, acts)[n + 1] = Position(b, SubSeq(acts, 1, n))
<1> DEFINE less == SubSeq(acts, 1, n)
           N == Len(acts)
<1>1. N \in Nat /\ n \in Nat /\ n <= N /\ Len(less) = n
  OBVIOUS
<1>2. \A m \in 0 .. n : SubSeq(less, 1, m) = SubSeq(acts, 1, m)
  <2> TAKE m \in 0 .. n
  <2> QED BY <1>1
<1> HIDE DEF less, N
<1>3. AuctionsOK(less)
  <2>1. \A m \in 0 .. n : m \in 0 .. N
    BY <1>1
  <2> QED BY <1>1, <1>2, <2>1 DEF AuctionsOK, N
<1> DEFINE pos(k) == Position(b, SubSeq(acts, 1, k - 1))
<1>4. PastOf(b, less) = [k \in 1 .. n |-> pos(k)]
  <2>1. PastOf(b, less) = [k \in 1 .. n |-> Position(b, SubSeq(less, 1, k - 1))]
    BY <1>1 DEF PastOf
  <2>2. \A k \in 1 .. n : k - 1 \in 0 .. n
    BY <1>1
  <2> QED BY <1>2, <2>1, <2>2
<1>5. PastOf(b, acts) = [k \in 1 .. N |-> pos(k)]
  BY DEF PastOf, N
<1>6. n < N => n + 1 \in 1 .. N /\ pos(n + 1) = Position(b, less)
  <2>1. (n + 1) - 1 = n
    BY <1>1
  <2> QED BY <1>1, <2>1 DEF less
<1> HIDE DEF pos
<1>7. SubSeq(PastOf(b, acts), 1, n) = [k \in 1 .. n |-> pos(k)]
  BY <1>1, <1>5
<1>8. n < N => PastOf(b, acts)[n + 1] = Position(b, less)
  BY <1>5, <1>6
<1> QED BY <1>3, <1>4, <1>6, <1>7, <1>8 DEF less, N

\* An admitted action is a move of the game.
LEMMA ActionMoves ==
  ASSUME NEW b, NEW acts, AllSound(b, acts), AuctionsOK(acts),
         NEW a \in Action, a.type = "call" => a.call \in Calls, Admits(b, acts, a)
  PROVE  Game!Moves(Position(b, acts), Position(b, Append(acts, a)))
<1>1. b \in Boards /\ Sound(b, acts) /\ AuctionOK(CallsOf(acts))
  BY SoundNow, AuctionNow DEF AllSound
<1> QED BY <1>1, Kinds, CallMoves, PlayMoves, ClaimMoves

\* A table starts as a game does.
LEMMA GameStart == GameInit => GameInv /\ Game!Init
<1> SUFFICES ASSUME GameInit PROVE GameInv /\ Game!Init
  OBVIOUS
<1>1. board \in Boards /\ actions = <<>> /\ position = Position(board, <<>>) /\ past = <<>>
  BY DEF GameInit, Init, Position
<1> QED BY <1>1, FreshTable, AllSoundEmpty DEF GameInv, Inv, Game!Init

\* What remembering does, by the length of the log before and after.
LEMMA Remembered ==
  ASSUME GameInv, Remember
  PROVE  /\ position' = Position(board', actions')
         /\ past' = IF Len(actions') > Len(actions) THEN Append(past, position)
                    ELSE SubSeq(past, 1, Len(actions'))
BY DEF Remember, Position

\* Every step of the table is a step of the game or changes nothing in it.
LEMMA GameStep ==
  GameInv /\ [Next /\ Remember]_<<board, actions, position, past>>
    => GameInv' /\ [Game!Next]_(Game!vars)
<1> SUFFICES ASSUME GameInv, [Next /\ Remember]_<<board, actions, position, past>>
             PROVE  GameInv' /\ [Game!Next]_(Game!vars)
  OBVIOUS
<1>1. /\ AllSound(board, actions) /\ AuctionsOK(actions) /\ actions \in Seq(Action)
      /\ position = Position(board, actions) /\ past = PastOf(board, actions)
      /\ Len(actions) \in Nat
  BY DEF GameInv, Inv, AllSound
<1>2. Inv'
  BY StepInv DEF GameInv, vars
<1>3. ASSUME NEW a \in Action, a.type = "call" => a.call \in Calls, Apply(a), Remember
      PROVE  GameInv' /\ Game!Next
  <2>1. Admits(board, actions, a) /\ actions' = Append(actions, a) /\ board' = board
    BY <1>3 DEF Apply
  <2>2. Len(actions') > Len(actions)
    BY <1>1, <2>1, AppendProperties
  <2>3. position' = Position(board, actions') /\ past' = Append(past, position)
    BY <1>3, <2>1, <2>2, Remembered
  <2>4. /\ AuctionsOK(actions')
        /\ PastOf(board, actions') = Append(PastOf(board, actions), Position(board, actions))
    BY <1>1, <2>1, ApplyRemembers
  <2>5. Game!Moves(position, position')
    BY <1>1, <1>3, <2>1, <2>3, ActionMoves
  <2> QED BY <1>1, <1>2, <2>1, <2>3, <2>4, <2>5 DEF GameInv, Game!Next, Game!Move
<1>4. ASSUME NEW s \in Seat, NEW c \in Calls, Apply(CallAction(s, c)), Remember
      PROVE  GameInv' /\ Game!Next
  <2>1. CallAction(s, c) \in Action /\ CallAction(s, c).call \in Calls
    BY TableAssumption DEF Action, CallActions, CallAction
  <2> QED BY <1>3, <1>4, <2>1
<1>5. ASSUME NEW s \in Seat, NEW c \in board.hands[s], Apply(PlayAction(s, c)), Remember
      PROVE  GameInv' /\ Game!Next
  <2>1. PlayAction(s, c) \in Action /\ PlayAction(s, c).type = "play"
    BY <1>1, HandsAreCards DEF AllSound, PlayAction
  <2> QED BY <1>3, <1>5, <2>1
<1>6. ASSUME NEW s \in Seat, NEW n \in 0 .. Tricks, Apply(ClaimAction(s, n)), Remember
      PROVE  GameInv' /\ Game!Next
  <2>1. ClaimAction(s, n) \in Action /\ ClaimAction(s, n).type = "claim"
    BY TableAssumption DEF Action, ClaimActions, ClaimAction
  <2> QED BY <1>3, <1>6, <2>1
<1>7. ASSUME NEW n \in 0 .. Len(actions), UndoTo(n), Remember
      PROVE  GameInv' /\ [Game!Next]_(Game!vars)
  <2>1. actions' = SubSeq(actions, 1, n) /\ board' = board
    BY <1>7 DEF UndoTo
  <2>2. Len(actions') = n /\ ~(n > Len(actions)) /\ n \in Nat
    BY <1>1, <2>1
  <2>3. position' = Position(board, actions') /\ past' = SubSeq(past, 1, n)
    BY <1>7, <2>1, <2>2, Remembered
  <2>4. AuctionsOK(actions') /\ PastOf(board, actions') = past'
    BY <1>1, <2>1, <2>3, UndoRemembers
  <2>5. GameInv'
    BY <1>2, <2>1, <2>3, <2>4 DEF GameInv
  <2>6. Len(past) = Len(actions) /\ past = [k \in 1 .. Len(actions) |-> past[k]]
    BY <1>1 DEF PastOf
  <2>7. CASE n < Len(actions)
    <3>1. n + 1 \in 1 .. Len(past) /\ position' = past[n + 1] /\ (n + 1) - 1 = n
      BY <1>1, <2>1, <2>2, <2>3, <2>6, <2>7, UndoRemembers
    <3>2. position' = past[n + 1] /\ past' = SubSeq(past, 1, (n + 1) - 1)
      BY <2>3, <3>1
    <3>3. Game!TakeBack
      BY <2>1, <3>1, <3>2 DEF Game!TakeBack
    <3> QED BY <2>5, <3>3 DEF Game!Next
  <2>8. CASE n = Len(actions)
    <3>1. actions' = actions
      BY <1>1, <2>1, <2>8
    <3>2. past' = past
      BY <1>1, <2>1, <2>4, <3>1
    <3> QED BY <1>1, <2>1, <2>3, <2>5, <3>1, <3>2 DEF Game!vars
  <2> QED BY <2>2, <2>7, <2>8
<1>8. ASSUME NEW b \in Boards, NewTable(b), Remember
      PROVE  GameInv' /\ Game!Next
  <2>1. board' = b /\ actions' = <<>> /\ Len(actions') = 0
    BY <1>8 DEF NewTable
  <2>2. position' = Position(b, <<>>) /\ past' = SubSeq(past, 1, 0)
    BY <1>1, <1>8, <2>1, Remembered
  <2>3. past' = <<>>
    BY <2>2
  <2> QED BY <1>2, <2>1, <2>2, <2>3, FreshTable DEF GameInv, Game!Next, Game!Redeal
<1>9. CASE UNCHANGED <<board, actions, position, past>>
  <2>1. GameInv'
    BY <1>1, <1>2, <1>9 DEF GameInv
  <2> QED BY <1>9, <2>1 DEF Game!vars
<1> QED BY <1>4, <1>5, <1>6, <1>7, <1>8, <1>9 DEF Next

\* The table (table.rs, TableState::fold, apply and undo_to) plays the game of
\* BridgeGame move by move: a log folds to the position the calls, the cards
\* and the claim lead to, and undo takes the game back to exactly the
\* position that stood there.
THEOREM TableImplementsGame == GameSpec => ImplementsGame
<1> QED BY GameStart, GameStep, PTL DEF GameSpec, ImplementsGame, Game!Spec

-----------------------------------------------------------------------------
(* Claims: the table of a room keeps its logs sound through every handler, *)
(* and what a claim was examined for bounds what it may ask.               *)

\* A claim under way.
ClaimRecord == [stage : {"asked"}, ask : Asks]
               \cup [stage : {"judged"}, ask : Asks, seen : 0 .. 4 * Tricks]

\* The inductive invariant of a room with claims.
ClaimsInv ==
  /\ Inv
  /\ RoomTypeOK
  /\ claim \in [Claimant -> {NoClaim} \cup ClaimRecord]
  /\ \A c \in Claimant :
       claim[c].stage = "judged" => claim[c].ask.tricks <= Tricks - claim[c].seen \div 4

\* What the room leaves as it was when it applies an action or undoes some.
RestOfRoom == <<seats, mode, paused>>

\* An action applied by a handler of the room, and an undo by one.
LEMMA RoomApplies ==
  ASSUME ClaimsInv, NEW a \in Action, Apply(a), UNCHANGED RestOfRoom
  PROVE  Inv' /\ RoomTypeOK'
<1>1. Inv'
  BY ApplyKeeps DEF ClaimsInv, Inv, Apply
<1> QED BY <1>1 DEF ClaimsInv, RoomTypeOK, RestOfRoom, Apply

LEMMA RoomUndoes ==
  ASSUME ClaimsInv, NEW n, UndoTo(n), UNCHANGED RestOfRoom
  PROVE  Inv' /\ RoomTypeOK'
<1>1. Inv'
  BY UndoKeeps DEF ClaimsInv, Inv, UndoTo
<1> QED BY <1>1 DEF ClaimsInv, RoomTypeOK, RestOfRoom, UndoTo

\* What people and bots may do on their turn are actions of the table.
LEMMA TurnActions ==
  ASSUME Inv, Fold(board, actions).turn # NoSeat
  PROVE  LET f == Fold(board, actions)
         IN  /\ f.turn \in Seat
             /\ \A c \in Calls : CallAction(f.turn, c) \in Action
             /\ \A c \in Remaining(board, f, f.turn) : PlayAction(f.turn, c) \in Action
             /\ Suggestions(board, f) \subseteq Action
<1> DEFINE f == Fold(board, actions)
<1>1. board \in Boards /\ Sound(board, actions)
  BY SoundNow DEF Inv
<1>2. f.turn \in Seat
  BY <1>1, FoldTyped
<1> HIDE DEF f
<1>3. \A c \in Calls : CallAction(f.turn, c) \in Action
  BY <1>2, TableAssumption DEF Action, CallActions
<1>4. \A c \in Remaining(board, f, f.turn) : PlayAction(f.turn, c) \in Action
  BY <1>1, <1>2, HandsAreCards DEF Remaining
<1>5. Legal(board, f, f.turn) \subseteq Remaining(board, f, f.turn)
  BY DEF Legal, LegalCards
<1>6. Suggestions(board, f) \subseteq Action
  BY <1>3, <1>4, <1>5 DEF Suggestions
<1> QED BY <1>2, <1>3, <1>4, <1>6 DEF f

\* Seats change to what a seat may be, and people sit where they may.
LEMMA SeatsKeep ==
  ASSUME RoomTypeOK, NEW S, NEW state \in SeatState, SetSeats(S, state),
         state \in Occupied => S \subseteq HumanSeats
  PROVE  RoomTypeOK'
BY DEF RoomTypeOK, SetSeats, SeatState

\* The handlers other than those of claims.
LEMMA TableKeeps ==
  ASSUME ClaimsInv, Table
  PROVE  Inv' /\ RoomTypeOK'
<1>1. ASSUME NEW call \in Calls, HumanCall(call) PROVE Inv' /\ RoomTypeOK'
  <2>1. Fold(board, actions).turn # NoSeat
        /\ Apply(CallAction(Fold(board, actions).turn, call)) /\ UNCHANGED RestOfRoom
    BY <1>1 DEF HumanCall, RestOfRoom
  <2> QED BY <2>1, TurnActions, RoomApplies DEF ClaimsInv
<1>2. ASSUME HumanPlay PROVE Inv' /\ RoomTypeOK'
  <2>1. /\ Fold(board, actions).turn # NoSeat
        /\ \E c \in Remaining(board, Fold(board, actions), Fold(board, actions).turn) :
             Apply(PlayAction(Fold(board, actions).turn, c))
        /\ UNCHANGED RestOfRoom
    BY <1>2 DEF HumanPlay, RestOfRoom
  <2> QED BY <2>1, TurnActions, RoomApplies DEF ClaimsInv
<1>3. ASSUME NEW n, HumanUndo(n) PROVE Inv' /\ RoomTypeOK'
  BY <1>3, RoomUndoes DEF HumanUndo, RestOfRoom
<1>4. ASSUME HumanUndoLast PROVE Inv' /\ RoomTypeOK'
  <2>1. (\E n : UndoTo(n)) /\ UNCHANGED RestOfRoom
    BY <1>4 DEF HumanUndoLast, RestOfRoom
  <2> QED BY <2>1, RoomUndoes
<1>5. ASSUME NEW b \in Boards, NEW m \in Modes, Deal(b, m) PROVE Inv' /\ RoomTypeOK'
  <2>1. Inv'
    BY <1>5, AllSoundEmpty DEF Deal, NewTable, Inv
  <2>2. RoomTypeOK'
    BY <1>5, RoomAssumption DEF Deal, NewTable, ClaimsInv, RoomTypeOK
  <2> QED BY <2>1, <2>2
<1>6. ASSUME NEW s \in HumanSeats, Occupy(s) \/ Leave({s}) PROVE Inv' /\ RoomTypeOK'
  <2>1. Inv'
    BY <1>6 DEF Occupy, Leave, SetSeats, ClaimsInv, Inv
  <2>2. RoomTypeOK'
    <3>1. RoomTypeOK /\ {s} \subseteq HumanSeats
      BY DEF ClaimsInv
    <3>2. "here" \in SeatState /\ "bot" \in SeatState
      BY DEF SeatState, Occupied, Absent
    <3>3. CASE Occupy(s)
      BY <3>1, <3>2, <3>3, SeatsKeep DEF Occupy
    <3>4. CASE Leave({s})
      BY <3>1, <3>2, <3>4, SeatsKeep DEF Leave
    <3> QED BY <1>6, <3>3, <3>4
  <2> QED BY <2>1, <2>2
<1>7. ASSUME NEW m \in Modes, SetBoardMode(m) PROVE Inv' /\ RoomTypeOK'
  BY <1>7, RoomAssumption DEF SetBoardMode, ClaimsInv, Inv, RoomTypeOK
<1>8. ASSUME SetBotsPaused(~paused) PROVE Inv' /\ RoomTypeOK'
  BY <1>8 DEF SetBotsPaused, ClaimsInv, Inv, RoomTypeOK
<1>9. ASSUME BotActs PROVE Inv' /\ RoomTypeOK'
  <2>1. /\ Fold(board, actions).turn # NoSeat
        /\ \E a \in Suggestions(board, Fold(board, actions)) : Apply(a)
        /\ UNCHANGED RestOfRoom
    BY <1>9 DEF BotActs, BotMustAct, RestOfRoom
  <2> QED BY <2>1, TurnActions, RoomApplies DEF ClaimsInv
<1> QED BY <1>1, <1>2, <1>3, <1>4, <1>5, <1>6, <1>7, <1>8, <1>9 DEF Table

\* How many cards have been played, as a claim counts them.
LEMMA PlaysCounted ==
  ASSUME ClaimsInv
  PROVE  /\ PlaysMade \in 0 .. 4 * Tricks
         /\ Len(Fold(board, actions).played) = PlaysMade
         /\ Fold(board, actions).completed = PlaysMade \div 4
<1>1. board \in Boards /\ Sound(board, actions)
  BY SoundNow DEF ClaimsInv, Inv
<1>2. Len(PlaysOf(actions)) \in Nat /\ Len(PlaysOf(actions)) <= 4 * Tricks
  BY <1>1, PlayTyped DEF Sound, HandsShrink
<1>3. PlaysMade = Len(PlaysOf(actions))
  BY DEF PlaysMade, PlaysOf
<1>4. Tricks \in Nat
  BY TableAssumption
<1>5. PlaysMade \in 0 .. 4 * Tricks
  BY <1>2, <1>3, <1>4
<1>6. /\ Fold(board, actions).played = PlaysOf(actions)
      /\ Fold(board, actions).completed = Done(actions)
  BY <1>1, FoldTyped
<1> QED BY <1>3, <1>5, <1>6 DEF Done

\* The handlers of claims.
LEMMA ClaimStepKeeps ==
  ASSUME ClaimsInv, NEW c \in Claimant, ClaimStep(c)
  PROVE  ClaimsInv'
<1> DEFINE Judged(r) == r.stage = "judged" => r.ask.tricks <= Tricks - r.seen \div 4
<1>1. /\ claim \in [Claimant -> {NoClaim} \cup ClaimRecord]
      /\ \A d \in Claimant : Judged(claim[d])
  BY DEF ClaimsInv
<1>2. Judged(NoClaim)
  BY DEF NoClaim
<1>3. ASSUME NEW r \in {NoClaim} \cup ClaimRecord, Judged(r), claim' = [claim EXCEPT ![c] = r]
      PROVE  /\ claim' \in [Claimant -> {NoClaim} \cup ClaimRecord]
             /\ \A d \in Claimant : Judged(claim'[d])
  <2> HIDE DEF Judged
  <2> QED BY <1>1, <1>3
<1>4. ASSUME Inv', RoomTypeOK',
             NEW r \in {NoClaim} \cup ClaimRecord, Judged(r), claim' = [claim EXCEPT ![c] = r]
      PROVE  ClaimsInv'
  BY <1>3, <1>4 DEF ClaimsInv
<1>5. ASSUME UNCHANGED roomVars PROVE Inv' /\ RoomTypeOK'
  BY <1>5 DEF ClaimsInv, Inv, RoomTypeOK, roomVars
<1>6. ASSUME NEW a \in Asks, Ask(c, a) PROVE ClaimsInv'
  <2> DEFINE r == [stage |-> "asked", ask |-> a]
  <2>1. r \in ClaimRecord /\ Judged(r)
    BY DEF ClaimRecord
  <2>2. claim' = [claim EXCEPT ![c] = r] /\ UNCHANGED roomVars
    BY <1>6 DEF Ask
  <2> HIDE DEF r, Judged
  <2> QED BY <1>4, <1>5, <2>1, <2>2
<1>7. ASSUME Examine(c) PROVE ClaimsInv'
  <2> DEFINE f == Fold(board, actions)
  <2> PICK n \in 0 .. 4 * Tricks :
        claim' = [claim EXCEPT ![c] = IF InPlace(c, n, f)
                                      THEN [stage |-> "judged", ask |-> @.ask, seen |-> n]
                                      ELSE NoClaim]
    BY <1>7 DEF Examine
  <2> DEFINE r == IF InPlace(c, n, f)
                  THEN [stage |-> "judged", ask |-> claim[c].ask, seen |-> n] ELSE NoClaim
  <2>1. claim[c].stage = "asked" /\ UNCHANGED roomVars /\ claim' = [claim EXCEPT ![c] = r]
    BY <1>7, <1>1 DEF Examine
  <2>2. claim[c] \in ClaimRecord
    BY <1>1, <2>1 DEF NoClaim
  <2>3. CASE InPlace(c, n, f)
    <3>1. r = [stage |-> "judged", ask |-> claim[c].ask, seen |-> n]
      BY <2>3
    <3>2. r \in ClaimRecord /\ r.ask = claim[c].ask /\ r.seen = n
      BY <2>2, <3>1 DEF ClaimRecord
    <3>3. r.seen = PlaysMade /\ r.ask.tricks <= TricksLeft(f) /\ f.phase = "play"
      BY <2>3, <3>2, PlaysCounted DEF InPlace
    <3>4. TricksLeft(f) = Tricks - PlaysMade \div 4
      BY <3>3, PlaysCounted DEF TricksLeft
    <3>5. Judged(r)
      BY <3>3, <3>4
    <3> HIDE DEF r, Judged
    <3> QED BY <1>4, <1>5, <2>1, <3>2, <3>5
  <2>4. CASE ~InPlace(c, n, f)
    <3>1. r = NoClaim
      BY <2>4
    <3> HIDE DEF r, Judged
    <3> QED BY <1>2, <1>4, <1>5, <2>1, <3>1
  <2> QED BY <2>3, <2>4
<1>8. ASSUME Refuse(c) PROVE ClaimsInv'
  <2>1. claim' = [claim EXCEPT ![c] = NoClaim] /\ UNCHANGED roomVars
    BY <1>8 DEF Refuse
  <2> HIDE DEF Judged
  <2> QED BY <1>2, <1>4, <1>5, <2>1
<1>9. ASSUME Close(c) PROVE ClaimsInv'
  <2>1. /\ claim[c].stage = "judged" /\ claim' = [claim EXCEPT ![c] = NoClaim]
        /\ UNCHANGED RestOfRoom
        /\ Apply(Asked(c)) \/ UNCHANGED <<board, actions>>
    BY <1>9 DEF Close, Settled, Outdated, RestOfRoom
  <2>2. claim[c] \in ClaimRecord
    BY <1>1, <2>1 DEF NoClaim
  <2>3. Asked(c) \in Action
    BY <2>2, ClaimsAssumption DEF ClaimRecord, Asked, Action, ClaimActions
  <2>4. Inv' /\ RoomTypeOK'
    <3>1. CASE Apply(Asked(c))
      BY <2>1, <2>3, <3>1, RoomApplies
    <3>2. CASE UNCHANGED <<board, actions>>
      BY <1>5, <2>1, <3>2 DEF RestOfRoom, roomVars
    <3> QED BY <2>1, <3>1, <3>2
  <2> HIDE DEF Judged
  <2> QED BY <1>2, <1>4, <2>1, <2>4
<1> QED BY <1>6, <1>7, <1>8, <1>9 DEF ClaimStep

\* The inductive invariant: at the start, after every step, and always.
LEMMA ClaimsInitInv == ClaimsInit => ClaimsInv
<1> SUFFICES ASSUME ClaimsInit PROVE ClaimsInv
  OBVIOUS
<1>1. Inv
  BY InitInv DEF ClaimsInit, RoomInit
<1>2. RoomTypeOK
  BY RoomAssumption
     DEF ClaimsInit, RoomInit, Init, RoomTypeOK, SeatState, Absent, Occupied
<1>3. \A c \in Claimant : claim[c] = NoClaim
  BY DEF ClaimsInit
<1>4. claim \in [Claimant -> {NoClaim} \cup ClaimRecord]
  BY DEF ClaimsInit
<1> QED BY <1>1, <1>2, <1>3, <1>4 DEF ClaimsInv, NoClaim

LEMMA ClaimsStepInv == ClaimsInv /\ [ClaimsNext]_claimsVars => ClaimsInv'
<1> SUFFICES ASSUME ClaimsInv, [ClaimsNext]_claimsVars PROVE ClaimsInv'
  OBVIOUS
<1>1. ASSUME NEW c \in Claimant, ClaimStep(c) PROVE ClaimsInv'
  BY <1>1, ClaimStepKeeps
<1>2. CASE Table /\ UNCHANGED claim
  BY <1>2, TableKeeps DEF ClaimsInv
<1>3. CASE UNCHANGED claimsVars
  BY <1>3 DEF claimsVars, roomVars, ClaimsInv, Inv, RoomTypeOK
<1> QED BY <1>1, <1>2, <1>3 DEF ClaimsNext

LEMMA ClaimsInvAlways == ClaimsSpec => []ClaimsInv
<1> QED BY ClaimsInitInv, ClaimsStepInv, PTL DEF ClaimsSpec

\* A claim stands in the log as its last action.
LEMMA ClaimIsLast ==
  ASSUME NEW b \in Boards, NEW acts, Sound(b, acts), NEW i \in DOMAIN acts, acts[i].type = "claim"
  PROVE  i = Len(acts) /\ ClaimsOf(acts) # <<>>
<1>1. /\ Len(CallsOf(acts)) \in Nat /\ Len(PlaysOf(acts)) \in Nat
      /\ Len(ClaimsOf(acts)) \in Nat
      /\ DOMAIN acts = 1 .. Len(acts) /\ Len(acts) \in Nat
  BY PlayTyped DEF Sound
<1>2. /\ Len(ClaimsOf(acts)) <= 1
      /\ Len(acts) = Len(CallsOf(acts)) + Len(PlaysOf(acts)) + Len(ClaimsOf(acts))
  BY DEF Sound, ClaimFits, Ordered
<1>3. ~(i <= Len(CallsOf(acts))) /\ ~(i <= Len(CallsOf(acts)) + Len(PlaysOf(acts)))
  BY <1>1 DEF Sound, Ordered
<1>4. i = Len(acts) /\ Len(ClaimsOf(acts)) # 0
  BY <1>1, <1>2, <1>3
<1> QED BY <1>4, EmptySeq

\* The state of a room with claims is of its types, and no claim is with
\* the solver for more tricks than were left when it was examined
\* (claims.rs, make_claim).
THEOREM ClaimsTypeCorrect == ClaimsSpec => []ClaimsTypeOK
<1>1. ClaimsInv => ClaimsTypeOK
  <2> SUFFICES ASSUME ClaimsInv, NEW c \in Claimant
               PROVE  /\ RoomTypeOK
                      /\ claim[c] \in {NoClaim} \cup ClaimRecord
                      /\ claim[c].stage = "judged" =>
                           claim[c].ask.tricks <= Tricks - claim[c].seen \div 4
    BY DEF ClaimsTypeOK, ClaimRecord, ClaimsInv, NoClaim
  <2> QED BY DEF ClaimsInv
<1> QED BY ClaimsInvAlways, <1>1, PTL

\* Claims that race with each other, with the play and with undo leave at
\* most one in the log (claims.rs, make_claim; table.rs, apply).
THEOREM OneClaimAlways == ClaimsSpec => []OneClaim
<1>1. ClaimsInv => OneClaim
  BY SoundNow, ClaimIsLast DEF ClaimsInv, Inv, OneClaim
<1> QED BY ClaimsInvAlways, <1>1, PTL

\* A claim that came to the log is credited with all it asked (claims.rs,
\* make_claim; table.rs, tricks_left).
THEOREM ClaimsCreditedInFull == ClaimsSpec => []ClaimCreditedInFull
<1>1. ClaimsInv => ClaimCreditedInFull
  <2> SUFFICES ASSUME ClaimsInv, NEW i \in DOMAIN actions, actions[i].type = "claim"
               PROVE  LET f == Fold(board, actions)
                      IN  /\ actions[i].tricks <= Tricks - f.completed
                          /\ f.won[SideOf(actions[i].seat)] >= actions[i].tricks
    BY DEF ClaimCreditedInFull
  <2> DEFINE f == Fold(board, actions)
  <2>1. board \in Boards /\ Sound(board, actions)
    BY SoundNow DEF ClaimsInv, Inv
  <2>2. i = Len(actions) /\ ClaimsOf(actions) # <<>>
    BY <2>1, ClaimIsLast
  <2>3. /\ InPlay(board, actions) /\ Last(ClaimsOf(actions)) = actions[i]
        /\ actions[i] \in ClaimActions /\ Tricks - Done(actions) \in Nat
        /\ actions[i].tricks <= Tricks - Done(actions)
    BY <2>1, <2>2, ClaimByFold
  <2>4. /\ f.completed = Done(actions)
        /\ f.won = Settle(WonOf(board, actions), actions[i], Tricks - Done(actions))
    BY <2>2, <2>3, FoldInPlay
  <2>5. WonOf(board, actions) \in [Side -> Nat]
    BY <2>1, <2>3, WonByFold
  <2> HIDE DEF f
  <2>6. f.won[SideOf(actions[i].seat)] >= actions[i].tricks
    BY <2>3, <2>4, <2>5, SettledInFull
  <2> QED BY <2>3, <2>4, <2>6 DEF f
<1> QED BY ClaimsInvAlways, <1>1, PTL

-----------------------------------------------------------------------------
(* What the handlers of a room do to the log, and what that means for undo *)
(* and for a claim that comes back from the solver.                        *)

\* A step of a room is one of the table's operations, or leaves it alone.
TableStep ==
  \/ \E a \in Action : Apply(a)
  \/ \E n \in 0 .. Len(actions) : UndoTo(n)
  \/ \E b \in Boards : NewTable(b)
  \/ UNCHANGED <<board, actions>>

\* Whatever handler runs.
LEMMA RoomStep ==
  ASSUME ClaimsInv, ClaimsNext
  PROVE  TableStep
<1> USE DEF TableStep
<1>1. ASSUME NEW call \in Calls, HumanCall(call) PROVE TableStep
  BY <1>1, TurnActions DEF ClaimsInv, HumanCall
<1>2. ASSUME HumanPlay PROVE TableStep
  BY <1>2, TurnActions DEF ClaimsInv, HumanPlay
<1>3. ASSUME NEW n, HumanUndo(n) PROVE TableStep
  BY <1>3 DEF HumanUndo, UndoTo
<1>4. ASSUME HumanUndoLast PROVE TableStep
  <2>1. \E n : UndoTo(n)
    BY <1>4 DEF HumanUndoLast
  <2> QED BY <2>1 DEF UndoTo
<1>5. ASSUME NEW b \in Boards, NEW m \in Modes, Deal(b, m) PROVE TableStep
  BY <1>5 DEF Deal
<1>6. ASSUME NEW s \in HumanSeats, Occupy(s) \/ Leave({s}) PROVE TableStep
  BY <1>6 DEF Occupy, Leave, SetSeats
<1>7. ASSUME NEW m \in Modes, SetBoardMode(m) PROVE TableStep
  BY <1>7 DEF SetBoardMode
<1>8. ASSUME SetBotsPaused(~paused) PROVE TableStep
  BY <1>8 DEF SetBotsPaused
<1>9. ASSUME BotActs PROVE TableStep
  BY <1>9, TurnActions DEF ClaimsInv, BotActs, BotMustAct
<1>10. CASE Table
  BY <1>1, <1>2, <1>3, <1>4, <1>5, <1>6, <1>7, <1>8, <1>9, <1>10 DEF Table
<1>11. ASSUME NEW c \in Claimant, ClaimStep(c) PROVE TableStep
  <2>1. CASE UNCHANGED roomVars
    BY <2>1 DEF roomVars
  <2>2. CASE Close(c)
    <3>1. Apply(Asked(c)) \/ UNCHANGED <<board, actions>>
      BY <2>2 DEF Close, Settled, Outdated
    <3>2. claim[c] \in ClaimRecord
      BY <2>2 DEF Close, ClaimsInv, NoClaim
    <3>3. Asked(c) \in Action
      BY <3>2, ClaimsAssumption DEF ClaimRecord, Asked, Action, ClaimActions
    <3> QED BY <3>1, <3>3
  <2> QED BY <1>11, <2>1, <2>2 DEF ClaimStep, Ask, Examine, Refuse
<1> QED BY <1>10, <1>11 DEF ClaimsNext

\* What an admitted action, an undo or a redeal does, whoever asked for it,
\* the table's own log does.
LEMMA LogStep ==
  ASSUME Inv, TableStep
  PROVE  [Next]_vars
<1>1. ASSUME NEW a \in Action, Apply(a) PROVE Next
  <2> DEFINE f == Fold(board, actions)
  <2>1. CASE a \in CallActions
    BY <1>1, <2>1 DEF CallActions, Next
  <2>2. CASE a \in PlayActions
    <3>1. PICK s \in Seat, c \in Cards : a = PlayAction(s, c)
      BY <2>2 DEF PlayActions
    <3>2. a.type = "play" /\ a.seat = s /\ a.card = c
      BY <3>1 DEF PlayAction
    <3>3. c \in Legal(board, f, s)
      BY <1>1, <3>2 DEF Apply, Admits
    <3>4. c \in board.hands[s]
      BY <3>3 DEF Legal, LegalCards, Remaining
    <3> QED BY <1>1, <3>1, <3>4 DEF Next
  <2>3. CASE a \in ClaimActions
    <3>1. PICK s \in Seat, n \in Nat : a = ClaimAction(s, n)
      BY <2>3 DEF ClaimActions
    <3>2. a.type = "claim" /\ a.tricks = n
      BY <3>1 DEF ClaimAction
    <3>3. n <= TricksLeft(f)
      BY <1>1, <3>2 DEF Apply, Admits
    <3>4. f.completed \in 0 .. Tricks
      BY SoundNow, FoldTyped DEF Inv
    <3> HIDE DEF f
    <3>5. n \in 0 .. Tricks
      BY <3>3, <3>4, TableAssumption DEF TricksLeft
    <3> QED BY <1>1, <3>1, <3>5 DEF Next
  <2> QED BY <2>1, <2>2, <2>3 DEF Action
<1>2. ASSUME NEW n \in 0 .. Len(actions), UndoTo(n) PROVE Next
  BY <1>2 DEF Next
<1>3. ASSUME NEW b \in Boards, NewTable(b) PROVE Next
  BY <1>3 DEF Next
<1>4. CASE UNCHANGED <<board, actions>>
  BY <1>4 DEF vars
<1> QED BY <1>1, <1>2, <1>3, <1>4 DEF TableStep

\* A room whose people and bots play, take back, redeal and claim, each
\* claim with the solver between its two locks, takes its table through
\* the log's own steps alone: a claim comes to the log only as one the table
\* may take (claims.rs, make_claim; table.rs, apply).
THEOREM ClaimsPlayTheTable == ClaimsSpec => Spec
<1>1. ClaimsInit => Init
  BY DEF ClaimsInit, RoomInit
<1>2. ClaimsInv /\ [ClaimsNext]_claimsVars => [Next]_vars
  <2>1. CASE UNCHANGED claimsVars
    BY <2>1 DEF claimsVars, roomVars, vars
  <2>2. CASE ClaimsInv /\ ClaimsNext
    BY <2>2, RoomStep, LogStep DEF ClaimsInv
  <2> QED BY <2>1, <2>2
<1> QED BY <1>1, <1>2, ClaimsInvAlways, PTL DEF ClaimsSpec, Spec

\* Every action of a log was admitted to the log before it.
AllAdmitted(b, acts) ==
  \A i \in 1 .. Len(acts) : Admits(b, SubSeq(acts, 1, i - 1), acts[i])

\* That is so after every operation, an undo to any length included.
LEMMA AdmittedStep ==
  ASSUME ClaimsInv, AllAdmitted(board, actions), TableStep
  PROVE  AllAdmitted(board', actions')
<1>1. actions \in Seq(Action) /\ Len(actions) \in Nat
  BY DEF ClaimsInv, Inv, AllSound
<1>2. ASSUME NEW a \in Action, Apply(a) PROVE AllAdmitted(board', actions')
  <2> DEFINE more == Append(actions, a)
  <2>1. /\ Admits(board, actions, a) /\ actions' = more /\ board' = board
        /\ Len(more) = Len(actions) + 1 /\ more[Len(actions) + 1] = a
        /\ \A i \in 1 .. Len(actions) : more[i] = actions[i]
    BY <1>1, <1>2, AppendProperties DEF Apply
  <2>2. ASSUME NEW i \in 1 .. Len(actions) + 1 PROVE SubSeq(more, 1, i - 1) = SubSeq(actions, 1, i - 1)
    <3>1. i - 1 \in 0 .. Len(actions)
      BY <1>1
    <3> QED BY <1>1, <3>1, LongerPrefixes
  <2>3. SubSeq(actions, 1, (Len(actions) + 1) - 1) = actions
    BY <1>1
  <2> HIDE DEF more
  <2>4. ASSUME NEW i \in 1 .. Len(more) PROVE Admits(board, SubSeq(more, 1, i - 1), more[i])
    <3>1. CASE i = Len(actions) + 1
      BY <1>1, <2>1, <2>2, <2>3, <3>1
    <3>2. CASE i # Len(actions) + 1
      <4>1. i \in 1 .. Len(actions) /\ i \in 1 .. Len(actions) + 1
        BY <1>1, <2>1, <3>2
      <4> QED BY <2>1, <2>2, <4>1 DEF AllAdmitted
    <3> QED BY <3>1, <3>2
  <2> QED BY <2>1, <2>4 DEF AllAdmitted
<1>3. ASSUME NEW n \in 0 .. Len(actions), UndoTo(n) PROVE AllAdmitted(board', actions')
  <2>1. actions' = SubSeq(actions, 1, n) /\ board' = board /\ Len(SubSeq(actions, 1, n)) = n
    BY <1>1, <1>3 DEF UndoTo
  <2>2. ASSUME NEW i \in 1 .. n
        PROVE  /\ SubSeq(SubSeq(actions, 1, n), 1, i - 1) = SubSeq(actions, 1, i - 1)
               /\ SubSeq(actions, 1, n)[i] = actions[i]
               /\ i \in 1 .. Len(actions)
    BY <1>1
  <2> QED BY <2>1, <2>2 DEF AllAdmitted
<1>4. ASSUME NEW b \in Boards, NewTable(b) PROVE AllAdmitted(board', actions')
  <2>1. actions' = <<>> /\ Len(actions') = 0
    BY <1>4 DEF NewTable
  <2> QED BY <2>1 DEF AllAdmitted
<1>5. CASE UNCHANGED <<board, actions>>
  BY <1>5
<1> QED BY <1>2, <1>3, <1>4, <1>5 DEF TableStep

\* And always.
LEMMA AdmittedAlways == ClaimsSpec => []AllAdmitted(board, actions)
<1>1. ClaimsInit => AllAdmitted(board, actions)
  <2> SUFFICES ASSUME ClaimsInit PROVE AllAdmitted(board, actions)
    OBVIOUS
  <2>1. Len(actions) = 0
    BY DEF ClaimsInit, RoomInit, Init
  <2> QED BY <2>1 DEF AllAdmitted
<1>2. ClaimsInv /\ AllAdmitted(board, actions) /\ [ClaimsNext]_claimsVars
        => AllAdmitted(board, actions)'
  <2> SUFFICES ASSUME ClaimsInv, AllAdmitted(board, actions), [ClaimsNext]_claimsVars
               PROVE  AllAdmitted(board', actions')
    OBVIOUS
  <2>1. CASE UNCHANGED claimsVars
    BY <2>1 DEF claimsVars, roomVars
  <2> QED BY <2>1, RoomStep, AdmittedStep
<1> QED BY <1>1, <1>2, ClaimsInvAlways, PTL DEF ClaimsSpec

\* Whoever acted for a human's seat is waited for when the action is undone:
\* undo goes back to before the last action of a human-controlled seat, and
\* on the log it leaves that seat has the turn, so no bot acts
\* (rooms.rs, last_human_action; bots.rs, bot_must_act).
THEOREM UndoLeavesTurn == ClaimsSpec => UndoOfTurnWaits
<1> DEFINE Waits ==
      (/\ Len(actions') < Len(actions)
       /\ ~paused /\ mode # "playOnly"
       /\ actions[Len(actions') + 1].type # "claim"
       /\ HumanUndoLast)
       => \A f \in {Fold(board, actions')} : ~BotMustAct(f)
<1>1. ASSUME ClaimsInv, AllAdmitted(board, actions) PROVE Waits
  <2> SUFFICES ASSUME ~paused, mode # "playOnly",
                      actions[Len(actions') + 1].type # "claim", HumanUndoLast
               PROVE  ~BotMustAct(Fold(board, actions'))
    OBVIOUS
  <2> DEFINE last == Max(HumanActions)
             f == Fold(board, SubSeq(actions, 1, last - 1))
             seat == actions[last].seat
  <2>1. HumanActions # {} /\ UndoTo(last - 1)
    BY DEF HumanUndoLast, LastHumanAction
  <2>2. /\ actions \in Seq(Action) /\ Len(actions) \in Nat
        /\ HumanActions \in SUBSET (1 .. Len(actions))
    BY <1>1 DEF ClaimsInv, Inv, AllSound, HumanActions
  <2>3. last \in HumanActions
    <3> HIDE DEF HumanActions
    <3> QED BY <2>1, <2>2, Extremes
  <2> HIDE DEF last
  <2>4. /\ last \in 1 .. Len(actions) /\ ~SeatBotControlled(seat)
        /\ actions' = SubSeq(actions, 1, last - 1)
        /\ Len(actions') = last - 1
    BY <2>1, <2>2, <2>3 DEF HumanActions, UndoTo
  <2>5. actions[last].type # "claim"
    BY <2>4
  <2>6. Admits(board, SubSeq(actions, 1, last - 1), actions[last])
    BY <1>1, <2>4 DEF AllAdmitted
  <2>7. f.turn = seat
    BY <2>5, <2>6 DEF Admits
  <2> HIDE DEF f, seat
  <2>8. ~SeatBotControlled(Controller(f, seat))
    BY <2>4 DEF Controller, OnDeclarerSide, DeclarerSideController, Dummy
  <2>9. ~BotMustAct(f)
    BY <2>7, <2>8 DEF BotMustAct, ModeForcesBot, IsBotSeat
  <2> QED BY <2>4, <2>9 DEF f
<1>2. ClaimsInv /\ AllAdmitted(board, actions) => [Waits]_claimsVars
  BY <1>1
<1> HIDE DEF Waits
<1>3. ClaimsSpec => [][Waits]_claimsVars
  BY <1>2, ClaimsInvAlways, AdmittedAlways, PTL
<1> QED BY <1>3 DEF UndoOfTurnWaits, Waits

-----------------------------------------------------------------------------
(* A claim with the solver. *)

\* While nothing was taken back, the cards played when the claim was judged
\* are the first of those played since.
VerdictInv ==
  \A c \in Claimant :
    WithSolver(c) /\ ~moved[c] =>
      /\ claim[c].seen \in 0 .. PlaysMade
      /\ judged[c] = <<board, SubSeq(CardsPlayed, 1, claim[c].seen)>>

\* A claim changes by its own steps alone.
LEMMA WhoseStep ==
  ASSUME ClaimsInv, ClaimsNext, NEW c \in Claimant, claim'[c] # claim[c]
  PROVE  (\E a \in Asks : Ask(c, a)) \/ Examine(c) \/ Refuse(c) \/ Close(c)
<1>1. claim \in [Claimant -> {NoClaim} \cup ClaimRecord]
  BY DEF ClaimsInv
<1>2. PICK d \in Claimant : ClaimStep(d)
  BY DEF ClaimsNext
<1>3. \E r : claim' = [claim EXCEPT ![d] = r]
  BY <1>2 DEF ClaimStep, Ask, Examine, Refuse, Close
<1>4. d = c
  BY <1>1, <1>3
<1> QED BY <1>2, <1>4 DEF ClaimStep

\* Unless something is taken back, cards are only added.
LEMMA CardsGrow ==
  ASSUME ClaimsInv, TableStep, ~Rewound
  PROVE  /\ board' = board /\ PlaysMade \in Nat /\ PlaysMade' \in Nat /\ PlaysMade <= PlaysMade'
         /\ \A n \in 0 .. PlaysMade : SubSeq(CardsPlayed', 1, n) = SubSeq(CardsPlayed, 1, n)
<1>1. /\ actions \in Seq(Action) /\ Len(actions) \in Nat
      /\ CardsPlayed = PlaysOf(actions) /\ PlaysMade = Len(PlaysOf(actions))
      /\ CardsPlayed' = PlaysOf(actions') /\ PlaysMade' = Len(PlaysOf(actions'))
      /\ PlaysOf(actions) \in Seq(PlayActions)
  <2>1. Sound(board, actions) /\ board \in Boards /\ actions \in Seq(Action)
    BY SoundNow DEF ClaimsInv, Inv, AllSound
  <2> QED BY <2>1, PlayTyped DEF CardsPlayed, PlaysMade, PlaysOf
<1>2. board' = board /\ Len(actions) <= Len(actions')
  BY DEF Rewound, IsPrefix
<1>3. CASE actions' = actions
  BY <1>1, <1>2, <1>3
<1>4. ASSUME NEW a \in Action, Apply(a)
      PROVE  /\ PlaysMade' \in Nat /\ PlaysMade <= PlaysMade'
             /\ \A n \in 0 .. PlaysMade : SubSeq(CardsPlayed', 1, n) = SubSeq(CardsPlayed, 1, n)
  <2> DEFINE plays == PlaysOf(actions)
  <2>1. \/ PlaysOf(actions') = plays
        \/ PlaysOf(actions') = Append(plays, a) /\ a \in PlayActions
    <3>1. a.type = "play" => a \in PlayActions
      BY Kinds
    <3> QED BY <1>1, <1>4, <3>1, Parted DEF Apply
  <2> HIDE DEF plays
  <2>2. plays \in Seq(PlayActions) /\ Len(plays) \in Nat
    BY <1>1 DEF plays
  <2>3. CASE PlaysOf(actions') = plays
    BY <1>1, <2>2, <2>3 DEF plays
  <2>4. CASE PlaysOf(actions') = Append(plays, a) /\ a \in PlayActions
    <3>1. Len(Append(plays, a)) = Len(plays) + 1
      BY <2>2, <2>4, AppendProperties
    <3>2. \A n \in 0 .. Len(plays) : SubSeq(Append(plays, a), 1, n) = SubSeq(plays, 1, n)
      BY <2>2, <2>4
    <3> QED BY <1>1, <2>2, <2>4, <3>1, <3>2 DEF plays
  <2> QED BY <2>1, <2>3, <2>4
<1>5. ASSUME NEW n \in 0 .. Len(actions), UndoTo(n) PROVE actions' = actions
  <2>1. actions' = SubSeq(actions, 1, n) /\ Len(actions') = n
    BY <1>1, <1>5 DEF UndoTo
  <2>2. n = Len(actions)
    BY <1>1, <1>2, <2>1
  <2> QED BY <1>1, <2>1, <2>2
<1>6. ASSUME NEW b \in Boards, NewTable(b) PROVE actions' = actions
  <2>1. actions' = <<>> /\ Len(actions') = 0
    BY <1>6 DEF NewTable
  <2> QED BY <1>1, <1>2, <2>1, EmptySeq
<1> QED BY <1>1, <1>2, <1>3, <1>4, <1>5, <1>6 DEF TableStep

\* All the cards played, by their number.
LEMMA CardsAll ==
  ASSUME ClaimsInv
  PROVE  PlaysMade \in Nat /\ SubSeq(CardsPlayed, 1, PlaysMade) = CardsPlayed
<1>1. Sound(board, actions) /\ board \in Boards
  BY SoundNow DEF ClaimsInv, Inv
<1>2. CardsPlayed \in Seq(PlayActions)
  BY <1>1, PlayTyped DEF CardsPlayed, PlaysOf
<1>3. PlaysMade = Len(CardsPlayed)
  BY DEF PlaysMade, CardsPlayed
<1> QED BY <1>2, <1>3

\* Every step keeps the verdicts in place.
LEMMA VerdictStep ==
  ASSUME ClaimsInv, VerdictInv, ClaimsNext, RememberVerdicts
  PROVE  VerdictInv'
<1> SUFFICES ASSUME NEW c \in Claimant, WithSolver(c)', ~moved'[c]
             PROVE  /\ claim'[c].seen \in 0 .. PlaysMade'
                    /\ judged'[c] = <<board', SubSeq(CardsPlayed', 1, claim'[c].seen)>>
  BY DEF VerdictInv
<1>1. /\ judged'[c] = IF WithSolver(c) THEN judged[c] ELSE <<board, CardsPlayed>>
      /\ WithSolver(c) => ~moved[c] /\ ~Rewound
  BY DEF RememberVerdicts
<1>2. /\ claim \in [Claimant -> {NoClaim} \cup ClaimRecord]
      /\ actions \in Seq(Action)
  BY DEF ClaimsInv, Inv, AllSound
<1>3. CASE WithSolver(c)
  <2>1. claim'[c] = claim[c]
    <3> SUFFICES ASSUME claim'[c] # claim[c] PROVE FALSE
      OBVIOUS
    <3>1. (\E a \in Asks : Ask(c, a)) \/ Examine(c) \/ Refuse(c) \/ Close(c)
      BY WhoseStep
    <3>2. Refuse(c) \/ Close(c)
      BY <1>3, <3>1 DEF Ask, Examine, WithSolver, NoClaim
    <3>3. claim'[c] = NoClaim
      BY <1>2, <3>2 DEF Refuse, Close
    <3> QED BY <3>3 DEF WithSolver, NoClaim
  <2>2. /\ claim[c].seen \in 0 .. PlaysMade
        /\ judged[c] = <<board, SubSeq(CardsPlayed, 1, claim[c].seen)>>
    BY <1>1, <1>3 DEF VerdictInv
  <2>3. /\ board' = board /\ PlaysMade \in Nat /\ PlaysMade' \in Nat /\ PlaysMade <= PlaysMade'
        /\ \A n \in 0 .. PlaysMade : SubSeq(CardsPlayed', 1, n) = SubSeq(CardsPlayed, 1, n)
    BY <1>1, <1>3, RoomStep, CardsGrow
  <2> DEFINE seen == claim[c].seen
  <2>4. claim'[c].seen = seen
    BY <2>1
  <2> HIDE DEF seen
  <2>5. seen \in 0 .. PlaysMade /\ judged'[c] = <<board, SubSeq(CardsPlayed, 1, seen)>>
    BY <1>1, <1>3, <2>2 DEF seen
  <2>6. seen \in 0 .. PlaysMade'
    BY <2>3, <2>5
  <2>7. judged'[c] = <<board', SubSeq(CardsPlayed', 1, seen)>>
    BY <2>3, <2>5
  <2> QED BY <2>4, <2>6, <2>7
<1>4. CASE ~WithSolver(c)
  <2>1. claim'[c] # claim[c]
    BY <1>4 DEF WithSolver
  <2>2. Examine(c)
    <3>1. (\E a \in Asks : Ask(c, a)) \/ Examine(c) \/ Refuse(c) \/ Close(c)
      BY <2>1, WhoseStep
    <3>2. ~(Refuse(c) \/ Close(c))
      <4>1. Refuse(c) \/ Close(c) => claim'[c] = NoClaim
        BY <1>2 DEF Refuse, Close
      <4> QED BY <4>1 DEF WithSolver, NoClaim
    <3>3. ~(\E a \in Asks : Ask(c, a))
      <4>1. (\E a \in Asks : Ask(c, a)) => claim'[c].stage = "asked"
        BY <1>2 DEF Ask
      <4> QED BY <4>1 DEF WithSolver
    <3> QED BY <3>1, <3>2, <3>3
  <2>3. UNCHANGED roomVars /\ claim'[c].seen = PlaysMade
    <3> DEFINE f == Fold(board, actions)
    <3>1. PICK n \in 0 .. 4 * Tricks :
            /\ UNCHANGED roomVars
            /\ claim' = [claim EXCEPT ![c] = IF InPlace(c, n, f)
                                             THEN [stage |-> "judged", ask |-> @.ask, seen |-> n]
                                             ELSE NoClaim]
      BY <2>2 DEF Examine
    <3>2. InPlace(c, n, f)
      BY <1>2, <3>1 DEF WithSolver, NoClaim
    <3>3. claim'[c].seen = n
      BY <1>2, <3>1, <3>2
    <3>4. n = PlaysMade
      BY <3>2, PlaysCounted DEF InPlace
    <3> QED BY <3>1, <3>3, <3>4
  <2>4. board' = board /\ CardsPlayed' = CardsPlayed /\ PlaysMade' = PlaysMade
    BY <2>3 DEF roomVars, CardsPlayed, PlaysMade
  <2>5. PlaysMade \in Nat /\ SubSeq(CardsPlayed, 1, PlaysMade) = CardsPlayed
    BY CardsAll
  <2> QED BY <1>1, <1>4, <2>3, <2>4, <2>5
<1> QED BY <1>3, <1>4

\* While a table is neither rewound nor dealt to, a player's claim lands on
\* the very cards the solver judged it on (claims.rs, make_claim: "applied
\* only if nothing was played meanwhile").
THEOREM ClaimLandsWhereJudged == JudgedSpec => ClaimJudgedHere
<1> DEFINE Lands ==
      \A c \in Claimant :
        WithSolver(c) /\ claim'[c] # claim[c] /\ actions' # actions /\ ~moved[c]
          => judged[c] = <<board, CardsPlayed>>
           Step == ClaimsNext /\ RememberVerdicts
           all == <<claimsVars, history>>
<1>1. JudgedInit => VerdictInv
  <2> SUFFICES ASSUME JudgedInit, NEW c \in Claimant PROVE ~WithSolver(c)
    BY DEF VerdictInv
  <2> QED BY DEF JudgedInit, ClaimsInit, WithSolver, NoClaim
<1>2. ClaimsInv /\ VerdictInv /\ [Step]_all => VerdictInv'
  <2> SUFFICES ASSUME ClaimsInv, VerdictInv, [Step]_all PROVE VerdictInv'
    OBVIOUS
  <2>1. CASE UNCHANGED all
    BY <2>1 DEF VerdictInv, WithSolver, CardsPlayed, PlaysMade, history, claimsVars, roomVars
  <2> QED BY <2>1, VerdictStep
<1>3. ClaimsInv /\ VerdictInv /\ [Step]_all => [Lands]_all
  <2> SUFFICES ASSUME ClaimsInv, VerdictInv, ClaimsNext, NEW c \in Claimant,
                      WithSolver(c), claim'[c] # claim[c], actions' # actions, ~moved[c]
               PROVE  judged[c] = <<board, CardsPlayed>>
    OBVIOUS
  <2>1. Close(c)
    <3>1. (\E a \in Asks : Ask(c, a)) \/ Examine(c) \/ Refuse(c) \/ Close(c)
      BY WhoseStep
    <3> QED BY <3>1 DEF Ask, Examine, Refuse, roomVars
  <2>2. claim[c].seen = PlaysMade
    BY <2>1 DEF Close, Settled, Outdated
  <2> QED BY <2>2, CardsAll DEF VerdictInv
<1>4. JudgedSpec => []ClaimsInv
  <2>1. JudgedSpec => ClaimsSpec
    <3>1. JudgedInit => ClaimsInit
      BY DEF JudgedInit
    <3>2. [Step]_all => [ClaimsNext]_claimsVars
      OBVIOUS
    <3> QED BY <3>1, <3>2, PTL DEF JudgedSpec, ClaimsSpec
  <2> QED BY <2>1, ClaimsInvAlways, PTL
<1> HIDE DEF Lands
<1>5. JudgedSpec => [][Lands]_all
  BY <1>1, <1>2, <1>3, <1>4, PTL DEF JudgedSpec
<1> QED BY <1>5 DEF ClaimJudgedHere, Lands

=============================================================================
