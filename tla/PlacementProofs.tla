---------------------------- MODULE PlacementProofs ----------------------------
(***************************************************************************)
(* What placement keeps for every number of people, tables and moves of    *)
(* the host.  The inductive invariant says who has a chair and who has     *)
(* none yet, by where the search stands, and that a chair that has stayed  *)
(* free is still ahead of the search.                                      *)
(***************************************************************************)
EXTENDS Placement, FiniteSetTheorems, TLAPS

\* The shapes the policies have: either the search goes round the tables, or
\* it takes their two chairs in turn.
Shapes == {h \in [round : BOOLEAN, chairs : Seq(Seat)] :
             h.chairs # <<>> /\ (~h.round => Len(h.chairs) = 2)}

\* A table is a function from its chairs to who sits there.
Chairs == [Seat -> Person \cup {Nobody}]

\* What a search carries, by how far it has come.
Looks == Seq([table : Table, among : Seq(Seat)])
Watching == search = [step |-> "watch", who |-> search.who] /\ search.who \in Person
Lining ==
  /\ search = [step |-> "next", shape |-> search.shape, queue |-> search.queue]
  /\ search.shape \in Shapes /\ search.queue \subseteq Person
Seating ==
  /\ search = [step |-> search.step, who |-> search.who, shape |-> search.shape,
               queue |-> search.queue, looks |-> search.looks]
  /\ search.who \in Person /\ search.shape \in Shapes /\ search.queue \subseteq Person

SearchOK ==
  \/ search = Idle
  \/ search.step = "watch" /\ Watching
  \/ search.step = "next" /\ Lining
  \/ search.step = "look" /\ Seating /\ search.looks \in Looks
  \/ search.step = "sit" /\ Seating /\ \E t \in Table : search.looks = <<t>>
  \/ search.step = "unlist" /\ Seating

\* Who is being seated, and who is to be seated after.
Who   == IF search.step \in {"look", "sit", "unlist"} THEN {search.who} ELSE {}
Queue == IF search.step \in {"next", "look", "sit", "unlist"} THEN search.queue ELSE {}

Typed ==
  /\ policy \in Policies
  /\ at \in [Person -> {"away", "arriving", "waiting", "in", "left"}]
  /\ {p \in Person : at[p] = "arriving"}
       \subseteq (IF search.step \in {"look", "sit", "watch"} THEN {search.who} ELSE {})
  /\ spare \subseteq Table \X Seat
  /\ moves \in 0 .. MaxMoves
  /\ touched \subseteq Person

InLine ==
  /\ seats \in Seq(Chairs)
  /\ SearchOK
  /\ Who \cap Queue = {}
  /\ \A p \in Who \cup Queue : at[p] # "away"
  /\ search.step = "watch" => at[search.who] = "arriving"

\* The cursor counts people who have been dealt with, each of them once.
Served  == ({p \in Person : at[p] \in {"in", "left"}} \ Queue) \cup Who
Counted == cursor \in Nat /\ cursor <= Cardinality(Served)

\* Who has no chair yet, and who has one.
Seeks(p) ==
  \/ at[p] \in {"away", "arriving"} \/ p \in Queue
  \/ p \in Who /\ search.step \in {"look", "sit"}
  \/ at[p] = "waiting" /\ ~(p \in Who /\ search.step = "unlist")
HasOne(p) == at[p] = "in" \/ (p \in Who /\ search.step = "unlist")

Chaired(p) ==
  /\ \A x, y \in ChairsOf(p) : x = y
  /\ Seeks(p) => ChairsOf(p) = {} /\ ~HasOne(p)
  /\ HasOne(p) => ChairsOf(p) # {}

\* A chair that stayed free is still to be looked at.
Ahead ==
  \A x \in spare :
    /\ seats[x[1]][x[2]] = Nobody
    /\ search.step = "look"
    /\ \E i \in DOMAIN search.looks :
         search.looks[i].table = x[1] /\ x[2] \in ToSet(search.looks[i].among)

Inv == Typed /\ InLine /\ Counted /\ Ahead /\ \A p \in Person \ touched : Chaired(p)

-----------------------------------------------------------------------------
(* Going round n tables, and pair by pair. *)

\* The remainder is the one there is.
LEMMA Remainder ==
  ASSUME NEW n \in Nat \ {0}, NEW q \in Nat, NEW m \in 0 .. n - 1
  PROVE  (n * q + m) % n = m
OBVIOUS

\* From wherever the cursor stands, going round comes to every table.
LEMMA GoingRound ==
  ASSUME NEW n \in Nat \ {0}, NEW c \in Nat, NEW t \in 1 .. n
  PROVE  \E i \in 1 .. n : ((c + i - 1) % n) + 1 = t
<1> DEFINE q == c \div n
           r == c % n
<1>1. q \in Nat /\ r \in 0 .. n - 1 /\ c = n * q + r
  OBVIOUS
<1> HIDE DEF q, r
<1>2. CASE t - 1 >= r
  <2>1. t - r \in 1 .. n /\ c + (t - r) - 1 = n * q + (t - 1) /\ t - 1 \in 0 .. n - 1
    BY <1>1, <1>2
  <2>2. (n * q + (t - 1)) % n = t - 1
    BY <1>1, <2>1, Remainder
  <2>3. ((c + (t - r) - 1) % n) + 1 = t
    BY <2>1, <2>2
  <2> QED
    BY <2>1, <2>3
<1>3. CASE t - 1 < r
  <2>1. t - r + n \in 1 .. n /\ t - 1 \in 0 .. n - 1
    BY <1>1, <1>3
  <2>2. n * (q + 1) = n * q + n
    BY <1>1
  <2>3. c + (t - r + n) - 1 = n * (q + 1) + (t - 1)
    BY <1>1, <2>2, <2>1
  <2>4. (n * (q + 1) + (t - 1)) % n = t - 1
    BY <1>1, <2>1, Remainder
  <2>5. ((c + (t - r + n) - 1) % n) + 1 = t
    BY <2>1, <2>3, <2>4
  <2> QED
    BY <2>1, <2>5
<1> QED
  BY <1>1, <1>2, <1>3

\* A function on the first numbers is a sequence.
LEMMA FunctionIsSequence ==
  ASSUME NEW S, NEW m \in Nat, NEW f \in [1 .. m -> S]
  PROVE  f \in Seq(S)
OBVIOUS

\* What the policies ask for.
LEMMA EveryShape ==
  \A k \in {"first_free", "one_per_south", "two_per_ns", "pairs_ns"} : Shape[k] \in Shapes
<1>1. /\ Shape["first_free"] = [round |-> TRUE, chairs |-> <<South, West, North, East>>]
      /\ Shape["one_per_south"] = [round |-> TRUE, chairs |-> <<South>>]
      /\ Shape["two_per_ns"] = [round |-> TRUE, chairs |-> <<South, North>>]
      /\ Shape["pairs_ns"] = [round |-> FALSE, chairs |-> <<South, North>>]
  BY DEF Shape
<1>2. /\ <<South, West, North, East>> \in Seq(Seat)
      /\ <<South>> \in Seq(Seat) /\ <<South, North>> \in Seq(Seat)
      /\ Len(<<South, North>>) = 2
      /\ <<South, West, North, East>> # <<>> /\ <<South>> # <<>> /\ <<South, North>> # <<>>
  BY DEF South, West, North, East, Seat
<1>3. ASSUME NEW b \in BOOLEAN, NEW c \in Seq(Seat), c # <<>>, ~b => Len(c) = 2
      PROVE  [round |-> b, chairs |-> c] \in Shapes
  BY <1>3 DEF Shapes
<1> QED
  BY <1>1, <1>2, <1>3

LEMMA ShapesAre ==
  ASSUME PlacementAssumption, policy \in Policies
  PROVE  /\ policy # "manual" => Shape[policy] \in Shapes
         /\ BulkShape \in Shapes
BY EveryShape DEF BulkShape, PlacementAssumption

\* The chairs of a shape are some, at most the four of a table.
LEMMA ShapeChairs ==
  ASSUME NEW h \in Shapes
  PROVE  /\ h.chairs \in Seq(Seat) /\ h.chairs # <<>>
         /\ ToSet(h.chairs) \subseteq Seat /\ ToSet(h.chairs) # {}
<1> DEFINE c == h.chairs
<1>1. c \in Seq(Seat) /\ c # <<>>
  BY DEF Shapes
<1> HIDE DEF c
<1>2. DOMAIN c = 1 .. Len(c) /\ Len(c) \in Nat \ {0} /\ \A i \in 1 .. Len(c) : c[i] \in Seat
  BY <1>1
<1>3. ToSet(c) = {c[i] : i \in DOMAIN c}
  BY DEF ToSet
<1>4. c[1] \in ToSet(c) /\ ToSet(c) \subseteq Seat
  BY <1>2, <1>3
<1> QED
  BY <1>1, <1>4 DEF c

\* The looks are at tables there are, and leave out no chair that is asked for.
LEMMA ItineraryCovers ==
  ASSUME NEW h \in Shapes, cursor \in Nat, seats \in Seq(Chairs)
  PROVE  /\ Itinerary(h, Len(seats)) \in Looks
         /\ \A t \in Table, s \in ToSet(h.chairs) :
              \E i \in DOMAIN Itinerary(h, Len(seats)) :
                /\ Itinerary(h, Len(seats))[i].table = t
                /\ s \in ToSet(Itinerary(h, Len(seats))[i].among)
<1> DEFINE n  == Len(seats)
           it == Itinerary(h, n)
<1>1. n \in Nat /\ Table = 1 .. n
  BY DEF Table
<1>2. h.round \in BOOLEAN /\ h.chairs \in Seq(Seat) /\ (~h.round => Len(h.chairs) = 2)
  BY DEF Shapes
<1>3. DOMAIN h.chairs = 1 .. Len(h.chairs)
  BY <1>2
<1> HIDE DEF n
<1>4. CASE h.round
  <2>1. it = [i \in 1 .. n |-> [table |-> ((cursor + i - 1) % n) + 1, among |-> h.chairs]]
    BY <1>4 DEF Itinerary
  <2>2. \A i \in 1 .. n : ((cursor + i - 1) % n) + 1 \in 1 .. n
    BY <1>1
  <2>3. it \in Looks
    BY <2>1, <2>2, <1>1, <1>2 DEF Looks
  <2>4. ASSUME NEW t \in Table, NEW s \in ToSet(h.chairs)
        PROVE  \E i \in DOMAIN it : it[i].table = t /\ s \in ToSet(it[i].among)
    <3>0. n \in Nat \ {0} /\ t \in 1 .. n
      BY <1>1
    <3>1. PICK i \in 1 .. n : ((cursor + i - 1) % n) + 1 = t
      BY <3>0, GoingRound
    <3> QED
      BY <2>1, <3>1
  <2> QED
    BY <2>3, <2>4 DEF n
<1>5. CASE ~h.round
  <2>0. Len(h.chairs) = 2
    BY <1>2, <1>5
  <2>1. it = [i \in 1 .. n * 2 |-> [table |-> ((i - 1) \div 2) + 1,
                                    among |-> <<h.chairs[((i - 1) % 2) + 1]>>]]
    BY <1>5, <2>0 DEF Itinerary
  <2>2. \A i \in 1 .. n * 2 : /\ ((i - 1) \div 2) + 1 \in 1 .. n
                              /\ ((i - 1) % 2) + 1 \in 1 .. 2
    BY <1>1
  <2>3. \A j \in 1 .. 2 : h.chairs[j] \in Seat /\ <<h.chairs[j]>> \in Seq(Seat)
    BY <1>2, <2>0
  <2>4. \A i \in 1 .. n * 2 : it[i] \in [table : Table, among : Seq(Seat)]
    <3> TAKE i \in 1 .. n * 2
    <3>1. it[i] = [table |-> ((i - 1) \div 2) + 1, among |-> <<h.chairs[((i - 1) % 2) + 1]>>]
      BY <2>1
    <3>2. ((i - 1) \div 2) + 1 \in Table /\ <<h.chairs[((i - 1) % 2) + 1]>> \in Seq(Seat)
      BY <2>2, <2>3, <1>1
    <3> HIDE DEF it
    <3> QED
      BY <3>1, <3>2
  <2>5. it \in Looks
    <3>1. n * 2 \in Nat
      BY <1>1
    <3>2. DOMAIN it = 1 .. n * 2 /\ it = [i \in 1 .. n * 2 |-> it[i]]
      BY <2>1
    <3> HIDE DEF it
    <3>3. it \in [1 .. n * 2 -> [table : Table, among : Seq(Seat)]]
      BY <2>4, <3>2
    <3> QED
      BY <3>1, <3>3, FunctionIsSequence DEF Looks
  <2>6. ASSUME NEW t \in Table, NEW s \in ToSet(h.chairs)
        PROVE  \E i \in DOMAIN it : it[i].table = t /\ s \in ToSet(it[i].among)
    <3>1. PICK j \in 1 .. 2 : h.chairs[j] = s
      BY <2>0, <1>3 DEF ToSet
    <3> DEFINE i == 2 * (t - 1) + j
    <3>2. /\ i \in 1 .. n * 2
          /\ ((i - 1) \div 2) + 1 = t /\ ((i - 1) % 2) + 1 = j
      BY <1>1, <3>1
    <3>3. it[i] = [table |-> ((i - 1) \div 2) + 1, among |-> <<h.chairs[((i - 1) % 2) + 1]>>]
      BY <2>1, <3>2
    <3>5. it[i].table = t /\ it[i].among = <<s>>
      <4> HIDE DEF it, i
      <4> QED
        BY <3>1, <3>2, <3>3
    <3>4. s \in ToSet(<<s>>)
      BY DEF ToSet
    <3> QED
      BY <2>1, <3>2, <3>4, <3>5
  <2> QED
    BY <2>5, <2>6 DEF n
<1> QED
  BY <1>2, <1>4, <1>5

-----------------------------------------------------------------------------
(* What the steps do to chairs and to the search. *)

\* Somebody sits down, or gets up.
LEMMA SitEffect ==
  ASSUME NEW t \in Table, NEW s \in Seat, NEW p \in Person \cup {Nobody},
         seats \in Seq(Chairs), Sit(t, s, p)
  PROVE  /\ seats' \in Seq(Chairs) /\ Len(seats') = Len(seats) /\ Table' = Table
         /\ \A u \in Table, z \in Seat :
              seats'[u][z] = IF u = t /\ z = s THEN p ELSE seats[u][z]
<1> DEFINE row == [seats[t] EXCEPT ![s] = p]
<1>1. Table = 1 .. Len(seats) /\ Len(seats) \in Nat /\ \A u \in Table : seats[u] \in Chairs
  BY DEF Table
<1>2. row \in Chairs /\ \A z \in Seat : row[z] = IF z = s THEN p ELSE seats[t][z]
  BY <1>1 DEF Chairs
<1>3. seats' = [seats EXCEPT ![t] = row]
  BY DEF Sit
<1> HIDE DEF row
<1>4. seats' \in Seq(Chairs) /\ Len(seats') = Len(seats)
  BY <1>1, <1>2, <1>3
<1>5. Table' = Table
  BY <1>1, <1>4 DEF Table
<1>6. \A u \in Table : seats'[u] = IF u = t THEN row ELSE seats[u]
  BY <1>1, <1>3
<1> QED
  BY <1>2, <1>4, <1>5, <1>6

\* A table more has free chairs only.
LEMMA OpenEffect ==
  ASSUME PlacementAssumption, seats \in Seq(Chairs), OpenTable
  PROVE  /\ seats' \in Seq(Chairs) /\ Table' = Table \cup {Len(seats) + 1}
         /\ Len(seats) + 1 \notin Table
         /\ \A u \in Table : seats'[u] = seats[u]
         /\ seats'[Len(seats) + 1] = EmptyTable
<1>1. EmptyTable \in Chairs
  BY DEF EmptyTable, Chairs
<1>2. Table = 1 .. Len(seats) /\ Len(seats) \in Nat
  BY DEF Table
<1>3. /\ seats' \in Seq(Chairs) /\ Len(seats') = Len(seats) + 1
      /\ \A u \in 1 .. Len(seats) : seats'[u] = seats[u]
      /\ seats'[Len(seats) + 1] = EmptyTable
  BY <1>1 DEF OpenTable
<1>4. Table' = 1 .. Len(seats) + 1
  BY <1>3 DEF Table
<1> QED
  BY <1>2, <1>3, <1>4

\* Whoever takes a free chair has it besides what there was.
LEMMA SitFree ==
  ASSUME NEW t \in Table, NEW s \in Seat, NEW p \in Person, PlacementAssumption,
         seats \in Seq(Chairs), seats[t][s] = Nobody, Sit(t, s, p)
  PROVE  /\ ChairsOf(p)' = ChairsOf(p) \cup {<<t, s>>}
         /\ \A q \in Person \ {p} : ChairsOf(q)' = ChairsOf(q)
<1>1. /\ Table' = Table
      /\ \A u \in Table, z \in Seat :
           seats'[u][z] = IF u = t /\ z = s THEN p ELSE seats[u][z]
  BY SitEffect
<1>2. ChairsOf(p)' = {x \in Table \X Seat : seats'[x[1]][x[2]] = p}
  BY <1>1 DEF ChairsOf
<1>3. ASSUME NEW x \in Table \X Seat
      PROVE  seats'[x[1]][x[2]] = IF x = <<t, s>> THEN p ELSE seats[x[1]][x[2]]
  BY <1>1
<1>4. ChairsOf(p)' = ChairsOf(p) \cup {<<t, s>>}
  BY <1>2, <1>3 DEF ChairsOf
<1>5. ASSUME NEW q \in Person \ {p} PROVE ChairsOf(q)' = ChairsOf(q)
  <2>1. ChairsOf(q)' = {x \in Table \X Seat : seats'[x[1]][x[2]] = q}
    BY <1>1 DEF ChairsOf
  <2>2. q # Nobody
    BY DEF PlacementAssumption
  <2>3. \A x \in Table \X Seat : seats'[x[1]][x[2]] = q <=> seats[x[1]][x[2]] = q
    BY <1>3, <2>2
  <2> QED
    BY <2>1, <2>3 DEF ChairsOf
<1> QED
  BY <1>4, <1>5

\* A chair that changes hands concerns the two.
LEMMA SitOthers ==
  ASSUME NEW t \in Table, NEW s \in Seat, NEW p \in Person \cup {Nobody},
         seats \in Seq(Chairs), Sit(t, s, p)
  PROVE  \A q \in Person \ {p, seats[t][s]} : ChairsOf(q)' = ChairsOf(q)
<1>1. /\ Table' = Table
      /\ \A u \in Table, z \in Seat :
           seats'[u][z] = IF u = t /\ z = s THEN p ELSE seats[u][z]
  BY SitEffect
<1> TAKE q \in Person \ {p, seats[t][s]}
<1>2. ChairsOf(q)' = {x \in Table \X Seat : seats'[x[1]][x[2]] = q}
  BY <1>1 DEF ChairsOf
<1>3. \A x \in Table \X Seat : seats'[x[1]][x[2]] = q <=> seats[x[1]][x[2]] = q
  BY <1>1
<1> QED
  BY <1>2, <1>3 DEF ChairsOf

\* Nobody sits at a new table.
LEMMA OpenOthers ==
  ASSUME PlacementAssumption, seats \in Seq(Chairs), OpenTable
  PROVE  \A q \in Person : ChairsOf(q)' = ChairsOf(q)
<1>1. /\ Table' = Table \cup {Len(seats) + 1}
      /\ \A u \in Table : seats'[u] = seats[u]
      /\ seats'[Len(seats) + 1] = EmptyTable
  BY OpenEffect
<1> TAKE q \in Person
<1>2. ChairsOf(q)' = {x \in Table' \X Seat : seats'[x[1]][x[2]] = q}
  BY DEF ChairsOf
<1>3. q # Nobody
  BY DEF PlacementAssumption
<1>4. \A x \in Table' \X Seat :
        seats'[x[1]][x[2]] = q <=> (x \in Table \X Seat /\ seats[x[1]][x[2]] = q)
  <2> TAKE x \in Table' \X Seat
  <2>1. CASE x[1] = Len(seats) + 1
    <3>1. seats'[x[1]][x[2]] = Nobody
      BY <1>1, <2>1 DEF EmptyTable
    <3>2. x[1] \notin Table
      BY <2>1, OpenEffect
    <3> QED
      BY <3>1, <3>2, <1>3
  <2>2. CASE x[1] \in Table
    BY <1>1, <2>2
  <2> QED
    BY <1>1, <2>1, <2>2
<1> QED
  BY <1>1, <1>2, <1>4 DEF ChairsOf

\* A sequence over a set is one over a larger set.
LEMMA SeqGrows ==
  ASSUME NEW S, NEW T, S \subseteq T
  PROVE  Seq(S) \subseteq Seq(T)
<1> SUFFICES ASSUME NEW s \in Seq(S) PROVE s \in Seq(T)
  OBVIOUS
<1>1. Len(s) \in Nat /\ s \in [1 .. Len(s) -> S]
  OBVIOUS
<1>2. s \in [1 .. Len(s) -> T]
  BY <1>1
<1> QED
  BY <1>1, <1>2

\* The search is not disturbed by what happens at the tables.
LEMMA SearchKept ==
  ASSUME SearchOK, search' = search, Table \subseteq Table'
  PROVE  SearchOK' /\ Who' = Who /\ Queue' = Queue
<1>1. Who' = Who /\ Queue' = Queue
  BY DEF Who, Queue
<1>2. Looks \subseteq Looks'
  <2>1. [table : Table, among : Seq(Seat)] \subseteq [table : Table', among : Seq(Seat)]
    OBVIOUS
  <2> QED
    BY <2>1, SeqGrows DEF Looks
<1>3. Idle' = Idle /\ Shapes' = Shapes
  BY DEF Idle, Shapes
<1>4. Seating => Seating'
  BY <1>3 DEF Seating
<1>5. Lining => Lining'
  BY <1>3 DEF Lining
<1>6. Watching => Watching'
  BY DEF Watching
<1>7. SearchOK'
  BY <1>2, <1>3, <1>4, <1>5, <1>6 DEF SearchOK
<1> QED
  BY <1>1, <1>7

\* The steps of a search tell what it carries.
LEMMA Carries ==
  ASSUME SearchOK
  PROVE  /\ search.step \in {"idle", "watch", "next", "look", "sit", "unlist"}
         /\ search = Idle <=> search.step = "idle"
         /\ search.step = "watch" => Watching
         /\ search.step = "next" => Lining
         /\ search.step \in {"look", "sit", "unlist"} => Seating
         /\ search.step = "look" => search.looks \in Looks
         /\ search.step = "sit" => \E t \in Table : search.looks = <<t>>
         /\ Who \subseteq Person /\ Queue \subseteq Person
<1>1. Idle.step = "idle"
  BY DEF Idle
<1>2. Who \subseteq Person
  BY <1>1 DEF SearchOK, Who, Seating
<1>3. Queue \subseteq Person
  BY <1>1 DEF SearchOK, Queue, Seating, Lining
<1> QED
  BY <1>1, <1>2, <1>3 DEF SearchOK

\* The next stage of a search carries what the last one did.
LEMMA Stages ==
  ASSUME Seating
  PROVE  /\ [search EXCEPT !.step = "unlist"] =
              [step |-> "unlist", who |-> search.who, shape |-> search.shape,
               queue |-> search.queue, looks |-> search.looks]
         /\ \A l : [search EXCEPT !.looks = l] =
              [step |-> search.step, who |-> search.who, shape |-> search.shape,
               queue |-> search.queue, looks |-> l]
         /\ \A t : [search EXCEPT !.step = "sit", !.looks = <<t>>] =
              [step |-> "sit", who |-> search.who, shape |-> search.shape,
               queue |-> search.queue, looks |-> <<t>>]
<1>1. search = [step |-> search.step, who |-> search.who, shape |-> search.shape,
                queue |-> search.queue, looks |-> search.looks]
  BY DEF Seating
<1>2. [search EXCEPT !.step = "unlist"] =
        [step |-> "unlist", who |-> search.who, shape |-> search.shape,
         queue |-> search.queue, looks |-> search.looks]
  BY <1>1
<1>3. ASSUME NEW l
      PROVE  [search EXCEPT !.looks = l] =
               [step |-> search.step, who |-> search.who, shape |-> search.shape,
                queue |-> search.queue, looks |-> l]
  BY <1>1
<1>4. ASSUME NEW t
      PROVE  [search EXCEPT !.step = "sit", !.looks = <<t>>] =
               [step |-> "sit", who |-> search.who, shape |-> search.shape,
                queue |-> search.queue, looks |-> <<t>>]
  <2> DEFINE new == [search EXCEPT !.step = "sit"]
  <2>1. new = [step |-> "sit", who |-> search.who, shape |-> search.shape,
               queue |-> search.queue, looks |-> search.looks]
    BY <1>1
  <2>2. [search EXCEPT !.step = "sit", !.looks = <<t>>] = [new EXCEPT !.looks = <<t>>]
    OBVIOUS
  <2> HIDE DEF new
  <2> QED
    BY <2>1, <2>2
<1> QED
  BY <1>2, <1>3, <1>4

\* More people are dealt with, never fewer.
LEMMA CountedKept ==
  ASSUME PlacementAssumption, Counted, cursor' = cursor, Served \subseteq Served',
         Served' \subseteq Person
  PROVE  Counted'
<1>1. IsFiniteSet(Served')
  BY FS_Subset DEF PlacementAssumption
<1>2. IsFiniteSet(Served)
  BY <1>1, FS_Subset
<1>3. Cardinality(Served) <= Cardinality(Served')
  BY <1>1, FS_Subset
<1>4. Cardinality(Served) \in Nat /\ Cardinality(Served') \in Nat
  BY <1>1, <1>2, FS_CardinalityType
<1> QED
  BY <1>3, <1>4 DEF Counted

\* One person more may be counted once.
LEMMA CountedNext ==
  ASSUME PlacementAssumption, Counted, cursor' \in {cursor, cursor + 1},
         NEW p \in Person \ Served, Served \subseteq Person, Served' \subseteq Person,
         Served \cup {p} \subseteq Served'
  PROVE  Counted'
<1>1. IsFiniteSet(Served) /\ IsFiniteSet(Served')
  BY FS_Subset DEF PlacementAssumption
<1>2. Cardinality(Served \cup {p}) = Cardinality(Served) + 1
  BY <1>1, FS_AddElement
<1>3. Cardinality(Served \cup {p}) <= Cardinality(Served')
  BY <1>1, FS_Subset
<1>4. Cardinality(Served) \in Nat /\ Cardinality(Served') \in Nat
  BY <1>1, FS_CardinalityType
<1> QED
  BY <1>2, <1>3, <1>4 DEF Counted

\* Who is no nearer to a chair, nor farther from one, is as before.
LEMMA ChairedKept ==
  ASSUME NEW q \in Person, Chaired(q), ChairsOf(q)' = ChairsOf(q),
         Seeks(q)' => Seeks(q), HasOne(q)' => HasOne(q)
  PROVE  Chaired(q)'
BY DEF Chaired

\* The chairs that stay free are still ahead of a search that stays where it is.
LEMMA SpareKept ==
  ASSUME Ahead, Remember, search' = search, spare \subseteq Table \X Seat,
         Table \subseteq Table'
  PROVE  Ahead' /\ spare' \subseteq Table' \X Seat
<1>1. CASE search.step # "look"
  BY <1>1 DEF Remember, Ahead
<1>2. CASE search.step = "look"
  <2>1. spare' = {x \in spare : seats'[x[1]][x[2]] = Nobody}
    BY <1>2 DEF Remember
  <2> QED
    BY <1>2, <2>1 DEF Ahead
<1> QED
  BY <1>1, <1>2

LEMMA SpareGone ==
  ASSUME Remember, search'.step # "look"
  PROVE  Ahead' /\ spare' = {}
BY DEF Remember, Ahead

LEMMA ServedArePeople ==
  ASSUME SearchOK
  PROVE  Served \subseteq Person
BY Carries DEF Served

-----------------------------------------------------------------------------
(* What goes on besides the search. *)

\* The host and those who go leave the search and the cursor alone, and what
\* they do to somebody's chair or place they are remembered for.
Besides ==
  /\ search' = search /\ cursor' = cursor
  /\ seats' \in Seq(Chairs) /\ Table \subseteq Table'
  /\ policy' \in Policies /\ moves' \in 0 .. MaxMoves
  /\ touched \subseteq touched' /\ touched' \subseteq Person
  /\ at' \in [Person -> {"away", "arriving", "waiting", "in", "left"}]
  /\ \A p \in Person : \/ at'[p] = at[p]
                       \/ at[p] \in {"waiting", "in"} /\ at'[p] \in {"in", "left"}
  /\ \A q \in Person \ touched' :
       /\ ChairsOf(q)' = ChairsOf(q)
       /\ at'[q] = at[q] \/ (at[q] = "waiting" /\ at'[q] = "left")

LEMMA BesidesKeeps ==
  ASSUME PlacementAssumption, Inv, Besides, Remember
  PROVE  Inv'
<1>0. Typed /\ InLine /\ Counted /\ Ahead /\ SearchOK
  BY DEF Inv, InLine
<1>1. search' = search /\ SearchOK' /\ Who' = Who /\ Queue' = Queue
  BY <1>0, SearchKept DEF Besides
<1>2. Ahead' /\ spare' \subseteq Table' \X Seat
  BY <1>0, SpareKept DEF Typed, Besides
<1>3. Typed'
  BY <1>0, <1>2 DEF Typed, Besides
<1>4. Who \subseteq Person /\ Queue \subseteq Person
  BY <1>0, Carries
<1>5. InLine'
  <2>1. \A p \in (Who \cup Queue)' : at'[p] # "away"
    BY <1>0, <1>1, <1>4 DEF InLine, Besides
  <2>2. search'.step = "watch" => at'[search'.who] = "arriving"
    <3>1. search.step = "watch" => search.who \in Person /\ at[search.who] = "arriving"
      BY <1>0, Carries DEF InLine, Watching
    <3> QED
      BY <3>1, <1>1 DEF Besides
  <2> QED
    BY <1>0, <1>1, <2>1, <2>2 DEF InLine, Besides
<1>6. Counted'
  <2>1. Served \subseteq Served' /\ Served' \subseteq Person
    BY <1>1, <1>4 DEF Served, Besides
  <2> QED
    BY <1>0, <2>1, CountedKept DEF Besides
<1>7. ASSUME NEW q \in Person \ touched' PROVE Chaired(q)'
  <2>1. Chaired(q) /\ ChairsOf(q)' = ChairsOf(q)
    BY DEF Inv, Besides
  <2>2. at'[q] = at[q] \/ (at[q] = "waiting" /\ at'[q] = "left")
    BY DEF Besides
  <2>3. (Seeks(q)' => Seeks(q)) /\ (HasOne(q)' => HasOne(q))
    BY <1>1, <2>2 DEF Seeks, HasOne
  <2> QED
    BY <2>1, <2>3, ChairedKept
<1> QED
  BY <1>2, <1>3, <1>5, <1>6, <1>7 DEF Inv

LEMMA AddTableKeeps ==
  ASSUME PlacementAssumption, Inv, AddTable, Remember
  PROVE  Inv'
<1>1. seats' \in Seq(Chairs) /\ Table \subseteq Table'
  BY OpenEffect DEF AddTable, Inv, InLine
<1>2. \A q \in Person : ChairsOf(q)' = ChairsOf(q)
  BY OpenOthers DEF AddTable, Inv, InLine
<1>3. moves' \in 0 .. MaxMoves
  BY DEF AddTable, Upset, Inv, Typed, PlacementAssumption
<1> QED
  BY <1>1, <1>2, <1>3, BesidesKeeps DEF Besides, AddTable, Inv, Typed

LEMMA SetSeatPolicyKeeps ==
  ASSUME PlacementAssumption, Inv, NEW k \in Policies, SetSeatPolicy(k), Remember
  PROVE  Inv'
<1>1. seats' \in Seq(Chairs) /\ Table' = Table /\ \A q : ChairsOf(q)' = ChairsOf(q)
  BY DEF SetSeatPolicy, Inv, InLine, ChairsOf, Table
<1>2. moves' \in 0 .. MaxMoves
  BY DEF SetSeatPolicy, Upset, Inv, Typed, PlacementAssumption
<1> QED
  BY <1>1, <1>2, BesidesKeeps DEF Besides, SetSeatPolicy, Inv, Typed

LEMMA HostPlaceKeeps ==
  ASSUME PlacementAssumption, Inv, NEW p \in Person, NEW t \in Table, NEW s \in HostChairs,
         HostPlace(p, t, s), Remember
  PROVE  Inv'
<1>1. s \in Seat /\ p \in Person \cup {Nobody} /\ seats \in Seq(Chairs) /\ Sit(t, s, p)
  BY DEF HostPlace, PlacementAssumption, Inv, InLine
<1>2. seats' \in Seq(Chairs) /\ Table' = Table
  BY <1>1, SitEffect
<1>3. seats[t][s] \in Person \cup {Nobody}
  BY <1>1 DEF Table, Chairs
<1>4. touched' = touched \cup ({p, seats[t][s]} \ {Nobody}) /\ touched' \subseteq Person
  BY <1>3 DEF HostPlace, Inv, Typed
<1>5. \A q \in Person \ touched' : q # p /\ q # seats[t][s]
  BY <1>4 DEF PlacementAssumption
<1>6. \A q \in Person \ touched' : ChairsOf(q)' = ChairsOf(q)
  BY <1>1, <1>5, SitOthers
<1>7. moves' \in 0 .. MaxMoves
  BY DEF HostPlace, Upset, Inv, Typed, PlacementAssumption
<1>8. /\ at' \in [Person -> {"away", "arriving", "waiting", "in", "left"}]
      /\ at[p] \in {"waiting", "in"} /\ at'[p] = "in"
      /\ \A q \in Person \ {p} : at'[q] = at[q]
  BY DEF HostPlace, Inv, Typed
<1>9. search' = search /\ cursor' = cursor /\ policy' \in Policies
  BY DEF HostPlace, Inv, Typed
<1> QED
  <2>1. \A q \in Person : at'[q] = at[q] \/ (at[q] \in {"waiting", "in"} /\ at'[q] = "in")
    BY <1>8
  <2>2. Besides
    BY <1>2, <1>4, <1>5, <1>6, <1>7, <1>8, <1>9, <2>1 DEF Besides
  <2> QED
    BY <2>2, BesidesKeeps

LEMMA VacateKeeps ==
  ASSUME PlacementAssumption, Inv, NEW t \in Table, NEW s \in Seat, Vacate(t, s), Remember
  PROVE  Inv'
<1>1. Nobody \in Person \cup {Nobody} /\ seats \in Seq(Chairs) /\ Sit(t, s, Nobody)
  BY DEF Vacate, Inv, InLine
<1>2. seats' \in Seq(Chairs) /\ Table' = Table
  BY <1>1, SitEffect
<1>3. seats[t][s] \in Person
  BY <1>1 DEF Vacate, Table, Chairs
<1>4. touched' = touched \cup {seats[t][s]} /\ touched' \subseteq Person
  BY <1>3 DEF Vacate, Inv, Typed
<1>5. \A q \in Person \ touched' : ChairsOf(q)' = ChairsOf(q)
  BY <1>1, <1>4, SitOthers DEF PlacementAssumption
<1>6. moves' \in 0 .. MaxMoves
  BY DEF Vacate, Upset, Inv, Typed, PlacementAssumption
<1> QED
  BY <1>2, <1>4, <1>5, <1>6, BesidesKeeps DEF Besides, Vacate, Inv, Typed

LEMMA LeaveLobbyKeeps ==
  ASSUME PlacementAssumption, Inv, NEW p \in Person, LeaveLobby(p), Remember
  PROVE  Inv'
<1>1. seats' \in Seq(Chairs) /\ Table' = Table /\ \A q : ChairsOf(q)' = ChairsOf(q)
  BY DEF LeaveLobby, Inv, InLine, ChairsOf, Table
<1>2. /\ at' \in [Person -> {"away", "arriving", "waiting", "in", "left"}]
      /\ at[p] = "waiting" /\ at'[p] = "left"
      /\ \A q \in Person \ {p} : at'[q] = at[q]
  BY DEF LeaveLobby, Inv, Typed
<1> QED
  <2>1. \A q \in Person : at'[q] = at[q] \/ (at[q] = "waiting" /\ at'[q] = "left")
    BY <1>2
  <2>2. Besides
    BY <1>1, <1>2, <2>1 DEF Besides, LeaveLobby, Inv, Typed
  <2> QED
    BY <2>2, BesidesKeeps

-----------------------------------------------------------------------------
(* The search. *)

\* Everybody who is dealt with is one of the people.
LEMMA StateOf ==
  ASSUME Inv
  PROVE  /\ SearchOK /\ seats \in Seq(Chairs) /\ Served \subseteq Person
         /\ Who \subseteq Person /\ Queue \subseteq Person /\ Who \cap Queue = {}
         /\ \A p \in Who \cup Queue : at[p] # "away"
         /\ \A q \in Person \ touched : Chaired(q)
         /\ search.step \in {"idle", "watch", "next", "look", "sit", "unlist"}
BY ServedArePeople, Carries DEF Inv, InLine

\* A search begins with every chair it asks for ahead of it.
LEMMA BeginSearches ==
  ASSUME Inv, NEW h \in Shapes, NEW p \in Person, NEW rest \in SUBSET Person,
         search.step # "look", Begin(h, p, rest), Remember
  PROVE  /\ SearchOK' /\ Who' = {p} /\ Queue' = rest
         /\ search'.step = "look" /\ search'.who = p
         /\ Ahead' /\ spare' \subseteq Table' \X Seat
         /\ cursor' \in {cursor, cursor + 1}
         /\ seats' = seats /\ policy' = policy /\ moves' = moves /\ touched' = touched
         /\ Table' = Table /\ \A q : ChairsOf(q)' = ChairsOf(q)
<1> DEFINE it == Itinerary(h, Len(seats))
<1>1. /\ it \in Looks
      /\ \A t \in Table, s \in ToSet(h.chairs) :
           \E i \in DOMAIN it : it[i].table = t /\ s \in ToSet(it[i].among)
  BY ItineraryCovers DEF Inv, InLine, Counted
<1>2. /\ search' = [step |-> "look", who |-> p, shape |-> h, queue |-> rest, looks |-> it]
      /\ cursor' \in {cursor, cursor + 1}
      /\ seats' = seats /\ policy' = policy /\ moves' = moves /\ touched' = touched
  BY DEF Begin
<1> HIDE DEF it
<1>3. /\ search'.step = "look" /\ search'.who = p /\ search'.shape = h
      /\ search'.queue = rest /\ search'.looks = it
  BY <1>2
<1>4. Table' = Table /\ \A q : ChairsOf(q)' = ChairsOf(q)
  BY <1>2 DEF Table, ChairsOf
<1>5. Who' = {p} /\ Queue' = rest
  BY <1>3 DEF Who, Queue
<1>6. SearchOK'
  <2>1. Looks' = Looks /\ Shapes' = Shapes
    BY <1>4 DEF Looks, Shapes
  <2>2. Seating'
    BY <1>2, <1>3, <2>1 DEF Seating
  <2> QED
    BY <1>1, <1>3, <2>1, <2>2 DEF SearchOK
<1>7. spare' = {x \in Table \X ToSet(h.chairs) : seats[x[1]][x[2]] = Nobody}
  BY <1>2, <1>3, <1>4 DEF Remember, FreeChairs
<1>8. ToSet(h.chairs) \subseteq Seat
  BY DEF ToSet, Shapes
<1>9. Ahead'
  BY <1>1, <1>2, <1>3, <1>7 DEF Ahead
<1> QED
  BY <1>2, <1>3, <1>4, <1>5, <1>6, <1>7, <1>8, <1>9

LEMMA ArriveKeeps ==
  ASSUME PlacementAssumption, Inv, NEW p \in Person, Arrive(p), Remember
  PROVE  Inv'
<1>1. /\ search = Idle /\ search.step = "idle" /\ Who = {} /\ Queue = {}
      /\ at[p] = "away" /\ policy # "manual"
      /\ at' = [at EXCEPT ![p] = "arriving"]
  BY DEF Arrive, SeatingFree, Idle, Who, Queue
<1>2. Shape[policy] \in Shapes /\ Begin(Shape[policy], p, {})
  BY <1>1, ShapesAre DEF Arrive, Inv, Typed
<1>3. /\ SearchOK' /\ Who' = {p} /\ Queue' = {}
      /\ search'.step = "look" /\ search'.who = p
      /\ Ahead' /\ spare' \subseteq Table' \X Seat
      /\ cursor' \in {cursor, cursor + 1}
      /\ seats' = seats /\ policy' = policy /\ moves' = moves /\ touched' = touched
      /\ Table' = Table /\ \A q : ChairsOf(q)' = ChairsOf(q)
  BY <1>1, <1>2, BeginSearches
<1>4. /\ at' \in [Person -> {"away", "arriving", "waiting", "in", "left"}]
      /\ at'[p] = "arriving" /\ \A q \in Person \ {p} : at'[q] = at[q]
  BY <1>1 DEF Inv, Typed
<1>5. Typed'
  BY <1>1, <1>3, <1>4 DEF Inv, Typed
<1>6. InLine'
  BY <1>3, <1>4 DEF Inv, InLine
<1>7. Counted'
  <2>1. p \notin Served
    BY <1>1 DEF Served
  <2>2. Served' \subseteq Person
    BY <1>3 DEF Served
  <2>3. Served \cup {p} \subseteq Served'
    BY <1>1, <1>3, <1>4 DEF Served
  <2> QED
    BY <1>3, <2>1, <2>2, <2>3, StateOf, CountedNext DEF Inv
<1>8. ASSUME NEW q \in Person \ touched' PROVE Chaired(q)'
  <2>1. Chaired(q)
    BY <1>3 DEF Inv
  <2>2. (Seeks(q)' => Seeks(q)) /\ (HasOne(q)' => HasOne(q))
    BY <1>1, <1>3, <1>4 DEF Seeks, HasOne
  <2> QED
    BY <1>3, <2>1, <2>2, ChairedKept
<1> QED
  BY <1>3, <1>5, <1>6, <1>7, <1>8 DEF Inv

LEMMA NextStudentKeeps ==
  ASSUME PlacementAssumption, Inv, NextStudent, Remember
  PROVE  Inv'
<1>1. search.step = "next" /\ Lining /\ at' = at /\ Who = {} /\ Queue = search.queue
  BY StateOf, Carries DEF NextStudent, Who, Queue
<1>2. PICK p \in Queue : Begin(search.shape, p, Queue \ {p})
  BY <1>1 DEF NextStudent
<1>3. p \in Person /\ Queue \subseteq Person /\ search.shape \in Shapes
  BY <1>1 DEF Lining
<1>4. /\ SearchOK' /\ Who' = {p} /\ Queue' = Queue \ {p}
      /\ search'.step = "look" /\ search'.who = p
      /\ Ahead' /\ spare' \subseteq Table' \X Seat
      /\ cursor' \in {cursor, cursor + 1}
      /\ seats' = seats /\ policy' = policy /\ moves' = moves /\ touched' = touched
      /\ Table' = Table /\ \A q : ChairsOf(q)' = ChairsOf(q)
  BY <1>1, <1>2, <1>3, BeginSearches
<1>5. Typed'
  BY <1>1, <1>4 DEF Inv, Typed
<1>6. InLine'
  BY <1>1, <1>4 DEF Inv, InLine
<1>7. Counted'
  <2>1. p \notin Served
    BY <1>1 DEF Served
  <2>2. Served' \subseteq Person
    BY <1>3, <1>4 DEF Served
  <2>3. Served \cup {p} \subseteq Served'
    BY <1>1, <1>3, <1>4 DEF Served
  <2> QED
    BY <1>3, <1>4, <2>1, <2>2, <2>3, StateOf, CountedNext DEF Inv
<1>8. ASSUME NEW q \in Person \ touched' PROVE Chaired(q)'
  <2>1. Chaired(q)
    BY <1>4 DEF Inv
  <2>2. (Seeks(q)' => Seeks(q)) /\ (HasOne(q)' => HasOne(q))
    BY <1>1, <1>4 DEF Seeks, HasOne
  <2> QED
    BY <1>4, <2>1, <2>2, ChairedKept
<1> QED
  BY <1>4, <1>5, <1>6, <1>7, <1>8 DEF Inv

LEMMA ArriveWaitingKeeps ==
  ASSUME PlacementAssumption, Inv, NEW p \in Person, ArriveWaiting(p), Remember
  PROVE  Inv'
<1>1. /\ search = Idle /\ search.step = "idle" /\ Who = {} /\ Queue = {}
      /\ at[p] = "away"
      /\ seats' = seats /\ policy' = policy /\ cursor' = cursor /\ moves' = moves
      /\ touched' = touched
  BY DEF ArriveWaiting, SeatingFree, Idle, Who, Queue
<1>2. Table' = Table /\ \A q : ChairsOf(q)' = ChairsOf(q)
  BY <1>1 DEF Table, ChairsOf
<1>3. \/ search' = search /\ at' = [at EXCEPT ![p] = "waiting"]
      \/ search' = [step |-> "watch", who |-> p] /\ at' = [at EXCEPT ![p] = "arriving"]
  BY DEF ArriveWaiting
<1>4. /\ Who' = {} /\ Queue' = {} /\ SearchOK'
      /\ \/ search'.step = "idle" /\ at'[p] = "waiting"
         \/ search'.step = "watch" /\ search'.who = p /\ at'[p] = "arriving"
      /\ at' \in [Person -> {"away", "arriving", "waiting", "in", "left"}]
      /\ \A q \in Person \ {p} : at'[q] = at[q]
  <2>1. /\ at' \in [Person -> {"away", "arriving", "waiting", "in", "left"}]
        /\ at'[p] \in {"waiting", "arriving"}
        /\ \A q \in Person \ {p} : at'[q] = at[q]
    BY <1>3 DEF Inv, Typed
  <2>2. CASE search' = search /\ at' = [at EXCEPT ![p] = "waiting"]
    BY <1>1, <2>1, <2>2 DEF Who, Queue, SearchOK, Idle, Inv, Typed
  <2>3. CASE search' = [step |-> "watch", who |-> p] /\ at' = [at EXCEPT ![p] = "arriving"]
    <3>1. search'.step = "watch" /\ search'.who = p
      BY <2>3
    <3>2. at'[p] = "arriving"
      BY <2>3 DEF Inv, Typed
    <3>3. SearchOK'
      BY <2>3, <3>1 DEF SearchOK, Watching
    <3> QED
      BY <2>1, <3>1, <3>2, <3>3 DEF Who, Queue
  <2> QED
    BY <1>3, <2>2, <2>3
<1>5. search'.step # "look"
  BY <1>4
<1>6. Ahead' /\ spare' = {}
  BY <1>5, SpareGone
<1>7. Typed'
  BY <1>1, <1>4, <1>6 DEF Inv, Typed
<1>8. InLine'
  BY <1>1, <1>4 DEF Inv, InLine
<1>9. Counted'
  <2>1. Served \subseteq Served' /\ Served' \subseteq Person
    BY <1>1, <1>4 DEF Served
  <2> QED
    BY <1>1, <2>1, CountedKept DEF Inv
<1>10. ASSUME NEW q \in Person \ touched' PROVE Chaired(q)'
  <2>1. Chaired(q)
    BY <1>1 DEF Inv
  <2>2. (Seeks(q)' => Seeks(q)) /\ (HasOne(q)' => HasOne(q))
    BY <1>1, <1>4 DEF Seeks, HasOne
  <2> QED
    BY <1>2, <2>1, <2>2, ChairedKept
<1> QED
  BY <1>6, <1>7, <1>8, <1>9, <1>10 DEF Inv

LEMMA OpenToWatchKeeps ==
  ASSUME PlacementAssumption, Inv, OpenToWatch, Remember
  PROVE  Inv'
<1> DEFINE p == search.who
<1>1. /\ search.step = "watch" /\ Who = {} /\ Queue = {}
      /\ p \in Person /\ at[p] = "arriving"
  BY StateOf, Carries DEF OpenToWatch, Watching, Who, Queue, Inv, InLine
<1>2. /\ search' = Idle /\ search'.step = "idle" /\ Who' = {} /\ Queue' = {} /\ SearchOK'
      /\ policy' = policy /\ cursor' = cursor /\ moves' = moves /\ touched' = touched
      /\ at' = [at EXCEPT ![p] = "waiting"]
  BY DEF OpenToWatch, Idle, Who, Queue, SearchOK
<1>3. /\ seats' \in Seq(Chairs) /\ Table \subseteq Table'
      /\ \A q \in Person : ChairsOf(q)' = ChairsOf(q)
  BY OpenEffect, OpenOthers, StateOf DEF OpenToWatch
<1>4. /\ at' \in [Person -> {"away", "arriving", "waiting", "in", "left"}]
      /\ at'[p] = "waiting" /\ \A q \in Person \ {p} : at'[q] = at[q]
  BY <1>1, <1>2 DEF Inv, Typed
<1> HIDE DEF p
<1>5. search'.step # "look"
  BY <1>2
<1>6. Ahead' /\ spare' = {}
  BY <1>5, SpareGone
<1>7. Typed'
  <2>1. {q \in Person : at[q] = "arriving"} \subseteq {p}
    BY <1>1 DEF Inv, Typed, p
  <2>2. {q \in Person : at'[q] = "arriving"} = {}
    BY <2>1, <1>4
  <2> QED
    BY <1>2, <1>4, <1>6, <2>2 DEF Inv, Typed
<1>8. InLine'
  BY <1>2, <1>3 DEF InLine
<1>9. Counted'
  <2>1. Served \subseteq Served' /\ Served' \subseteq Person
    BY <1>1, <1>2, <1>4 DEF Served
  <2> QED
    BY <1>2, <2>1, CountedKept DEF Inv
<1>10. ASSUME NEW q \in Person \ touched' PROVE Chaired(q)'
  <2>1. Chaired(q)
    BY <1>2 DEF Inv
  <2>2. (Seeks(q)' => Seeks(q)) /\ (HasOne(q)' => HasOne(q))
    BY <1>1, <1>2, <1>4 DEF Seeks, HasOne
  <2> QED
    BY <1>3, <2>1, <2>2, ChairedKept
<1> QED
  BY <1>6, <1>7, <1>8, <1>9, <1>10 DEF Inv

LEMMA SeatStudentsKeeps ==
  ASSUME PlacementAssumption, Inv, SeatStudents, Remember
  PROVE  Inv'
<1>1. search = Idle /\ search.step = "idle" /\ Who = {} /\ Queue = {}
  BY DEF SeatStudents, SeatingFree, Idle, Who, Queue
<1>2. /\ seats' = seats /\ policy' = policy /\ cursor' = cursor /\ moves' = moves
      /\ at' = at /\ touched' = touched
      /\ search' = [step |-> "next", shape |-> BulkShape, queue |-> Waiting]
  BY DEF SeatStudents
<1>3. /\ search'.step = "next" /\ search'.shape = BulkShape /\ search'.queue = Waiting
      /\ BulkShape \in Shapes /\ Waiting \subseteq Person
  BY <1>2, ShapesAre DEF Inv, Typed, Waiting
<1>4. Who' = {} /\ Queue' = Waiting
  BY <1>3 DEF Who, Queue
<1>5. SearchOK'
  BY <1>2, <1>3 DEF SearchOK, Lining, Shapes
<1>6. Table' = Table /\ \A q : ChairsOf(q)' = ChairsOf(q)
  BY <1>2 DEF Table, ChairsOf
<1>7. Ahead' /\ spare' = {}
  BY <1>3, SpareGone
<1>8. Typed'
  BY <1>1, <1>2, <1>7 DEF Inv, Typed
<1>9. InLine'
  BY <1>2, <1>3, <1>4, <1>5 DEF Inv, InLine, Waiting
<1>10. Counted'
  <2>1. Served \subseteq Served' /\ Served' \subseteq Person
    BY <1>1, <1>2, <1>4 DEF Served, Waiting
  <2> QED
    BY <1>2, <2>1, CountedKept DEF Inv
<1>11. ASSUME NEW q \in Person \ touched' PROVE Chaired(q)'
  <2>1. Chaired(q)
    BY <1>2 DEF Inv
  <2>2. (Seeks(q)' => Seeks(q)) /\ (HasOne(q)' => HasOne(q))
    BY <1>1, <1>2, <1>4 DEF Seeks, HasOne, Waiting
  <2> QED
    BY <1>6, <2>1, <2>2, ChairedKept
<1> QED
  BY <1>7, <1>8, <1>9, <1>10, <1>11 DEF Inv

\* A search that goes on, to its next look or to a table that is opened for it.
LEMMA GoesOn ==
  ASSUME PlacementAssumption, Inv, search.step = "look", search'.step \in {"look", "sit"},
         SearchOK', Ahead', spare' \subseteq Table' \X Seat, seats' \in Seq(Chairs),
         \A q \in Person : ChairsOf(q)' = ChairsOf(q),
         search'.who = search.who, search'.queue = search.queue,
         UNCHANGED <<policy, cursor, at, moves, touched>>
  PROVE  Inv'
<1>1. Who' = Who /\ Queue' = Queue
  BY DEF Who, Queue
<1>2. Typed'
  BY DEF Inv, Typed
<1>3. InLine'
  BY <1>1 DEF Inv, InLine
<1>4. Counted'
  BY <1>1 DEF Inv, Counted, Served
<1>5. ASSUME NEW q \in Person \ touched' PROVE Chaired(q)'
  <2>1. Chaired(q) /\ ChairsOf(q)' = ChairsOf(q)
    BY DEF Inv
  <2>2. (Seeks(q)' => Seeks(q)) /\ (HasOne(q)' => HasOne(q))
    BY <1>1 DEF Seeks, HasOne
  <2> QED
    BY <2>1, <2>2, ChairedKept
<1> QED
  BY <1>2, <1>3, <1>4, <1>5 DEF Inv

LEMMA OverflowKeeps ==
  ASSUME PlacementAssumption, Inv, Overflow, Remember
  PROVE  Inv'
<1> DEFINE t == Len(seats) + 1
<1>1. search.step = "look" /\ Seating
  BY StateOf, Carries DEF Overflow
<1>2. /\ search' = [step |-> "sit", who |-> search.who, shape |-> search.shape,
                    queue |-> search.queue, looks |-> <<t>>]
      /\ UNCHANGED <<policy, cursor, at, moves, touched>>
  BY <1>1, Stages DEF Overflow
<1>3. /\ search'.step = "sit" /\ search'.who = search.who /\ search'.shape = search.shape
      /\ search'.queue = search.queue /\ search'.looks = <<t>>
  BY <1>2
<1>4. /\ seats' \in Seq(Chairs) /\ Table \subseteq Table' /\ t \in Table'
      /\ \A q \in Person : ChairsOf(q)' = ChairsOf(q)
  BY OpenEffect, OpenOthers, StateOf DEF Overflow
<1>5. SearchOK'
  <2>1. Seating'
    BY <1>1, <1>2, <1>3 DEF Seating, Shapes
  <2> QED
    BY <1>3, <1>4, <2>1 DEF SearchOK
<1>6. Ahead' /\ spare' = {}
  BY <1>3, SpareGone
<1> QED
  BY <1>1, <1>2, <1>3, <1>4, <1>5, <1>6, GoesOn

\* A look that finds no chair loses none that has stayed free.
LEMMA MissKeeps ==
  ASSUME PlacementAssumption, Inv, search.step = "look", search.looks # <<>>,
         FreeAmong(Head(search.looks).table, Head(search.looks).among) = {},
         search' = [search EXCEPT !.looks = Tail(@)],
         UNCHANGED <<seats, policy, cursor, at, moves, touched>>, Remember
  PROVE  Inv'
<1> DEFINE old  == search.looks
           rest == Tail(old)
           here == Head(old)
<1>1. Seating /\ old \in Looks
  BY StateOf, Carries
<1>2. search' = [step |-> "look", who |-> search.who, shape |-> search.shape,
                 queue |-> search.queue, looks |-> rest]
  BY <1>1, Stages
<1>3. /\ search'.step = "look" /\ search'.who = search.who /\ search'.shape = search.shape
      /\ search'.queue = search.queue /\ search'.looks = rest
  BY <1>2
<1>4. /\ here = old[1] /\ Len(old) \in Nat /\ DOMAIN old = 1 .. Len(old)
      /\ rest \in Looks /\ DOMAIN rest = 1 .. Len(old) - 1
      /\ \A i \in 1 .. Len(old) - 1 : rest[i] = old[i + 1]
  BY <1>1 DEF Looks
<1>5. Table' = Table /\ \A q : ChairsOf(q)' = ChairsOf(q)
  BY DEF Table, ChairsOf
<1>6. \A s \in ToSet(here.among) : seats[here.table][s] # Nobody
  BY DEF FreeAmong, ToSet
<1> HIDE DEF old, rest, here
<1>7. SearchOK'
  <2>1. Seating'
    BY <1>1, <1>2, <1>3 DEF Seating, Shapes
  <2>2. Looks' = Looks
    BY <1>5 DEF Looks
  <2> QED
    BY <1>3, <1>4, <2>1, <2>2 DEF SearchOK
<1>8. spare' = {x \in spare : seats[x[1]][x[2]] = Nobody}
  BY <1>3 DEF Remember
<1>9. ASSUME NEW x \in spare
      PROVE  \E i \in DOMAIN rest : rest[i].table = x[1] /\ x[2] \in ToSet(rest[i].among)
  <2>1. PICK i \in DOMAIN old : old[i].table = x[1] /\ x[2] \in ToSet(old[i].among)
    BY DEF Inv, Ahead, old
  <2>2. seats[x[1]][x[2]] = Nobody
    BY DEF Inv, Ahead
  <2>3. i # 1
    BY <1>4, <1>6, <2>1, <2>2
  <2>4. i - 1 \in DOMAIN rest /\ rest[i - 1] = old[i]
    BY <1>4, <2>3
  <2> QED
    BY <2>1, <2>4
<1>10. Ahead'
  BY <1>3, <1>8, <1>9 DEF Ahead
<1>11. spare' \subseteq Table' \X Seat /\ seats' \in Seq(Chairs)
  BY <1>5, <1>8, StateOf DEF Inv, Typed
<1> QED
  BY <1>3, <1>5, <1>7, <1>10, <1>11, GoesOn

\* Who has been placed has one chair, unless the host had it first.
LEMMA PlacedKeeps ==
  ASSUME PlacementAssumption, Inv, search.step \in {"look", "sit"}, Placed, Remember,
         NEW p \in Person, search.who = p,
         seats' \in Seq(Chairs), Table' = Table,
         UNCHANGED <<policy, cursor, moves>>,
         touched \subseteq touched', touched' \subseteq Person,
         \A q \in Person \ (touched' \cup {p}) : ChairsOf(q)' = ChairsOf(q),
         p \in touched' \/ \E x : ChairsOf(p)' = {x}
  PROVE  Inv'
<1>1. /\ Seating /\ Who = {p} /\ Queue = search.queue
      /\ Queue \subseteq Person /\ p \notin Queue
      /\ at[p] # "away"
      /\ {q \in Person : at[q] = "arriving"} \subseteq {p}
  BY StateOf, Carries DEF Seating, Who, Queue, Inv, Typed
<1>2. \/ /\ at[p] = "arriving" /\ at' = [at EXCEPT ![p] = "in"]
         /\ search' = Idle
      \/ /\ at[p] # "arriving" /\ at' = at
         /\ search' = [step |-> "unlist", who |-> search.who, shape |-> search.shape,
                       queue |-> search.queue, looks |-> search.looks]
  BY <1>1, Stages DEF Placed
<1>3. /\ at' \in [Person -> {"away", "arriving", "waiting", "in", "left"}]
      /\ at'[p] = IF at[p] = "arriving" THEN "in" ELSE at[p]
      /\ \A q \in Person \ {p} : at'[q] = at[q]
  BY <1>1, <1>2 DEF Inv, Typed
<1>4. /\ SearchOK'
      /\ \/ search'.step = "idle" /\ Who' = {} /\ Queue' = {} /\ at'[p] = "in"
         \/ search'.step = "unlist" /\ Who' = {p} /\ Queue' = Queue /\ at'[p] = at[p]
  <2>1. CASE at[p] = "arriving" /\ search' = Idle
    BY <1>3, <2>1 DEF SearchOK, Idle, Who, Queue
  <2>2. CASE at[p] # "arriving" /\ search' = [step |-> "unlist", who |-> search.who,
               shape |-> search.shape, queue |-> search.queue, looks |-> search.looks]
    <3>1. /\ search'.step = "unlist" /\ search'.who = p /\ search'.shape = search.shape
          /\ search'.queue = search.queue /\ search'.looks = search.looks
      BY <2>2
    <3>2. Seating'
      BY <1>1, <2>2, <3>1 DEF Seating, Shapes
    <3> QED
      BY <1>1, <1>3, <2>2, <3>1, <3>2 DEF SearchOK, Who, Queue
  <2> QED
    BY <1>2, <2>1, <2>2
<1>5. Ahead' /\ spare' = {}
  BY <1>4, SpareGone
<1>6. Typed'
  <2>1. {q \in Person : at'[q] = "arriving"} = {}
    BY <1>1, <1>3
  <2> QED
    BY <1>3, <1>5, <2>1 DEF Inv, Typed
<1>7. InLine'
  <2>1. \A q \in Who' \cup Queue' : at'[q] # "away"
    BY <1>1, <1>3, <1>4, StateOf
  <2> QED
    BY <1>1, <1>4, <2>1 DEF InLine
<1>8. Counted'
  <2>1. Served \subseteq Served' /\ Served' \subseteq Person
    BY <1>1, <1>3, <1>4 DEF Served
  <2> QED
    BY <2>1, CountedKept DEF Inv
<1>9. ASSUME NEW q \in Person \ touched' PROVE Chaired(q)'
  <2>1. Chaired(q)
    BY DEF Inv
  <2>2. CASE q # p
    <3>1. (Seeks(q)' => Seeks(q)) /\ (HasOne(q)' => HasOne(q))
      BY <1>1, <1>3, <1>4, <2>2 DEF Seeks, HasOne
    <3> QED
      BY <2>1, <2>2, <3>1, ChairedKept
  <2>3. CASE q = p
    <3>1. ~Seeks(q)'
      BY <1>1, <1>3, <1>4, <2>3 DEF Seeks
    <3>2. PICK x : ChairsOf(q)' = {x}
      BY <2>3
    <3> QED
      BY <3>1, <3>2 DEF Chaired
  <2> QED
    BY <2>2, <2>3
<1> QED
  BY <1>5, <1>6, <1>7, <1>8, <1>9 DEF Inv

\* Who is still being placed has no chair, if neither host nor departure
\* happened to them.
LEMMA WhoHasNone ==
  ASSUME Inv, search.step \in {"look", "sit"}, search.who \notin touched
  PROVE  ChairsOf(search.who) = {}
<1>1. search.who \in Person /\ Who = {search.who}
  BY StateOf, Carries DEF Seating, Who
<1> QED
  BY <1>1 DEF Inv, Chaired, Seeks

LEMMA TakesFree ==
  ASSUME PlacementAssumption, Inv, search.step \in {"look", "sit"}, Placed, Remember,
         NEW t \in Table, NEW s \in Seat, seats[t][s] = Nobody, Sit(t, s, search.who),
         UNCHANGED <<policy, cursor, moves, touched>>
  PROVE  Inv'
<1>1. PICK p \in Person : search.who = p
  BY StateOf, Carries DEF Seating
<1>2. seats \in Seq(Chairs) /\ Sit(t, s, p)
  BY <1>1, StateOf
<1>3. seats' \in Seq(Chairs) /\ Table' = Table
  BY <1>2, SitEffect
<1>4. /\ ChairsOf(p)' = ChairsOf(p) \cup {<<t, s>>}
      /\ \A q \in Person \ {p} : ChairsOf(q)' = ChairsOf(q)
  BY <1>2, SitFree
<1>5. p \in touched' \/ \E x : ChairsOf(p)' = {x}
  <2>1. CASE p \in touched
    BY <2>1
  <2>2. CASE p \notin touched
    <3>1. ChairsOf(p) = {}
      BY <1>1, <2>2, WhoHasNone
    <3> QED
      BY <1>4, <3>1
  <2> QED
    BY <2>1, <2>2
<1>6. touched \subseteq touched' /\ touched' \subseteq Person
  BY DEF Inv, Typed
<1> QED
  BY <1>1, <1>3, <1>4, <1>5, <1>6, PlacedKeeps

LEMMA HeadIsOne ==
  ASSUME NEW S, NEW s \in Seq(S), s # <<>>
  PROVE  Head(s) \in S
OBVIOUS

LEMMA LookKeeps ==
  ASSUME PlacementAssumption, Inv, Look, Remember
  PROVE  Inv'
<1> DEFINE here == Head(search.looks)
<1>1. search.step = "look" /\ search.looks # <<>> /\ search.looks \in Looks
  BY StateOf, Carries DEF Look
<1>2. here.table \in Table /\ here.among \in Seq(Seat)
  <2>1. here \in [table : Table, among : Seq(Seat)]
    BY <1>1, HeadIsOne DEF Looks
  <2> QED
    BY <2>1
<1>3. CASE FreeAmong(here.table, here.among) = {}
  BY <1>1, <1>3, MissKeeps DEF Look
<1>4. ASSUME NEW i \in FreeAmong(here.table, here.among),
             Sit(here.table, here.among[i], search.who), Placed
      PROVE  Inv'
  <2>1. here.among[i] \in Seat /\ seats[here.table][here.among[i]] = Nobody
    BY <1>2 DEF FreeAmong
  <2>2. UNCHANGED <<policy, cursor, moves, touched>>
    BY DEF Look
  <2> HIDE DEF here
  <2> QED
    BY <1>1, <1>2, <1>4, <2>1, <2>2, TakesFree
<1> QED
  BY <1>3, <1>4 DEF Look

LEMMA SitAtNewKeeps ==
  ASSUME PlacementAssumption, Inv, SitAtNew, Remember
  PROVE  Inv'
<1> DEFINE t == search.looks[1]
           s == FirstSeat(search.shape)
<1>1. search.step = "sit" /\ Seating /\ Placed /\ search.shape \in Shapes
      /\ search.who \in Person /\ seats \in Seq(Chairs)
  BY StateOf, Carries DEF SitAtNew, Seating
<1>2. t \in Table
  BY <1>1, StateOf, Carries
<1>3. s \in Seat
  <2>1. search.shape.chairs \in Seq(Seat) /\ search.shape.chairs # <<>>
    BY <1>1 DEF Shapes
  <2> QED
    BY <2>1 DEF FirstSeat
<1>4. CASE seats[t][s] = Nobody
  <2>1. Sit(t, s, search.who) /\ UNCHANGED <<policy, cursor, moves, touched>>
    BY <1>4 DEF SitAtNew
  <2> HIDE DEF t, s
  <2> QED
    BY <1>1, <1>2, <1>3, <1>4, <2>1, TakesFree
<1>5. CASE seats[t][s] # Nobody
  <2>1. /\ touched' = touched \cup {search.who}
        /\ seats' = seats /\ UNCHANGED <<policy, cursor, moves>>
    BY <1>5 DEF SitAtNew
  <2>0. PICK p \in Person : search.who = p
    BY <1>1
  <2>2. Table' = Table /\ \A q : ChairsOf(q)' = ChairsOf(q)
    BY <2>1 DEF Table, ChairsOf
  <2>3. touched \subseteq touched' /\ touched' \subseteq Person
    BY <1>1, <2>1 DEF Inv, Typed
  <2> QED
    BY <1>1, <2>0, <2>1, <2>2, <2>3, PlacedKeeps
<1> QED
  BY <1>4, <1>5

LEMMA UnlistKeeps ==
  ASSUME PlacementAssumption, Inv, Unlist, Remember
  PROVE  Inv'
<1> DEFINE p == search.who
<1>1. /\ search.step = "unlist" /\ Seating /\ p \in Person /\ Who = {p}
      /\ Queue = search.queue /\ Queue \subseteq Person /\ p \notin Queue
      /\ at[p] # "away" /\ {q \in Person : at[q] = "arriving"} = {}
      /\ search.shape \in Shapes
  BY StateOf, Carries DEF Unlist, Seating, Who, Queue, Inv, Typed
<1>2. /\ seats' = seats /\ policy' = policy /\ cursor' = cursor /\ moves' = moves
      /\ touched' = touched
      /\ at' = [at EXCEPT ![p] = IF @ = "waiting" THEN "in" ELSE @]
      /\ \/ Queue = {} /\ search' = Idle
         \/ search' = [step |-> "next", shape |-> search.shape, queue |-> Queue]
  BY <1>1 DEF Unlist
<1>3. /\ at' \in [Person -> {"away", "arriving", "waiting", "in", "left"}]
      /\ at'[p] \in {"in", "left"} /\ (at'[p] = "left" => at[p] = "left")
      /\ \A q \in Person \ {p} : at'[q] = at[q]
  BY <1>1, <1>2 DEF Inv, Typed
<1>4. SearchOK' /\ search'.step \in {"idle", "next"} /\ Who' = {} /\ Queue' = Queue
  <2>1. CASE Queue = {} /\ search' = Idle
    BY <2>1 DEF SearchOK, Idle, Who, Queue
  <2>2. CASE search' = [step |-> "next", shape |-> search.shape, queue |-> Queue]
    <3>1. /\ search'.step = "next" /\ search'.shape = search.shape
          /\ search'.queue = Queue
      BY <2>2
    <3>2. Lining'
      BY <1>1, <2>2, <3>1 DEF Lining, Shapes
    <3> QED
      BY <3>1, <3>2 DEF SearchOK, Who, Queue
  <2> QED
    BY <1>2, <2>1, <2>2
<1>5. Table' = Table /\ \A q : ChairsOf(q)' = ChairsOf(q)
  BY <1>2 DEF Table, ChairsOf
<1> HIDE DEF p
<1>6. Ahead' /\ spare' = {}
  BY <1>4, SpareGone
<1>7. Typed'
  <2>1. {q \in Person : at'[q] = "arriving"} = {}
    BY <1>1, <1>3
  <2> QED
    BY <1>2, <1>3, <1>6, <2>1 DEF Inv, Typed
<1>8. InLine'
  <2>1. \A q \in Queue : at'[q] # "away"
    BY <1>1, <1>3, StateOf
  <2> QED
    BY <1>2, <1>4, <2>1, StateOf DEF InLine
<1>9. Counted'
  <2>1. Served \subseteq Served' /\ Served' \subseteq Person
    BY <1>1, <1>3, <1>4 DEF Served
  <2> QED
    BY <1>2, <2>1, CountedKept DEF Inv
<1>10. ASSUME NEW q \in Person \ touched' PROVE Chaired(q)'
  <2>1. Chaired(q)
    BY <1>2 DEF Inv
  <2>2. (Seeks(q)' => Seeks(q)) /\ (HasOne(q)' => HasOne(q))
    BY <1>1, <1>3, <1>4 DEF Seeks, HasOne
  <2> QED
    BY <1>5, <2>1, <2>2, ChairedKept
<1> QED
  BY <1>6, <1>7, <1>8, <1>9, <1>10 DEF Inv

-----------------------------------------------------------------------------
(* The invariant. *)

LEMMA InitInv ==
  ASSUME PlacementAssumption, Init
  PROVE  Inv
<1>1. seats = <<>> /\ seats \in Seq(Chairs) /\ Table = {}
  BY DEF Init, Table
<1>2. search = Idle /\ search.step = "idle" /\ Who = {} /\ Queue = {}
  BY DEF Init, Idle, Who, Queue
<1>3. Typed
  BY <1>2 DEF Init, Typed, PlacementAssumption
<1>4. InLine
  BY <1>1, <1>2 DEF InLine, SearchOK
<1>5. Counted
  <2>1. Served = {}
    BY <1>2 DEF Served, Init
  <2> QED
    BY <2>1, FS_EmptySet DEF Counted, Init
<1>6. Ahead
  BY DEF Init, Ahead
<1>7. ASSUME NEW q \in Person PROVE Chaired(q)
  <2>1. ChairsOf(q) = {}
    BY <1>1 DEF ChairsOf
  <2>2. ~HasOne(q)
    BY <1>2 DEF HasOne, Init
  <2> QED
    BY <2>1, <2>2 DEF Chaired
<1> QED
  BY <1>3, <1>4, <1>5, <1>6, <1>7 DEF Inv

LEMMA StutterKeeps ==
  ASSUME Inv, UNCHANGED placeVars
  PROVE  Inv'
<1>1. /\ seats' = seats /\ policy' = policy /\ cursor' = cursor /\ at' = at
      /\ search' = search /\ spare' = spare /\ moves' = moves /\ touched' = touched
  BY DEF placeVars
<1>2. Table' = Table /\ Who' = Who /\ Queue' = Queue
  BY <1>1 DEF Table, Who, Queue
<1>3. SearchOK'
  BY <1>1, <1>2, SearchKept DEF Inv, InLine
<1>4. Typed' /\ InLine' /\ Counted' /\ Ahead'
  BY <1>1, <1>2, <1>3 DEF Inv, Typed, InLine, Counted, Served, Ahead
<1>5. ASSUME NEW q \in Person \ touched' PROVE Chaired(q)'
  <2>1. Chaired(q) /\ ChairsOf(q)' = ChairsOf(q)
    BY <1>1, <1>2 DEF Inv, ChairsOf
  <2>2. (Seeks(q)' => Seeks(q)) /\ (HasOne(q)' => HasOne(q))
    BY <1>1, <1>2 DEF Seeks, HasOne
  <2> QED
    BY <2>1, <2>2, ChairedKept
<1> QED
  BY <1>4, <1>5 DEF Inv

LEMMA StepInv ==
  ASSUME PlacementAssumption, Inv, [Next]_placeVars
  PROVE  Inv'
<1>1. ASSUME NEW p \in Person, Arrive(p) \/ ArriveWaiting(p) \/ LeaveLobby(p), Remember
      PROVE  Inv'
  BY <1>1, ArriveKeeps, ArriveWaitingKeeps, LeaveLobbyKeeps
<1>2. CASE (OpenToWatch \/ Look \/ Overflow \/ SitAtNew) /\ Remember
  BY <1>2, OpenToWatchKeeps, LookKeeps, OverflowKeeps, SitAtNewKeeps
<1>3. CASE (SeatStudents \/ NextStudent \/ Unlist) /\ Remember
  BY <1>3, SeatStudentsKeeps, NextStudentKeeps, UnlistKeeps
<1>4. CASE AddTable /\ Remember
  BY <1>4, AddTableKeeps
<1>5. ASSUME NEW k \in Policies, SetSeatPolicy(k), Remember
      PROVE  Inv'
  BY <1>5, SetSeatPolicyKeeps
<1>6. ASSUME NEW p \in Person, NEW t \in Table, NEW s \in HostChairs,
             HostPlace(p, t, s), Remember
      PROVE  Inv'
  BY <1>6, HostPlaceKeeps
<1>7. ASSUME NEW t \in Table, NEW s \in Seat, Vacate(t, s), Remember
      PROVE  Inv'
  BY <1>7, VacateKeeps
<1>8. CASE UNCHANGED placeVars
  BY <1>8, StutterKeeps
<1> QED
  BY <1>1, <1>2, <1>3, <1>4, <1>5, <1>6, <1>7, <1>8 DEF Next, Arriving

LEMMA InvAlways == Spec => []Inv
<1>1. Init => Inv
  BY InitInv, PlacementAssumption
<1>2. Inv /\ [Next]_placeVars => Inv'
  BY StepInv, PlacementAssumption
<1> QED
  BY <1>1, <1>2, PTL DEF Spec

-----------------------------------------------------------------------------
(* What placement promises. *)

\* Types, one arrival at a time, and a cursor that has not moved for more
\* than the people there are (sessions.rs, seat_one).
THEOREM TypeCorrect == Spec => []TypeOK
<1>1. Inv => TypeOK
  <2> SUFFICES ASSUME Inv PROVE TypeOK
    OBVIOUS
  <2>1. cursor \in 0 .. Cardinality(Person)
    <3>1. Cardinality(Served) <= Cardinality(Person)
      BY StateOf, PlacementAssumption, FS_Subset DEF PlacementAssumption
    <3>2. IsFiniteSet(Served)
      BY StateOf, PlacementAssumption, FS_Subset DEF PlacementAssumption
    <3>3. Cardinality(Served) \in Nat /\ Cardinality(Person) \in Nat
      BY <3>2, PlacementAssumption, FS_CardinalityType DEF PlacementAssumption
    <3> QED
      BY <3>1, <3>3 DEF Inv, Counted
  <2>2. \A t \in Table : seats[t] \in [Seat -> Person \cup {Nobody}]
    BY StateOf DEF Table, Chairs
  <2> QED
    BY <2>1, <2>2 DEF Inv, Typed, TypeOK
<1> QED
  BY <1>1, InvAlways, PTL

\* No table is opened for a person while a chair the policy asks for has
\* been free since the search began, from whatever table the search set out
\* (sessions.rs, try_seat_existing).
THEOREM TablesAreNeeded == Spec => []NoNeedlessTable
<1>1. Inv => NoNeedlessTable
  BY DEF Inv, Ahead, NoNeedlessTable
<1> QED
  BY <1>1, InvAlways, PTL

\* Nobody is given two chairs, and nobody is taken to be placed without
\* one, but for those to whom the host or a departure happened
\* (sessions.rs, seat_one and place_seat).
THEOREM PlacedOnce == Spec => []SeatedOnce
<1>1. Inv => SeatedOnce
  <2> SUFFICES ASSUME Inv, NEW p \in Person \ touched
               PROVE  /\ Cardinality(ChairsOf(p)) <= 1
                      /\ at[p] = "in" => ChairsOf(p) # {}
    BY DEF SeatedOnce
  <2>1. Chaired(p)
    BY DEF Inv
  <2>2. ChairsOf(p) = {} \/ \E x : ChairsOf(p) = {x}
    BY <2>1 DEF Chaired
  <2>3. Cardinality(ChairsOf(p)) <= 1
    <3>1. ASSUME NEW x, ChairsOf(p) = {x} PROVE Cardinality(ChairsOf(p)) = 1
      BY <3>1, FS_Singleton
    <3>2. ASSUME ChairsOf(p) = {} PROVE Cardinality(ChairsOf(p)) = 0
      BY <3>2, FS_EmptySet
    <3> QED
      BY <2>2, <3>1, <3>2
  <2> QED
    BY <2>1, <2>3 DEF Chaired, HasOne
<1> QED
  BY <1>1, InvAlways, PTL

-----------------------------------------------------------------------------
(* How the tables fill, as long as nothing upsets it. *)

Asked     == ToSet(BulkShape.chairs)
Newest    == Len(seats)
Filled(t) == Cardinality(TakenAt(t))

\* The searches that went round and are over.
Done == IF search.step \in {"look", "sit"} THEN cursor - 1 ELSE cursor

AllButLast == \A t \in Table \ {Newest} : FullAt(t)

\* Nobody is disturbed, and what is sought is what the policy asks for.
Calm ==
  /\ touched = {}
  /\ search.step = "watch" => seats = <<>>
  /\ search.step = "next" => search.queue # {}
  /\ search.step \in {"next", "look", "sit", "unlist"} => search.shape = BulkShape

\* While nobody gets up, a chair that is free has been free from the first.
OnSpare ==
  search.step = "look" =>
    \A t \in Table, s \in Asked : seats[t][s] = Nobody => <<t, s>> \in spare

\* No other chair is tried.
Asking ==
  search.step = "look" => \A i \in DOMAIN search.looks : ToSet(search.looks[i].among) \subseteq Asked

\* A table is opened when the others are full, and stays empty until its
\* first is seated.
AtNew ==
  search.step = "sit" =>
    /\ search.looks = <<Newest>> /\ seats[Newest] = EmptyTable
    /\ AllButLast

\* Each search so far has seated one: q times round all the tables, and then
\* at the first r; the next to be looked at is the one after.
Laps == [i \in 1 .. Newest |-> [table |-> ((Done + i - 1) % Newest) + 1,
                                among |-> BulkShape.chairs]]
Lap(q, r) ==
  /\ r < Newest /\ Done = Newest * q + r
  /\ \A t \in Table : Filled(t) = IF t <= r THEN q + 1 ELSE q
  /\ search.step = "look" => search.looks = Laps
InLaps == \E q, r \in Nat : Lap(q, r)

Round ==
  BulkShape.round =>
    /\ Done \in Nat
    /\ Done = 0 => \A t \in Table : TakenAt(t) = {}
    /\ InLaps \/ AllButLast

\* The tables are filled one after the other, and looked at in their order.
InTurn == \A t, u \in Table : t < u /\ TakenAt(u) # {} => FullAt(t)
InOrder == \A i, j \in DOMAIN search.looks : i < j => search.looks[i].table <= search.looks[j].table
Pairs == ~BulkShape.round => InTurn /\ (search.step = "look" => InOrder)

Ordered == Calm /\ OnSpare /\ Asking /\ AtNew /\ Round /\ Pairs

\* The inductive invariant of the filling.
Even == moves = 0 => Ordered

\* The chairs asked for are some, and those taken are some of them.
LEMMA AskedAre ==
  ASSUME PlacementAssumption, policy \in Policies
  PROVE  /\ Asked \subseteq Seat /\ Asked # {} /\ IsFiniteSet(Asked)
         /\ Cardinality(Asked) \in Nat \ {0}
         /\ BulkShape.chairs \in Seq(Seat) /\ BulkShape.chairs # <<>>
         /\ \A t : /\ TakenAt(t) \subseteq Asked
                   /\ Filled(t) \in 0 .. Cardinality(Asked)
                   /\ FullAt(t) <=> Filled(t) = Cardinality(Asked)
                   /\ TakenAt(t) = {} <=> Filled(t) = 0
<1>1. BulkShape.chairs \in Seq(Seat) /\ BulkShape.chairs # <<>>
  BY ShapesAre, ShapeChairs
<1>2. Asked \subseteq Seat /\ Asked # {}
  BY ShapesAre, ShapeChairs DEF Asked
<1>3. IsFiniteSet(Asked)
  <2>1. IsFiniteSet(0 .. 3)
    <3>1. 0 \in Int /\ 3 \in Int
      OBVIOUS
    <3> QED
      BY ONLY <3>1, FS_Interval
  <2> QED
    BY <1>2, <2>1, FS_Subset DEF Seat
<1>4. Cardinality(Asked) \in Nat /\ Cardinality(Asked) # 0
  BY <1>2, <1>3, FS_CardinalityType, FS_EmptySet
<1>5. ASSUME NEW t
      PROVE  /\ TakenAt(t) \subseteq Asked
             /\ Filled(t) \in 0 .. Cardinality(Asked)
             /\ FullAt(t) <=> Filled(t) = Cardinality(Asked)
             /\ TakenAt(t) = {} <=> Filled(t) = 0
  <2>1. TakenAt(t) \subseteq Asked
    BY DEF TakenAt, Asked
  <2>2. IsFiniteSet(TakenAt(t)) /\ Cardinality(TakenAt(t)) <= Cardinality(Asked)
    BY <1>3, <2>1, FS_Subset
  <2>3. Cardinality(TakenAt(t)) = Cardinality(Asked) => TakenAt(t) = Asked
    BY <1>3, <2>1, FS_Subset
  <2>4. Filled(t) \in Nat
    BY <2>2, FS_CardinalityType DEF Filled
  <2>5. TakenAt(t) = {} <=> Filled(t) = 0
    BY <2>2, FS_EmptySet DEF Filled
  <2>6. FullAt(t) <=> Filled(t) = Cardinality(Asked)
    BY <2>3 DEF FullAt, Filled, Asked
  <2>7. Filled(t) <= Cardinality(Asked)
    BY <2>2 DEF Filled
  <2> QED
    BY <1>4, <2>1, <2>4, <2>5, <2>6, <2>7
<1> QED
  BY <1>1, <1>2, <1>3, <1>4, <1>5

\* The tables are numbered in the order they were opened.
LEMMA Tables ==
  ASSUME seats \in Seq(Chairs)
  PROVE  /\ Newest \in Nat /\ Table = 1 .. Newest
         /\ \A t \in Table, s \in Seat : seats[t][s] \in Person \cup {Nobody}
BY DEF Table, Newest, Chairs

\* Nothing that is said of tables changes while nothing happens at them.
LEMMA SameTables ==
  ASSUME seats' = seats, policy' = policy
  PROVE  /\ BulkShape' = BulkShape /\ Asked' = Asked /\ Newest' = Newest /\ Table' = Table
         /\ \A t : TakenAt(t)' = TakenAt(t) /\ Filled(t)' = Filled(t)
         /\ \A t : FullAt(t)' <=> FullAt(t)
         /\ AllButLast' <=> AllButLast
         /\ InTurn' <=> InTurn
<1>1. BulkShape' = BulkShape /\ Newest' = Newest /\ Table' = Table
  BY DEF BulkShape, Newest, Table
<1>2. Asked' = Asked /\ \A t : TakenAt(t)' = TakenAt(t)
  BY <1>1 DEF Asked, TakenAt
<1>3. \A t : Filled(t)' = Filled(t) /\ (FullAt(t)' <=> FullAt(t))
  BY <1>1, <1>2 DEF Filled, FullAt
<1> QED
  BY <1>1, <1>2, <1>3 DEF AllButLast, InTurn

\* Whoever takes a free chair that is asked for fills the table by one.
LEMMA Taking ==
  ASSUME PlacementAssumption, policy \in Policies, policy' = policy, seats \in Seq(Chairs),
         NEW t \in Table, NEW s \in Asked, NEW p \in Person,
         seats[t][s] = Nobody, Sit(t, s, p)
  PROVE  /\ BulkShape' = BulkShape /\ Newest' = Newest /\ Table' = Table
         /\ Filled(t)' = Filled(t) + 1
         /\ \A u \in Table \ {t} : TakenAt(u)' = TakenAt(u) /\ Filled(u)' = Filled(u)
         /\ \A u \in Table : FullAt(u) => u # t /\ FullAt(u)'
<1>1. s \in Seat /\ p # Nobody /\ Asked \subseteq Seat /\ IsFiniteSet(TakenAt(t))
  BY AskedAre, FS_Subset DEF PlacementAssumption
<1>2. /\ Table' = Table /\ Newest' = Newest
      /\ \A u \in Table, z \in Seat : seats'[u][z] = IF u = t /\ z = s THEN p ELSE seats[u][z]
  BY <1>1, SitEffect DEF Newest
<1>3. BulkShape' = BulkShape /\ Asked' = Asked
  BY DEF BulkShape, Asked
<1>4. \A u : TakenAt(u)' = {z \in Asked : seats'[u][z] # Nobody}
  BY <1>3 DEF TakenAt, Asked
<1>5. \A u : TakenAt(u) = {z \in Asked : seats[u][z] # Nobody}
  BY DEF TakenAt, Asked
<1>6. TakenAt(t)' = TakenAt(t) \cup {s} /\ s \notin TakenAt(t)
  BY <1>1, <1>2, <1>4, <1>5
<1>7. \A u \in Table \ {t} : TakenAt(u)' = TakenAt(u)
  BY <1>1, <1>2, <1>4, <1>5
<1>8. Filled(t)' = Filled(t) + 1
  BY <1>1, <1>6, FS_AddElement DEF Filled
<1>9. \A u \in Table \ {t} : Filled(u)' = Filled(u)
  BY <1>7 DEF Filled
<1>10. \A u \in Table : FullAt(u) => u # t /\ FullAt(u)'
  BY <1>3, <1>6, <1>7 DEF FullAt, Asked
<1> QED
  BY <1>2, <1>3, <1>7, <1>8, <1>9, <1>10

-----------------------------------------------------------------------------
(* What the steps do to the filling. *)

\* Where everybody is still to come, the filling begins.
LEMMA StartsOrdered ==
  ASSUME PlacementAssumption, policy' \in Policies, seats' \in Seq(Chairs)', cursor' = 0,
         search' = Idle, touched' = {}, \A t \in Table' : TakenAt(t)' = {}
  PROVE  Ordered'
<1>1. search'.step = "idle"
  BY DEF Idle
<1>2. Done' = 0
  BY <1>1 DEF Done
<1>3. Calm' /\ OnSpare' /\ Asking' /\ AtNew'
  BY <1>1 DEF Calm, OnSpare, Asking, AtNew
<1>4. Newest' \in Nat /\ Table' = 1 .. Newest'
  BY DEF Newest, Table
<1>5. (InLaps \/ AllButLast)'
  <2>1. CASE Newest' = 0
    BY <1>4, <2>1 DEF AllButLast
  <2>2. CASE Newest' # 0
    <3>1. \A t \in Table' : Filled(t)' = 0
      BY FS_EmptySet DEF Filled
    <3>2. \A t \in Table' : ~(t <= 0)
      BY <1>4
    <3>0. \A n \in Nat : n # 0 => 0 < n /\ 0 = n * 0 + 0
      OBVIOUS
    <3>3. 0 < Newest' /\ 0 = Newest' * 0 + 0
      <4>1. Newest' \in Nat /\ Newest' # 0
        BY <1>4, <2>2
      <4> QED
        BY ONLY <3>0, <4>1
    <3>4. Lap(0, 0)'
      BY <1>1, <1>2, <3>1, <3>2, <3>3 DEF Lap
    <3> QED
      BY <3>4 DEF InLaps
  <2> QED
    BY <2>1, <2>2
<1>6. Round'
  BY <1>2, <1>5 DEF Round
<1>7. Pairs'
  BY <1>1 DEF Pairs, InTurn
<1> QED
  BY <1>3, <1>6, <1>7 DEF Ordered

\* A step without a chair or a search in it leaves the filling as it is.
LEMMA QuietOrdered ==
  ASSUME Ordered, Calm', UNCHANGED <<seats, policy, cursor>>,
         \/ search.step \notin {"look", "sit"} /\ search'.step \notin {"look", "sit"}
         \/ search' = search /\ OnSpare'
  PROVE  Ordered'
<1>1. /\ BulkShape' = BulkShape /\ Asked' = Asked /\ Newest' = Newest /\ Table' = Table
      /\ \A t : TakenAt(t)' = TakenAt(t) /\ Filled(t)' = Filled(t)
      /\ \A t : FullAt(t)' <=> FullAt(t)
      /\ AllButLast' <=> AllButLast
      /\ InTurn' <=> InTurn
  BY SameTables
<1>2. Done' = Done
  BY DEF Done
<1>3. search'.step = "look" => search' = search /\ OnSpare'
  OBVIOUS
<1>4. search'.step = "sit" => search' = search
  OBVIOUS
<1>5. OnSpare' /\ Asking'
  BY <1>1, <1>3 DEF OnSpare, Asking, Ordered
<1>6. AtNew'
  BY <1>1, <1>4 DEF AtNew, Ordered, EmptyTable
<1>7. Laps' = Laps
  BY <1>1, <1>2 DEF Laps
<1>8. \A q, r : Lap(q, r) => Lap(q, r)'
  BY <1>1, <1>2, <1>3, <1>7 DEF Lap
<1>9. Round'
  <2>1. InLaps => InLaps'
    BY <1>8 DEF InLaps
  <2> QED
    BY <1>1, <1>2, <2>1 DEF Round, Ordered
<1>10. Pairs'
  <2>1. search'.step = "look" /\ InOrder => InOrder'
    BY <1>3 DEF InOrder
  <2> QED
    BY <1>1, <1>3, <2>1 DEF Pairs, Ordered
<1> QED
  BY <1>5, <1>6, <1>9, <1>10 DEF Ordered

\* The looks of a search go from the table after the last that was served,
\* or from the first table on.
LEMMA ItineraryIs ==
  ASSUME NEW h \in Shapes, NEW n \in Nat, cursor \in Nat
  PROVE  /\ h.round => Itinerary(h, n) =
              [i \in 1 .. n |-> [table |-> ((cursor + i - 1) % n) + 1, among |-> h.chairs]]
         /\ ~h.round => \A i, j \in DOMAIN Itinerary(h, n) :
              i < j => Itinerary(h, n)[i].table <= Itinerary(h, n)[j].table
         /\ \A i \in DOMAIN Itinerary(h, n) :
              ToSet(Itinerary(h, n)[i].among) \subseteq ToSet(h.chairs)
<1>1. CASE h.round
  <2> DEFINE it == Itinerary(h, n)
  <2>1. it = [i \in 1 .. n |-> [table |-> ((cursor + i - 1) % n) + 1, among |-> h.chairs]]
    BY <1>1 DEF Itinerary
  <2>2. \A i \in DOMAIN it : it[i].among = h.chairs
    BY <2>1
  <2> QED
    BY <1>1, <2>1, <2>2
<1>2. CASE ~h.round
  <2> DEFINE it == Itinerary(h, n)
  <2>1. Len(h.chairs) = 2
    BY <1>2 DEF Shapes
  <2>2. it = [i \in 1 .. n * 2 |-> [table |-> ((i - 1) \div 2) + 1,
                                    among |-> <<h.chairs[((i - 1) % 2) + 1]>>]]
    BY <1>2, <2>1 DEF Itinerary
  <2> HIDE DEF it
  <2>3. DOMAIN it = 1 .. n * 2 /\ \A i \in DOMAIN it : it[i].table = ((i - 1) \div 2) + 1
    BY <2>2
  <2>4. n * 2 \in Nat
    OBVIOUS
  <2>5. ASSUME NEW i \in DOMAIN it, NEW j \in DOMAIN it, i < j
        PROVE  it[i].table <= it[j].table
    <3>1. i \in Nat \ {0} /\ j \in Nat \ {0}
      BY <2>3, <2>4
    <3>2. (i - 1) \div 2 <= (j - 1) \div 2
      BY <2>5, <3>1
    <3> QED
      BY <2>3, <3>1, <3>2
  <2>6. ASSUME NEW i \in DOMAIN it PROVE ToSet(it[i].among) \subseteq ToSet(h.chairs)
    <3>1. i \in Nat \ {0}
      BY <2>3, <2>4
    <3>2. it[i].among = <<h.chairs[((i - 1) % 2) + 1]>>
      BY <2>2, <2>3
    <3>6. DOMAIN h.chairs = 1 .. 2
      BY <2>1, ShapeChairs
    <3>3. ((i - 1) % 2) + 1 \in 1 .. 2 /\ DOMAIN h.chairs = 1 .. 2
      BY <3>1, <3>6
    <3>4. \A x : ToSet(<<x>>) = {x}
      BY DEF ToSet
    <3>5. h.chairs[((i - 1) % 2) + 1] \in ToSet(h.chairs)
      BY <3>3 DEF ToSet
    <3> QED
      BY <3>2, <3>4, <3>5
  <2> QED
    BY <1>2, <2>5, <2>6 DEF it
<1> QED
  BY <1>1, <1>2

\* A search begins: nobody is seated by that, and it sets out in order.
LEMMA BeginOrdered ==
  ASSUME PlacementAssumption, Inv, Ordered, search.step \in {"idle", "next"},
         NEW p, NEW rest, Begin(BulkShape, p, rest), Remember
  PROVE  Ordered'
<1> DEFINE it == Itinerary(BulkShape, Len(seats))
<1>1. /\ search' = [step |-> "look", who |-> p, shape |-> BulkShape, queue |-> rest, looks |-> it]
      /\ cursor' = IF BulkShape.round THEN cursor + 1 ELSE cursor
      /\ seats' = seats /\ policy' = policy /\ touched' = touched
  BY DEF Begin
<1>2. /\ BulkShape \in Shapes /\ seats \in Seq(Chairs) /\ cursor \in Nat
      /\ Newest \in Nat /\ Table = 1 .. Newest
  BY ShapesAre, StateOf, Tables DEF Inv, Typed, Counted
<1>3. /\ BulkShape.round => it = [i \in 1 .. Newest |->
              [table |-> ((cursor + i - 1) % Newest) + 1, among |-> BulkShape.chairs]]
      /\ ~BulkShape.round => \A i, j \in DOMAIN it : i < j => it[i].table <= it[j].table
      /\ \A i \in DOMAIN it : ToSet(it[i].among) \subseteq Asked
  BY <1>2, ItineraryIs DEF Newest, Asked
<1> HIDE DEF it
<1>4. /\ search'.step = "look" /\ search'.shape = BulkShape /\ search'.looks = it
  BY <1>1
<1>5. /\ BulkShape' = BulkShape /\ Asked' = Asked /\ Newest' = Newest /\ Table' = Table
      /\ \A t : TakenAt(t)' = TakenAt(t) /\ Filled(t)' = Filled(t)
      /\ AllButLast' <=> AllButLast
      /\ InTurn' <=> InTurn
  BY <1>1, SameTables
<1>6. Calm'
  BY <1>1, <1>4, <1>5 DEF Calm, Ordered
<1>7. OnSpare'
  <2>1. spare' = {x \in Table \X Asked : seats[x[1]][x[2]] = Nobody}
    BY <1>1, <1>4, <1>5 DEF Remember, FreeChairs, Asked
  <2> QED
    BY <1>1, <1>5, <2>1 DEF OnSpare
<1>8. AtNew' /\ Asking'
  BY <1>3, <1>4, <1>5 DEF AtNew, Asking
<1>9. Round'
  <2> SUFFICES ASSUME BulkShape.round PROVE Round'
    BY <1>5 DEF Round
  <2>1. Done = cursor /\ Done' = Done
    BY <1>1, <1>2, <1>4 DEF Done
  <2>2. Laps' = it
    BY <1>3, <1>5, <2>1 DEF Laps
  <2>3. \A q, r : Lap(q, r) => Lap(q, r)'
    BY <1>4, <1>5, <2>1, <2>2 DEF Lap
  <2>4. InLaps => InLaps'
    BY <2>3 DEF InLaps
  <2> QED
    BY <1>5, <2>1, <2>4 DEF Round, Ordered
<1>10. Pairs'
  <2> SUFFICES ASSUME ~BulkShape.round PROVE Pairs'
    BY <1>5 DEF Pairs
  <2>1. InOrder'
    BY <1>3, <1>4 DEF InOrder
  <2> QED
    BY <1>5, <2>1 DEF Pairs, Ordered
<1> QED
  BY <1>6, <1>7, <1>8, <1>9, <1>10 DEF Ordered

LEMMA ArriveOrdered ==
  ASSUME PlacementAssumption, Inv, Ordered, NEW p \in Person, Arrive(p), Remember
  PROVE  Ordered'
<1>1. search.step = "idle" /\ Shape[policy] = BulkShape
  BY DEF Arrive, SeatingFree, Idle, BulkShape
<1>2. Begin(BulkShape, p, {})
  BY <1>1 DEF Arrive
<1> QED
  BY <1>1, <1>2, BeginOrdered

LEMMA NextStudentOrdered ==
  ASSUME PlacementAssumption, Inv, Ordered, NextStudent, Remember
  PROVE  Ordered'
<1>1. search.step = "next" /\ search.shape = BulkShape
  BY DEF NextStudent, Ordered, Calm
<1>2. PICK p : Begin(BulkShape, p, search.queue \ {p})
  BY <1>1 DEF NextStudent
<1> QED
  BY <1>1, <1>2, BeginOrdered

LEMMA ArriveWaitingOrdered ==
  ASSUME Ordered, NEW p \in Person, ArriveWaiting(p)
  PROVE  Ordered'
<1>1. search.step = "idle" /\ UNCHANGED <<seats, policy, cursor, touched>>
  BY DEF ArriveWaiting, SeatingFree, Idle
<1>2. search' = search \/ (seats = <<>> /\ search' = [step |-> "watch", who |-> p])
  BY DEF ArriveWaiting
<1>3. search'.step = "idle" \/ (seats' = <<>> /\ search'.step = "watch")
  BY <1>1, <1>2
<1>4. Calm'
  BY <1>1, <1>3 DEF Calm, Ordered
<1> QED
  BY <1>1, <1>3, <1>4, QuietOrdered

LEMMA SeatStudentsOrdered ==
  ASSUME Ordered, SeatStudents
  PROVE  Ordered'
<1>1. search.step = "idle" /\ UNCHANGED <<seats, policy, cursor, touched>>
  BY DEF SeatStudents, SeatingFree, Idle
<1>2. search'.step = "next" /\ search'.shape = BulkShape /\ search'.queue # {}
  BY DEF SeatStudents
<1>3. Calm'
  BY <1>1, <1>2, SameTables DEF Calm, Ordered
<1> QED
  BY <1>1, <1>2, <1>3, QuietOrdered

LEMMA UnlistOrdered ==
  ASSUME Ordered, Unlist
  PROVE  Ordered'
<1>1. search.step = "unlist" /\ UNCHANGED <<seats, policy, cursor, touched>>
  BY DEF Unlist
<1>2. \/ search'.step = "idle"
      \/ search'.step = "next" /\ search'.shape = search.shape /\ search'.queue # {}
  BY DEF Unlist, Idle
<1>3. Calm'
  BY <1>1, <1>2, SameTables DEF Calm, Ordered
<1> QED
  BY <1>1, <1>2, <1>3, QuietOrdered

LEMMA LeaveLobbyOrdered ==
  ASSUME Ordered, NEW p \in Person, LeaveLobby(p), Remember
  PROVE  Ordered'
<1>1. search' = search /\ UNCHANGED <<seats, policy, cursor, touched>>
  BY DEF LeaveLobby
<1>2. Calm' /\ OnSpare'
  BY <1>1, SameTables DEF Calm, OnSpare, Ordered, Remember
<1> QED
  BY <1>1, <1>2, QuietOrdered

\* As long as everybody is still to come no search is under way, none has
\* gone round, and the tables are empty.
LEMMA NobodyYet ==
  ASSUME PlacementAssumption, Inv, Calm, \A p \in Person : at[p] = "away"
  PROVE  search = Idle /\ cursor = 0 /\ \A t \in Table, s \in Seat : seats[t][s] = Nobody
<1>1. Who = {} /\ Queue = {}
  BY StateOf
<1>2. search.step # "watch"
  BY StateOf, Carries DEF Inv, InLine, Watching
<1>3. search = Idle
  BY <1>1, <1>2, StateOf, Carries DEF Who, Queue, Calm
<1>4. cursor = 0
  <2>1. Served = {}
    BY <1>1 DEF Served
  <2> QED
    BY <2>1, FS_EmptySet DEF Inv, Counted
<1>5. \A q \in Person : ChairsOf(q) = {}
  BY StateOf DEF Calm, Chaired, Seeks
<1>6. ASSUME NEW t \in Table, NEW s \in Seat PROVE seats[t][s] = Nobody
  <2>1. seats[t][s] \in Person \cup {Nobody}
    BY StateOf, Tables
  <2>2. ASSUME NEW q \in Person PROVE seats[t][s] # q
    <3>1. <<t, s>> \notin ChairsOf(q)
      BY <1>5
    <3> QED
      BY <3>1 DEF ChairsOf
  <2> QED
    BY <2>1, <2>2
<1> QED
  BY <1>3, <1>4, <1>6

LEMMA SetSeatPolicyOrdered ==
  ASSUME PlacementAssumption, Inv, Ordered, NEW k \in Policies, SetSeatPolicy(k), Remember,
         moves = 0, moves' = 0
  PROVE  Ordered'
<1>1. policy' = k /\ search' = search /\ UNCHANGED <<seats, cursor, touched>>
  BY DEF SetSeatPolicy
<1>2. CASE k = policy
  <2>1. Calm' /\ OnSpare'
    BY <1>1, <1>2, SameTables DEF Calm, OnSpare, Ordered, Remember
  <2> QED
    BY <1>1, <1>2, <2>1, QuietOrdered
<1>3. CASE \A p \in Person : at[p] = "away"
  <2>1. search = Idle /\ cursor = 0 /\ \A t \in Table, s \in Seat : seats[t][s] = Nobody
    BY <1>3, NobodyYet DEF Ordered
  <2>2. touched = {}
    BY DEF Ordered, Calm
  <2>3. policy' \in Policies /\ seats' \in Seq(Chairs)' /\ Table' = Table
    BY <1>1, StateOf DEF Chairs, Table
  <2>4. BulkShape' \in Shapes
    BY <1>1, EveryShape DEF BulkShape, PlacementAssumption
  <2>5. ToSet(BulkShape'.chairs) \subseteq Seat
    BY <2>4, ShapeChairs
  <2>6. \A t \in Table' : TakenAt(t)' = {}
    BY <1>1, <2>1, <2>3, <2>5 DEF TakenAt
  <2>7. cursor' = 0 /\ search' = Idle /\ touched' = {}
    BY <1>1, <2>1, <2>2
  <2> QED
    BY <2>3, <2>6, <2>7, StartsOrdered
<1>4. k = policy \/ \A p \in Person : at[p] = "away"
  BY DEF SetSeatPolicy, Upset
<1> QED
  BY <1>2, <1>3, <1>4

\* A table more is the newest, and nobody sits there.
LEMMA Opening ==
  ASSUME PlacementAssumption, policy \in Policies, policy' = policy, seats \in Seq(Chairs),
         OpenTable
  PROVE  /\ BulkShape' = BulkShape /\ Newest' = Newest + 1
         /\ Table' = Table \cup {Newest'} /\ Newest' \notin Table
         /\ seats' \in Seq(Chairs)' /\ seats'[Newest'] = EmptyTable'
         /\ \A t \in Table' \ Table : TakenAt(t)' = {}
         /\ \A t \in Table : t < Newest' /\ TakenAt(t)' = TakenAt(t) /\ (FullAt(t)' <=> FullAt(t))
<1>1. BulkShape' = BulkShape /\ EmptyTable' = EmptyTable /\ Chairs' = Chairs
  BY DEF BulkShape, EmptyTable, Chairs
<1>2. Newest \in Nat /\ Table = 1 .. Newest
  BY Tables
<1>3. /\ seats' \in Seq(Chairs) /\ Table' = Table \cup {Newest + 1}
      /\ Newest + 1 \notin Table
      /\ \A u \in Table : seats'[u] = seats[u]
      /\ seats'[Newest + 1] = EmptyTable
  BY OpenEffect DEF Newest
<1>4. Newest' = Newest + 1
  BY <1>2, <1>3, EmptyTable \in Chairs DEF Newest, OpenTable
<1>5. ASSUME NEW t \in Table' \ Table PROVE TakenAt(t)' = {}
  <2>1. \A s \in Asked : seats'[t][s] = Nobody
    BY <1>3, AskedAre DEF EmptyTable
  <2>2. TakenAt(t)' = {s \in Asked : seats'[t][s] # Nobody}
    BY <1>1 DEF TakenAt, Asked
  <2> QED
    BY <2>1, <2>2
<1>6. \A t \in Table : TakenAt(t)' = TakenAt(t) /\ (FullAt(t)' <=> FullAt(t))
  BY <1>1, <1>3 DEF TakenAt, FullAt
<1>7. \A t \in Table : t < Newest'
  BY <1>2, <1>4
<1> QED
  BY <1>1, <1>3, <1>4, <1>5, <1>6, <1>7

\* The host opens a table: before anybody has gone round, or pair by pair.
LEMMA AddTableOrdered ==
  ASSUME PlacementAssumption, Inv, Ordered, AddTable, moves = 0, moves' = 0
  PROVE  Ordered'
<1>1. /\ search = Idle /\ search' = Idle /\ cursor = 0 /\ cursor' = 0
      /\ policy' = policy /\ touched' = touched
  BY DEF AddTable, Upset, Inv, Counted
<1>2. /\ BulkShape' = BulkShape /\ Newest' = Newest + 1
      /\ Table' = Table \cup {Newest'} /\ Newest' \notin Table
      /\ seats' \in Seq(Chairs)'
      /\ \A t \in Table' \ Table : TakenAt(t)' = {}
      /\ \A t \in Table : t < Newest' /\ TakenAt(t)' = TakenAt(t) /\ (FullAt(t)' <=> FullAt(t))
  BY <1>1, Opening, StateOf DEF AddTable, Inv, Typed
<1>3. policy' \in Policies /\ touched' = {}
  BY <1>1 DEF Inv, Typed, Ordered, Calm
<1>4. search.step = "idle" /\ search'.step = "idle" /\ Done = 0
  BY <1>1 DEF Idle, Done
<1>5. CASE BulkShape.round
  <2>1. \A t \in Table : TakenAt(t) = {}
    BY <1>4, <1>5 DEF Ordered, Round
  <2>2. \A t \in Table' : TakenAt(t)' = {}
    BY <1>2, <2>1
  <2>3. Idle' = Idle
    BY DEF Idle
  <2> QED
    BY <1>1, <1>2, <1>3, <2>2, <2>3, StartsOrdered
<1>6. CASE ~BulkShape.round
  <2>1. Calm' /\ OnSpare' /\ Asking' /\ AtNew'
    BY <1>3, <1>4 DEF Calm, OnSpare, Asking, AtNew
  <2>2. ASSUME NEW t \in Table', NEW u \in Table', t < u, TakenAt(u)' # {} PROVE FullAt(t)'
    <3>1. u \in Table /\ t \in Table
      <4>1. u \in Table
        BY <1>2, <2>2
      <4>2. t # Newest'
        BY <1>2, <2>2, <4>1, StateOf, Tables
      <4> QED
        BY <1>2, <4>1, <4>2
    <3>2. InTurn
      BY <1>6 DEF Ordered, Pairs
    <3> QED
      BY <1>2, <2>2, <3>1, <3>2 DEF InTurn
  <2>3. InTurn'
    BY <2>2 DEF InTurn
  <2>4. Round' /\ Pairs'
    BY <1>2, <1>4, <1>6, <2>3 DEF Round, Pairs
  <2> QED
    BY <2>1, <2>4 DEF Ordered
<1> QED
  BY <1>5, <1>6

\* A table opened for somebody to watch is the only one.
LEMMA OpenToWatchOrdered ==
  ASSUME PlacementAssumption, Inv, Ordered, OpenToWatch
  PROVE  Ordered'
<1>1. /\ search.step = "watch" /\ search' = Idle /\ seats = <<>>
      /\ cursor' = cursor /\ policy' = policy /\ touched' = {}
  BY DEF OpenToWatch, Ordered, Calm
<1>2. /\ BulkShape' = BulkShape /\ Newest' = Newest + 1
      /\ Table' = Table \cup {Newest'}
      /\ \A t \in Table' \ Table : TakenAt(t)' = {}
  BY <1>1, Opening, StateOf DEF OpenToWatch, Inv, Typed
<1>3. Table = {} /\ Table' = {Newest'} /\ Newest' \in Nat
  <2>1. Newest = 0 /\ Table = {}
    BY <1>1 DEF Newest, Table
  <2> QED
    BY <1>2, <2>1
<1>4. search'.step = "idle" /\ Done' = Done /\ Done = cursor
  BY <1>1 DEF Idle, Done
<1>5. Calm' /\ OnSpare' /\ Asking' /\ AtNew'
  BY <1>1, <1>4 DEF Calm, OnSpare, Asking, AtNew
<1>6. Round'
  <2>1. AllButLast'
    BY <1>3 DEF AllButLast
  <2>2. \A t \in Table' : TakenAt(t)' = {}
    BY <1>2, <1>3
  <2> QED
    BY <1>2, <1>4, <2>1, <2>2 DEF Round, Ordered
<1>7. Pairs'
  <2>1. InTurn'
    BY <1>3 DEF InTurn
  <2> QED
    BY <1>4, <2>1 DEF Pairs
<1> QED
  BY <1>5, <1>6, <1>7 DEF Ordered

\* A search that found no chair leaves every table full, and opens another.
LEMMA OverflowOrdered ==
  ASSUME PlacementAssumption, Inv, Ordered, Overflow
  PROVE  Ordered'
<1>1. /\ search.step = "look" /\ search.looks = <<>> /\ Seating
      /\ cursor' = cursor /\ policy' = policy /\ touched' = {}
  BY StateOf, Carries DEF Overflow, Ordered, Calm
<1>2. search' = [step |-> "sit", who |-> search.who, shape |-> search.shape,
                 queue |-> search.queue, looks |-> <<Len(seats) + 1>>]
  BY <1>1, Stages DEF Overflow
<1>3. search'.step = "sit" /\ search'.shape = search.shape /\ search'.looks = <<Len(seats) + 1>>
  BY <1>2
<1>4. /\ BulkShape' = BulkShape /\ Newest' = Newest + 1
      /\ Table' = Table \cup {Newest'} /\ Newest' \notin Table
      /\ seats'[Newest'] = EmptyTable'
      /\ \A t \in Table' \ Table : TakenAt(t)' = {}
      /\ \A t \in Table : t < Newest' /\ TakenAt(t)' = TakenAt(t) /\ (FullAt(t)' <=> FullAt(t))
  BY <1>1, Opening, StateOf DEF Overflow, Inv, Typed
<1>5. \A t \in Table : FullAt(t)
  <2>1. spare = {}
    BY <1>1 DEF Inv, Ahead
  <2>2. \A t \in Table, s \in Asked : seats[t][s] # Nobody
    BY <1>1, <2>1 DEF Ordered, OnSpare
  <2> QED
    BY <2>2 DEF FullAt, TakenAt, Asked
<1>6. AllButLast'
  BY <1>4, <1>5 DEF AllButLast
<1>7. Calm'
  BY <1>1, <1>3, <1>4 DEF Calm, Ordered
<1>8. AtNew' /\ OnSpare' /\ Asking'
  BY <1>3, <1>4, <1>6 DEF AtNew, OnSpare, Asking, Newest
<1>9. Round'
  <2>1. Done' = Done
    BY <1>1, <1>3 DEF Done
  <2> QED
    BY <1>4, <1>6, <2>1 DEF Round, Ordered
<1>10. Pairs'
  <2>1. ASSUME NEW t \in Table', NEW u \in Table', t < u PROVE FullAt(t)'
    <3>1. t \in Table
      <4>1. Newest \in Nat /\ Table = 1 .. Newest
        BY StateOf, Tables
      <4> QED
        BY <1>4, <2>1, <4>1
    <3> QED
      BY <1>4, <1>5, <3>1
  <2> QED
    BY <1>3, <2>1 DEF Pairs, InTurn
<1> QED
  BY <1>7, <1>8, <1>9, <1>10 DEF Ordered

\* In a lap the table to be looked at next is the one after those that are
\* one ahead.
LEMMA NextInLap ==
  ASSUME seats \in Seq(Chairs), search.step = "look", search.looks # <<>>,
         NEW q \in Nat, NEW r \in Nat, Lap(q, r)
  PROVE  /\ Head(search.looks).table = r + 1 /\ r + 1 \in Table
         /\ Head(search.looks).among = BulkShape.chairs
<1>1. Newest \in Nat /\ Table = 1 .. Newest
  BY Tables
<1>2. r < Newest /\ Done = Newest * q + r /\ search.looks = Laps
  BY DEF Lap
<1>3. Newest \in Nat \ {0} /\ r \in 0 .. Newest - 1 /\ r + 1 \in 1 .. Newest
  BY <1>1, <1>2
<1>4. (Newest * q + r) % Newest = r
  BY <1>3, Remainder
<1>5. Newest * q + r + 1 - 1 = Newest * q + r
  BY <1>3
<1>6. Head(search.looks) = Laps[1]
  BY <1>2
<1>7. Laps[1] = [table |-> ((Done + 1 - 1) % Newest) + 1, among |-> BulkShape.chairs]
  BY <1>3 DEF Laps
<1>8. (Done + 1 - 1) % Newest = r
  BY <1>2, <1>4, <1>5
<1> QED
  BY <1>1, <1>3, <1>6, <1>7, <1>8

\* A look that finds no chair: going round, it ends a lap with all tables full.
LEMMA MissOrdered ==
  ASSUME PlacementAssumption, Inv, Ordered, search.step = "look", search.looks # <<>>,
         FreeAmong(Head(search.looks).table, Head(search.looks).among) = {},
         search' = [search EXCEPT !.looks = Tail(@)],
         UNCHANGED <<seats, policy, cursor, touched>>, Remember
  PROVE  Ordered'
<1> DEFINE old  == search.looks
           rest == Tail(old)
<1>1. Seating /\ old \in Looks /\ seats \in Seq(Chairs)
  BY StateOf, Carries
<1>2. search' = [step |-> "look", who |-> search.who, shape |-> search.shape,
                 queue |-> search.queue, looks |-> rest]
  BY <1>1, Stages
<1>3. search'.step = "look" /\ search'.shape = search.shape /\ search'.looks = rest
  BY <1>2
<1>4. /\ Len(old) \in Nat \ {0} /\ DOMAIN old = 1 .. Len(old)
      /\ DOMAIN rest = 1 .. Len(old) - 1
      /\ \A i \in 1 .. Len(old) - 1 : rest[i] = old[i + 1]
  BY <1>1 DEF Looks
<1> HIDE DEF rest
<1>5. /\ BulkShape' = BulkShape /\ Asked' = Asked /\ Newest' = Newest /\ Table' = Table
      /\ \A t : TakenAt(t)' = TakenAt(t) /\ Filled(t)' = Filled(t)
      /\ AllButLast' <=> AllButLast
      /\ InTurn' <=> InTurn
  BY SameTables
<1>6. Calm'
  BY <1>3, <1>5 DEF Calm, Ordered
<1>7. OnSpare'
  BY <1>3, <1>5 DEF OnSpare, Remember, Ordered
<1>8. Asking' /\ AtNew'
  <2>1. \A i \in DOMAIN rest : ToSet(rest[i].among) \subseteq Asked
    <3> TAKE i \in DOMAIN rest
    <3>1. i + 1 \in DOMAIN old /\ rest[i] = old[i + 1]
      BY <1>4
    <3> QED
      BY <3>1 DEF Ordered, Asking
  <2> QED
    BY <1>3, <1>5, <2>1 DEF Asking, AtNew
<1>9. Round'
  <2> SUFFICES ASSUME BulkShape.round PROVE Round'
    BY <1>5 DEF Round
  <2>1. Done' = Done
    BY <1>3 DEF Done
  <2>2. ASSUME NEW q \in Nat, NEW r \in Nat, Lap(q, r) PROVE AllButLast
    <3>1. /\ Head(old).table = r + 1 /\ r + 1 \in Table
          /\ Head(old).among = BulkShape.chairs
      BY <1>1, <2>2, NextInLap
    <3>2. \A s \in Asked : seats[r + 1][s] # Nobody
      BY <3>1 DEF FreeAmong, Asked, ToSet
    <3>3. FullAt(r + 1)
      BY <3>2 DEF FullAt, TakenAt, Asked
    <3>4. /\ Cardinality(Asked) \in Nat
          /\ \A t : Filled(t) <= Cardinality(Asked) /\ (FullAt(t) <=> Filled(t) = Cardinality(Asked))
      BY AskedAre DEF Inv, Typed
    <3>5. Filled(r + 1) = q
      BY <2>2, <3>1 DEF Lap
    <3>6. \A t \in Table : Filled(t) \in {q, q + 1}
      BY <2>2 DEF Lap
    <3>7. \A t \in Table : Filled(t) = Cardinality(Asked)
      BY <3>3, <3>4, <3>5, <3>6
    <3> QED
      BY <3>4, <3>7 DEF AllButLast
  <2>3. AllButLast
    BY <2>2 DEF Ordered, Round, InLaps
  <2> QED
    BY <1>5, <2>1, <2>3 DEF Round, Ordered
<1>10. Pairs'
  <2> SUFFICES ASSUME ~BulkShape.round PROVE Pairs'
    BY <1>5 DEF Pairs
  <2>1. \A i, j \in DOMAIN old : i < j => old[i].table <= old[j].table
    BY DEF Ordered, Pairs, InOrder
  <2>2. ASSUME NEW i \in DOMAIN rest, NEW j \in DOMAIN rest, i < j
        PROVE  rest[i].table <= rest[j].table
    <3>1. /\ i + 1 \in DOMAIN old /\ j + 1 \in DOMAIN old /\ i + 1 < j + 1
          /\ rest[i] = old[i + 1] /\ rest[j] = old[j + 1]
      BY <1>4, <2>2
    <3> QED
      BY <2>1, <3>1
  <2>3. InOrder'
    BY <1>3, <2>2 DEF InOrder
  <2> QED
    BY <1>5, <2>3 DEF Pairs, Ordered
<1> QED
  BY <1>6, <1>7, <1>8, <1>9, <1>10 DEF Ordered

\* Somebody is seated at the next table of a lap, or where it leaves all but
\* the newest full, or at the first table with a chair free.
LEMMA SeatedOrdered ==
  ASSUME PlacementAssumption, Inv, Ordered, search.step \in {"look", "sit"}, Placed,
         NEW t \in Table, NEW s \in Asked, seats[t][s] = Nobody, Sit(t, s, search.who),
         UNCHANGED <<policy, cursor, touched>>,
         BulkShape.round => AllButLast \/ \E q, r \in Nat : Lap(q, r) /\ t = r + 1,
         ~BulkShape.round => \A v \in Table : v < t => FullAt(v)
  PROVE  Ordered'
<1>1. Seating /\ seats \in Seq(Chairs)
  BY StateOf, Carries
<1>2. PICK p \in Person : search.who = p
  BY <1>1 DEF Seating
<1>3. /\ BulkShape' = BulkShape /\ Newest' = Newest /\ Table' = Table
      /\ Filled(t)' = Filled(t) + 1
      /\ \A u \in Table \ {t} : TakenAt(u)' = TakenAt(u) /\ Filled(u)' = Filled(u)
      /\ \A u \in Table : FullAt(u) => u # t /\ FullAt(u)'
  BY <1>1, <1>2, Taking DEF Inv, Typed
<1>4. search'.step = "idle" \/ (search'.step = "unlist" /\ search'.shape = search.shape)
  <2>1. search' = Idle \/ search' = [step |-> "unlist", who |-> search.who, shape |-> search.shape,
                                     queue |-> search.queue, looks |-> search.looks]
    BY <1>1, Stages DEF Placed
  <2> QED
    BY <2>1 DEF Idle
<1>5. Calm' /\ OnSpare' /\ Asking' /\ AtNew'
  BY <1>3, <1>4 DEF Calm, OnSpare, Asking, AtNew, Ordered
<1>6. Newest \in Nat /\ Table = 1 .. Newest
  BY <1>1, Tables
<1>7. Round'
  <2> SUFFICES ASSUME BulkShape.round PROVE Round'
    BY <1>3 DEF Round
  <2>1. Done \in Nat /\ Done' = Done + 1
    <3>1. Done \in Nat /\ Done = cursor - 1 /\ cursor \in Nat
      BY DEF Ordered, Round, Done, Inv, Counted
    <3>2. Done' = cursor
      BY <1>4 DEF Done
    <3> QED
      BY <3>1, <3>2
  <2>2. CASE AllButLast
    <3>1. AllButLast'
      BY <1>3, <2>2 DEF AllButLast
    <3> QED
      BY <2>1, <3>1 DEF Round
  <2>3. ASSUME NEW q \in Nat, NEW r \in Nat, Lap(q, r), t = r + 1 PROVE Round'
    <3>1. /\ r < Newest /\ Done = Newest * q + r
          /\ \A u \in Table : Filled(u) = IF u <= r THEN q + 1 ELSE q
      BY <2>3 DEF Lap
    <3>2. \A u \in Table : Filled(u)' = IF u <= r + 1 THEN q + 1 ELSE q
      <4> TAKE u \in Table
      <4>1. CASE u = t
        <5>1. Filled(t) = q
          BY <1>6, <2>3, <3>1
        <5> QED
          BY <1>3, <2>3, <4>1, <5>1
      <4>2. CASE u # t
        BY <1>3, <1>6, <2>3, <3>1, <4>2
      <4> QED
        BY <4>1, <4>2
    <3>3. CASE r + 1 < Newest
      <4>1. Done' = Newest * q + (r + 1)
        BY <1>6, <2>1, <3>1
      <4>2. Lap(q, r + 1)'
        BY <1>3, <1>4, <3>2, <3>3, <4>1 DEF Lap
      <4>3. r + 1 \in Nat
        OBVIOUS
      <4>4. InLaps'
        BY <4>2, <4>3 DEF InLaps
      <4> QED
        BY <2>1, <4>4 DEF Round
    <3>4. CASE r + 1 = Newest
      <4>1. Done' = Newest * (q + 1) + 0
        <5>1. \A n \in Nat : n * (q + 1) + 0 = n * q + n
          OBVIOUS
        <5> QED
          BY <1>6, <2>1, <3>1, <3>4, <5>1
      <4>2. \A u \in Table : Filled(u)' = IF u <= 0 THEN (q + 1) + 1 ELSE q + 1
        BY <1>6, <3>2, <3>4
      <4>3. Lap(q + 1, 0)'
        BY <1>3, <1>4, <3>4, <4>1, <4>2 DEF Lap
      <4>4. q + 1 \in Nat
        OBVIOUS
      <4>5. InLaps'
        BY <4>3, <4>4 DEF InLaps
      <4> QED
        BY <2>1, <4>5 DEF Round
    <3> QED
      BY <1>6, <3>1, <3>3, <3>4
  <2> QED
    BY <2>2, <2>3
<1>8. Pairs'
  <2> SUFFICES ASSUME ~BulkShape.round PROVE Pairs'
    BY <1>3 DEF Pairs
  <2>1. ASSUME NEW v \in Table, NEW u \in Table, v < u, TakenAt(u)' # {} PROVE FullAt(v)'
    <3>1. FullAt(v)
      <4>1. CASE u = t
        BY <2>1, <4>1
      <4>2. CASE u # t
        BY <1>3, <2>1, <4>2 DEF Ordered, Pairs, InTurn
      <4> QED
        BY <4>1, <4>2
    <3> QED
      BY <1>3, <3>1
  <2> QED
    BY <1>3, <1>4, <2>1 DEF Pairs, InTurn
<1> QED
  BY <1>5, <1>7, <1>8 DEF Ordered

LEMMA LookOrdered ==
  ASSUME PlacementAssumption, Inv, Ordered, Look, Remember
  PROVE  Ordered'
<1> DEFINE looks == search.looks
           here  == Head(looks)
<1>1. /\ search.step = "look" /\ looks # <<>> /\ looks \in Looks /\ seats \in Seq(Chairs)
      /\ UNCHANGED <<policy, cursor, touched>>
  BY StateOf, Carries DEF Look
<1>2. /\ here = looks[1] /\ here.table \in Table /\ here.among \in Seq(Seat)
      /\ 1 \in DOMAIN looks /\ \A i \in DOMAIN looks : i = 1 \/ 1 < i
  <2>1. here \in [table : Table, among : Seq(Seat)]
    BY <1>1, HeadIsOne DEF Looks
  <2> QED
    BY <1>1, <2>1 DEF Looks
<1>3. CASE FreeAmong(here.table, here.among) = {} /\ search' = [search EXCEPT !.looks = Tail(@)]
           /\ UNCHANGED seats
  BY <1>1, <1>3, MissOrdered
<1>4. ASSUME NEW i \in FreeAmong(here.table, here.among),
             Sit(here.table, here.among[i], search.who), Placed
      PROVE  Ordered'
  <2>1. here.among[i] \in ToSet(here.among) /\ seats[here.table][here.among[i]] = Nobody
    BY <1>2 DEF FreeAmong, ToSet
  <2>2. here.among[i] \in Asked
    BY <1>1, <1>2, <2>1 DEF Ordered, Asking
  <2>3. BulkShape.round => AllButLast \/ \E q, r \in Nat : Lap(q, r) /\ here.table = r + 1
    <3>1. ASSUME NEW q \in Nat, NEW r \in Nat, Lap(q, r) PROVE here.table = r + 1
      BY <1>1, <3>1, NextInLap
    <3> HIDE DEF here
    <3> QED
      BY <3>1 DEF Ordered, Round, InLaps
  <2>4. ASSUME ~BulkShape.round, NEW v \in Table, v < here.table PROVE FullAt(v)
    <3>1. ASSUME NEW s \in Asked, seats[v][s] = Nobody PROVE FALSE
      <4>1. <<v, s>> \in spare
        BY <1>1, <3>1 DEF Ordered, OnSpare
      <4>2. PICK j \in DOMAIN looks : looks[j].table = v
        BY <4>1 DEF Inv, Ahead
      <4>3. \A k, l \in DOMAIN looks : k < l => looks[k].table <= looks[l].table
        BY <1>1, <2>4 DEF Ordered, Pairs, InOrder
      <4>4. Newest \in Nat /\ Table = 1 .. Newest
        BY <1>1, Tables
      <4>5. looks[1].table <= looks[j].table
        <5> HIDE DEF looks, here
        <5> QED
          BY <1>2, <4>2, <4>3, <4>4
      <4> HIDE DEF looks, here
      <4> QED
        BY <1>2, <2>4, <4>2, <4>4, <4>5
    <3> QED
      BY <3>1 DEF FullAt, TakenAt, Asked
  <2> HIDE DEF here
  <2> QED
    BY <1>1, <1>2, <1>4, <2>1, <2>2, <2>3, <2>4, SeatedOrdered
<1> QED
  BY <1>3, <1>4 DEF Look

\* Nobody has taken the first chair of the new table meanwhile.
LEMMA SitAtNewOrdered ==
  ASSUME PlacementAssumption, Inv, Ordered, SitAtNew
  PROVE  Ordered'
<1> DEFINE s == FirstSeat(search.shape)
<1>1. /\ search.step = "sit" /\ search.shape = BulkShape /\ search.looks = <<Newest>>
      /\ seats[Newest] = EmptyTable /\ AllButLast /\ Placed
      /\ UNCHANGED <<policy, cursor>>
  BY DEF SitAtNew, Ordered, Calm, AtNew
<1>2. s \in Asked
  <2>1. BulkShape.chairs \in Seq(Seat) /\ BulkShape.chairs # <<>>
    BY AskedAre DEF Inv, Typed
  <2> QED
    BY <1>1, <2>1 DEF FirstSeat, Asked, ToSet
<1>3. s \in Seat
  BY <1>2, AskedAre DEF Inv, Typed
<1>4. Newest \in Table
  <2>1. PICK t \in Table : search.looks = <<t>>
    BY <1>1, StateOf, Carries
  <2> QED
    BY <1>1, <2>1
<1>5. seats[Newest][s] = Nobody
  BY <1>1, <1>3 DEF EmptyTable
<1>6. Sit(Newest, s, search.who) /\ touched' = touched
  BY <1>1, <1>5 DEF SitAtNew
<1>7. \A v \in Table : v < Newest => FullAt(v)
  BY <1>1, StateOf, Tables DEF AllButLast
<1> HIDE DEF s
<1> QED
  BY <1>1, <1>2, <1>4, <1>5, <1>6, <1>7, SeatedOrdered

LEMMA InitEven ==
  ASSUME PlacementAssumption, Init
  PROVE  Even
<1>1. search.step = "idle" /\ seats = <<>> /\ cursor = 0 /\ touched = {} /\ Table = {}
  BY DEF Init, Idle, Table
<1>2. Calm /\ OnSpare /\ Asking /\ AtNew
  BY <1>1 DEF Calm, OnSpare, Asking, AtNew
<1>3. Done = 0
  BY <1>1 DEF Done
<1>4. Round /\ Pairs
  BY <1>1, <1>3 DEF Round, Pairs, InTurn, AllButLast
<1> QED
  BY <1>2, <1>4 DEF Even, Ordered

\* What the host or a departure upsets stays upset.
LEMMA StepEven ==
  ASSUME PlacementAssumption, Inv, Even, [Next]_placeVars
  PROVE  Even'
<1> SUFFICES ASSUME moves' = 0 PROVE Ordered'
  BY DEF Even
<1>m. moves \in Nat
  BY DEF Inv, Typed, PlacementAssumption
<1>0. ASSUME moves = 0 PROVE Ordered
  BY <1>0 DEF Even
<1>1. ASSUME NEW p \in Person, Arrive(p) \/ ArriveWaiting(p) \/ LeaveLobby(p), Remember
      PROVE  Ordered'
  <2>1. moves' = moves
    BY <1>1 DEF Arrive, ArriveWaiting, LeaveLobby, Begin
  <2> QED
    BY <1>0, <1>1, <2>1, ArriveOrdered, ArriveWaitingOrdered, LeaveLobbyOrdered
<1>2. CASE (OpenToWatch \/ Look \/ Overflow \/ SitAtNew) /\ Remember
  <2>1. moves' = moves
    BY <1>2 DEF OpenToWatch, Look, Overflow, SitAtNew
  <2> QED
    BY <1>0, <1>2, <2>1, OpenToWatchOrdered, LookOrdered, OverflowOrdered, SitAtNewOrdered
<1>3. CASE (SeatStudents \/ NextStudent \/ Unlist) /\ Remember
  <2>1. moves' = moves
    BY <1>3 DEF SeatStudents, NextStudent, Unlist, Begin
  <2> QED
    BY <1>0, <1>3, <2>1, SeatStudentsOrdered, NextStudentOrdered, UnlistOrdered
<1>4. CASE AddTable
  <2>1. moves = 0
    BY <1>4, <1>m DEF AddTable, Upset
  <2> QED
    BY <1>0, <1>4, <2>1, AddTableOrdered
<1>5. ASSUME NEW k \in Policies, SetSeatPolicy(k), Remember PROVE Ordered'
  <2>1. moves = 0
    BY <1>5, <1>m DEF SetSeatPolicy, Upset
  <2> QED
    BY <1>0, <1>5, <2>1, SetSeatPolicyOrdered
<1>6. ASSUME NEW p \in Person, NEW t \in Table, NEW s \in HostChairs, HostPlace(p, t, s)
      PROVE  FALSE
  BY <1>6, <1>m DEF HostPlace, Upset
<1>7. ASSUME NEW t \in Table, NEW s \in Seat, Vacate(t, s) PROVE FALSE
  BY <1>7, <1>m DEF Vacate, Upset
<1>8. CASE UNCHANGED placeVars
  <2>1. moves = 0 /\ search' = search /\ UNCHANGED <<seats, policy, cursor, spare, touched>>
    BY <1>8 DEF placeVars
  <2>2. Calm' /\ OnSpare'
    BY <1>0, <2>1, SameTables DEF Calm, OnSpare, Ordered
  <2> QED
    BY <1>0, <2>1, <2>2, QuietOrdered
<1> QED
  BY <1>1, <1>2, <1>3, <1>4, <1>5, <1>6, <1>7, <1>8 DEF Next, Arriving

LEMMA EvenAlways == Spec => [](Inv /\ Even)
<1>1. Init => Inv /\ Even
  BY InitInv, InitEven, PlacementAssumption
<1>2. (Inv /\ Even) /\ [Next]_placeVars => (Inv /\ Even)'
  BY StepInv, StepEven, PlacementAssumption
<1> QED
  BY <1>1, <1>2, PTL DEF Spec

\* Going round spreads people evenly, as long as nobody but arrivals and
\* those seated from the lobby moves them: no table is two ahead of another
\* but for the newest, opened when the others were full, and this although
\* the cursor is moved once for each search and never looks at who sits where
\* (sessions.rs, seat_one and try_seat_existing).
THEOREM SpreadEvenly == Spec => []Evenly
<1>1. Inv /\ Even => Evenly
  <2> SUFFICES ASSUME Inv, Ordered, BulkShape.round, NEW t \in Table, NEW u \in Table,
                      Filled(u) > Filled(t) + 1,
                      NEW v \in Table \ {t}
               PROVE  FullAt(v)
    BY DEF Even, Evenly, Filled
  <2>1. /\ Cardinality(Asked) \in Nat
        /\ \A x : /\ Filled(x) \in 0 .. Cardinality(Asked)
                  /\ FullAt(x) <=> Filled(x) = Cardinality(Asked)
    BY AskedAre, PlacementAssumption DEF Inv, Typed
  <2>2. CASE AllButLast
    <3>1. t = Newest
      BY <2>1, <2>2 DEF AllButLast
    <3> QED
      BY <2>2, <3>1 DEF AllButLast
  <2>3. ASSUME NEW q \in Nat, NEW r \in Nat, Lap(q, r) PROVE FALSE
    <3>1. Filled(t) \in {q, q + 1} /\ Filled(u) \in {q, q + 1}
      BY <2>3 DEF Lap
    <3> QED
      BY <3>1
  <2> QED
    BY <2>2, <2>3 DEF Ordered, Round, InLaps
<1> QED
  BY <1>1, EvenAlways, PTL

\* Filling by pairs seats partners together: the search takes the tables in
\* their order, both chairs of each, so that at one table at most somebody
\* sits without a partner (sessions.rs, try_seat_existing).
THEOREM PartnersSitTogether == Spec => []PartnersTogether
<1>1. Inv /\ Even => PartnersTogether
  <2> SUFFICES ASSUME Inv, Ordered, ~BulkShape.round
               PROVE  Cardinality({t \in Table : TakenAt(t) # {} /\ ~FullAt(t)}) <= 1
    BY DEF Even, PartnersTogether
  <2> DEFINE Half == {t \in Table : TakenAt(t) # {} /\ ~FullAt(t)}
  <2>1. ASSUME NEW t \in Half, NEW u \in Half PROVE t = u
    <3>1. InTurn
      BY DEF Ordered, Pairs
    <3>2. ~(t < u) /\ ~(u < t)
      BY <3>1 DEF InTurn
    <3>3. t \in Nat /\ u \in Nat
      BY StateOf, Tables
    <3> QED
      BY <3>2, <3>3
  <2> HIDE DEF Half
  <2>2. CASE Half = {}
    BY <2>2, FS_EmptySet DEF Half
  <2>3. ASSUME NEW t \in Half PROVE Cardinality(Half) <= 1
    <3>1. Half = {t}
      BY <2>1, <2>3
    <3>2. Cardinality(Half) = 1
      BY <3>1, FS_Singleton
    <3> QED
      BY <3>2
  <2> QED
    BY <2>2, <2>3 DEF Half
<1> QED
  BY <1>1, EvenAlways, PTL
=============================================================================
