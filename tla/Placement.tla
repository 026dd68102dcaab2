----------------------------- MODULE Placement -----------------------------
(***************************************************************************)
(* How the people of a session are spread over its tables                  *)
(* (src/src/sessions.rs): the seat policies, the search for a free chair   *)
(* from table to table, and the table that is opened when there is none.   *)
(*                                                                         *)
(* Arrivals, and the seating of those who wait, take their turns under the *)
(* seating lock; a search looks into one table at a time, each under its   *)
(* own lock, while the host opens tables and places people and others give *)
(* up their chairs.  What becomes of a person at one table, with returns,  *)
(* reservations and notices, is the subject of Seats.                      *)
(***************************************************************************)
EXTENDS Bridge

CONSTANTS
  Person,      \* ticket subjects; each arrives once
  Nobody,
  Policies,    \* the keys of the seat policies the host may choose
  HostTables,  \* the host opens no table once there are so many
  HostChairs,  \* the chairs the host puts people in
  MaxMoves     \* how often the host, or a departure, upsets the filling

ASSUME PlacementAssumption ==
  /\ IsFiniteSet(Person) /\ Nobody \notin Person
  /\ Policies \subseteq {"first_free", "one_per_south", "two_per_ns", "pairs_ns", "manual"}
  /\ Policies # {}
  /\ HostTables \in Nat /\ MaxMoves \in Nat
  /\ HostChairs \subseteq Seat

VARIABLES
  seats,       \* for each table, in the order they were opened, who sits where
  policy,      \* the seat policy of the session
  cursor,      \* counts the searches that go round the tables
  at,          \* where each person is
  search,      \* the search under the seating lock
  spare,       \* history: the chairs free ever since the search began
  moves,       \* history: how often the host, or a departure, upset the filling
  touched      \* history: the people to whom the host, or a departure, happened

placeVars == <<seats, policy, cursor, at, search, spare, moves, touched>>

-----------------------------------------------------------------------------
(* Seat policies.  A shape is what an automatic policy asks for: chairs in *)
(* the order they are tried, table by table going round from the cursor,   *)
(* or chair by chair from the first table on.                              *)

Shape == [ first_free    |-> [round |-> TRUE,  chairs |-> <<South, West, North, East>>],
           one_per_south |-> [round |-> TRUE,  chairs |-> <<South>>],
           two_per_ns    |-> [round |-> TRUE,  chairs |-> <<South, North>>],
           pairs_ns      |-> [round |-> FALSE, chairs |-> <<South, North>>] ]

\* When those who wait are seated, a manual session fills the first free.
BulkShape == Shape[IF policy = "manual" THEN "first_free" ELSE policy]

FirstSeat(shape) == shape.chairs[1]

\* Slip: the search goes from the cursor to the last table only.
ItineraryToEnd(shape, n) ==
  IF n = 0 THEN <<>>
  ELSE [i \in 1 .. n - (cursor % n) |-> [table |-> (cursor % n) + i, among |-> shape.chairs]]

\* Slip: every search starts at the first table.
ItineraryInOrder(shape, n) ==
  IF shape.round
  THEN [i \in 1 .. n |-> [table |-> i, among |-> shape.chairs]]
  ELSE [i \in 1 .. 2 * n |-> [table |-> (i + 1) \div 2,
                              among |-> <<shape.chairs[1 + ((i + 1) % 2)]>>]]

\* Slip: the chair of one kind is sought at every table, then the other kind.
ItineraryByChair(shape, n) ==
  IF shape.round
  THEN [i \in 1 .. n |-> [table |-> ((cursor + i - 1) % n) + 1, among |-> shape.chairs]]
  ELSE [i \in 1 .. 2 * n |-> [table |-> ((i - 1) % n) + 1,
                              among |-> <<shape.chairs[1 + ((i - 1) \div n)]>>]]

\* The looks of a search over n tables, in their order; each is one lock.
Itinerary(shape, n) ==
  LET k == Len(shape.chairs)
  IN  IF shape.round
      THEN [i \in 1 .. n |-> [table |-> ((cursor + i - 1) % n) + 1, among |-> shape.chairs]]
      ELSE [i \in 1 .. n * k |-> [table |-> ((i - 1) \div k) + 1,
                                  among |-> <<shape.chairs[((i - 1) % k) + 1]>>]]

-----------------------------------------------------------------------------
(* Tables and chairs. *)

Table == DOMAIN seats
EmptyTable == [s \in Seat |-> Nobody]

ChairsOf(p) == {x \in Table \X Seat : seats[x[1]][x[2]] = p}
FreeAmong(t, chairs) == {i \in DOMAIN chairs : seats[t][chairs[i]] = Nobody}

Sit(t, s, p) == seats' = [seats EXCEPT ![t][s] = p]
OpenTable    == seats' = Append(seats, EmptyTable)

-----------------------------------------------------------------------------
(* The search for a chair. *)

Idle == [step |-> "idle"]

\* Slip: an arrival does not wait for the seating lock.
Unlocked == TRUE

SeatingFree == search = Idle

\* The tables are listed, and the cursor moves on if the search goes round.
\* Of those who wait, the ones not yet served stay in the queue.
Begin(shape, p, queue) ==
  /\ search' = [step |-> "look", who |-> p, shape |-> shape, queue |-> queue,
                looks |-> Itinerary(shape, Len(seats))]
  /\ cursor' = IF shape.round THEN cursor + 1 ELSE cursor
  /\ UNCHANGED <<seats, policy, moves, touched>>

Arrive(p) ==
  /\ at[p] = "away" /\ SeatingFree
  /\ policy # "manual"
  /\ at' = [at EXCEPT ![p] = "arriving"]
  /\ Begin(Shape[policy], p, {})

\* An arrival waits in the lobby if the policy is manual, and under any
\* policy while the host holds arrivals back.  It has a table to watch.
ArriveWaiting(p) ==
  /\ at[p] = "away" /\ SeatingFree
  /\ IF seats = <<>>
     THEN search' = [step |-> "watch", who |-> p] /\ at' = [at EXCEPT ![p] = "arriving"]
     ELSE UNCHANGED search /\ at' = [at EXCEPT ![p] = "waiting"]
  /\ UNCHANGED <<seats, policy, cursor, moves, touched>>

OpenToWatch ==
  /\ search.step = "watch"
  /\ OpenTable
  /\ at' = [at EXCEPT ![search.who] = "waiting"]
  /\ search' = Idle
  /\ UNCHANGED <<policy, cursor, moves, touched>>

\* An arrival has been placed; one who waited has yet to leave the lobby.
Placed ==
  IF at[search.who] = "arriving"
  THEN at' = [at EXCEPT ![search.who] = "in"] /\ search' = Idle
  ELSE UNCHANGED at /\ search' = [search EXCEPT !.step = "unlist"]

\* One look: the first free chair asked for is taken.
Look ==
  /\ search.step = "look" /\ search.looks # <<>>
  /\ \E here \in {Head(search.looks)} :
       \/ \E i \in FreeAmong(here.table, here.among) :
            /\ \A j \in FreeAmong(here.table, here.among) : i <= j
            /\ Sit(here.table, here.among[i], search.who)
            /\ Placed
       \/ /\ FreeAmong(here.table, here.among) = {}
          /\ search' = [search EXCEPT !.looks = Tail(@)]
          /\ UNCHANGED <<seats, at>>
  /\ UNCHANGED <<policy, cursor, moves, touched>>

\* With nothing left to look at, a table is opened,
Overflow ==
  /\ search.step = "look" /\ search.looks = <<>>
  /\ OpenTable
  /\ search' = [search EXCEPT !.step = "sit", !.looks = <<Len(seats) + 1>>]
  /\ UNCHANGED <<policy, cursor, at, moves, touched>>

\* and its first chair is the person's, if the host has not yet given it to
\* another; the person is told so in either case.
SitAtNew ==
  /\ search.step = "sit"
  /\ LET t == search.looks[1]
         s == FirstSeat(search.shape)
     IN  IF seats[t][s] = Nobody
         THEN Sit(t, s, search.who) /\ UNCHANGED touched
         ELSE touched' = touched \cup {search.who} /\ UNCHANGED seats
  /\ Placed
  /\ UNCHANGED <<policy, cursor, moves>>

Arriving == \E p \in Person : Arrive(p) \/ ArriveWaiting(p)

-----------------------------------------------------------------------------
(* Seating those who wait, as they and the policy were when it began. *)

Waiting == {p \in Person : at[p] = "waiting"}

SeatStudents ==
  /\ SeatingFree /\ Waiting # {}
  /\ search' = [step |-> "next", shape |-> BulkShape, queue |-> Waiting]
  /\ UNCHANGED <<seats, policy, cursor, at, moves, touched>>

NextStudent ==
  /\ search.step = "next"
  /\ \E p \in search.queue : Begin(search.shape, p, search.queue \ {p})
  /\ UNCHANGED at

\* Slip: the person stays in the lobby.
UnlistNobody ==
  /\ search.step = "unlist"
  /\ search' = IF search.queue = {} THEN Idle
               ELSE [step |-> "next", shape |-> search.shape, queue |-> search.queue]
  /\ UNCHANGED <<seats, policy, cursor, at, moves, touched>>

\* Who has been seated leaves the lobby, unless gone from it before.
Unlist ==
  /\ search.step = "unlist"
  /\ at' = [at EXCEPT ![search.who] = IF @ = "waiting" THEN "in" ELSE @]
  /\ search' = IF search.queue = {} THEN Idle
               ELSE [step |-> "next", shape |-> search.shape, queue |-> search.queue]
  /\ UNCHANGED <<seats, policy, cursor, moves, touched>>

-----------------------------------------------------------------------------
(* What goes on besides; none of it takes the seating lock. *)

Upset(really) ==
  /\ really => moves < MaxMoves
  /\ moves' = IF really THEN moves + 1 ELSE moves

\* One table more moves the cursor to another place among the tables, and a
\* search under way does not know of it.
AddTable ==
  /\ Len(seats) < HostTables
  /\ OpenTable
  /\ Upset(cursor > 0 \/ search # Idle)
  /\ UNCHANGED <<policy, cursor, at, search, touched>>

SetSeatPolicy(k) ==
  /\ policy' = k
  /\ Upset(k # policy /\ \E p \in Person : at[p] # "away")
  /\ UNCHANGED <<seats, cursor, at, search, touched>>

\* The host seats a person known to the session, displacing who sits there.
HostPlace(p, t, s) ==
  /\ at[p] \in {"waiting", "in"} /\ seats[t][s] # p
  /\ Sit(t, s, p)
  /\ at' = [at EXCEPT ![p] = "in"]
  /\ Upset(TRUE)
  /\ touched' = touched \cup ({p, seats[t][s]} \ {Nobody})
  /\ UNCHANGED <<policy, cursor, search>>

\* A chair is given up: its person leaves, or is removed by the host.
Vacate(t, s) ==
  /\ seats[t][s] # Nobody
  /\ Sit(t, s, Nobody)
  /\ Upset(TRUE)
  /\ touched' = touched \cup {seats[t][s]}
  /\ UNCHANGED <<policy, cursor, at, search>>

\* Who waits goes away.  Those about to be seated are seated all the same.
LeaveLobby(p) ==
  /\ at[p] = "waiting"
  /\ at' = [at EXCEPT ![p] = "left"]
  /\ UNCHANGED <<seats, policy, cursor, search, moves, touched>>

-----------------------------------------------------------------------------
FreeChairs == {x \in Table \X ToSet(search.shape.chairs) : seats[x[1]][x[2]] = Nobody}

\* The chairs free when a search begins are remembered while they stay free.
Remember ==
  spare' = IF search'.step # "look" THEN {}
           ELSE IF search.step # "look" THEN FreeChairs'
           ELSE {x \in spare : seats'[x[1]][x[2]] = Nobody}

Init ==
  /\ seats = <<>>
  /\ policy \in Policies
  /\ cursor = 0
  /\ at = [p \in Person |-> "away"]
  /\ search = Idle
  /\ spare = {}
  /\ moves = 0
  /\ touched = {}

Next ==
  /\ \/ Arriving \/ OpenToWatch \/ Look \/ Overflow \/ SitAtNew
     \/ SeatStudents \/ NextStudent \/ Unlist
     \/ AddTable
     \/ \E k \in Policies : SetSeatPolicy(k)
     \/ \E p \in Person, t \in Table, s \in HostChairs : HostPlace(p, t, s)
     \/ \E t \in Table, s \in Seat : Vacate(t, s)
     \/ \E p \in Person : LeaveLobby(p)
  /\ Remember

Spec == Init /\ [][Next]_placeVars

-----------------------------------------------------------------------------
(* Properties. *)

\* Types, and that one arrival at a time is being placed, never while the
\* waiting are being seated.
TypeOK ==
  /\ \A t \in Table : seats[t] \in [Seat -> Person \cup {Nobody}]
  /\ policy \in Policies
  /\ cursor \in 0 .. Cardinality(Person)
  /\ at \in [Person -> {"away", "arriving", "waiting", "in", "left"}]
  /\ {p \in Person : at[p] = "arriving"}
       \subseteq (IF search.step \in {"look", "sit", "watch"} THEN {search.who} ELSE {})
  /\ spare \subseteq Table \X Seat
  /\ moves \in 0 .. MaxMoves
  /\ touched \subseteq Person

\* A table is opened for a person only when the chairs the policy asks for
\* were all taken: none stayed free from the beginning of the search to its
\* end, whatever was taken and given up behind its back.
NoNeedlessTable == search.step = "look" /\ search.looks = <<>> => spare = {}

TakenAt(t)  == {s \in ToSet(BulkShape.chairs) : seats[t][s] # Nobody}
FullAt(t)   == TakenAt(t) = ToSet(BulkShape.chairs)

\* Going round the tables spreads people evenly, as long as nothing but
\* arrivals and the seating of the waiting moves them: no table is two ahead
\* of another, but for the newest, opened when all others were full.
Evenly ==
  moves = 0 /\ BulkShape.round =>
    \A t, u \in Table :
      Cardinality(TakenAt(u)) > Cardinality(TakenAt(t)) + 1
        => \A v \in Table \ {t} : FullAt(v)

\* Filling by pairs seats partners together: at one table at most does a
\* person sit without a partner.
PartnersTogether ==
  moves = 0 /\ ~BulkShape.round =>
    Cardinality({t \in Table : TakenAt(t) # {} /\ ~FullAt(t)}) <= 1

\* Placement gives everybody it has dealt with a chair, and never two, but
\* for those whom the host has placed or displaced, who have given a chair up,
\* or whose chair at a new table the host gave to another.
SeatedOnce ==
  \A p \in Person \ touched :
    /\ Cardinality(ChairsOf(p)) <= 1
    /\ at[p] = "in" => ChairsOf(p) # {}

=============================================================================
