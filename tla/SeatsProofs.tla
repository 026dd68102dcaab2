---------------------------- MODULE SeatsProofs ----------------------------
(***************************************************************************)
(* What holds of the seats of a session for every set of people,           *)
(* connections, hosts and chairs, and every interleaving of arrivals,      *)
(* disconnections, notices and operations of the hosts.                    *)
(***************************************************************************)
EXTENDS Seats, TLAPS

Occupants == [who : Person \cup {NoPerson}, state : {"absent", "here", "gone"}]

\* A chair is vacant or a person's.
SeatsOK ==
  /\ seats \in [Chairs -> Occupants]
  /\ \A s \in Chairs : seats[s].who = NoPerson <=> seats[s].state = "absent"

\* Connections on their way have a person.
ConnsOK ==
  /\ pc \in [Conn -> Steps]
  /\ whose \in [Conn -> Person \cup {NoPerson}]
  /\ \A c \in Conn : pc[c] # "new" => whose[c] \in Person
  /\ registry \subseteq {c \in Conn : pc[c] # "new"}

\* An operation of a host knows whom and where it is about.
OperationOK(o) ==
  /\ o.step \in Seating => o.todo \subseteq Person
  /\ o.step \in {"place", "sit"} => o.who \in Person /\ o.at \in Chairs
  /\ o.step = "vacate" => o.chairs \subseteq Chairs

HostsOK ==
  /\ host = [h \in Host |-> host[h]]
  /\ \A h \in Host : OperationOK(host[h])

\* The inductive invariant.
SeatInv ==
  /\ SeatsOK /\ ConnsOK /\ HostsOK
  /\ open \subseteq Chairs
  /\ OpenIsEmpty

\* A vacant chair is one without a person.
LEMMA VacantIsNobody ==
  ASSUME SeatsOK, NEW s \in Chairs
  PROVE  seats[s] = Vacant <=> seats[s].who = NoPerson
<1>1. seats[s] \in Occupants
  BY DEF SeatsOK
<1>2. seats[s].who = NoPerson <=> seats[s].state = "absent"
  BY DEF SeatsOK
<1> QED BY <1>1, <1>2 DEF Occupants, Vacant

\* A host's step changes its own operation only.
LEMMA HostGoesOn ==
  ASSUME HostsOK, NEW h \in Host, NEW step, NEW next, HostGoes(h, step, next)
  PROVE  /\ host[h].step = step /\ host'[h] = next
         /\ \A g \in Host \ {h} : host'[g] = host[g]
         /\ host' = [g \in Host |-> host'[g]]
         /\ UNCHANGED <<held, pc, whose, mine>>
BY DEF HostGoes, HostsOK

\* The chair that is filled first is free.
LEMMA FirstFreeIsFree ==
  ASSUME Free # {}
  PROVE  FirstFree \in Free
<1> DEFINE P(i) == FillOrder[i] \in Free /\ \A j \in 1 .. i - 1 : FillOrder[j] \notin Free
<1>1. Free \subseteq {South, West, North, East}
  <2>1. \A s \in Seat : s \in {South, West, North, East}
    BY DEF Seat, South, West, North, East
  <2> QED BY <2>1, SeatsAssumption DEF Free
<1>2. \E i \in 1 .. 4 : P(i)
  <2>1. CASE South \in Free
    BY <2>1 DEF FillOrder
  <2>2. CASE South \notin Free /\ West \in Free
    <3>1. P(2)
      BY <2>2 DEF FillOrder
    <3> QED BY <3>1
  <2>3. CASE South \notin Free /\ West \notin Free /\ North \in Free
    <3>1. P(3)
      BY <2>3 DEF FillOrder
    <3> QED BY <3>1
  <2>4. CASE South \notin Free /\ West \notin Free /\ North \notin Free /\ East \in Free
    <3>1. P(4)
      BY <2>4 DEF FillOrder
    <3> QED BY <3>1
  <2> QED BY <1>1, <2>1, <2>2, <2>3, <2>4
<1>3. P(CHOOSE i \in 1 .. 4 : P(i))
  BY <1>2
<1> QED BY <1>3 DEF FirstFree

-----------------------------------------------------------------------------
(* What a step does to the chairs.  Each of the following is the effect of  *)
(* several steps.                                                           *)

Still == UNCHANGED <<seats, open>>

SitDown == \E s \in Free, p \in Person : Put(s, Occupant(p))

ComeBack ==
  \E s \in Chairs, p \in Person :
    /\ Taken(s) /\ (seats[s].who = p \/ s \in Dropped)
    /\ seats' = [seats EXCEPT ![s] = Occupant(p)]
    /\ UNCHANGED open

GoAway ==
  \E p \in Person :
    /\ seats' = [s \in Chairs |-> IF s \in SeatsOf(p)
                                  THEN [seats[s] EXCEPT !.state = "gone"] ELSE seats[s]]
    /\ UNCHANGED open

ClearAway == Vacate(Dropped) /\ UNCHANGED open

GetUp ==
  \E c \in Conn :
    /\ pc[c] = "up" /\ pc'[c] = "closing"
    /\ Vacate(mine[c]) /\ UNCHANGED open

Holding == UNCHANGED seats /\ \E s \in Free : open' = open \ {s}

HostEmpties ==
  \E s \in Chairs, leaveOpen \in BOOLEAN :
    /\ Vacate({s})
    /\ open' = IF leaveOpen THEN open \cup {s} ELSE open \ {s}

HostRemoves ==
  \E S \in SUBSET Chairs :
    /\ Vacate(S) /\ open' = open \ S

HostMoves ==
  \E s, t \in Chairs :
    /\ s # t /\ Taken(s)
    /\ seats' = [seats EXCEPT ![s] = seats[t], ![t] = seats[s]]
    /\ open' = IF Taken(t) THEN open \ {s, t} ELSE open \ {t}

HostSeats == \E s \in Chairs, p \in Person : Put(s, Occupant(p))

HostDoes ==
  /\ \E h \in Host : host[h].step \in Removing /\ host'[h] # host[h]
  /\ HostEmpties \/ HostRemoves \/ HostMoves \/ HostSeats

Effect == \/ Still \/ SitDown \/ ComeBack \/ GoAway \/ ClearAway \/ GetUp
          \/ Holding \/ HostDoes

\* The effect of each step of a placement.
LEMMA PlaceEffect ==
  ASSUME SeatInv, NEW c \in Conn, Place(c)
  PROVE  Effect
<1> USE DEF SeatInv, Effect
<1>p. whose[c] \in Person
  BY DEF Place, Resume, TakeSouth, Rebind, Redeem, Return, Reclaim, Wish, AutoSeat, Wait, Step, ConnsOK
<1>1. CASE Resume(c)
  BY <1>1 DEF Resume, ClearAway
<1>2. CASE TakeSouth(c)
  BY <1>p, <1>2 DEF TakeSouth, SitDown, Still
<1>3. CASE Rebind(c)
  <2>1. CASE SeatsOf(whose[c]) = {}
    BY <1>3, <2>1 DEF Rebind, Still
  <2>2. CASE SeatsOf(whose[c]) # {}
    <3>1. PICK s \in SeatsOf(whose[c]) :
            seats' = [seats EXCEPT ![s].state = "here"] /\ UNCHANGED open
      BY <1>3, <2>2 DEF Rebind
    <3>2. s \in Chairs /\ seats[s].who = whose[c] /\ seats[s] \in Occupants
      BY DEF SeatsOf, SeatsOK
    <3>3. [seats[s] EXCEPT !.state = "here"] = Occupant(whose[c])
      BY <3>2 DEF Occupants, Occupant
    <3>4. seats' = [seats EXCEPT ![s] = Occupant(whose[c])]
      BY <3>1, <3>3
    <3>5. Taken(s)
      BY <1>p, <3>2, VacantIsNobody, SeatsAssumption DEF Taken
    <3> QED BY <1>p, <3>1, <3>2, <3>4, <3>5 DEF ComeBack
  <2> QED BY <2>1, <2>2
<1>4. CASE Redeem(c)
  BY <1>p, <1>4 DEF Redeem, SitDown, Still, tableVars
<1>5. CASE Return(c)
  BY <1>5 DEF Return, Still, tableVars
<1>6. CASE Reclaim(c)
  <2>1. Still \/ \E s \in Dropped : /\ seats' = [seats EXCEPT ![s] = Occupant(whose[c])]
                                   /\ UNCHANGED open
    BY <1>6 DEF Reclaim, Still
  <2>2. \A s \in Dropped : s \in Chairs /\ Taken(s)
    BY DEF Dropped, Taken, Vacant
  <2> QED BY <1>p, <2>1, <2>2 DEF ComeBack
<1>7. CASE Wish(c)
  BY <1>p, <1>7 DEF Wish, SitDown
<1>8. CASE AutoSeat(c)
  BY <1>p, <1>8, FirstFreeIsFree DEF AutoSeat, SitDown, Still
<1>9. CASE Wait(c)
  BY <1>9 DEF Wait, Still, tableVars
<1> QED BY <1>1, <1>2, <1>3, <1>4, <1>5, <1>6, <1>7, <1>8, <1>9 DEF Place

\* The effect of each step of a connection after its placement.
LEMMA ConnectedEffect ==
  ASSUME SeatInv, NEW c \in Conn, Connected(c)
  PROVE  Effect
<1> USE DEF Effect
<1>1. CASE \/ Register(c) \/ Subscribe(c) \/ Abandon(c) \/ Recheck(c) \/ Unlobby(c)
           \/ Drop(c) \/ Close(c) \/ Forget(c)
  BY <1>1 DEF Register, Subscribe, Abandon, Recheck, Unlobby, Drop, Close, Forget, tableVars, Still
<1>2. CASE Leave(c)
  <2>1. pc'[c] = "closing"
    BY <1>2 DEF Leave, Off, Go, SeatInv, ConnsOK
  <2> QED BY <1>2, <2>1 DEF Leave, GetUp
<1>3. CASE MarkGone(c)
  <2>1. whose[c] \in Person
    BY <1>3 DEF MarkGone, SeatInv, ConnsOK
  <2> QED BY <1>3, <2>1 DEF MarkGone, GoAway
<1> QED BY <1>1, <1>2, <1>3 DEF Connected

\* The effect of each step of a host.
LEMMA HostEffect ==
  ASSUME SeatInv, NEW h \in Host, HostStep(h)
  PROVE  Effect
<1> USE DEF SeatInv, Effect
<1>h. ASSUME NEW step \in Removing, NEW next, HostGoes(h, step, next), next.step # step,
             HostEmpties \/ HostRemoves \/ HostMoves \/ HostSeats
      PROVE  HostDoes
  <2>1. host[h].step = step /\ host'[h] = next
    BY <1>h, HostGoesOn
  <2> QED BY <1>h, <2>1 DEF HostDoes
<1>b. /\ \A o : BenchOf(o).step \in {"bench", "announce"}
      /\ Announce.step = "announce"
      /\ Removing = {"idle", "sit", "vacate"}
  BY DEF BenchOf, Announce, Removing
<1>o. OperationOK(host[h])
  BY DEF HostsOK
<1>1. CASE \/ \E c \in Conn, s \in Chairs : HostPlace(h, c, s)
           \/ \E c \in Conn : Kick(h, c)
           \/ SeatStudents(h) \/ Bench(h) \/ Park(h) \/ PlaceUnlobby(h) \/ KickForget(h)
           \/ UnlistStudent(h) \/ HostAnnounce(h)
  BY <1>1 DEF HostPlace, Kick, SeatStudents, Bench, Park, PlaceUnlobby, KickForget,
              UnlistStudent, HostAnnounce, Still
<1>2. ASSUME NEW s \in Chairs, NEW b \in BOOLEAN, HostVacate(h, s, b) PROVE Effect
  <2>1. HostEmpties /\ HostGoes(h, "idle", BenchOf(seats[s]))
    BY <1>2 DEF HostVacate, HostEmpties
  <2>2. BenchOf(seats[s]).step # "idle"
    BY <1>b
  <2> QED BY <2>1, <2>2, <1>b, <1>h
<1>3. ASSUME NEW s \in Chairs, NEW t \in Chairs, HostMove(h, s, t) PROVE Effect
  <2>1. HostMoves /\ HostGoes(h, "idle", Announce)
    BY <1>3 DEF HostMove, HostMoves
  <2> QED BY <2>1, <1>b, <1>h
<1>4. CASE PlaceSit(h)
  <2>1. HostGoes(h, "sit", BenchOf(seats[host[h].at]))
    BY <1>4 DEF PlaceSit
  <2>2. host[h].step = "sit"
    BY <2>1 DEF HostGoes
  <2>3. HostSeats
    BY <1>4, <2>2, <1>o DEF PlaceSit, HostSeats, OperationOK
  <2>4. BenchOf(seats[host[h].at]).step # "sit"
    BY <1>b
  <2> QED BY <2>1, <2>3, <2>4, <1>b, <1>h
<1>5. CASE KickVacate(h)
  <2>1. HostGoes(h, "vacate", [step |-> "forget", who |-> host[h].who])
    BY <1>5 DEF KickVacate
  <2>2. host[h].step = "vacate"
    BY <2>1 DEF HostGoes
  <2>3. HostRemoves
    BY <1>5, <2>2, <1>o DEF KickVacate, HostRemoves, OperationOK
  <2> QED BY <2>1, <2>3, <1>b, <1>h
<1>6. CASE SeatStudent(h)
  BY <1>6, <1>o, FirstFreeIsFree DEF SeatStudent, SitDown, Still, OperationOK, Seating
<1> QED BY <1>1, <1>2, <1>3, <1>4, <1>5, <1>6 DEF HostStep

\* So every step has one of the effects.
LEMMA StepEffect ==
  ASSUME SeatInv, [Next]_seatVars
  PROVE  Effect
<1>1. ASSUME NEW c \in Conn, NEW p \in Person, Arrive(c, p) PROVE Effect
  BY <1>1 DEF Arrive, tableVars, Effect, Still
<1>2. ASSUME NEW s \in Reservable, NEW p \in Invited, Reserve(s, p) PROVE Effect
  BY <1>2 DEF Reserve, Effect, Holding
<1>3. ASSUME NEW s \in Chairs, Release(s) PROVE Effect
  BY <1>3 DEF Release, Effect, Still
<1>4. CASE UNCHANGED seatVars
  BY <1>4 DEF seatVars, tableVars, Effect, Still
<1> QED BY <1>1, <1>2, <1>3, <1>4, PlaceEffect, ConnectedEffect, HostEffect DEF Next

-----------------------------------------------------------------------------
(* The invariant is inductive. *)

\* Whatever the effect, a chair stays vacant or a person's, and an open chair
\* stays vacant.
LEMMA ChairsKept ==
  ASSUME SeatInv, Effect
  PROVE  SeatsOK' /\ (open \subseteq Chairs)' /\ OpenIsEmpty'
<1> USE DEF SeatInv
<1>v. Vacant \in Occupants /\ Vacant.who = NoPerson /\ Vacant.state = "absent"
  BY DEF Vacant, Occupants
<1>o. \A p \in Person : /\ Occupant(p) \in Occupants
                        /\ Occupant(p).who # NoPerson /\ Occupant(p).state # "absent"
  BY SeatsAssumption DEF Occupant, Occupants
<1>t. \A s \in Chairs : Taken(s) <=> seats[s].who # NoPerson
  BY VacantIsNobody DEF Taken
<1>n. ASSUME SeatsOK' PROVE \A s \in Chairs : Taken(s)' <=> seats'[s].who # NoPerson
  <2>1. ASSUME NEW s \in Chairs PROVE Taken(s)' <=> seats'[s].who # NoPerson
    <3>1. seats'[s] \in Occupants /\ (seats'[s].who = NoPerson <=> seats'[s].state = "absent")
      BY <1>n DEF SeatsOK
    <3> QED BY <3>1 DEF Occupants, Vacant, Taken
  <2> QED BY <2>1
<1>p. ASSUME NEW s \in Chairs, NEW p \in Person, Put(s, Occupant(p))
      PROVE  SeatsOK' /\ (open \subseteq Chairs)' /\ OpenIsEmpty'
  <2>1. SeatsOK'
    BY <1>p, <1>o DEF Put, SeatsOK
  <2> QED BY <2>1, <1>p, <1>n, <1>t DEF Put, OpenIsEmpty, SeatsOK
<1>e. ASSUME NEW S, Vacate(S), open' \subseteq open \cup S, open' \subseteq Chairs
      PROVE  SeatsOK' /\ (open \subseteq Chairs)' /\ OpenIsEmpty'
  <2>1. SeatsOK'
    BY <1>e, <1>v DEF Vacate, SeatsOK
  <2> QED BY <2>1, <1>e, <1>v, <1>n, <1>t DEF Vacate, OpenIsEmpty, SeatsOK
<1>1. CASE Still
  BY <1>1 DEF Still, SeatsOK, OpenIsEmpty, Taken
<1>2. CASE SitDown
  BY <1>2, <1>p DEF SitDown, Free
<1>3. CASE ComeBack
  <2>1. PICK s \in Chairs, p \in Person :
          Taken(s) /\ seats' = [seats EXCEPT ![s] = Occupant(p)] /\ UNCHANGED open
    BY <1>3 DEF ComeBack
  <2>2. SeatsOK'
    BY <2>1, <1>o DEF SeatsOK
  <2> QED BY <2>1, <2>2, <1>n, <1>t DEF OpenIsEmpty, SeatsOK
<1>4. CASE GoAway
  <2>1. PICK p \in Person :
          /\ seats' = [s \in Chairs |-> IF s \in SeatsOf(p)
                                        THEN [seats[s] EXCEPT !.state = "gone"] ELSE seats[s]]
          /\ UNCHANGED open
    BY <1>4 DEF GoAway
  <2>2. ASSUME NEW s \in Chairs
        PROVE  /\ seats'[s] \in Occupants /\ seats'[s].who = seats[s].who
               /\ seats'[s].who = NoPerson <=> seats'[s].state = "absent"
    BY <2>1, SeatsAssumption DEF SeatsOf, SeatsOK, Occupants
  <2>3. SeatsOK'
    BY <2>1, <2>2 DEF SeatsOK
  <2> QED BY <2>1, <2>2, <2>3, <1>n, <1>t DEF OpenIsEmpty
<1>5. CASE ClearAway
  BY <1>5, <1>e DEF ClearAway
<1>6. CASE GetUp
  BY <1>6, <1>e DEF GetUp
<1>7. CASE Holding
  BY <1>7 DEF Holding, SeatsOK, OpenIsEmpty, Taken
<1>8. CASE HostDoes
  <2>1. CASE HostEmpties
    BY <2>1, <1>e DEF HostEmpties
  <2>2. CASE HostRemoves
    BY <2>2, <1>e DEF HostRemoves
  <2>3. CASE HostMoves
    <3>1. PICK s \in Chairs, t \in Chairs :
            /\ s # t /\ Taken(s)
            /\ seats' = [seats EXCEPT ![s] = seats[t], ![t] = seats[s]]
            /\ open' = IF Taken(t) THEN open \ {s, t} ELSE open \ {t}
      BY <2>3 DEF HostMoves
    <3>2. SeatsOK'
      BY <3>1 DEF SeatsOK
    <3>3. \A r \in Chairs \ {s, t} : seats'[r] = seats[r]
      BY <3>1 DEF SeatsOK
    <3>4. open' \subseteq open \ {s, t}
      BY <3>1 DEF OpenIsEmpty
    <3> QED BY <3>2, <3>3, <3>4, <1>n, <1>t DEF OpenIsEmpty
  <2>4. CASE HostSeats
    BY <2>4, <1>p DEF HostSeats
  <2> QED BY <1>8, <2>1, <2>2, <2>3, <2>4 DEF HostDoes
<1> QED BY <1>1, <1>2, <1>3, <1>4, <1>5, <1>6, <1>7, <1>8 DEF Effect

\* Where a connection goes next, unless it arrives, it has its person.
LEMMA ConnsKept ==
  ASSUME SeatInv, [Next]_seatVars
  PROVE  ConnsOK'
<1> USE DEF SeatInv, ConnsOK
<1>g. ASSUME NEW c \in Conn, NEW to \in Steps \ {"new"}, pc[c] # "new", Go(c, to),
             registry' \subseteq registry \cup {c}
      PROVE  ConnsOK'
  BY <1>g DEF Go
<1>u. ASSUME UNCHANGED <<pc, whose>>, registry' \subseteq registry
      PROVE  ConnsOK'
  BY <1>u
<1>1. ASSUME NEW c \in Conn, NEW p \in Person, Arrive(c, p) PROVE ConnsOK'
  <2>1. (IF Adhoc /\ p = Owner THEN "resume" ELSE "rebind") \in Steps \ {"new"}
    BY DEF Steps, Placing
  <2> QED BY <1>1, <2>1 DEF Arrive
<1>2. ASSUME NEW c \in Conn, Place(c) PROVE ConnsOK'
  <2>1. pc[c] # "new" /\ UNCHANGED registry
    BY <1>2 DEF Place, Resume, TakeSouth, Rebind, Redeem, Return, Reclaim, Wish, AutoSeat, Wait, Step
  <2>2. \E to \in {"south", "rebind", "redeem", "return", "reclaim", "fill", "placed", "done"} : Go(c, to)
    BY <1>2 DEF Place, Resume, TakeSouth, Rebind, Redeem, Return, Reclaim, Wish, AutoSeat, Wait, Placed
  <2> QED BY <2>1, <2>2, <1>g DEF Steps, Placing
<1>3. ASSUME NEW c \in Conn, Connected(c) PROVE ConnsOK'
  <2> USE DEF Connected, Register, Subscribe, Abandon, Recheck, Unlobby, Leave, Drop, Close, MarkGone, Forget
  <2>1. pc[c] # "new"
    BY <1>3
  <2>2. registry' \subseteq registry \cup {c}
    BY <1>3
  <2>3. \E to \in {"joining", "up", "done", "rebound", "closing", "marking", "forgetting"} : Go(c, to)
    BY <1>3 DEF Off
  <2> QED BY <2>1, <2>2, <2>3, <1>g DEF Steps
<1>4. ASSUME NEW h \in Host, HostStep(h) PROVE ConnsOK'
  <2>1. UNCHANGED <<pc, whose>>
    BY <1>4 DEF HostStep, HostVacate, HostMove, HostPlace, Kick, SeatStudents, Bench, Park,
                PlaceUnlobby, PlaceSit, KickVacate, KickForget, SeatStudent, UnlistStudent,
                HostAnnounce, HostGoes
  <2>2. registry' \subseteq registry
    BY <1>4 DEF HostStep, HostVacate, HostMove, HostPlace, Kick, SeatStudents, Bench, Park,
                PlaceUnlobby, PlaceSit, KickVacate, KickForget, SeatStudent, UnlistStudent,
                HostAnnounce
  <2> QED BY <2>1, <2>2, <1>u
<1>5. ASSUME NEW s \in Chairs, (\E p \in Invited : Reserve(s, p)) \/ Release(s) PROVE ConnsOK'
  BY <1>5, <1>u DEF Reserve, Release, connVars
<1>6. CASE UNCHANGED seatVars
  BY <1>6, <1>u DEF seatVars, connVars
<1> QED BY <1>1, <1>2, <1>3, <1>4, <1>5, <1>6, SeatsAssumption DEF Next

\* The operations of the hosts stay about people and chairs.
LEMMA HostsKept ==
  ASSUME SeatInv, [Next]_seatVars
  PROVE  HostsOK'
<1> USE DEF SeatInv
<1>u. ASSUME UNCHANGED host PROVE HostsOK'
  BY <1>u DEF HostsOK, OperationOK
<1>g. ASSUME NEW h \in Host, NEW step, NEW next, HostGoes(h, step, next), OperationOK(next)
      PROVE  HostsOK'
  <2>1. /\ host'[h] = next /\ \A g \in Host \ {h} : host'[g] = host[g]
        /\ host' = [g \in Host |-> host'[g]]
    BY <1>g, HostGoesOn
  <2>2. \A g \in Host : OperationOK(host'[g])
    BY <1>g, <2>1 DEF HostsOK
  <2> QED BY <2>1, <2>2 DEF HostsOK, OperationOK
<1>1. ASSUME NEW c \in Conn, NEW p \in Person, Arrive(c, p) PROVE HostsOK'
  BY <1>1, <1>u DEF Arrive
<1>2. ASSUME NEW c \in Conn, Place(c) PROVE HostsOK'
  BY <1>2, <1>u DEF Place, Resume, TakeSouth, Rebind, Redeem, Return, Reclaim, Wish, AutoSeat,
                    Wait, Step
<1>3. ASSUME NEW c \in Conn, Connected(c) PROVE HostsOK'
  BY <1>3, <1>u DEF Connected, Register, Subscribe, Abandon, Recheck, Unlobby, Leave, Drop,
                    Close, MarkGone, Forget
<1>4. ASSUME NEW h \in Host, HostStep(h) PROVE HostsOK'
  <2> USE DEF OperationOK, Seating
  <2>b. /\ \A o : OperationOK(BenchOf(o)) /\ OperationOK(Announce) /\ OperationOK(Idle)
    BY DEF BenchOf, Announce, Idle
  <2>o. OperationOK(host[h])
    BY DEF HostsOK
  <2>s. \A step, next : HostGoes(h, step, next) => host[h].step = step
    BY DEF HostGoes
  <2>1. ASSUME NEW s \in Chairs, NEW b \in BOOLEAN, HostVacate(h, s, b) PROVE HostsOK'
    BY <2>1, <2>b, <1>g DEF HostVacate
  <2>2. ASSUME NEW s \in Chairs, NEW t \in Chairs, HostMove(h, s, t) PROVE HostsOK'
    BY <2>2, <2>b, <1>g DEF HostMove
  <2>3. ASSUME NEW c \in Conn, NEW s \in Chairs, HostPlace(h, c, s) PROVE HostsOK'
    <3>1. OperationOK([step |-> "place", who |-> whose[c], at |-> s])
      BY <2>3 DEF HostPlace, ConnsOK
    <3> QED BY <2>3, <3>1, <1>g DEF HostPlace
  <2>4. ASSUME NEW c \in Conn, Kick(h, c) PROVE HostsOK'
    <3>1. OperationOK([step |-> "vacate", who |-> whose[c], chairs |-> SeatsOf(whose[c])])
      BY DEF SeatsOf
    <3> QED BY <2>4, <3>1, <1>g DEF Kick
  <2>5. CASE SeatStudents(h)
    <3>1. OperationOK([step |-> "students", todo |-> Waiting])
      BY DEF Waiting
    <3> QED BY <2>5, <3>1, <1>g DEF SeatStudents
  <2>6. CASE Bench(h)
    <3>1. OperationOK(IF SeatsOf(host[h].who) = {} THEN [step |-> "park", who |-> host[h].who]
                      ELSE Announce)
      BY <2>b
    <3> QED BY <2>6, <3>1, <1>g DEF Bench
  <2>7. CASE Park(h) \/ PlaceSit(h) \/ KickForget(h) \/ HostAnnounce(h)
    BY <2>7, <2>b, <1>g DEF Park, PlaceSit, KickForget, HostAnnounce
  <2>8. CASE KickVacate(h)
    <3>1. OperationOK([step |-> "forget", who |-> host[h].who])
      OBVIOUS
    <3> QED BY <2>8, <3>1, <1>g DEF KickVacate
  <2>9. CASE PlaceUnlobby(h)
    <3>1. HostGoes(h, "place", [host[h] EXCEPT !.step = "sit"])
      BY <2>9 DEF PlaceUnlobby
    <3>2. host[h].who \in Person /\ host[h].at \in Chairs
      BY <3>1, <2>s, <2>o
    <3>3. OperationOK([host[h] EXCEPT !.step = "sit"])
      BY <3>2
    <3> QED BY <3>1, <3>3, <1>g
  <2>10. ASSUME NEW p \in host[h].todo, host[h].step = "students",
                HostGoes(h, "students", [step |-> "unlist", who |-> p, todo |-> host[h].todo \ {p}])
         PROVE  HostsOK'
    <3>1. OperationOK([step |-> "unlist", who |-> p, todo |-> host[h].todo \ {p}])
      BY <2>o, <2>10
    <3> QED BY <2>10, <3>1, <1>g
  <2>11. CASE UnlistStudent(h)
    <3> DEFINE next == IF host[h].todo = {} THEN Announce ELSE [step |-> "students", todo |-> host[h].todo]
    <3>1. HostGoes(h, "unlist", next)
      BY <2>11 DEF UnlistStudent
    <3>2. host[h].todo \subseteq Person
      BY <3>1, <2>s, <2>o
    <3>3. OperationOK(next)
      BY <3>2, <2>b
    <3> QED BY <3>1, <3>3, <1>g
  <2> QED BY <1>4, <2>1, <2>2, <2>3, <2>4, <2>5, <2>6, <2>7, <2>8, <2>9, <2>10, <2>11
          DEF HostStep, SeatStudent
<1>5. ASSUME NEW s \in Chairs, (\E p \in Invited : Reserve(s, p)) \/ Release(s) PROVE HostsOK'
  BY <1>5, <1>u DEF Reserve, Release
<1>6. CASE UNCHANGED seatVars
  BY <1>6, <1>u DEF seatVars
<1> QED BY <1>1, <1>2, <1>3, <1>4, <1>5, <1>6, SeatsAssumption DEF Next

\* The invariant holds in every reachable state.
THEOREM SeatInvHolds == Spec => []SeatInv
<1>1. Init => SeatInv
  <2> SUFFICES ASSUME Init PROVE SeatInv
    OBVIOUS
  <2>1. SeatsOK
    BY DEF Init, SeatsOK, Occupants, Vacant
  <2>2. ConnsOK
    BY DEF Init, ConnsOK, Steps
  <2>3. HostsOK
    BY DEF Init, HostsOK, OperationOK, Idle, Away, Seating
  <2> QED BY <2>1, <2>2, <2>3 DEF Init, SeatInv, OpenIsEmpty
<1>2. SeatInv /\ [Next]_seatVars => SeatInv'
  BY StepEffect, ChairsKept, ConnsKept, HostsKept DEF SeatInv
<1> QED BY <1>1, <1>2, PTL DEF Spec

\* No occupied chair stays marked open, whoever sits down, moves or is placed.
THEOREM OpenIsAlwaysEmpty == Spec => []OpenIsEmpty
<1>1. SeatInv => OpenIsEmpty
  BY DEF SeatInv
<1> QED BY <1>1, SeatInvHolds, PTL

-----------------------------------------------------------------------------
(* Who may take a connected person out of a chair. *)

\* Only hosts and those who leave on purpose take an occupant who is
\* connected out of a chair, whatever arrives or goes meanwhile.
THEOREM ChairsAreAlwaysSafe == Spec => ChairsAreSafe
<1> DEFINE Safe == \A s \in Chairs : seats[s].state = "here" /\ seats'[s].who # seats[s].who =>
                     \/ \E h \in Host : host[h].step \in Removing /\ host'[h] # host[h]
                     \/ \E c \in Conn : pc[c] = "up" /\ s \in mine[c] /\ pc'[c] = "closing"
<1>1. ASSUME SeatInv, Effect PROVE Safe
  <2> SUFFICES ASSUME NEW s \in Chairs, seats[s].state = "here", seats'[s].who # seats[s].who
               PROVE  \/ \E h \in Host : host[h].step \in Removing /\ host'[h] # host[h]
                      \/ \E c \in Conn : pc[c] = "up" /\ s \in mine[c] /\ pc'[c] = "closing"
    OBVIOUS
  <2>o. seats \in [Chairs -> Occupants]
    BY <1>1 DEF SeatInv, SeatsOK
  <2>1. CASE SitDown
    BY <2>1, <2>o DEF SitDown, Put, Free, Taken, Vacant
  <2>2. CASE ComeBack
    BY <2>2, <2>o DEF ComeBack, Dropped, Occupant
  <2>3. CASE GoAway
    BY <2>3, <2>o DEF GoAway, SeatsOf, Occupants
  <2>4. CASE ClearAway
    BY <2>4 DEF ClearAway, Vacate, Dropped
  <2>5. CASE GetUp
    BY <2>5 DEF GetUp, Vacate
  <2>6. CASE Still \/ Holding
    BY <2>6 DEF Still, Holding
  <2>7. CASE HostDoes
    BY <2>7 DEF HostDoes
  <2> QED BY <1>1, <2>1, <2>2, <2>3, <2>4, <2>5, <2>6, <2>7 DEF Effect
<1>2. SeatInv /\ [Next]_seatVars => [Safe]_seatVars
  BY <1>1, StepEffect
<1> QED BY <1>2, SeatInvHolds, PTL DEF Spec, ChairsAreSafe

-----------------------------------------------------------------------------
(* The seats of the room. *)

\* In the room a chair that is taken looks occupied,
LEMMA TakenInRoom ==
  ASSUME SeatInv, NEW s \in Chairs, Taken(s)
  PROVE  RoomSeats[s] \in {"here", "gone"}
<1>1. s \in Seat
  BY SeatsAssumption
<1>2. seats[s].state \in {"here", "gone"}
  BY VacantIsNobody DEF SeatInv, Taken, SeatsOK, Occupants
<1> QED BY <1>1, <1>2 DEF RoomSeats

\* and one that is not belongs to a bot or is open.
LEMMA FreeInRoom ==
  ASSUME NEW s \in Chairs, ~Taken(s)
  PROVE  RoomSeats[s] = IF s \in open THEN "open" ELSE "bot"
BY SeatsAssumption DEF RoomSeats

\* A change of chairs that is one of the room's, seat by seat.
LEMMA SetSeatsIs ==
  ASSUME NEW S, NEW state,
         \A s \in Seat : RoomSeats'[s] = IF s \in S THEN state ELSE RoomSeats[s]
  PROVE  UNCHANGED RoomSeats \/ R!SetSeats(S, state)
<1>1. RoomSeats' = [s \in Seat |-> IF s \in S THEN state ELSE RoomSeats[s]]
  <2>1. RoomSeats' = [s \in Seat |-> RoomSeats'[s]]
    BY DEF RoomSeats
  <2> QED BY <2>1
<1> QED BY <1>1 DEF R!SetSeats, R!Seat, Seat

\* Every effect is a seat step of the room, or none.
LEMMA EffectIsSeatStep ==
  ASSUME SeatInv, SeatInv', Effect
  PROVE  UNCHANGED RoomSeats \/ R!SeatStep
<1>d. DOMAIN RoomSeats = Seat
  BY DEF RoomSeats
<1>t. \A r \in Chairs : Taken(r) => RoomSeats[r] \in R!Occupied
  BY TakenInRoom DEF R!Occupied
<1> USE DEF SeatInv, R!SeatStep
<1> DEFINE Becomes(S, state) ==
      \A r \in Seat : RoomSeats'[r] = IF r \in S THEN state ELSE RoomSeats[r]
<1>c. \A s \in Chairs : s \in Seat
  BY SeatsAssumption
<1>s. ASSUME NEW S \in SUBSET Chairs, NEW state, Becomes(S, state)
      PROVE  UNCHANGED RoomSeats \/ R!SetSeats(S, state)
  BY <1>s, SetSeatsIs
<1>o. ASSUME NEW s \in Chairs, NEW p \in Person,
             seats' = [seats EXCEPT ![s] = Occupant(p)], open' \subseteq open, open \ {s} \subseteq open'
      PROVE  UNCHANGED RoomSeats \/ R!SeatStep
  <2>1. Becomes({s}, "here")
    BY <1>o, <1>c DEF RoomSeats, SeatsOK, Occupant, Taken, Vacant
  <2> QED BY <2>1, <1>s DEF R!Occupy
<1>v. ASSUME NEW S, Vacate(S), UNCHANGED open
      PROVE  UNCHANGED RoomSeats \/ R!SeatStep
  <2> DEFINE T == {s \in S \cap Chairs : Taken(s)}
  <2>1. Becomes(T, "bot")
    BY <1>v, <1>c DEF RoomSeats, Vacate, Taken, Vacant, OpenIsEmpty
  <2>2. \A s \in T : RoomSeats[s] \in R!Occupied
    BY <1>t
  <2>3. T \in SUBSET Chairs
    OBVIOUS
  <2> QED BY <2>1, <2>2, <2>3, <1>s DEF R!Leave
<1>1. CASE Still
  BY <1>1 DEF Still, RoomSeats, Taken
<1>2. CASE SitDown
  BY <1>2, <1>o DEF SitDown, Put, Free
<1>3. CASE ComeBack
  BY <1>3, <1>o DEF ComeBack
<1>4. CASE GoAway
  <2>1. PICK p \in Person :
          /\ seats' = [s \in Chairs |-> IF s \in SeatsOf(p)
                                        THEN [seats[s] EXCEPT !.state = "gone"] ELSE seats[s]]
          /\ UNCHANGED open
    BY <1>4 DEF GoAway
  <2>2. \A s \in SeatsOf(p) : s \in Chairs /\ Taken(s)
    BY VacantIsNobody, SeatsAssumption DEF SeatsOf, Taken
  <2>3. \A s \in SeatsOf(p) : seats'[s].state = "gone"
    BY <2>1, <2>2 DEF SeatsOK, Occupants
  <2>4. \A s \in Chairs : s \notin SeatsOf(p) => seats'[s] = seats[s]
    BY <2>1
  <2>5. Becomes(SeatsOf(p), "gone")
    BY <2>1, <2>2, <2>3, <2>4 DEF RoomSeats, Taken, Vacant
  <2>6. \A s \in SeatsOf(p) : RoomSeats[s] \in R!Occupied
    BY <2>2, <1>t
  <2>7. SeatsOf(p) \in SUBSET Chairs
    BY <2>2
  <2> QED BY <2>5, <2>6, <2>7, <1>s DEF R!Disconnect
<1>5. CASE ClearAway
  BY <1>5, <1>v DEF ClearAway
<1>6. CASE GetUp
  BY <1>6, <1>v DEF GetUp
<1>7. CASE Holding
  <2>1. PICK s \in Free : UNCHANGED seats /\ open' = open \ {s}
    BY <1>7 DEF Holding
  <2>2. s \in Chairs /\ ~Taken(s)
    BY DEF Free
  <2>3. Becomes({s}, "bot")
    BY <2>1, <2>2 DEF RoomSeats, Taken
  <2>4. CASE s \in open
    BY <2>2, <2>3, <2>4, <1>s, FreeInRoom DEF R!Reserve
  <2>5. CASE s \notin open
    BY <2>1, <2>5 DEF RoomSeats, Taken
  <2> QED BY <2>4, <2>5
<1>8. CASE HostDoes
  <2>1. CASE HostEmpties
    <3>1. PICK s \in Chairs, b \in BOOLEAN :
            Vacate({s}) /\ open' = IF b THEN open \cup {s} ELSE open \ {s}
      BY <2>1 DEF HostEmpties
    <3> DEFINE a == IF b THEN "open" ELSE "bot"
    <3>2. Becomes({s}, a)
      BY <3>1, <1>c DEF RoomSeats, Vacate, Taken, Vacant
    <3>3. a \in R!Absent
      BY DEF R!Absent
    <3> QED BY <3>2, <3>3, <1>s DEF R!HostVacate
  <2>2. CASE HostRemoves
    <3>1. PICK S \in SUBSET Chairs : Vacate(S) /\ open' = open \ S
      BY <2>2 DEF HostRemoves
    <3>2. Becomes(S, "bot")
      BY <3>1, <1>c DEF RoomSeats, Vacate, Taken, Vacant
    <3> QED BY <3>2, <1>s DEF R!Expel
  <2>3. CASE HostMoves
    <3>1. PICK s \in Chairs, t \in Chairs :
            /\ s # t /\ Taken(s)
            /\ seats' = [seats EXCEPT ![s] = seats[t], ![t] = seats[s]]
            /\ open' = IF Taken(t) THEN open \ {s, t} ELSE open \ {t}
      BY <2>3 DEF HostMoves
    <3>2. /\ seats'[s] = seats[t] /\ seats'[t] = seats[s]
          /\ \A r \in Chairs \ {s, t} : seats'[r] = seats[r]
      BY <3>1 DEF SeatsOK
    <3>3. s \notin open /\ s \notin open' /\ t \notin open'
      BY <3>1 DEF OpenIsEmpty
    <3>4. \A r \in Seat \ {s, t} : r \in open' <=> r \in open
      BY <3>1
    <3> DEFINE now == [RoomSeats EXCEPT ![t] = RoomSeats[s],
                           ![s] = IF RoomSeats[t] \in R!Occupied THEN RoomSeats[t] ELSE "bot"]
    <3>5. \A r \in Seat : RoomSeats'[r] = now[r]
      <4>1. RoomSeats'[t] = RoomSeats[s]
        BY <1>c, <3>1, <3>2 DEF RoomSeats, Taken
      <4>2. RoomSeats'[s] = IF Taken(t) THEN RoomSeats[t] ELSE "bot"
        BY <1>c, <3>1, <3>2, <3>3 DEF RoomSeats, Taken
      <4>3. \A r \in Seat \ {s, t} : RoomSeats'[r] = RoomSeats[r]
        BY <3>2, <3>4 DEF RoomSeats, Taken
      <4> QED BY <4>1, <4>2, <4>3, <3>1, <1>c, <1>d, <1>t, FreeInRoom DEF R!Occupied
    <3>6. RoomSeats' = now
      <4>1. RoomSeats' = [r \in Seat |-> RoomSeats'[r]] /\ DOMAIN now = Seat
        BY DEF RoomSeats
      <4> QED BY <4>1, <3>5
    <3>7. RoomSeats[s] \in R!Occupied
      BY <3>1, <1>t
    <3>8. R!HostMove(s, t)
      BY <3>1, <3>6, <3>7 DEF R!HostMove
    <3> QED BY <3>8
  <2>4. CASE HostSeats
    BY <2>4, <1>o DEF HostSeats, Put
  <2> QED BY <1>8, <2>1, <2>2, <2>3, <2>4 DEF HostDoes
<1> QED BY <1>1, <1>2, <1>3, <1>4, <1>5, <1>6, <1>7, <1>8 DEF Effect

\* The seating of people implements the seat steps of the room, among
\* which the driver is checked.
THEOREM SeatsImplementRoom == Spec => SeatsAsInRoom
<1>1. SeatInv /\ SeatInv' /\ [Next]_seatVars
        => [UNCHANGED <<seats, open>> \/ UNCHANGED RoomSeats \/ R!SeatStep]_seatVars
  BY StepEffect, EffectIsSeatStep
<1> QED BY <1>1, SeatInvHolds, PTL DEF Spec, SeatsAsInRoom

-----------------------------------------------------------------------------
(* Types, and who holds the seating lock. *)

\* Of all arrivals being placed and all hosts seating those who wait there is
\* one at most.
OneIsSeating ==
  /\ \A c, d \in Conn : pc[c] \in Placing /\ pc[d] \in Placing => c = d
  /\ \A g, h \in Host : host[g].step \in Seating /\ host[h].step \in Seating => g = h
  /\ \A c \in Conn, h \in Host : ~(pc[c] \in Placing /\ host[h].step \in Seating)

LobbyOK == lobby \in [Person -> {"out", "waiting", "parked"}]

Formed ==
  /\ held \in [Chairs -> {NoPerson} \cup Invited]
  /\ mine \in [Conn -> SUBSET Chairs]
  /\ told \subseteq Listening
  /\ \A c \in Conn : pc[c] = "new" => whose[c] = NoPerson

\* The inductive invariant of the types and of the lobby.
TypeInv == SeatInv /\ LobbyOK /\ Formed /\ OneIsSeating

\* What a connection does concerns the connection alone.
LEMMA ConnMoves ==
  ASSUME SeatInv, NEW c \in Conn, Place(c) \/ Connected(c)
  PROVE  /\ pc[c] # "new" /\ whose' = whose /\ UNCHANGED host
         /\ \E to \in Steps \ {"new"} :
              /\ pc' = [pc EXCEPT ![c] = to]
              /\ to \in Placing => pc[c] \in Placing
<1> USE DEF Placing
<1>1. CASE Place(c)
  <2>1. pc[c] \in Placing /\ UNCHANGED host
    BY <1>1 DEF Place, Resume, TakeSouth, Rebind, Redeem, Return, Reclaim, Wish, AutoSeat, Wait, Step
  <2>2. \E to \in {"south", "rebind", "redeem", "return", "reclaim", "fill", "placed", "done"} : Go(c, to)
    BY <1>1 DEF Place, Resume, TakeSouth, Rebind, Redeem, Return, Reclaim, Wish, AutoSeat, Wait, Placed
  <2> QED BY <2>1, <2>2 DEF Steps, Go
<1>2. CASE Connected(c)
  <2> USE DEF Connected, Register, Subscribe, Abandon, Recheck, Unlobby, Leave, Drop, Close, MarkGone, Forget
  <2>1. pc[c] # "new" /\ UNCHANGED host
    BY <1>2
  <2>2. \E to \in {"joining", "up", "done", "rebound", "closing", "marking", "forgetting"} : Go(c, to)
    BY <1>2 DEF Off
  <2> QED BY <2>1, <2>2 DEF Steps, Go
<1> QED BY <1>1, <1>2

\* A host moves no connection.
LEMMA HostMovesNone ==
  ASSUME NEW h \in Host, HostStep(h)
  PROVE  /\ UNCHANGED <<held, pc, whose, mine>>
         /\ told' \in {told, Listening}
BY DEF HostStep, HostVacate, HostMove, HostPlace, Kick, SeatStudents, Bench, Park,
       PlaceUnlobby, PlaceSit, KickVacate, KickForget, SeatStudent, UnlistStudent,
       HostAnnounce, HostGoes

\* A host comes to seat those who wait when the lock is free, or goes on with
\* it; no other host's operation moves.
LEMMA HostSeating ==
  ASSUME SeatInv, NEW h \in Host, HostStep(h)
  PROVE  /\ \A g \in Host \ {h} : host'[g] = host[g]
         /\ host'[h].step \in Seating => SeatingFree \/ host[h].step \in Seating
<1> USE DEF Seating, SeatInv
<1>b. /\ \A o : BenchOf(o).step \in {"bench", "announce"}
      /\ Announce.step = "announce" /\ Idle.step = "idle"
  BY DEF BenchOf, Announce, Idle
<1> DEFINE Goal == /\ \A g \in Host \ {h} : host'[g] = host[g]
                   /\ host'[h].step \in Seating => SeatingFree \/ host[h].step \in Seating
<1>g. ASSUME NEW step, NEW next, HostGoes(h, step, next),
             next.step \in Seating => SeatingFree \/ step \in Seating
      PROVE  Goal
  <2>1. /\ host[h].step = step /\ host'[h] = next
        /\ \A g \in Host \ {h} : host'[g] = host[g]
    BY <1>g, HostGoesOn
  <2> QED BY <1>g, <2>1
<1> SUFFICES Goal
  OBVIOUS
<1> HIDE DEF Goal
<1>1. ASSUME NEW s \in Chairs, NEW b \in BOOLEAN, HostVacate(h, s, b) PROVE Goal
  BY <1>1, <1>b, <1>g DEF HostVacate
<1>2. ASSUME NEW s \in Chairs, NEW t \in Chairs, HostMove(h, s, t) PROVE Goal
  BY <1>2, <1>b, <1>g DEF HostMove
<1>3. ASSUME NEW c \in Conn, NEW s \in Chairs, HostPlace(h, c, s) PROVE Goal
  BY <1>3, <1>g DEF HostPlace
<1>4. ASSUME NEW c \in Conn, Kick(h, c) PROVE Goal
  BY <1>4, <1>g DEF Kick
<1>5. CASE SeatStudents(h)
  BY <1>5, <1>g DEF SeatStudents
<1>6. CASE Bench(h) \/ Park(h) \/ PlaceSit(h) \/ KickVacate(h) \/ KickForget(h) \/ HostAnnounce(h)
  BY <1>6, <1>b, <1>g DEF Bench, Park, PlaceSit, KickVacate, KickForget, HostAnnounce
<1>7. CASE PlaceUnlobby(h)
  <2>1. HostGoes(h, "place", [host[h] EXCEPT !.step = "sit"])
    BY <1>7 DEF PlaceUnlobby
  <2>2. [host[h] EXCEPT !.step = "sit"].step \in {"place", "sit"}
    BY <2>1 DEF HostGoes
  <2> QED BY <2>1, <2>2, <1>g
<1>8. CASE SeatStudent(h)
  BY <1>8, <1>g DEF SeatStudent
<1>9. CASE UnlistStudent(h)
  BY <1>9, <1>g DEF UnlistStudent
<1> QED BY <1>1, <1>2, <1>3, <1>4, <1>5, <1>6, <1>7, <1>8, <1>9 DEF HostStep

LEMMA SeatingIsKept ==
  ASSUME TypeInv, [Next]_seatVars
  PROVE  OneIsSeating'
<1> USE DEF TypeInv, SeatInv, ConnsOK, OneIsSeating
<1>1. ASSUME NEW c \in Conn, NEW p \in Person, Arrive(c, p) PROVE OneIsSeating'
  <2>1. SeatingFree /\ UNCHANGED host /\ \A d \in Conn \ {c} : pc'[d] = pc[d]
    BY <1>1 DEF Arrive
  <2> QED BY <2>1 DEF SeatingFree
<1>2. ASSUME NEW c \in Conn, Place(c) \/ Connected(c) PROVE OneIsSeating'
  <2>1. PICK to \in Steps \ {"new"} :
          /\ pc' = [pc EXCEPT ![c] = to]
          /\ to \in Placing => pc[c] \in Placing
    BY <1>2, ConnMoves
  <2>2. host' = host
    BY <1>2, ConnMoves
  <2>3. \A d \in Conn : pc'[d] \in Placing => pc[d] \in Placing
    BY <2>1
  <2> QED BY <2>2, <2>3
<1>3. ASSUME NEW h \in Host, HostStep(h) PROVE OneIsSeating'
  <2>1. UNCHANGED pc /\ \A g \in Host \ {h} : host'[g] = host[g]
    BY <1>3, HostMovesNone, HostSeating
  <2>2. host'[h].step \in Seating => SeatingFree \/ host[h].step \in Seating
    BY <1>3, HostSeating
  <2> QED BY <2>1, <2>2 DEF SeatingFree
<1>4. ASSUME NEW s \in Chairs, (\E p \in Invited : Reserve(s, p)) \/ Release(s) PROVE OneIsSeating'
  BY <1>4 DEF Reserve, Release, connVars
<1>5. CASE UNCHANGED seatVars
  BY <1>5 DEF seatVars, connVars
<1> QED BY <1>1, <1>2, <1>3, <1>4, <1>5, SeatsAssumption DEF Next

LEMMA LobbyKept ==
  ASSUME LobbyOK, [Next]_seatVars
  PROVE  LobbyOK'
<1> DEFINE Puts(to) == \E p : lobby' = [lobby EXCEPT ![p] = to]
<1>1. UNCHANGED lobby \/ Puts("out") \/ Puts("waiting") \/ Puts("parked")
  <2>1. ASSUME NEW c \in Conn, NEW p \in Person, Arrive(c, p) PROVE UNCHANGED lobby
    BY <2>1 DEF Arrive
  <2>2. ASSUME NEW c \in Conn, Place(c)
        PROVE  UNCHANGED lobby \/ Puts("waiting")
    BY <2>2 DEF Place, Resume, TakeSouth, Rebind, Redeem, Return, Reclaim, Wish, AutoSeat, Wait
  <2>3. ASSUME NEW c \in Conn, Connected(c)
        PROVE  UNCHANGED lobby \/ Puts("out")
    BY <2>3 DEF Connected, Register, Subscribe, Abandon, Recheck, Unlobby, Leave, Drop, Close,
                MarkGone, Forget
  <2>4. ASSUME NEW h \in Host, HostStep(h)
        PROVE  UNCHANGED lobby \/ Puts("out") \/ Puts("parked")
    <3>1. \/ UNCHANGED lobby \/ lobby' = [lobby EXCEPT ![host[h].who] = "out"]
          \/ lobby' = [lobby EXCEPT ![host[h].who] = "parked"]
      BY <2>4 DEF HostStep, HostVacate, HostMove, HostPlace, Kick, SeatStudents, Bench, Park,
                  PlaceUnlobby, PlaceSit, KickVacate, KickForget, SeatStudent, UnlistStudent,
                  HostAnnounce
    <3> QED BY <3>1
  <2>5. ASSUME NEW s \in Chairs, (\E p \in Invited : Reserve(s, p)) \/ Release(s)
        PROVE  UNCHANGED lobby
    BY <2>5 DEF Reserve, Release
  <2>6. CASE UNCHANGED seatVars
    BY <2>6 DEF seatVars
  <2> HIDE DEF Puts
  <2> QED BY <2>1, <2>2, <2>3, <2>4, <2>5, <2>6, SeatsAssumption DEF Next
<1> QED BY <1>1 DEF LobbyOK

LEMMA FormedKept ==
  ASSUME SeatInv, Formed, [Next]_seatVars
  PROVE  Formed'
<1> USE DEF Formed, SeatInv, ConnsOK
<1>l. Listening \subseteq Conn /\ \A c \in Conn : c \in Listening <=> pc[c] \in {"up", "rebound"}
  BY DEF Listening
<1>m. \A c \in Conn : (c \in Listening)' <=> pc'[c] \in {"up", "rebound"}
  BY DEF Listening
<1>1. ASSUME NEW c \in Conn, NEW p \in Person, Arrive(c, p) PROVE Formed'
  <2>1. told' = told /\ pc[c] = "new" /\ \A d \in Conn \ {c} : pc'[d] = pc[d] /\ whose'[d] = whose[d]
    BY <1>1 DEF Arrive
  <2>2. told' \subseteq Listening'
    BY <2>1, <1>l, <1>m
  <2>3. pc'[c] # "new"
    BY <1>1 DEF Arrive
  <2> QED BY <1>1, <2>1, <2>2, <2>3 DEF Arrive, tableVars
<1>2. ASSUME NEW c \in Conn, Place(c) \/ Connected(c) PROVE Formed'
  <2>1. pc[c] # "new" /\ whose' = whose
    BY <1>2, ConnMoves
  <2>2. PICK to \in Steps \ {"new"} : pc' = [pc EXCEPT ![c] = to]
    BY <1>2, ConnMoves
  <2>3. \A d \in Conn : pc'[d] = "new" => whose'[d] = NoPerson
    BY <2>1, <2>2
  <2>4. held' \in [Chairs -> {NoPerson} \cup Invited]
    <3>1. UNCHANGED held \/ \E s \in Chairs : held' = [held EXCEPT ![s] = NoPerson]
      <4>1. CASE Redeem(c)
        BY <4>1 DEF Redeem, tableVars
      <4>2. CASE ~Redeem(c)
        BY <1>2, <4>2 DEF Place, Resume, TakeSouth, Rebind, Return, Reclaim, Wish, AutoSeat, Wait,
           Connected, Register, Subscribe, Abandon, Recheck, Unlobby, Leave, Drop, Close, MarkGone,
           Forget, tableVars
      <4> QED BY <4>1, <4>2
    <3> QED BY <3>1
  <2>5. mine' \in [Conn -> SUBSET Chairs]
    <3>1. UNCHANGED mine \/ \E S \in SUBSET Chairs : mine' = [mine EXCEPT ![c] = S]
      <4>1. CASE Place(c)
        <5>1. CASE TakeSouth(c)
          BY <5>1 DEF TakeSouth, Placed, Free
        <5>2. CASE Rebind(c)
          BY <5>2 DEF Rebind, Placed, SeatsOf
        <5>3. CASE Redeem(c) \/ Wish(c) \/ Return(c) \/ Wait(c) \/ Resume(c)
          BY <5>3 DEF Redeem, Wish, Return, Wait, Resume, Placed, Free
        <5>4. CASE Reclaim(c)
          BY <5>4 DEF Reclaim, Placed, Dropped
        <5>5. CASE AutoSeat(c)
          BY <5>5, FirstFreeIsFree DEF AutoSeat, Placed, Free
        <5> QED BY <4>1, <5>1, <5>2, <5>3, <5>4, <5>5 DEF Place
      <4>2. CASE Connected(c)
        BY <4>2 DEF Connected, Register, Subscribe, Abandon, Recheck, Unlobby, Leave, Drop, Close,
                    MarkGone, Forget, Off, SeatsOf
      <4> QED BY <1>2, <4>1, <4>2
    <3> QED BY <3>1
  <2>6. told' \subseteq Listening'
    <3>0. \A d \in Conn \ {c} : (d \in Listening)' <=> d \in Listening
      BY <2>2, <1>l, <1>m
    <3>1. told' \subseteq Listening \ {c} => told' \subseteq Listening'
      BY <3>0, <1>l
    <3>2. CASE Place(c)
      <4>1. told' = told /\ pc[c] \in Placing
        BY <3>2 DEF Place, Resume, TakeSouth, Rebind, Redeem, Return, Reclaim, Wish, AutoSeat, Wait,
                    Step, Placing
      <4>2. c \notin Listening
        BY <4>1, <1>l DEF Placing
      <4> QED BY <4>1, <4>2, <3>1
    <3>3. CASE Recheck(c) \/ Drop(c) \/ Leave(c)
      <4>1. told' \subseteq Listening \ {c}
        BY <3>3 DEF Recheck, Drop, Leave
      <4> QED BY <4>1, <3>1
    <3>4. CASE Subscribe(c) \/ Unlobby(c)
      <4>1. told' = told /\ pc'[c] = "up"
        BY <3>4 DEF Subscribe, Unlobby, Go
      <4> QED BY <4>1, <3>0, <1>l, <1>m
    <3>5. CASE Register(c) \/ Abandon(c) \/ Close(c) \/ MarkGone(c) \/ Forget(c)
      <4>1. told' = told /\ pc[c] \notin {"up", "rebound"}
        BY <3>5 DEF Register, Abandon, Close, MarkGone, Forget
      <4> QED BY <4>1, <3>1, <1>l
    <3> QED BY <1>2, <3>2, <3>3, <3>4, <3>5 DEF Connected
  <2> QED BY <2>3, <2>4, <2>5, <2>6
<1>3. ASSUME NEW h \in Host, HostStep(h) PROVE Formed'
  <2>1. UNCHANGED <<held, pc, whose, mine>> /\ told' \in {told, Listening}
    BY <1>3, HostMovesNone
  <2>2. Listening' = Listening
    BY <2>1 DEF Listening
  <2> QED BY <2>1, <2>2
<1>4. ASSUME NEW s \in Chairs, (\E p \in Invited : Reserve(s, p)) \/ Release(s) PROVE Formed'
  <2>1. UNCHANGED <<pc, whose, mine, told>>
    BY <1>4 DEF Reserve, Release, connVars
  <2>2. held' \in [Chairs -> {NoPerson} \cup Invited]
    BY <1>4 DEF Reserve, Release
  <2>3. Listening' = Listening
    BY <2>1 DEF Listening
  <2> QED BY <2>1, <2>2, <2>3
<1>5. CASE UNCHANGED seatVars
  BY <1>5 DEF seatVars, connVars, tableVars, Listening
<1> QED BY <1>1, <1>2, <1>3, <1>4, <1>5, SeatsAssumption DEF Next

LEMMA TypeInvHolds == Spec => []TypeInv
<1>1. Init => LobbyOK /\ Formed /\ OneIsSeating
  BY DEF Init, LobbyOK, Formed, OneIsSeating, Listening, Placing, Idle, Away, Seating
<1>2. TypeInv /\ SeatInv' /\ [Next]_seatVars => TypeInv'
  BY LobbyKept, FormedKept, SeatingIsKept DEF TypeInv
<1>3. SeatInv /\ LobbyOK /\ Formed /\ OneIsSeating <=> TypeInv
  BY DEF TypeInv
<1> QED BY <1>1, <1>2, <1>3, SeatInvHolds, PTL DEF Spec

\* The seats, the lobby and the connections are well formed; of arrivals
\* being placed and hosts seating those who wait, one at most is at it
\* (sessions.rs, the seating lock).
THEOREM TypeCorrect == Spec => []TypeOK
<1>1. TypeInv => TypeOK
  <2> SUFFICES ASSUME TypeInv PROVE TypeOK
    OBVIOUS
  <2> USE DEF TypeInv, SeatInv
  <2>1. \A s \in Chairs : Taken(s) => seats[s] \in [who : Person, state : {"here", "gone"}]
    BY VacantIsNobody DEF SeatsOK, Occupants, Taken
  <2>2. \A c \in Conn : whose[c] \in Person <=> pc[c] # "new"
    BY SeatsAssumption DEF ConnsOK, Formed
  <2> QED BY <2>1, <2>2 DEF TypeOK, LobbyOK, Formed, ConnsOK, OneIsSeating
<1> QED BY <1>1, TypeInvHolds, PTL

=============================================================================
