------------------------------- MODULE Seats -------------------------------
(***************************************************************************)
(* Who sits at the table of a session (src/src/sessions.rs, rooms.rs and   *)
(* routes/ws.rs): connections that arrive, are placed, follow the host's   *)
(* changes by notice and go; a lobby for those without a seat; seats held  *)
(* for invited friends; and hosts, who place, move and remove.             *)
(*                                                                         *)
(* Placement, disconnection and the hosts' operations take the locks they  *)
(* need one after another.  Whatever is looked up or changed under a lock  *)
(* of its own is a step here, so that the rest can run in between, other   *)
(* hosts included; only forgetting a person, in the lobby and among the    *)
(* connections, is one.                                                    *)
(* The session has one table: a person for whom the code would open        *)
(* another, because all chairs are taken, is out of the model's sight.     *)
(***************************************************************************)
EXTENDS Bridge

CONSTANTS
  Person,      \* ticket subjects
  NoPerson,
  Owner,       \* the person who owns the session
  Conn,        \* connections; each arrives once
  Host,        \* connections that may control the session: its owner's and
               \* those with a teacher's ticket
  NameOf,      \* the display name of each person
  Chairs,      \* the seats people may take; all four in the code
  Adhoc,       \* whether the session is a friends' table
  Policies,    \* seat policies the host may choose
  Invited,     \* the people for whom seats may be held
  Reservable,  \* the chairs that may be held for them; all in the code
  MaxActors    \* bound: hosts there are and connections that arrive, in all

ASSUME SeatsAssumption ==
  /\ NoPerson \notin Person
  /\ Chairs \subseteq Seat
  /\ DOMAIN NameOf = Person
  /\ Policies \subseteq {"manual", "waiting", "firstFree"}
  /\ Invited \subseteq Person
  /\ Reservable \subseteq Chairs
  /\ MaxActors \in Nat

VARIABLES
  seats,       \* the occupant of each chair
  open,        \* the chairs the host left open, so that no bot plays them
  held,        \* for whom each chair is reserved
  lobby,       \* whether a person waits, is parked, or is not in the lobby
  registry,    \* the connections the host can address
  pc,          \* where each connection is
  whose,       \* the person of each connection, by its ticket
  mine,        \* the seats each connection believes it holds
  told,        \* the connections with a notice of changed seats to read
  host         \* the step of each host's operation under way

tableVars == <<seats, open, held>>
connVars  == <<pc, whose, mine, told>>
seatVars  == <<tableVars, lobby, registry, connVars, host>>

-----------------------------------------------------------------------------
(* Occupants. *)

Vacant == [who |-> NoPerson, state |-> "absent"]
Occupant(p) == [who |-> p, state |-> "here"]

Taken(s) == seats[s] # Vacant
Free     == {s \in Chairs : ~Taken(s)}
SeatsOf(p) == {s \in Chairs : seats[s].who = p}
Dropped  == {s \in Chairs : seats[s].state = "gone"}

\* Slip: a chair somebody sits down in stays marked open.
PutOpen(s, o) == seats' = [seats EXCEPT ![s] = o] /\ UNCHANGED open

\* Whoever gets a chair ends its being open.
Put(s, o) == seats' = [seats EXCEPT ![s] = o] /\ open' = open \ {s}

Vacate(S) == seats' = [s \in Chairs |-> IF s \in S THEN Vacant ELSE seats[s]]

-----------------------------------------------------------------------------
(* Arrival.  Placement runs under the seating lock, one at a time. *)

Placing == {"resume", "south", "rebind", "redeem", "return", "reclaim", "fill"}
Seating == {"students", "unlist"}

\* Slip: seating those who wait does not keep arrivals out.
NobodyArrives == \A c \in Conn : pc[c] \notin Placing

\* Seating those who wait takes the lock too, the hosts' other operations do
\* not.
SeatingFree == /\ \A h \in Host : host[h].step \notin Seating
               /\ \A c \in Conn : pc[c] \notin Placing

Idle == [step |-> "idle"]
Away == [step |-> "away"]

Go(c, to) == pc' = [pc EXCEPT ![c] = to] /\ UNCHANGED whose
Placed(c, S) == Go(c, "placed") /\ mine' = [mine EXCEPT ![c] = S]

\* A placement step touches the room and the lobby at most.
Step(c, from) ==
  /\ pc[c] = from
  /\ UNCHANGED <<registry, told, host>>

Arrive(c, p) ==
  /\ pc[c] = "new" /\ SeatingFree
  /\ Cardinality({d \in Conn : pc[d] # "new"}) + Cardinality({h \in Host : host[h] # Away})
       < MaxActors
  /\ pc' = [pc EXCEPT ![c] = IF Adhoc /\ p = Owner THEN "resume" ELSE "rebind"]
  /\ whose' = [whose EXCEPT ![c] = p]
  /\ UNCHANGED <<tableVars, lobby, registry, mine, told, host>>

\* Slip: the owner clears the whole table.
ResumeAll(c) ==
  /\ Step(c, "resume")
  /\ Vacate(Chairs)
  /\ Go(c, "south")
  /\ UNCHANGED <<open, held, lobby, mine>>

\* The owner of a friends' table clears the chairs of those who have gone.
Resume(c) ==
  /\ Step(c, "resume")
  /\ Vacate(Dropped)
  /\ Go(c, "south")
  /\ UNCHANGED <<open, held, lobby, mine>>

\* and sits South, if nobody does.
TakeSouth(c) ==
  /\ Step(c, "south")
  /\ IF South \in Free
     THEN Put(South, Occupant(whose[c])) /\ Placed(c, {South})
     ELSE Go(c, "rebind") /\ UNCHANGED <<seats, open, mine>>
  /\ UNCHANGED <<held, lobby>>

\* A person who has a seat is back in it; of several, in the first found.
Rebind(c) ==
  /\ Step(c, "rebind")
  /\ IF SeatsOf(whose[c]) = {}
     THEN Go(c, "redeem") /\ UNCHANGED <<seats, mine>>
     ELSE \E s \in SeatsOf(whose[c]) :
            seats' = [seats EXCEPT ![s].state = "here"] /\ Placed(c, {s})
  /\ UNCHANGED <<open, held, lobby>>

\* A reservation is used up, and gives the seat if nobody has taken it.
Redeem(c) ==
  /\ Step(c, "redeem")
  /\ \/ /\ whose[c] \notin {held[s] : s \in Chairs}
        /\ Go(c, "return")
        /\ UNCHANGED <<tableVars, mine>>
     \/ \E s \in Chairs :
          /\ held[s] = whose[c]
          /\ held' = [held EXCEPT ![s] = NoPerson]
          /\ IF s \in Free
             THEN Put(s, Occupant(whose[c])) /\ Placed(c, {s})
             ELSE Go(c, "return") /\ UNCHANGED <<seats, open, mine>>
  /\ UNCHANGED lobby

\* A member of the lobby stays there.
Return(c) ==
  /\ Step(c, "return")
  /\ IF lobby[whose[c]] # "out" THEN Placed(c, {})
     ELSE Go(c, "reclaim") /\ UNCHANGED mine
  /\ UNCHANGED <<tableVars, lobby>>

\* A guest who comes back as a new person takes over the chair of the name.
Reclaim(c) ==
  LET stale == {s \in Dropped : NameOf[seats[s].who] = NameOf[whose[c]]}
  IN  /\ Step(c, "reclaim")
      /\ IF stale = {} THEN Go(c, "fill") /\ UNCHANGED <<seats, mine>>
         ELSE \E s \in stale :
                seats' = [seats EXCEPT ![s] = Occupant(whose[c])] /\ Placed(c, {s})
      /\ UNCHANGED <<open, held, lobby>>

\* The policy for new arrivals is the host's to change at any time.  A manual
\* session honours an invitation link that names a free chair,
Wish(c) ==
  /\ Step(c, "fill") /\ "manual" \in Policies
  /\ \E s \in Free : Put(s, Occupant(whose[c])) /\ Placed(c, {s})
  /\ UNCHANGED <<held, lobby>>

\* The first free chair, South first.
FillOrder == <<South, West, North, East>>
FirstFree ==
  FillOrder[CHOOSE i \in 1 .. 4 : /\ FillOrder[i] \in Free
                                 /\ \A j \in 1 .. i - 1 : FillOrder[j] \notin Free]

\* another policy gives the first free chair,
AutoSeat(c) ==
  /\ Step(c, "fill") /\ "firstFree" \in Policies
  /\ IF Free # {}
     THEN Put(FirstFree, Occupant(whose[c])) /\ Placed(c, {FirstFree})
     ELSE Go(c, "done") /\ UNCHANGED <<seats, open, mine>>
  /\ UNCHANGED <<held, lobby>>

\* and who is not seated waits in the lobby.
Wait(c) ==
  /\ Step(c, "fill") /\ Policies \cap {"manual", "waiting"} # {}
  /\ lobby' = [lobby EXCEPT ![whose[c]] = "waiting"]
  /\ Placed(c, {})
  /\ UNCHANGED tableVars

Place(c) == \/ Resume(c) \/ TakeSouth(c) \/ Rebind(c) \/ Redeem(c)
            \/ Return(c) \/ Reclaim(c) \/ Wish(c) \/ AutoSeat(c) \/ Wait(c)

-----------------------------------------------------------------------------
(* A connection after its placement. *)

\* One entry to a person: the newest connection drops the others.
Register(c) ==
  /\ pc[c] = "placed"
  /\ registry' = {d \in registry : whose[d] # whose[c]} \cup {c}
  /\ Go(c, "joining")
  /\ UNCHANGED <<tableVars, lobby, mine, told, host>>

\* Only now does the connection listen to the session.
Subscribe(c) ==
  /\ pc[c] = "joining"
  /\ Go(c, "up")
  /\ UNCHANGED <<tableVars, lobby, registry, mine, told, host>>

\* From here on nothing looks at what the connection holds.
Off(c, to) == Go(c, to) /\ mine' = [mine EXCEPT ![c] = {}]

\* A socket that takes no welcome is let go of, without the clean-up below.
Abandon(c) ==
  /\ pc[c] = "joining" /\ Off(c, "done")
  /\ UNCHANGED <<tableVars, lobby, registry, told, host>>

\* A notice of changed seats: look up one's seats again, and if they are
\* others than before, leave the lobby.
Recheck(c) ==
  LET now == SeatsOf(whose[c])
  IN  /\ pc[c] = "up" /\ c \in told
      /\ told' = told \ {c}
      /\ mine' = [mine EXCEPT ![c] = now]
      /\ Go(c, IF now \in {{}, mine[c]} THEN "up" ELSE "rebound")
      /\ UNCHANGED <<tableVars, lobby, registry, host>>

Unlobby(c) ==
  /\ pc[c] = "rebound"
  /\ lobby' = [lobby EXCEPT ![whose[c]] = "out"]
  /\ Go(c, "up")
  /\ UNCHANGED <<tableVars, registry, mine, told, host>>

Listening == {c \in Conn : pc[c] \in {"up", "rebound"}}

\* A person leaves: the chairs the connection believes it holds are vacated.
Leave(c) ==
  /\ pc[c] = "up"
  /\ Vacate(mine[c])
  /\ Off(c, "closing")
  /\ told' = Listening \ {c}
  /\ UNCHANGED <<open, held, lobby, registry, host>>

\* The socket drops, or the connection has read that its person was kicked.
Drop(c) ==
  /\ pc[c] = "up"
  /\ Off(c, "closing") /\ told' = told \ {c}
  /\ UNCHANGED <<tableVars, lobby, registry, host>>

\* The clean-up looks whether the person has a seat.  If so the seat is kept
\* and marked; if not, the person is forgotten.
Close(c) ==
  /\ pc[c] = "closing"
  /\ Go(c, IF SeatsOf(whose[c]) # {} THEN "marking" ELSE "forgetting")
  /\ UNCHANGED <<tableVars, lobby, registry, mine, told, host>>

MarkGone(c) ==
  /\ pc[c] = "marking" /\ Go(c, "done")
  /\ seats' = [s \in Chairs |-> IF s \in SeatsOf(whose[c])
                                THEN [seats[s] EXCEPT !.state = "gone"] ELSE seats[s]]
  /\ UNCHANGED <<open, held, lobby, registry, mine, told, host>>

Forget(c) ==
  /\ pc[c] = "forgetting" /\ Go(c, "done")
  /\ registry' = registry \ {c}
  /\ lobby' = [lobby EXCEPT ![whose[c]] = "out"]
  /\ UNCHANGED <<tableVars, mine, told, host>>

Connected(c) == \/ Register(c) \/ Subscribe(c) \/ Abandon(c) \/ Recheck(c) \/ Unlobby(c)
                \/ Leave(c) \/ Drop(c) \/ Close(c) \/ MarkGone(c) \/ Forget(c)

-----------------------------------------------------------------------------
(* The hosts.  Each runs one operation at a time, as its connection does;  *)
(* the operations of several share no lock but those of their steps.       *)

Announce == [step |-> "announce"]

HostGoes(h, step, next) ==
  /\ host[h].step = step
  /\ host' = [host EXCEPT ![h] = next]
  /\ UNCHANGED <<held, pc, whose, mine>>

\* Who was unseated while connected goes to the lobby, unless seated elsewhere.
BenchOf(o) == IF o.state = "here" THEN [step |-> "bench", who |-> o.who] ELSE Announce

\* Remove an occupant, and leave the chair open or to a bot.
HostVacate(h, s, leaveOpen) ==
  /\ HostGoes(h, "idle", BenchOf(seats[s]))
  /\ Vacate({s})
  /\ open' = IF leaveOpen THEN open \cup {s} ELSE open \ {s}
  /\ UNCHANGED <<lobby, registry, told>>

Bench(h) ==
  /\ HostGoes(h, "bench", IF SeatsOf(host[h].who) = {}
                          THEN [step |-> "park", who |-> host[h].who] ELSE Announce)
  /\ UNCHANGED <<seats, open, lobby, registry, told>>

Park(h) ==
  /\ HostGoes(h, "park", Announce)
  /\ lobby' = [lobby EXCEPT ![host[h].who] = "parked"]
  /\ UNCHANGED <<seats, open, registry, told>>

\* Slip: the chair left behind is left open.
HostMoveOpen(h, s, t) ==
  /\ HostGoes(h, "idle", Announce) /\ s # t /\ Taken(s)
  /\ seats' = [seats EXCEPT ![s] = seats[t], ![t] = seats[s]]
  /\ open' = IF Taken(t) THEN open ELSE (open \cup {s}) \ {t}
  /\ UNCHANGED <<lobby, registry, told>>

\* Move an occupant to another chair, or swap two.
HostMove(h, s, t) ==
  /\ HostGoes(h, "idle", Announce) /\ s # t /\ Taken(s)
  /\ seats' = [seats EXCEPT ![s] = seats[t], ![t] = seats[s]]
  /\ open' = IF Taken(t) THEN open \ {s, t} ELSE open \ {t}
  /\ UNCHANGED <<lobby, registry, told>>

\* Seat the person of a registered connection, displacing who sits there.
HostPlace(h, c, s) ==
  /\ c \in registry /\ seats[s].who # whose[c]
  /\ HostGoes(h, "idle", [step |-> "place", who |-> whose[c], at |-> s])
  /\ UNCHANGED <<seats, open, lobby, registry, told>>

PlaceUnlobby(h) ==
  /\ HostGoes(h, "place", [host[h] EXCEPT !.step = "sit"])
  /\ lobby' = [lobby EXCEPT ![host[h].who] = "out"]
  /\ UNCHANGED <<seats, open, registry, told>>

PlaceSit(h) ==
  /\ HostGoes(h, "sit", BenchOf(seats[host[h].at]))
  /\ Put(host[h].at, Occupant(host[h].who))
  /\ UNCHANGED <<lobby, registry, told>>

\* Remove a person: their chairs are looked up under one lock and vacated
\* under another; then the lobby and the registry forget them, and those of
\* their connections that listen are told to hang up.
Kick(h, c) ==
  /\ c \in registry
  /\ HostGoes(h, "idle", [step |-> "vacate", who |-> whose[c], chairs |-> SeatsOf(whose[c])])
  /\ UNCHANGED <<seats, open, lobby, registry, told>>

KickVacate(h) ==
  /\ HostGoes(h, "vacate", [step |-> "forget", who |-> host[h].who])
  /\ Vacate(host[h].chairs) /\ open' = open \ host[h].chairs
  /\ UNCHANGED <<lobby, registry, told>>

KickForget(h) ==
  /\ HostGoes(h, "forget", Announce)
  /\ lobby' = [lobby EXCEPT ![host[h].who] = "out"]
  /\ registry' = {c \in registry : whose[c] # host[h].who}
  /\ UNCHANGED <<seats, open, told>>

Waiting == {p \in Person : lobby[p] = "waiting"}

\* Seat all who wait, as they did when the operation began.
SeatStudents(h) ==
  /\ SeatingFree /\ Waiting # {}
  /\ HostGoes(h, "idle", [step |-> "students", todo |-> Waiting])
  /\ UNCHANGED <<seats, open, lobby, registry, told>>

SeatStudent(h) ==
  /\ host[h].step = "students"
  /\ \E p \in host[h].todo :
       /\ HostGoes(h, "students", [step |-> "unlist", who |-> p, todo |-> host[h].todo \ {p}])
       /\ IF Free # {} THEN Put(FirstFree, Occupant(p)) ELSE UNCHANGED <<seats, open>>
  /\ UNCHANGED <<lobby, registry, told>>

UnlistStudent(h) ==
  /\ HostGoes(h, "unlist", IF host[h].todo = {} THEN Announce
                           ELSE [step |-> "students", todo |-> host[h].todo])
  /\ lobby' = [lobby EXCEPT ![host[h].who] = "out"]
  /\ UNCHANGED <<seats, open, registry, told>>

\* Every operation ends by telling the connections to look again.
HostAnnounce(h) ==
  /\ HostGoes(h, "announce", Idle)
  /\ told' = Listening
  /\ UNCHANGED <<seats, open, lobby, registry>>

HostStep(h) ==
  \/ \E s \in Chairs, b \in BOOLEAN : HostVacate(h, s, b)
  \/ \E s, t \in Chairs : HostMove(h, s, t)
  \/ \E c \in Conn, s \in Chairs : HostPlace(h, c, s)
  \/ \E c \in Conn : Kick(h, c)
  \/ SeatStudents(h)
  \/ Bench(h) \/ Park(h) \/ PlaceUnlobby(h) \/ PlaceSit(h) \/ KickVacate(h) \/ KickForget(h)
  \/ SeatStudent(h) \/ UnlistStudent(h) \/ HostAnnounce(h)

-----------------------------------------------------------------------------
(* Reservations: one lock each. *)

Reserve(s, p) ==
  /\ s \in Free
  /\ held' = [held EXCEPT ![s] = p]
  /\ open' = open \ {s}
  /\ UNCHANGED <<seats, lobby, registry, connVars, host>>

\* Declined, withdrawn or past its time, which reads as absent.
Release(s) ==
  /\ held[s] # NoPerson
  /\ held' = [held EXCEPT ![s] = NoPerson]
  /\ UNCHANGED <<seats, open, lobby, registry, connVars, host>>

Init ==
  /\ seats = [s \in Chairs |-> Vacant]
  /\ open = {}
  /\ held = [s \in Chairs |-> NoPerson]
  /\ lobby = [p \in Person |-> "out"]
  /\ registry = {}
  /\ pc = [c \in Conn |-> "new"]
  /\ whose = [c \in Conn |-> NoPerson]
  /\ mine = [c \in Conn |-> {}]
  /\ told = {}
  /\ host \in [Host -> {Idle, Away}]
  /\ \E h \in Host : host[h] = Idle

Next ==
  \/ \E c \in Conn, p \in Person : Arrive(c, p)
  \/ \E c \in Conn : Place(c) \/ Connected(c)
  \/ \E h \in Host : HostStep(h)
  \/ \E s \in Reservable, p \in Invited : Reserve(s, p)
  \/ \E s \in Chairs : Release(s)

Spec == Init /\ [][Next]_seatVars

-----------------------------------------------------------------------------
(* The seats of the room, as the modules of play see them. *)

RoomSeats ==
  [s \in Seat |-> IF s \in Chairs /\ Taken(s) THEN seats[s].state
                  ELSE IF s \in open THEN "open" ELSE "bot"]

R == INSTANCE Room WITH
       seats <- RoomSeats, HumanSeats <- Chairs,
       board <- 0, actions <- <<>>, mode <- "bidAndPlay", paused <- FALSE,
       Boards <- {}, Calls <- {}, Tricks <- 0, Modes <- {}

-----------------------------------------------------------------------------
(* Properties. *)

Steps == Placing \cup {"new", "done", "placed", "joining", "up", "rebound",
                       "closing", "marking", "forgetting"}

\* Types, and that the seating lock keeps arrivals and the seating of those
\* who wait apart: of all of them, one at most is under way.
TypeOK ==
  /\ \A s \in Chairs : Taken(s) => seats[s] \in [who : Person, state : {"here", "gone"}]
  /\ open \subseteq Chairs
  /\ held \in [Chairs -> {NoPerson} \cup Invited]
  /\ lobby \in [Person -> {"out", "waiting", "parked"}]
  /\ registry \subseteq Conn
  /\ pc \in [Conn -> Steps]
  /\ \A c \in Conn : whose[c] \in Person <=> pc[c] # "new"
  /\ mine \in [Conn -> SUBSET Chairs]
  /\ told \subseteq Listening
  /\ \A c, d \in Conn : pc[c] \in Placing /\ pc[d] \in Placing => c = d
  /\ \A g, h \in Host : host[g].step \in Seating /\ host[h].step \in Seating => g = h
  /\ \A c \in Conn, h \in Host : ~(pc[c] \in Placing /\ host[h].step \in Seating)

\* A chair that the host left open and somebody took is no longer open: were
\* it, the seat would stay without a bot when they leave.
OpenIsEmpty == \A s \in open : ~Taken(s)

\* Nobody who is connected loses their chair to an arrival, to the clean-up
\* after another connection, to the seating of those who wait or to what goes
\* on in the lobby: only the hosts, by removing, moving, placing or kicking,
\* and those who leave on purpose take an occupant out of a chair.
Removing == {"idle", "sit", "vacate"}
ChairsAreSafe ==
  [][\A s \in Chairs : seats[s].state = "here" /\ seats'[s].who # seats[s].who =>
       \/ \E h \in Host : host[h].step \in Removing /\ host'[h] # host[h]
       \/ \E c \in Conn : pc[c] = "up" /\ s \in mine[c] /\ pc'[c] = "closing"]_seatVars

\* Whatever becomes of people, connections and reservations changes the
\* seats of the room in no other way than the seat steps of Room do: the
\* driver is checked among those.
SeatsAsInRoom ==
  [][UNCHANGED <<seats, open>> \/ UNCHANGED RoomSeats \/ R!SeatStep]_seatVars

\* A reconnect returns the seat to its person at once: a connection that is
\* up and holds a chair of its person finds the chair occupied, not gone.
ReturnedIsHere ==
  \A c \in Conn, s \in Chairs :
    pc[c] = "up" /\ s \in mine[c] /\ seats[s].who = whose[c] => seats[s].state = "here"

=============================================================================
