-------------------------- MODULE BotDriverProofs --------------------------
(***************************************************************************)
(* What the bot driver of a room guarantees for every number of tasks and  *)
(* of handlers, every set of boards, calls and seats people may take, and  *)
(* every interleaving of their steps.                                      *)
(***************************************************************************)
EXTENDS BotDriver, TableProofs

PcOK == /\ pc \in [Task -> {"idle"} \cup Loop \cup After]
        /\ botRunning \in BOOLEAN

\* The inductive invariant behind the flag: where the tasks are, and that
\* the flag tells whether one of them is in its loop.
DriverInv == PcOK /\ OneDriver

\* What a task's own step does to the flag and to where the task is; no
\* other task moves.
TaskMoves(t) ==
  /\ pc' = [pc EXCEPT ![t] = pc'[t]]
  /\ pc'[t] \in {"idle"} \cup Loop \cup After
  /\ \/ pc[t] \in Loop /\ pc'[t] \in Loop /\ UNCHANGED botRunning
     \/ pc[t] \in Loop /\ pc'[t] \notin Loop /\ botRunning' = FALSE
     \/ pc[t] \notin Loop /\ pc'[t] \notin Loop /\ UNCHANGED botRunning
     \/ pc[t] \notin Loop /\ pc'[t] \in Loop /\ botRunning = FALSE /\ botRunning' = TRUE

\* What a step of a task does to the flag and to the places of the tasks.
LEMMA TaskStepMoves ==
  ASSUME PcOK, NEW t \in Task, TaskStep(t)
  PROVE  TaskMoves(t)
<1> USE DEF PcOK, Loop, After, Become, TaskMoves
<1>1. CASE Gate(t)
  BY <1>1 DEF Gate
<1>2. CASE Stop(t)
  BY <1>2 DEF Stop
<1>3. CASE Decide(t)
  <2>1. /\ pc[t] = "decide" /\ botRunning' = botRunning
        /\ Become(t, "think") \/ Become(t, "clear")
    BY <1>3 DEF Decide
  <2> QED BY <2>1
<1>4. CASE Finish(t)
  <2>1. /\ pc[t] = "think" /\ botRunning' = botRunning
        /\ Become(t, "gate") \/ Become(t, "clear")
    BY <1>4 DEF Finish, Discard, Land, Rejected
  <2> QED BY <2>1
<1>5. CASE Clear(t)
  BY <1>5 DEF Clear
<1>6. CASE Recheck(t)
  <2>1. /\ pc[t] = "recheck" /\ botRunning' = botRunning
        /\ Become(t, "retake") \/ Become(t, "idle")
    BY <1>6 DEF Recheck
  <2> QED BY <2>1
<1>7. CASE Retake(t)
  BY <1>7 DEF Retake
<1> QED BY <1>1, <1>2, <1>3, <1>4, <1>5, <1>6, <1>7 DEF TaskStep

\* The steps of people leave the driver alone but for the kicks they owe.
LEMMA PeopleSilent ==
  ASSUME People
  PROVE  UNCHANGED <<botRunning, pc, pending>>
<1> USE DEF Kicking, Silent, driverVars
<1>1. CASE MakeCall \/ PlayCard \/ Undo \/ Redeal
  BY <1>1 DEF MakeCall, PlayCard, Undo, Redeal
<1>2. CASE Arrive \/ Depart \/ Manage \/ ChangeMode
  BY <1>2 DEF Arrive, Depart, Manage, ChangeMode
<1>3. CASE Pause \/ Resume
  BY <1>3 DEF Pause, Resume
<1> QED BY <1>1, <1>2, <1>3 DEF People

\* Every such move keeps the flag with the one task in the loop.
LEMMA MovesKeepsInv ==
  ASSUME DriverInv, NEW t \in Task, TaskMoves(t)
  PROVE  DriverInv'
<1> USE DEF DriverInv, PcOK, OneDriver, TaskMoves
<1>1. \A u \in Task \ {t} : pc'[u] = pc[u]
  OBVIOUS
<1>2. PcOK'
  OBVIOUS
<1>3. OneDriver'
  BY <1>1
<1> QED BY <1>2, <1>3

\* So does a kick: it starts a task only when the flag was down.
LEMMA KickKeepsInv ==
  ASSUME DriverInv, Kick
  PROVE  DriverInv'
<1>1. CASE botRunning
  BY <1>1 DEF Kick, DriverInv, PcOK, OneDriver
<1>2. CASE ~botRunning
  <2>1. PICK t \in Task : pc[t] = "idle" /\ Become(t, "gate") /\ botRunning' = TRUE
    BY <1>2 DEF Kick
  <2>2. TaskMoves(t)
    BY <1>2, <2>1 DEF TaskMoves, Become, DriverInv, PcOK, Loop, After
  <2> QED BY <2>1, <2>2, MovesKeepsInv
<1> QED BY <1>1, <1>2

\* The invariant of the flag is inductive.
LEMMA DriverInvInductive == DriverInv /\ [DriverNext]_vars2 => DriverInv'
<1> SUFFICES ASSUME DriverInv, [DriverNext]_vars2 PROVE DriverInv'
  OBVIOUS
<1>1. ASSUME NEW t \in Task, TaskStep(t) PROVE DriverInv'
  BY <1>1, TaskStepMoves, MovesKeepsInv DEF DriverInv
<1>2. CASE HandlerKick
  BY <1>2, KickKeepsInv DEF HandlerKick
<1>3. CASE KeepaliveTick
  BY <1>3, KickKeepsInv DEF KeepaliveTick
<1>4. CASE People
  BY <1>4, PeopleSilent DEF DriverInv, PcOK, OneDriver
<1>5. CASE UNCHANGED vars2
  BY <1>5 DEF vars2, driverVars, DriverInv, PcOK, OneDriver
<1> QED BY <1>1, <1>2, <1>3, <1>4, <1>5 DEF DriverNext

\* At most one driver task runs per room, and the flag tells whether one
\* does (bots.rs, kick).
THEOREM OneDriverAlways == DriverSpec => []OneDriver
<1>1. DriverInit => DriverInv
  BY DEF DriverInit, DriverInv, PcOK, OneDriver, Loop
<1>2. DriverInv => OneDriver
  BY DEF DriverInv
<1> QED BY <1>1, <1>2, DriverInvInductive, PTL DEF DriverSpec

-----------------------------------------------------------------------------
(* Pausing. *)

\* What makes a pause hold: once an action has landed in a pause, no task
\* is past the gate, which lets none through before the bots are resumed.
PauseInv ==
  /\ paused \in BOOLEAN
  /\ late \in {0, 1}
  /\ ~paused => late = 0
  /\ late = 1 => \A t \in Task : pc[t] \notin {"decide", "think"}

\* The steps of people that touch the pause, or the count of late actions.
LEMMA PeoplePause ==
  ASSUME People
  PROVE  \/ UNCHANGED <<paused, late>>
         \/ ~paused /\ paused' = TRUE /\ UNCHANGED late
         \/ paused' = FALSE /\ late' = 0
<1> USE DEF Kicking, Silent
<1>1. CASE MakeCall \/ PlayCard
  BY <1>1 DEF MakeCall, PlayCard, HumanCall, HumanPlay
<1>2. CASE Undo \/ Redeal
  BY <1>2 DEF Undo, Redeal, HumanUndo, HumanUndoLast, Deal, DealRefused
<1>3. CASE Arrive \/ Depart \/ Manage
  BY <1>3 DEF Arrive, Depart, Manage, Occupy, ClearGhosts, Disconnect, GraceEnds, Leave,
              Expel, HostVacate, Reserve, HostMove, SetSeats
<1>4. CASE ChangeMode
  BY <1>4 DEF ChangeMode, SetBoardMode
<1>5. CASE Pause
  BY <1>5 DEF Pause, SetBotsPaused
<1>6. CASE Resume
  BY <1>6 DEF Resume, SetBotsPaused
<1> QED BY <1>1, <1>2, <1>3, <1>4, <1>5, <1>6 DEF People

\* A task step leaves the pause alone; it passes the gate only when there
\* is none, and counts as late only when it lands.
LEMMA TaskStepPause ==
  ASSUME PcOK, NEW t \in Task, TaskStep(t)
  PROVE  /\ paused' = paused
         /\ pc'[t] \in {"decide", "think"} =>
              pc[t] = "decide" \/ (pc[t] = "gate" /\ ~paused)
         /\ \/ late' = late
            \/ pc[t] = "think" /\ pc'[t] = "gate" /\ paused /\ late' = late + 1
<1> USE DEF PcOK, Become, roomVars
<1>1. CASE Gate(t) \/ Stop(t) \/ Clear(t) \/ Retake(t)
  BY <1>1 DEF Gate, Stop, Clear, Retake
<1>2. CASE Decide(t)
  <2>1. /\ pc[t] = "decide" /\ UNCHANGED <<paused, late>>
        /\ Become(t, "think") \/ Become(t, "clear")
    BY <1>2 DEF Decide
  <2> QED BY <2>1
<1>3. CASE Recheck(t)
  <2>1. /\ UNCHANGED <<paused, late>>
        /\ Become(t, "retake") \/ Become(t, "idle")
    BY <1>3 DEF Recheck
  <2> QED BY <2>1
<1>4. CASE Finish(t)
  <2>1. CASE Discard(t) \/ Rejected(t)
    BY <1>4, <2>1 DEF Finish, Discard, Rejected
  <2>2. CASE Land(t)
    BY <1>4, <2>2 DEF Finish, Land
  <2> QED BY <1>4, <2>1, <2>2 DEF Finish
<1> QED BY <1>1, <1>2, <1>3, <1>4 DEF TaskStep

\* The invariant of the pause is inductive, given that of the flag.
LEMMA PauseInvInductive == DriverInv /\ PauseInv /\ [DriverNext]_vars2 => PauseInv'
<1> SUFFICES ASSUME DriverInv, PauseInv, [DriverNext]_vars2 PROVE PauseInv'
  OBVIOUS
<1> USE DEF PauseInv
<1>1. ASSUME NEW t \in Task, TaskStep(t) PROVE PauseInv'
  <2>1. TaskMoves(t)
    BY <1>1, TaskStepMoves DEF DriverInv
  <2>2. \A u \in Task \ {t} : pc'[u] = pc[u]
    BY <2>1 DEF TaskMoves, DriverInv, PcOK
  <2>3. CASE late' = late
    BY <1>1, <2>2, <2>3, TaskStepPause DEF DriverInv
  <2>4. CASE late' # late
    <3>1. /\ pc[t] = "think" /\ pc'[t] = "gate" /\ paused /\ paused' = paused
          /\ late' = late + 1
      BY <1>1, <2>4, TaskStepPause DEF DriverInv
    <3>2. late = 0
      BY <3>1
    <3>3. \A u \in Task \ {t} : pc[u] \notin {"decide", "think"}
      BY <3>1 DEF DriverInv, OneDriver, Loop
    <3> QED BY <2>2, <3>1, <3>2, <3>3
  <2> QED BY <2>3, <2>4
<1>2. CASE HandlerKick \/ KeepaliveTick
  <2>1. UNCHANGED <<paused, late>>
    BY <1>2 DEF HandlerKick, KeepaliveTick, Kick, roomVars
  <2>2. \A u \in Task : pc'[u] = pc[u] \/ pc'[u] = "gate"
    BY <1>2 DEF HandlerKick, KeepaliveTick, Kick, Become, DriverInv, PcOK
  <2> QED BY <2>1, <2>2
<1>3. CASE People
  BY <1>3, PeopleSilent, PeoplePause
<1>4. CASE UNCHANGED vars2
  BY <1>4 DEF vars2, driverVars, roomVars
<1> QED BY <1>1, <1>2, <1>3, <1>4 DEF DriverNext

\* Pausing stops the bots but for one action in flight (bots.rs, kick and
\* act_once; sessions.rs, set_bots_paused).
THEOREM PauseAlwaysHolds == DriverSpec => []PauseHolds
<1>1. DriverInit => DriverInv /\ PauseInv
  BY DEF DriverInit, RoomInit, DriverInv, PauseInv, PcOK, OneDriver, Loop
<1>2. PauseInv => PauseHolds
  BY DEF PauseInv, PauseHolds
<1> QED BY <1>1, <1>2, DriverInvInductive, PauseInvInductive, PTL DEF DriverSpec

-----------------------------------------------------------------------------
(* Types. *)

\* A task holds a suggestion exactly while it thinks.
Carrying == \A t \in Task : pending[t] # NoPending <=> pc[t] = "think"

\* The inductive invariant of the types: there is a suggestion to a task.
TypeInv ==
  /\ RoomTypeOK
  /\ DriverInv
  /\ DOMAIN pending = Task /\ pending = [t \in Task |-> pending[t]]
  /\ Carrying
  /\ kicks \in 0 .. MaxKicks

\* Seats change to what a seat may be, and people sit where they may.
LEMMA OccupantsKeep ==
  ASSUME RoomTypeOK, NEW S, NEW state \in SeatState, SetSeats(S, state),
         state \in Occupied => S \subseteq HumanSeats
  PROVE  RoomTypeOK'
BY DEF RoomTypeOK, SetSeats, SeatState

\* What people do at the table leaves the seats alone.
LEMMA PlayersKeepRoom ==
  ASSUME RoomTypeOK, MakeCall \/ PlayCard \/ Undo \/ Redeal
  PROVE  RoomTypeOK'
<1> USE DEF Kicking
<1>1. CASE MakeCall \/ PlayCard \/ Undo
  <2>1. UNCHANGED <<board, seats, mode, paused>>
    BY <1>1 DEF MakeCall, PlayCard, Undo, HumanCall, HumanPlay, HumanUndo, HumanUndoLast,
                Apply, UndoTo
  <2> QED BY <2>1 DEF RoomTypeOK
<1>2. CASE Redeal
  BY <1>2, RoomAssumption DEF Redeal, Silent, Deal, DealRefused, NewTable, RoomTypeOK
<1> QED BY <1>1, <1>2

\* Those who sit down and get up, and the host who moves them, leave the
\* seats of nobody to nobody.
LEMMA SeatingKeepsRoom ==
  ASSUME RoomTypeOK, Arrive \/ Depart \/ Manage
  PROVE  RoomTypeOK'
<1> USE DEF Kicking, Silent
<1>t. {"bot", "open", "here", "gone", "lapsed"} = SeatState
  BY DEF SeatState, Absent, Occupied
<1>o. Occupied = {"here", "gone", "lapsed"} /\ Absent = {"bot", "open"}
  BY DEF Occupied, Absent
<1>s. \A s \in HumanSeats : {s} \subseteq HumanSeats
  OBVIOUS
<1>1. ASSUME NEW s \in HumanSeats, Occupy(s) \/ GraceEnds(s) \/ Reserve(s) PROVE RoomTypeOK'
  <2>1. CASE Occupy(s)
    BY <2>1, <1>t, <1>s, OccupantsKeep DEF Occupy
  <2>2. CASE GraceEnds(s)
    BY <2>2, <1>t, <1>s, OccupantsKeep DEF GraceEnds
  <2>3. CASE Reserve(s)
    BY <2>3, <1>t, <1>s, OccupantsKeep DEF Reserve
  <2> QED BY <1>1, <2>1, <2>2, <2>3
<1>2. ASSUME ClearGhosts PROVE RoomTypeOK'
  BY <1>2, <1>t, <1>o, OccupantsKeep DEF ClearGhosts
<1>3. ASSUME NEW S \in SUBSET HumanSeats, Disconnect(S) \/ Leave(S) \/ Expel(S)
      PROVE  RoomTypeOK'
  <2>1. CASE Disconnect(S)
    BY <2>1, <1>t, OccupantsKeep DEF Disconnect
  <2>2. CASE Leave(S)
    BY <2>2, <1>t, OccupantsKeep DEF Leave
  <2>3. CASE Expel(S)
    BY <2>3, <1>t, OccupantsKeep DEF Expel
  <2> QED BY <1>3, <2>1, <2>2, <2>3
<1>4. ASSUME NEW s \in HumanSeats, NEW a \in Absent, HostVacate(s, a) PROVE RoomTypeOK'
  BY <1>4, <1>t, <1>o, <1>s, OccupantsKeep DEF HostVacate
<1>5. ASSUME NEW s \in HumanSeats, NEW t \in HumanSeats, HostMove(s, t) PROVE RoomTypeOK'
  <2>1. /\ seats' = [seats EXCEPT ![t] = seats[s],
                                  ![s] = IF seats[t] \in Occupied THEN seats[t] ELSE "bot"]
        /\ UNCHANGED <<board, mode, paused>>
    BY <1>5 DEF HostMove
  <2>2. /\ seats \in [Seat -> SeatState] /\ s \in Seat /\ t \in Seat /\ "bot" \in SeatState
        /\ \A r \in Seat \ HumanSeats : seats[r] \notin Occupied
    BY <1>t, RoomAssumption DEF RoomTypeOK
  <2>3. seats' \in [Seat -> SeatState]
    BY <2>1, <2>2
  <2>4. \A r \in Seat \ HumanSeats : seats'[r] = seats[r]
    BY <2>1, <2>2
  <2> QED BY <2>1, <2>2, <2>3, <2>4 DEF RoomTypeOK
<1>6. CASE Arrive
  BY <1>6, <1>1, <1>2 DEF Arrive
<1>7. CASE Depart
  BY <1>7, <1>1, <1>3 DEF Depart
<1>8. CASE Manage
  BY <1>8, <1>1, <1>3, <1>4, <1>5 DEF Manage
<1> QED BY <1>6, <1>7, <1>8

\* So do the handlers that change the mode or the pause.
LEMMA PeopleKeepRoom ==
  ASSUME RoomTypeOK, People
  PROVE  RoomTypeOK'
<1>1. CASE ChangeMode
  <2>1. PICK m \in Modes : SetBoardMode(m)
    BY <1>1 DEF ChangeMode, Kicking, Silent
  <2> QED BY <2>1, RoomAssumption DEF SetBoardMode, RoomTypeOK
<1>2. CASE Pause \/ Resume
  BY <1>2 DEF Pause, Resume, Silent, SetBotsPaused, RoomTypeOK
<1> QED BY <1>1, <1>2, PlayersKeepRoom, SeatingKeepsRoom DEF People

\* No more handlers are on their way to their kick than there may be.
LEMMA PeopleKicks ==
  ASSUME kicks \in 0 .. MaxKicks, People
  PROVE  kicks' \in 0 .. MaxKicks
<1>1. kicks' = kicks \/ (kicks < MaxKicks /\ kicks' = kicks + 1)
  <2> USE DEF Kicking, Silent
  <2>1. CASE MakeCall \/ PlayCard \/ Undo \/ Redeal
    BY <2>1 DEF MakeCall, PlayCard, Undo, Redeal
  <2>2. CASE Arrive \/ Depart \/ Manage
    BY <2>2 DEF Arrive, Depart, Manage
  <2>3. CASE ChangeMode \/ Pause \/ Resume
    BY <2>3 DEF ChangeMode, Pause, Resume
  <2> QED BY <2>1, <2>2, <2>3 DEF People
<1> QED BY <1>1, DriverAssumption

\* A task carries a suggestion away from the lock, and gets rid of it when
\* it is back.
LEMMA TaskCarries ==
  ASSUME TypeInv, NEW t \in Task, TaskStep(t)
  PROVE  /\ pending' = [u \in Task |-> pending'[u]] /\ DOMAIN pending' = Task
         /\ Carrying'
<1> USE DEF TypeInv
<1>1. PcOK
  BY DEF DriverInv
<1>2. \A u \in Task \ {t} : pc'[u] = pc[u]
  <2>1. TaskMoves(t)
    BY <1>1, TaskStepMoves
  <2> QED BY <1>1, <2>1 DEF TaskMoves, PcOK
<1>3. CASE UNCHANGED pending /\ pc[t] # "think" /\ pc'[t] # "think"
  BY <1>2, <1>3 DEF Carrying
<1>4. ASSUME NEW p, pending' = [pending EXCEPT ![t] = p], p # NoPending <=> pc'[t] = "think"
      PROVE  /\ pending' = [u \in Task |-> pending'[u]] /\ DOMAIN pending' = Task
             /\ Carrying'
  <2>1. pending'[t] = p /\ \A u \in Task \ {t} : pending'[u] = pending[u]
    BY <1>4
  <2>2. pending' = [u \in Task |-> pending'[u]] /\ DOMAIN pending' = Task
    BY <1>4
  <2>3. Carrying'
    BY <1>2, <1>4, <2>1 DEF Carrying
  <2> QED BY <2>2, <2>3
<1>5. CASE Gate(t) \/ Stop(t) \/ Clear(t) \/ Retake(t)
  BY <1>1, <1>3, <1>5 DEF Gate, Stop, Clear, Retake, Become, PcOK
<1>6. CASE Recheck(t)
  <2>1. /\ pc[t] = "recheck" /\ UNCHANGED pending
        /\ Become(t, "retake") \/ Become(t, "idle")
    BY <1>6 DEF Recheck
  <2> QED BY <1>1, <1>3, <2>1 DEF Become, PcOK
<1>7. CASE Decide(t)
  <2>1. CASE Become(t, "clear") /\ UNCHANGED pending
    BY <1>1, <1>3, <1>7, <2>1 DEF Decide, Become, PcOK
  <2>2. ASSUME NEW a, pending' = [pending EXCEPT ![t] = [seq |-> Len(actions), action |-> a]],
               Become(t, "think")
        PROVE  /\ pending' = [u \in Task |-> pending'[u]] /\ DOMAIN pending' = Task
               /\ Carrying'
    <3>1. [seq |-> Len(actions), action |-> a] # NoPending
      <4>1. DOMAIN [seq |-> Len(actions), action |-> a] # DOMAIN NoPending
        BY DEF NoPending
      <4> QED BY <4>1
    <3>2. pc'[t] = "think"
      BY <1>1, <2>2 DEF Become, PcOK
    <3> QED BY <1>4, <2>2, <3>1, <3>2
  <2>3. \/ Become(t, "clear") /\ UNCHANGED pending
        \/ /\ Become(t, "think")
           /\ \E a : pending' = [pending EXCEPT ![t] = [seq |-> Len(actions), action |-> a]]
    BY <1>7 DEF Decide
  <2> QED BY <2>1, <2>2, <2>3
<1>8. CASE Finish(t)
  <2>1. /\ pending' = [pending EXCEPT ![t] = NoPending]
        /\ Become(t, "gate") \/ Become(t, "clear")
    BY <1>8 DEF Finish, Discard, Land, Rejected
  <2>2. pc'[t] # "think"
    BY <1>1, <2>1 DEF Become, PcOK
  <2> QED BY <1>4, <2>1, <2>2
<1> QED BY <1>5, <1>6, <1>7, <1>8 DEF TaskStep

\* A task changes nothing of the room but the log of its table.
LEMMA TaskKeepsRoom ==
  ASSUME RoomTypeOK, NEW t \in Task, TaskStep(t)
  PROVE  RoomTypeOK' /\ UNCHANGED kicks
<1>1. UNCHANGED <<board, seats, mode, paused, kicks>>
  BY DEF TaskStep, Gate, Stop, Decide, Clear, Recheck, Retake, Finish, Discard, Land, Rejected,
         Apply, roomVars
<1> QED BY <1>1 DEF RoomTypeOK

\* A kick carries nothing.
LEMMA KickCarries ==
  ASSUME TypeInv, Kick
  PROVE  RoomTypeOK' /\ DriverInv' /\ Carrying' /\ UNCHANGED pending
<1>1. DriverInv' /\ UNCHANGED <<roomVars, pending>>
  BY KickKeepsInv DEF TypeInv, Kick
<1>2. RoomTypeOK'
  BY <1>1 DEF TypeInv, RoomTypeOK, roomVars
<1>3. \A t \in Task : pc'[t] = pc[t] \/ (pc[t] = "idle" /\ pc'[t] = "gate")
  BY DEF Kick, Become, TypeInv, DriverInv, PcOK
<1>4. Carrying'
  BY <1>1, <1>3 DEF TypeInv, Carrying
<1> QED BY <1>1, <1>2, <1>4

\* The invariant of the types is inductive.
LEMMA TypeInvInductive == TypeInv /\ [DriverNext]_vars2 => TypeInv'
<1> SUFFICES ASSUME TypeInv, [DriverNext]_vars2 PROVE TypeInv'
  OBVIOUS
<1>1. DriverInv'
  BY DriverInvInductive DEF TypeInv
<1>2. ASSUME NEW t \in Task, TaskStep(t) PROVE TypeInv'
  BY <1>1, <1>2, TaskCarries, TaskKeepsRoom DEF TypeInv
<1>3. CASE HandlerKick
  <2>1. kicks' \in 0 .. MaxKicks
    BY <1>3, DriverAssumption DEF HandlerKick, TypeInv
  <2> QED BY <1>3, <2>1, KickCarries DEF HandlerKick, TypeInv
<1>4. CASE KeepaliveTick
  BY <1>4, KickCarries DEF KeepaliveTick, TypeInv
<1>5. CASE People
  <2>1. RoomTypeOK' /\ kicks' \in 0 .. MaxKicks /\ UNCHANGED <<pc, pending>>
    BY <1>5, PeopleKeepRoom, PeopleKicks, PeopleSilent DEF TypeInv
  <2> QED BY <1>1, <2>1 DEF TypeInv, Carrying
<1>6. CASE UNCHANGED vars2
  BY <1>1, <1>6 DEF vars2, roomVars, driverVars, TypeInv, Carrying, RoomTypeOK
<1> QED BY <1>2, <1>3, <1>4, <1>5, <1>6 DEF DriverNext

\* It holds at the start.
LEMMA InitTypeInv == DriverInit => TypeInv
<1> SUFFICES ASSUME DriverInit PROVE TypeInv
  OBVIOUS
<1>1. DriverInv
  BY DEF DriverInit, DriverInv, PcOK, OneDriver, Loop
<1>2. RoomTypeOK
  BY RoomAssumption
     DEF DriverInit, RoomInit, Init, RoomTypeOK, SeatState, Absent, Occupied
<1>3. Carrying /\ DOMAIN pending = Task /\ pending = [t \in Task |-> pending[t]]
  BY DEF DriverInit, Carrying
<1> QED BY <1>1, <1>2, <1>3 DEF DriverInit, TypeInv

\* The state of a room and its driver is always of its types: a task carries
\* a suggestion exactly while it thinks, whatever handlers do to the room
\* meanwhile (bots.rs, kick and act_once).
THEOREM DriverTypeCorrect == DriverSpec => []DriverTypeOK
<1>1. TypeInv => DriverTypeOK
  BY DEF TypeInv, DriverTypeOK, DriverInv, PcOK, Carrying
<1> QED BY <1>1, InitTypeInv, TypeInvInductive, PTL DEF DriverSpec

-----------------------------------------------------------------------------
(* The driver plays the table. *)

\* What a task carries away from the lock is an action of a table: of the
\* one it looked at, and still so when the board has been dealt anew.
Playable == \A t \in Task : pc[t] = "think" => pending[t].action \in Action

\* The inductive invariant of a room with its driver: the log is sound with
\* every log an undo can bring back, and the suggestions are actions.
PlayInv == TypeInv /\ Inv /\ Playable

\* What people do to the table.
LEMMA PeoplePlay ==
  ASSUME Inv, People
  PROVE  TableStep
<1> USE DEF TableStep, Kicking, Silent
<1>1. CASE MakeCall
  <2>1. PICK call \in Calls : HumanCall(call)
    BY <1>1 DEF MakeCall
  <2> QED BY <2>1, TurnActions DEF HumanCall
<1>2. CASE PlayCard
  BY <1>2, TurnActions DEF PlayCard, HumanPlay
<1>3. CASE Undo
  <2>1. \E n : UndoTo(n)
    BY <1>3 DEF Undo, HumanUndo, HumanUndoLast
  <2> QED BY <2>1 DEF UndoTo
<1>4. CASE Redeal
  BY <1>4 DEF Redeal, Deal, DealRefused
<1>5. CASE Arrive \/ Depart \/ Manage
  BY <1>5 DEF Arrive, Depart, Manage, Occupy, ClearGhosts, Disconnect, GraceEnds, Leave,
              Expel, HostVacate, Reserve, HostMove, SetSeats
<1>6. CASE ChangeMode
  BY <1>6 DEF ChangeMode, SetBoardMode
<1>7. CASE Pause \/ Resume
  BY <1>7 DEF Pause, Resume, SetBotsPaused
<1> QED BY <1>1, <1>2, <1>3, <1>4, <1>5, <1>6, <1>7 DEF People

\* What a task does to the table: nothing, or what it carries, if the table
\* of that moment admits it.
LEMMA TaskPlays ==
  ASSUME PlayInv, NEW t \in Task, TaskStep(t)
  PROVE  TableStep
<1>1. CASE Finish(t)
  <2>1. pending[t].action \in Action
    BY <1>1 DEF Finish, PlayInv, Playable
  <2> QED BY <1>1, <2>1 DEF Finish, Discard, Land, Rejected, TableStep, roomVars
<1>2. CASE ~Finish(t)
  BY <1>2 DEF TaskStep, Gate, Stop, Decide, Clear, Recheck, Retake, TableStep, roomVars
<1> QED BY <1>1, <1>2

\* A suggestion is made of the turn a task sees under the lock.
LEMMA TaskSuggests ==
  ASSUME PlayInv, NEW t \in Task, TaskStep(t)
  PROVE  Playable'
<1> USE DEF Playable
<1>1. PcOK /\ DOMAIN pending = Task /\ pending = [u \in Task |-> pending[u]]
  BY DEF PlayInv, TypeInv, DriverInv
<1>2. \A u \in Task \ {t} : pc'[u] = pc[u]
  <2>1. TaskMoves(t)
    BY <1>1, TaskStepMoves
  <2> QED BY <1>1, <2>1 DEF TaskMoves, PcOK
<1>3. ASSUME NEW p, pending' = [pending EXCEPT ![t] = p] \/ UNCHANGED pending,
             pc'[t] = "think" => p.action \in Action /\ pending' = [pending EXCEPT ![t] = p]
      PROVE  Playable'
  <2>1. \A u \in Task \ {t} : pending'[u] = pending[u]
    BY <1>1, <1>3
  <2>2. pc'[t] = "think" => pending'[t].action \in Action
    BY <1>1, <1>3
  <2> QED BY <1>2, <2>1, <2>2 DEF PlayInv
<1>4. CASE Decide(t)
  <2> DEFINE f == Fold(board, actions)
             Held(a) == [seq |-> Len(actions), action |-> a]
  <2>1. CASE Become(t, "clear") /\ UNCHANGED pending
    <3>1. pc'[t] # "think"
      BY <1>1, <2>1 DEF Become, PcOK
    <3> QED BY <1>3, <2>1, <3>1
  <2>2. CASE BotMustAct(f)
    <3>1. PICK a \in Suggestions(board, f) : pending' = [pending EXCEPT ![t] = Held(a)]
      BY <1>4, <2>2 DEF Decide
    <3>2. a \in Action
      BY <2>2, <3>1, TurnActions DEF BotMustAct, PlayInv
    <3>3. Held(a).action \in Action
      BY <3>2
    <3> QED BY <1>3, <3>1, <3>3
  <2> QED BY <1>4, <2>1, <2>2 DEF Decide
<1>5. CASE ~Decide(t)
  <2>1. pc'[t] # "think"
    BY <1>1, <1>5 DEF TaskStep, Gate, Stop, Finish, Discard, Land, Rejected, Clear, Recheck,
                      Retake, Become, PcOK
  <2>2. \A u \in Task \ {t} : pending'[u] = pending[u]
    BY <1>1, <1>5 DEF TaskStep, Gate, Stop, Finish, Clear, Recheck, Retake
  <2> QED BY <1>2, <2>1, <2>2 DEF PlayInv
<1> QED BY <1>4, <1>5

\* A step of a room with its driver is one of its table.
LEMMA DriverPlays == PlayInv /\ [DriverNext]_vars2 => TableStep
<1> SUFFICES ASSUME PlayInv, [DriverNext]_vars2 PROVE TableStep
  OBVIOUS
<1>1. ASSUME NEW t \in Task, TaskStep(t) PROVE TableStep
  BY <1>1, TaskPlays
<1>2. CASE HandlerKick \/ KeepaliveTick
  BY <1>2 DEF HandlerKick, KeepaliveTick, Kick, TableStep, roomVars
<1>3. CASE People
  BY <1>3, PeoplePlay DEF PlayInv
<1>4. CASE UNCHANGED vars2
  BY <1>4 DEF vars2, roomVars, TableStep
<1> QED BY <1>1, <1>2, <1>3, <1>4 DEF DriverNext

\* The invariant is inductive.
LEMMA PlayInvInductive == PlayInv /\ [DriverNext]_vars2 => PlayInv'
<1> SUFFICES ASSUME PlayInv, [DriverNext]_vars2 PROVE PlayInv'
  OBVIOUS
<1>1. TypeInv'
  BY TypeInvInductive DEF PlayInv
<1>2. Inv'
  BY DriverPlays, LogStep, StepInv DEF PlayInv
<1>3. ASSUME NEW t \in Task, TaskStep(t) PROVE Playable'
  BY <1>3, TaskSuggests
<1>4. ASSUME HandlerKick \/ KeepaliveTick PROVE Playable'
  <2>1. UNCHANGED pending /\ \A t \in Task : pc'[t] = pc[t] \/ pc'[t] = "gate"
    BY <1>4 DEF HandlerKick, KeepaliveTick, Kick, Become, PlayInv, TypeInv, DriverInv, PcOK
  <2> QED BY <2>1 DEF PlayInv, Playable
<1>5. ASSUME People PROVE Playable'
  BY <1>5, PeopleSilent DEF PlayInv, Playable
<1>6. ASSUME UNCHANGED vars2 PROVE Playable'
  BY <1>6 DEF vars2, driverVars, PlayInv, Playable
<1> QED BY <1>1, <1>2, <1>3, <1>4, <1>5, <1>6 DEF PlayInv, DriverNext

\* However bots think about a board that people go on with, take back and
\* deal anew, what lands is a step of the table's own log, so that all that
\* is proved of the log holds of a room with its driver (bots.rs, act_once;
\* table.rs, apply).
THEOREM DriverPlaysTheTable == DriverSpec => Spec
<1>1. DriverInit => PlayInv /\ Init
  <2> SUFFICES ASSUME DriverInit PROVE PlayInv /\ Init
    OBVIOUS
  <2>1. Init
    BY DEF DriverInit, RoomInit
  <2>2. Playable
    BY DEF DriverInit, Playable
  <2> QED BY <2>1, <2>2, InitTypeInv, InitInv DEF PlayInv
<1>2. PlayInv /\ [DriverNext]_vars2 => [Next]_vars
  BY DriverPlays, LogStep DEF PlayInv
<1> QED BY <1>1, <1>2, PlayInvInductive, PTL DEF DriverSpec, Spec

=============================================================================
