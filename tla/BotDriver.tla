----------------------------- MODULE BotDriver -----------------------------
(***************************************************************************)
(* The bot driver of a room (src/src/bots.rs): tasks that decide under the *)
(* lock of the room, think with the lock released, and land their          *)
(* suggestion under the lock again if the log still has the length they    *)
(* saw.  Handlers kick the driver after the lock is released, a watchdog   *)
(* kicks it for ever, and a flag keeps all but one task out.               *)
(***************************************************************************)
EXTENDS Room

CONSTANTS
  Task,        \* the driver tasks that may exist at a time
  MaxKicks     \* handlers that may be on their way to their kick at a time

ASSUME DriverAssumption == MaxKicks \in Nat

VARIABLES
  botRunning,  \* the flag that admits one task
  pc,          \* where each task is
  pending,     \* what a thinking task will suggest, and the log length it saw
  kicks,       \* handlers that have changed the room and not kicked yet
  late         \* history: bot actions that landed since the bots were paused

driverVars == <<botRunning, pc, pending>>
vars2 == <<roomVars, driverVars, kicks, late>>

\* A task that is done, or never started, is "idle".  The loop of a task is
\* gate, decide, think and around; it ends over stop or over clear.
Loop  == {"gate", "stop", "decide", "think", "clear"}
After == {"recheck", "retake"}

NoPending == [seq |-> -1]

Become(t, state) == pc' = [pc EXCEPT ![t] = state]

-----------------------------------------------------------------------------
(* Starting the driver. *)

\* The kick: the first to set the flag spawns a task, the others do nothing.
Kick ==
  /\ IF botRunning
     THEN UNCHANGED <<botRunning, pc>>
     ELSE /\ botRunning' = TRUE
          /\ \E t \in Task : pc[t] = "idle" /\ Become(t, "gate")
  /\ UNCHANGED <<roomVars, pending, late>>

HandlerKick   == kicks > 0 /\ kicks' = kicks - 1 /\ Kick
KeepaliveTick == Kick /\ UNCHANGED kicks

-----------------------------------------------------------------------------
(* A task. *)

\* Slip: a running task does not look at the pause.
GateOpen(t) ==
  /\ pc[t] = "gate"
  /\ Become(t, "decide")
  /\ UNCHANGED <<roomVars, botRunning, pending, kicks, late>>

\* Paused bots stay off: the task leaves without looking at the table again.
Gate(t) ==
  /\ pc[t] = "gate"
  /\ Become(t, IF paused THEN "stop" ELSE "decide")
  /\ UNCHANGED <<roomVars, botRunning, pending, kicks, late>>

\* Slip: the task leaves with the flag up.
StopFlagged(t) ==
  /\ pc[t] = "stop"
  /\ Become(t, "idle")
  /\ UNCHANGED <<roomVars, botRunning, pending, kicks, late>>

Stop(t) ==
  /\ pc[t] = "stop"
  /\ botRunning' = FALSE
  /\ Become(t, "idle")
  /\ UNCHANGED <<roomVars, pending, kicks, late>>

\* Decide under the lock, and take away what the thinking needs.
Decide(t) ==
  /\ pc[t] = "decide"
  /\ \E f \in {Fold(board, actions)} :
       IF BotMustAct(f)
       THEN /\ Become(t, "think")
            /\ \E a \in Suggestions(board, f) :
                 pending' = [pending EXCEPT ![t] = [seq |-> Len(actions), action |-> a]]
       ELSE /\ Become(t, "clear")
            /\ UNCHANGED pending
  /\ UNCHANGED <<roomVars, botRunning, kicks, late>>

\* Under the lock again: discard the suggestion if the log has another
\* length, append it if the table admits it, give up if it does not.
Unchanged(t) == Len(actions) = pending[t].seq

\* Slip: a discarded suggestion is thought about again, from nothing.
DiscardAndThink(t) == ~Unchanged(t) /\ UNCHANGED <<pc, roomVars, late>>

Discard(t) == ~Unchanged(t) /\ Become(t, "gate") /\ UNCHANGED <<roomVars, late>>

Land(t) ==
  /\ Unchanged(t)
  /\ Apply(pending[t].action)
  /\ Become(t, "gate")
  /\ late' = IF paused THEN late + 1 ELSE late
  /\ UNCHANGED <<seats, mode, paused>>

Rejected(t) ==
  /\ Unchanged(t)
  /\ ~Admits(board, actions, pending[t].action)
  /\ Become(t, "clear")
  /\ UNCHANGED <<roomVars, late>>

Finish(t) ==
  /\ pc[t] = "think"
  /\ Discard(t) \/ Land(t) \/ Rejected(t)
  /\ pending' = [pending EXCEPT ![t] = NoPending]
  /\ UNCHANGED <<botRunning, kicks>>

\* Nothing to do: drop the flag, look once more, and take the flag back if
\* a bot has its turn after all.  Each of the three is a step of its own.
Clear(t) ==
  /\ pc[t] = "clear"
  /\ botRunning' = FALSE
  /\ Become(t, "recheck")
  /\ UNCHANGED <<roomVars, pending, kicks, late>>

BotTurnPending(f) == f.turn # NoSeat /\ ModeAllowsBot(f) /\ IsBotSeat(f, f.turn)

Recheck(t) ==
  /\ pc[t] = "recheck"
  /\ Become(t, IF BotTurnPending(Fold(board, actions)) THEN "retake" ELSE "idle")
  /\ UNCHANGED <<roomVars, botRunning, pending, kicks, late>>

\* Slip: the flag is taken back without looking who has it.
RetakeBlindly(t) ==
  /\ pc[t] = "retake"
  /\ botRunning' = TRUE
  /\ Become(t, "gate")
  /\ UNCHANGED <<roomVars, pending, kicks, late>>

Retake(t) ==
  /\ pc[t] = "retake"
  /\ botRunning' = TRUE
  /\ Become(t, IF botRunning THEN "idle" ELSE "gate")
  /\ UNCHANGED <<roomVars, pending, kicks, late>>

TaskStep(t) ==
  Gate(t) \/ Stop(t) \/ Decide(t) \/ Finish(t) \/ Clear(t) \/ Recheck(t) \/ Retake(t)

-----------------------------------------------------------------------------
(* The handlers, and which of them kick. *)

Kicking(A) == kicks < MaxKicks /\ kicks' = kicks + 1 /\ A /\ UNCHANGED <<driverVars, late>>
Silent(A)  == A /\ UNCHANGED <<driverVars, kicks, late>>

MakeCall == \E c \in Calls : Kicking(HumanCall(c))
PlayCard == Kicking(HumanPlay)
Undo     == (\E n \in 0 .. Len(actions) : Kicking(HumanUndo(n))) \/ Kicking(HumanUndoLast)
Redeal   == \E m \in Modes : (\E b \in Boards : Kicking(Deal(b, m))) \/ Silent(DealRefused(m))

Arrive == Kicking(ClearGhosts) \/ \E s \in HumanSeats : Kicking(Occupy(s))
Depart == \/ \E S \in SUBSET HumanSeats : Silent(Disconnect(S)) \/ Silent(Leave(S))
          \/ \E s \in HumanSeats : Silent(GraceEnds(s))
Manage == \/ \E S \in SUBSET HumanSeats : Kicking(Expel(S))
          \/ \E s \in HumanSeats, a \in Absent : Kicking(HostVacate(s, a))
          \/ \E s, t \in HumanSeats : Kicking(HostMove(s, t))
          \/ \E s \in HumanSeats : Silent(Reserve(s))

\* A change of board mode kicks unless the bots are paused.
ChangeMode == \E m \in Modes \ {mode} :
                IF paused THEN Silent(SetBoardMode(m)) ELSE Kicking(SetBoardMode(m))

Pause  == ~paused /\ Silent(SetBotsPaused(TRUE))

Resume ==
  /\ paused /\ SetBotsPaused(FALSE)
  /\ kicks < MaxKicks /\ kicks' = kicks + 1
  /\ late' = 0
  /\ UNCHANGED driverVars

People == MakeCall \/ PlayCard \/ Undo \/ Redeal \/ Arrive \/ Depart \/ Manage
          \/ ChangeMode \/ Pause \/ Resume

DriverInit ==
  /\ RoomInit
  /\ botRunning = FALSE
  /\ pc = [t \in Task |-> "idle"]
  /\ pending = [t \in Task |-> NoPending]
  /\ kicks \in 0 .. MaxKicks    \* the room is kicked when it is opened
  /\ late = 0

DriverNext ==
  \/ \E t \in Task : TaskStep(t)
  \/ HandlerKick
  \/ KeepaliveTick
  \/ People

DriverSpec == DriverInit /\ [][DriverNext]_vars2

\* Weak fairness with its ENABLED worked out: a task that is not idle can
\* always step, and every step moves its pc;
TaskRuns(t) == []<>(pc[t] = "idle") \/ []<><<pc'[t] # pc[t]>>_pc

\* the watchdog does something whenever the flag is down and a task is idle,
\* and only a kick takes a task from there to the gate.
Spawned == kicks' = kicks /\ \E t \in Task : pc[t] = "idle" /\ pc'[t] = "gate"
KeepaliveRuns ==
  []<>(botRunning \/ \A t \in Task : pc[t] # "idle") \/ []<><<Spawned>>_pc

\* The runtime runs every task, backends answer or time out, and the watchdog
\* never stops ticking.  People may do nothing, and even a handler that never
\* came to its kick would be made up for.
FairDriverSpec ==
  /\ DriverSpec
  /\ \A t \in Task : TaskRuns(t)
  /\ KeepaliveRuns

-----------------------------------------------------------------------------
(* Properties. *)

\* Types, and that a task carries a suggestion exactly while it thinks.
DriverTypeOK ==
  /\ RoomTypeOK
  /\ botRunning \in BOOLEAN
  /\ pc \in [Task -> {"idle"} \cup Loop \cup After]
  /\ \A t \in Task : pending[t] # NoPending <=> pc[t] = "think"
  /\ kicks \in 0 .. MaxKicks

\* "Exactly one driver task runs per room": the flag is up exactly while a
\* task is in its loop, and two tasks never are, whatever kicks race with a
\* task that is giving up the flag or taking it back.
OneDriver ==
  /\ \A t, u \in Task : pc[t] \in Loop /\ pc[u] \in Loop => t = u
  /\ botRunning <=> \E t \in Task : pc[t] \in Loop

\* A pause stops the bots: of the suggestions that were being thought about
\* when it came, one may still land, and none after it.
PauseHolds == paused => late <= 1

\* A bot whose turn it is and stays does act: the log of a table that waits
\* for a bot for ever goes on changing, although a kick may be lost.
BotTurn == ~paused /\ BotMustAct(Fold(board, actions))
BotsKeepGoing == <>[]BotTurn => []<><<TRUE>>_<<board, actions>>

=============================================================================
