-------------------------------- MODULE Room --------------------------------
(***************************************************************************)
(* A room: one table with its seats and its board mode, and the handlers   *)
(* that change them (src/src/rooms.rs, routes/ws.rs, sessions.rs).  Every  *)
(* action is what one handler does while it holds the lock of the room.    *)
(*                                                                         *)
(* Who sits where is abstracted to what the rest of the code asks of a     *)
(* seat: whether somebody occupies it, whether that occupant is connected, *)
(* and for how long not.                                                   *)
(***************************************************************************)
EXTENDS TableLog

CONSTANTS
  Modes,        \* the board modes the host may choose
  HumanSeats    \* the seats people may take

BoardModes == {"bidAndPlay", "bidOnly", "playOnly"}

ASSUME RoomAssumption ==
  /\ Modes \subseteq BoardModes
  /\ HumanSeats \subseteq Seat

VARIABLES
  seats,    \* the state of each seat
  mode,     \* how boards run at this table
  paused    \* whether the host has paused the bots of the session

(***************************************************************************)
(* An absent seat is a bot's or, when the host left it open, nobody's; an  *)
(* occupant is here, gone (disconnected) or lapsed (disconnected for       *)
(* longer than the grace of a seat on turn).                               *)
(***************************************************************************)
Absent   == {"bot", "open"}
Occupied == {"here", "gone", "lapsed"}
SeatState == Absent \cup Occupied

-----------------------------------------------------------------------------
(* Who controls a seat. *)

SeatBotControlled(s) == seats[s] \in {"bot", "lapsed"}

\* A human declarer plays both hands of the side; so does a human dummy
\* whose declarer is a bot.
DeclarerSideController(declarer) ==
  IF SeatBotControlled(declarer) /\ ~SeatBotControlled(Partner(declarer))
  THEN Partner(declarer) ELSE declarer

OnDeclarerSide(f, s) ==
  f.contract # NoContract /\ s \in {f.contract.declarer, Dummy(f.contract)}

Controller(f, s) ==
  IF OnDeclarerSide(f, s) THEN DeclarerSideController(f.contract.declarer) ELSE s

IsBotSeat(f, s) == SeatBotControlled(Controller(f, s))

\* No bot plays a card on a bid-only board; on a play-only board bots call
\* for every seat.
ModeAllowsBot(f) == ~(mode = "bidOnly" /\ f.phase = "play")
ModeForcesBot(f) == mode = "playOnly" /\ f.phase = "bidding"

\* Whether the driver, looking at the fold f, acts.
BotMustAct(f) ==
  f.turn # NoSeat /\ ModeAllowsBot(f) /\ (ModeForcesBot(f) \/ IsBotSeat(f, f.turn))

\* What a bot may come to suggest from the fold f: any legal call, a pass
\* when its backend fails, or any legal card.
Suggestions(b, f) ==
  IF f.phase = "bidding"
  THEN {CallAction(f.turn, c) : c \in {x \in Calls : IsLegal(f.calls, x)}}
  ELSE {PlayAction(f.turn, c) : c \in Legal(b, f, f.turn)}

-----------------------------------------------------------------------------
(* Players.  A person acts for the seat on turn from a connection that     *)
(* holds the seat, or one that controls the declaring side.                *)

Here(s) == seats[s] = "here"

HumanCall(call) ==
  /\ mode # "playOnly"
  /\ \E f \in {Fold(board, actions)} :
       /\ f.turn # NoSeat /\ Here(f.turn)
       /\ Apply(CallAction(f.turn, call))
  /\ UNCHANGED <<seats, mode, paused>>

HumanPlay ==
  /\ mode # "bidOnly"
  /\ \E f \in {Fold(board, actions)} :
       /\ f.turn # NoSeat
       /\ Here(f.turn) \/ Here(Controller(f, f.turn))
       /\ \E c \in Remaining(board, f, f.turn) : Apply(PlayAction(f.turn, c))
  /\ UNCHANGED <<seats, mode, paused>>

\* Undo to a given length: any connection may ask for it.
HumanUndo(n) == UndoTo(n) /\ UNCHANGED <<seats, mode, paused>>

\* The actions of human-controlled seats, and the length of the log before
\* the last of them.
HumanActions == {i \in DOMAIN actions : ~SeatBotControlled(actions[i].seat)}
\* Slip: the last human action itself is kept.
LastHumanActionKept == Max(HumanActions)

LastHumanAction == Max(HumanActions) - 1

\* Undo with no length given: one step while the bots are paused, back to
\* before the last human action while they run.
HumanUndoLast ==
  /\ IF paused THEN actions # <<>> /\ UndoTo(Len(actions) - 1)
               ELSE HumanActions # {} /\ UndoTo(LastHumanAction)
  /\ UNCHANGED <<seats, mode, paused>>

\* A new board, or the same one again, with the board mode it carries.
Deal(b, m) ==
  /\ NewTable(b)
  /\ mode' = m
  /\ UNCHANGED <<seats, paused>>

\* A deal that is refused for its source, after the mode was set.
DealRefused(m) ==
  /\ mode' = m
  /\ UNCHANGED <<board, actions, seats, paused>>

-----------------------------------------------------------------------------
(* Seats. *)

SetSeats(S, state) ==
  /\ seats' = [s \in Seat |-> IF s \in S THEN state ELSE seats[s]]
  /\ seats' # seats
  /\ UNCHANGED <<board, actions, mode, paused>>

Disconnected == {s \in Seat : seats[s] \in {"gone", "lapsed"}}

\* Somebody sits down, returns to the seat or is placed there by the host.
Occupy(s) == SetSeats({s}, "here")

\* The owner of a friends' table returns: the disconnected are cleared away.
ClearGhosts == SetSeats(Disconnected, "bot")

\* A socket drops: the seats of its person are kept, their grace starts
\* anew, and a seat is a bot's once it is over.
Disconnect(S) == (\A s \in S : seats[s] \in Occupied) /\ SetSeats(S, "gone")
GraceEnds(s)  == seats[s] = "gone" /\ SetSeats({s}, "lapsed")

\* A person leaves on purpose: all seats held become bots'.
Leave(S) == (\A s \in S : seats[s] \in Occupied) /\ SetSeats(S, "bot")

\* The host kicks a person: the seats they held when they were looked up
\* become bots', also one that another host has emptied since.
Expel(S) == SetSeats(S, "bot")

\* The host removes an occupant, leaving a bot or nobody in the seat, or
\* turns an absent seat from the one to the other.
HostVacate(s, state) == state \in Absent /\ SetSeats({s}, state)

\* A seat is held for an invited friend: a bot has it until they come.
Reserve(s) == seats[s] = "open" /\ SetSeats({s}, "bot")

\* The host moves an occupant to another seat, or swaps two: a seat left
\* behind is a bot's.
HostMove(s, t) ==
  /\ s # t /\ seats[s] \in Occupied
  /\ seats' = [seats EXCEPT ![t] = seats[s],
                            ![s] = IF seats[t] \in Occupied THEN seats[t] ELSE "bot"]
  /\ UNCHANGED <<board, actions, mode, paused>>

\* What the seating of people does to the seats of one table.
SeatStep ==
  \/ \E s \in HumanSeats : Occupy(s) \/ GraceEnds(s) \/ Reserve(s)
  \/ \E s \in HumanSeats, a \in Absent : HostVacate(s, a)
  \/ \E s, t \in HumanSeats : HostMove(s, t)
  \/ \E S \in SUBSET HumanSeats : Disconnect(S) \/ Leave(S) \/ Expel(S)
  \/ ClearGhosts

-----------------------------------------------------------------------------
(* The host's controls. *)

SetBoardMode(m) ==
  /\ mode' = m
  /\ UNCHANGED <<board, actions, seats, paused>>

SetBotsPaused(on) ==
  /\ paused' = on
  /\ UNCHANGED <<board, actions, seats, mode>>

RoomInit ==
  /\ Init
  /\ seats = [s \in Seat |-> "bot"]
  /\ mode \in Modes
  /\ paused = FALSE

roomVars == <<board, actions, seats, mode, paused>>

RoomTypeOK ==
  /\ board \in Boards
  /\ seats \in [Seat -> SeatState]
  /\ \A s \in Seat \ HumanSeats : seats[s] \notin Occupied
  /\ mode \in BoardModes
  /\ paused \in BOOLEAN

=============================================================================
