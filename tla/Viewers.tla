------------------------------- MODULE Viewers -------------------------------
(***************************************************************************)
(* How the connections at one table keep up with it (src/src/routes/ws.rs) *)
(* and learn that its session is closed (routes/admin.rs).  What changes   *)
(* the table does so under its lock and announces it afterwards, on a      *)
(* channel that keeps the last few messages for each subscriber; a         *)
(* connection sends its client a snapshot of the table first, then every   *)
(* message, and another snapshot whenever it is asked to or has lagged.    *)
(* An action of the table is an identity, and what a client has been told  *)
(* a set of them; the board itself is the first.                           *)
(***************************************************************************)
EXTENDS Integers, Sequences, SequencesExt, FiniteSets

CONSTANTS
  Conn,      \* connections
  Sender,    \* handlers and drivers that change the table
  Capacity,  \* messages the channel keeps for a subscriber, 256 in the code
  MaxId      \* bound: boards and actions in all

ASSUME ViewersAssumption ==
  /\ Capacity \in Nat \ {0} /\ MaxId \in Nat \ {0}

VARIABLES
  log,        \* the table: its board and the actions on it
  lastId,     \* the identities given out
  outbox,     \* what each sender has still to announce
  registry,   \* whose session is registered under the name
  closing,    \* how far the closing of this one has come
  consoles,   \* the connections of teachers that do not play
  pc,         \* how far each connection has come
  told,       \* what its client has been told of the table
  queue,      \* the messages kept for it
  lagged,     \* whether messages for it were dropped
  bell,       \* whether the console has been woken
  missed,     \* history: connections for which a message fell between their
              \* first snapshot and their subscription
  overtaken,  \* history: actions taken back before they were announced
  hearers     \* history: connections that listened when the session closed,
              \* and have not lost the news of it

tableVars == <<log, lastId, outbox>>
sessionVars == <<registry, closing>>
connVars == <<consoles, pc, told, queue, lagged, bell>>
historyVars == <<missed, overtaken, hearers>>
vars == <<tableVars, sessionVars, connVars, historyVars>>

-----------------------------------------------------------------------------
(* The channel. *)

Action(id) == [kind |-> "action", id |-> id]
Notice == [kind |-> "notice"]
Resync == [kind |-> "resync"]
Closed == [kind |-> "closed"]

Message == {Action(id) : id \in 1 .. MaxId} \cup {Notice, Resync, Closed}

\* Connections that have a receiver of the channel of the table, and of the
\* notices of the session.
Subscribed == {c \in Conn : pc[c] \in {"subscribed", "open", "resync"}}
Listening == {c \in consoles : pc[c] \in {"console", "subscribed", "open", "resync"}}

\* Slip: the queue grows without a bound.
NeverFull(c) == FALSE

Full(c) == c \in Subscribed /\ Len(queue[c]) >= Capacity

\* Everyone subscribed gets the message; a full queue loses its oldest.  Who
\* has taken a snapshot and not yet subscribed misses it: that matters if it
\* says anything of the log.
Publish(m, heard) ==
  /\ queue' = [c \in Conn |->
       IF c \notin Subscribed THEN queue[c]
       ELSE Append(IF Full(c) THEN Tail(queue[c]) ELSE queue[c], m)]
  /\ lagged' = [c \in Conn |-> lagged[c] \/ Full(c)]
  /\ missed' = IF m.kind \in {"action", "resync"}
               THEN missed \cup {c \in Conn : pc[c] = "snapped"} ELSE missed
  /\ hearers' = heard \ {c \in Conn \ consoles : Full(c) /\ Head(queue[c]) = Closed}

Ring == bell' = [c \in Conn |-> bell[c] \/ c \in Listening]

-----------------------------------------------------------------------------
(* The table and those who change it. *)

Announce(s, messages) == outbox[s] = <<>> /\ outbox' = [outbox EXCEPT ![s] = messages]

Unannounced == {id \in 1 .. MaxId : \E s \in Sender : Action(id) \in Range(outbox[s])}

\* A call or a card; one that ends the board, or the opening lead of a bot,
\* asks for snapshots as well.
Act(s, shown) ==
  /\ lastId < MaxId
  /\ lastId' = lastId + 1
  /\ log' = Append(log, lastId + 1)
  /\ Announce(s, IF shown THEN <<Action(lastId + 1), Resync>> ELSE <<Action(lastId + 1)>>)
  /\ UNCHANGED <<sessionVars, connVars, historyVars>>

\* Slip: an undo asks for no snapshots.
UndoSilently(s, n) ==
  /\ n \in 1 .. Len(log)
  /\ log' = SubSeq(log, 1, n)
  /\ Announce(s, <<>>)
  /\ overtaken' = overtaken \cup (Unannounced \ Range(log'))
  /\ UNCHANGED <<lastId, sessionVars, connVars, missed, hearers>>

\* Back to any earlier action.  The event that names the undo goes out as a
\* notice before the request for snapshots.
Undo(s, n) ==
  /\ n \in 1 .. Len(log)
  /\ log' = SubSeq(log, 1, n)
  /\ Announce(s, <<Resync>>)
  /\ overtaken' = overtaken \cup (Unannounced \ Range(log'))
  /\ UNCHANGED <<lastId, sessionVars, connVars, missed, hearers>>

\* A new board.
Redeal(s) ==
  /\ lastId < MaxId
  /\ lastId' = lastId + 1
  /\ log' = <<lastId + 1>>
  /\ Announce(s, <<Resync>>)
  /\ overtaken' = overtaken \cup Unannounced
  /\ UNCHANGED <<sessionVars, connVars, missed, hearers>>

\* The lock is released: the announcements go out one by one.
Send(s) ==
  /\ outbox[s] # <<>>
  /\ Publish(Head(outbox[s]), hearers)
  /\ outbox' = [outbox EXCEPT ![s] = Tail(@)]
  /\ Ring
  /\ UNCHANGED <<log, lastId, sessionVars, consoles, pc, told, overtaken>>

-----------------------------------------------------------------------------
(* Connections. *)

\* It finds its session under the name, and is a player's or a console.
Arrive(c) ==
  /\ pc[c] = "new"
  /\ registry = "this"
  /\ \/ pc' = [pc EXCEPT ![c] = "found"] /\ UNCHANGED consoles
     \/ pc' = [pc EXCEPT ![c] = "console"] /\ consoles' = consoles \cup {c}
  /\ UNCHANGED <<tableVars, sessionVars, told, queue, lagged, bell, historyVars>>

\* A player takes its snapshot, announces its seat and then subscribes.
FirstSnapshot(c) ==
  /\ pc[c] = "found"
  /\ told' = [told EXCEPT ![c] = Range(log)]
  /\ pc' = [pc EXCEPT ![c] = "snapped"]
  /\ Publish(Notice, hearers)
  /\ Ring
  /\ UNCHANGED <<tableVars, sessionVars, consoles, overtaken>>

Subscribe(c) ==
  /\ pc[c] = "snapped"
  /\ pc' = [pc EXCEPT ![c] = "open"]
  /\ UNCHANGED <<tableVars, sessionVars, consoles, told, queue, lagged, bell, historyVars>>

\* A teacher subscribes to the table it watches and then takes the snapshot.
Kibitz(c) ==
  /\ pc[c] = "console"
  /\ pc' = [pc EXCEPT ![c] = "subscribed"]
  /\ UNCHANGED <<tableVars, sessionVars, consoles, told, queue, lagged, bell, historyVars>>

\* A snapshot of the table as it is now.
Snapshot(c) ==
  /\ pc[c] \in {"subscribed", "resync"}
  /\ told' = [told EXCEPT ![c] = Range(log)]
  /\ pc' = [pc EXCEPT ![c] = "open"]
  /\ UNCHANGED <<tableVars, sessionVars, consoles, queue, lagged, bell, historyVars>>

\* Slip: a connection that lags goes on with what is left.
LagIgnored(c) ==
  /\ pc[c] = "open" /\ lagged[c]
  /\ lagged' = [lagged EXCEPT ![c] = FALSE]
  /\ UNCHANGED <<tableVars, sessionVars, consoles, pc, told, queue, bell, historyVars>>

\* Messages were dropped: the client is to get a snapshot, and then what is
\* still in the queue.
Lag(c) ==
  /\ pc[c] = "open" /\ lagged[c]
  /\ lagged' = [lagged EXCEPT ![c] = FALSE]
  /\ pc' = [pc EXCEPT ![c] = "resync"]
  /\ UNCHANGED <<tableVars, sessionVars, consoles, told, queue, bell, historyVars>>

\* The connection ends, and its receivers with it.
Ends(c) ==
  /\ pc' = [pc EXCEPT ![c] = "done"]
  /\ queue' = [queue EXCEPT ![c] = <<>>]
  /\ told' = [told EXCEPT ![c] = {}]
  /\ lagged' = [lagged EXCEPT ![c] = FALSE]

\* Slip: a player passes the closing on like any other event.
PassesOn(c) == FALSE

\* A player hangs up once it has passed on that the session is closed.
HangsUp(c) == c \notin consoles /\ Head(queue[c]) = Closed

Receive(c) ==
  /\ pc[c] = "open" /\ ~lagged[c] /\ queue[c] # <<>>
  /\ \/ HangsUp(c) /\ Ends(c)
     \/ /\ ~HangsUp(c)
        /\ \E m \in {Head(queue[c])} :
             /\ told' = IF m.kind = "action" THEN [told EXCEPT ![c] = @ \cup {m.id}] ELSE told
             /\ pc' = [pc EXCEPT ![c] = IF m = Resync THEN "resync" ELSE "open"]
        /\ queue' = [queue EXCEPT ![c] = Tail(@)]
        /\ UNCHANGED lagged
  /\ UNCHANGED <<tableVars, sessionVars, consoles, bell, historyVars>>

\* A console that is woken looks whether its session is still registered.
Wake(c) ==
  /\ c \in Listening /\ bell[c]
  /\ bell' = [bell EXCEPT ![c] = FALSE]
  /\ \/ registry = "none" /\ Ends(c)
     \/ registry # "none" /\ UNCHANGED <<pc, told, queue, lagged>>
  /\ UNCHANGED <<tableVars, sessionVars, consoles, historyVars>>

\* A socket ends.
Leave(c) ==
  /\ pc[c] = "open"
  /\ Ends(c)
  /\ UNCHANGED <<tableVars, sessionVars, consoles, bell, historyVars>>

\* A notice to the table: of the seats, of the roster, of an undo or a deal.
Note ==
  /\ Publish(Notice, hearers)
  /\ Ring
  /\ UNCHANGED <<tableVars, sessionVars, consoles, pc, told, overtaken>>

-----------------------------------------------------------------------------
(* The session and its name. *)

\* It is taken out of the registry first,
Close ==
  /\ registry = "this"
  /\ registry' = "none"
  /\ closing' = "removed"
  /\ UNCHANGED <<tableVars, connVars, historyVars>>

\* then the tables are told,
CloseTables ==
  /\ closing = "removed"
  /\ closing' = "announced"
  /\ Publish(Closed, hearers \cup (Subscribed \ consoles))
  /\ UNCHANGED <<tableVars, registry, consoles, pc, told, bell, overtaken>>

\* Slip: the consoles are not woken.
CloseSilently ==
  /\ closing = "announced"
  /\ closing' = "closed"
  /\ hearers' = hearers \cup (IF registry = "none" THEN Listening ELSE {})
  /\ UNCHANGED <<tableVars, registry, connVars, missed, overtaken>>

\* and the consoles woken.
CloseConsoles ==
  /\ closing = "announced"
  /\ closing' = "closed"
  /\ Ring
  /\ hearers' = hearers \cup (IF registry = "none" THEN Listening ELSE {})
  /\ UNCHANGED <<tableVars, registry, consoles, pc, told, queue, lagged, missed, overtaken>>

\* The name is given to a new session, and a console of this one that has
\* not yet looked takes it for its own.
Create ==
  /\ registry = "none"
  /\ registry' = "other"
  /\ hearers' = hearers \ {c \in consoles : pc[c] # "done"}
  /\ UNCHANGED <<tableVars, closing, connVars, missed, overtaken>>

-----------------------------------------------------------------------------

Init ==
  /\ log = <<1>> /\ lastId = 1
  /\ outbox = [s \in Sender |-> <<>>]
  /\ registry = "this" /\ closing = "open"
  /\ pc = [c \in Conn |-> "new"]
  /\ told = [c \in Conn |-> {}]
  /\ queue = [c \in Conn |-> <<>>]
  /\ lagged = [c \in Conn |-> FALSE]
  /\ consoles = {}
  /\ bell = [c \in Conn |-> FALSE]
  /\ missed = {} /\ overtaken = {} /\ hearers = {}

Turn(c) ==
  \/ FirstSnapshot(c) \/ Subscribe(c) \/ Kibitz(c) \/ Snapshot(c)
  \/ Lag(c) \/ Receive(c)

Next ==
  \/ \E s \in Sender : \/ \E shown \in BOOLEAN : Act(s, shown)
                       \/ \E n \in 1 .. Len(log) : Undo(s, n)
                       \/ Redeal(s)
                       \/ Send(s)
  \/ \E c \in Conn : Arrive(c) \/ Turn(c) \/ Wake(c) \/ Leave(c)
  \/ Note
  \/ Close \/ CloseTables \/ CloseConsoles \/ Create

Spec == Init /\ [][Next]_vars

\* The runtime goes on with every connection that can go on, and its select
\* takes its branches at random.
FairSpec ==
  /\ Spec
  /\ \A c \in Conn : WF_vars(Turn(c)) /\ WF_vars(Wake(c))

-----------------------------------------------------------------------------
(* What the clients get to know. *)

TypeOK ==
  /\ log \in Seq(1 .. lastId) /\ log # <<>> /\ lastId \in 1 .. MaxId
  /\ outbox \in [Sender -> Seq(Message)]
  /\ registry \in {"this", "none", "other"}
  /\ closing \in {"open", "removed", "announced", "closed"}
  /\ pc \in [Conn -> {"new", "found", "snapped", "console", "subscribed", "open",
                      "resync", "done"}]
  /\ told \in [Conn -> SUBSET (1 .. lastId)]
  /\ consoles \subseteq Conn
  /\ queue \in [Conn -> Seq(Message)]
  /\ lagged \in [Conn -> BOOLEAN] /\ bell \in [Conn -> BOOLEAN]
  /\ \A c \in Conn : Len(queue[c]) <= Capacity

Waiting(c) == Range(queue[c])
Unsent == UNION {Range(outbox[s]) : s \in Sender}

\* A snapshot is on its way to the client.
Refreshes(c) ==
  \/ pc[c] \in {"subscribed", "resync"} \/ lagged[c]
  \/ Resync \in Waiting(c) \cup Unsent

\* No call or card is lost to a client: what is on the table it has been
\* told, or is about to be told, however far its connection lags; unless a
\* message fell between its first snapshot and its subscription.
NothingLost ==
  \A c \in Conn : pc[c] = "open" /\ c \notin missed /\ ~Refreshes(c) =>
    \A id \in Range(log) : id \in told[c] \/ Action(id) \in Waiting(c) \cup Unsent

\* A client is left with nothing that was taken back: a snapshot is on its
\* way that takes it from the client too; unless the undo overtook the
\* announcement of what it took back.
NoGhosts ==
  \A c \in Conn : pc[c] = "open" /\ c \notin missed /\ ~Refreshes(c) =>
    told[c] \subseteq Range(log) \cup overtaken

\* Everyone who listened when the session was closed hangs up, even if
\* lagging; unless later messages drive the news out of a player's queue, or
\* a console finds a new session under the name.
ClosedHangUp ==
  \A c \in Conn : c \in hearers ~> (pc[c] = "done" \/ c \notin hearers)
=============================================================================
