---------------------------- MODULE ViewersProofs ----------------------------
(***************************************************************************)
(* What the clients of a table get to know, for every number of them, of   *)
(* senders and of messages the channel keeps.  The inductive invariant     *)
(* follows each action from the log to the outboxes and the queues: it     *)
(* rests on the order of a queue, in which a request for a snapshot comes  *)
(* behind every action it takes back.                                      *)
(***************************************************************************)
EXTENDS Viewers, TLAPS

\* What is still to be announced is one of the actions there have been, and is
\* on the table or was taken back since.
Pending == Unannounced \subseteq (1 .. lastId) \cap (Range(log) \cup overtaken)

\* The channel keeps messages for its subscribers only,
KeptFor(c) == queue[c] # <<>> => c \in Subscribed

\* of actions there have been,
Known(c) == \A id \in 1 .. MaxId : Action(id) \in Waiting(c) => id \in 1 .. lastId

\* and one that is taken back has a request for a snapshot behind it.
InOrder(c) ==
  \A i \in DOMAIN queue[c], id \in 1 .. MaxId :
    queue[c][i] = Action(id) =>
      \/ id \in Range(log) \cup overtaken
      \/ Resync \in Unsent
      \/ \E j \in DOMAIN queue[c] : j > i /\ queue[c][j] = Resync

\* From its first snapshot on, a client has what is on the table, or will.
Tracks(c) ==
  pc[c] \in {"snapped", "open"} /\ c \notin missed /\ ~Refreshes(c) =>
    /\ \A id \in Range(log) : id \in told[c] \/ Action(id) \in Waiting(c) \cup Unsent
    /\ told[c] \subseteq Range(log) \cup overtaken

UpToDate(c) == KeptFor(c) /\ Known(c) /\ InOrder(c) /\ Tracks(c)

Inv == TypeOK /\ Pending /\ \A c \in Conn : UpToDate(c)

-----------------------------------------------------------------------------
(* Facts about messages and queues. *)

\* The kind of a message tells what it is.
LEMMA Kinds ==
  /\ Resync \in Message /\ Notice \in Message /\ Closed \in Message
  /\ Resync.kind = "resync" /\ Notice.kind = "notice" /\ Closed.kind = "closed"
  /\ Resync # Notice /\ Resync # Closed /\ Notice # Closed
  /\ \A id \in 1 .. MaxId : /\ Action(id) \in Message /\ Action(id).kind = "action"
                            /\ Action(id).id = id
                            /\ Action(id) \notin {Resync, Notice, Closed}
  /\ \A m \in Message : /\ m.kind = "resync" <=> m = Resync
                        /\ m.kind = "action" <=> \E id \in 1 .. MaxId : m = Action(id)
<1>1. /\ Resync.kind = "resync" /\ Notice.kind = "notice" /\ Closed.kind = "closed"
      /\ \A id : Action(id).kind = "action" /\ Action(id).id = id
  BY DEF Resync, Notice, Closed, Action
<1> QED
  BY <1>1 DEF Message

\* What a tail keeps, and where.
LEMMA OfTail ==
  ASSUME NEW S, NEW s \in Seq(S), s # <<>>
  PROVE  /\ Head(s) \in S /\ Head(s) = s[1] /\ Tail(s) \in Seq(S)
         /\ Len(s) \in Nat /\ Len(s) >= 1 /\ Len(Tail(s)) = Len(s) - 1
         /\ \A i \in 1 .. Len(s) - 1 : Tail(s)[i] = s[i + 1]
         /\ Range(s) = {Head(s)} \cup Range(Tail(s))
<1>1. /\ Head(s) \in S /\ Head(s) = s[1] /\ Tail(s) \in Seq(S)
      /\ Len(s) \in Nat /\ Len(s) >= 1 /\ Len(Tail(s)) = Len(s) - 1
      /\ \A i \in 1 .. Len(s) - 1 : Tail(s)[i] = s[i + 1]
  OBVIOUS
<1>2. DOMAIN s = 1 .. Len(s) /\ DOMAIN Tail(s) = 1 .. Len(s) - 1
  BY <1>1
<1>3. ASSUME NEW i \in 1 .. Len(s) PROVE s[i] \in {Head(s)} \cup Range(Tail(s))
  <2>1. CASE i = 1
    BY <1>1, <2>1
  <2>2. CASE i # 1
    <3>1. i - 1 \in 1 .. Len(s) - 1 /\ (i - 1) + 1 = i
      BY <1>1, <2>2
    <3>2. Tail(s)[i - 1] = s[i]
      BY <1>1, <3>1
    <3> QED
      BY <1>2, <3>1, <3>2 DEF Range
  <2> QED
    BY <2>1, <2>2
<1>4. ASSUME NEW i \in 1 .. Len(s) - 1 PROVE Tail(s)[i] \in Range(s)
  <2>1. i + 1 \in 1 .. Len(s)
    BY <1>1
  <2> QED
    BY <1>1, <1>2, <2>1 DEF Range
<1>5. Head(s) \in Range(s)
  BY <1>1, <1>2 DEF Range
<1>6. Range(s) = {Head(s)} \cup Range(Tail(s))
  BY <1>2, <1>3, <1>4, <1>5 DEF Range
<1> QED
  BY <1>1, <1>6

LEMMA OfAppend ==
  ASSUME NEW S, NEW s \in Seq(S), NEW x \in S
  PROVE  /\ Append(s, x) \in Seq(S) /\ Append(s, x) # <<>>
         /\ Len(s) \in Nat /\ Len(Append(s, x)) = Len(s) + 1
         /\ \A i \in 1 .. Len(s) : Append(s, x)[i] = s[i]
         /\ Append(s, x)[Len(s) + 1] = x
         /\ Range(Append(s, x)) = Range(s) \cup {x}
<1>1. /\ Append(s, x) \in Seq(S) /\ Append(s, x) # <<>>
      /\ Len(s) \in Nat /\ Len(Append(s, x)) = Len(s) + 1
      /\ \A i \in 1 .. Len(s) : Append(s, x)[i] = s[i]
      /\ Append(s, x)[Len(s) + 1] = x
  OBVIOUS
<1>2. Range(Append(s, x)) = Range(s) \cup {x}
  BY <1>1 DEF Range
<1> QED
  BY <1>1, <1>2

\* Back to an earlier point of the log.
LEMMA OfFront ==
  ASSUME NEW S, NEW s \in Seq(S), NEW n \in 1 .. Len(s)
  PROVE  /\ SubSeq(s, 1, n) \in Seq(S) /\ SubSeq(s, 1, n) # <<>>
         /\ Range(SubSeq(s, 1, n)) \subseteq Range(s)
<1>1. /\ SubSeq(s, 1, n) \in Seq(S) /\ Len(SubSeq(s, 1, n)) = n /\ n >= 1
      /\ \A i \in 1 .. n : SubSeq(s, 1, n)[i] = s[i] /\ i \in DOMAIN s
  OBVIOUS
<1>2. SubSeq(s, 1, n) # <<>>
  BY <1>1
<1>3. DOMAIN SubSeq(s, 1, n) = 1 .. n
  BY <1>1
<1> QED
  BY <1>1, <1>2, <1>3 DEF Range

LEMMA OfOne ==
  ASSUME NEW x
  PROVE  Range(<<x>>) = {x}
<1>1. DOMAIN <<x>> = {1} /\ <<x>>[1] = x
  OBVIOUS
<1> QED
  BY <1>1 DEF Range

LEMMA OfTwo ==
  ASSUME NEW x, NEW y
  PROVE  Range(<<x, y>>) = {x, y}
<1>1. DOMAIN <<x, y>> = {1, 2} /\ <<x, y>>[1] = x /\ <<x, y>>[2] = y
  OBVIOUS
<1> QED
  BY <1>1 DEF Range

LEMMA OfNone == DOMAIN <<>> = {} /\ Range(<<>>) = {}
<1>1. DOMAIN <<>> = {}
  OBVIOUS
<1> QED
  BY <1>1 DEF Range

\* What one sender hands over or sends changes what is unsent by just that.
LEMMA OutboxStep ==
  ASSUME NEW s \in Sender, DOMAIN outbox = Sender, NEW ms, outbox' = [outbox EXCEPT ![s] = ms]
  PROVE  /\ outbox[s] = <<>> => Unsent' = Unsent \cup Range(ms)
         /\ Range(ms) \subseteq Range(outbox[s]) => Unsent' \subseteq Unsent
         /\ \A x : Range(outbox[s]) = {x} \cup Range(ms) => Unsent \subseteq Unsent' \cup {x}
<1>1. outbox'[s] = ms /\ \A r \in Sender \ {s} : outbox'[r] = outbox[r]
  OBVIOUS
<1>2. Range(<<>>) = {}
  BY OfNone
<1>3. ASSUME outbox[s] = <<>> PROVE Unsent' = Unsent \cup Range(ms)
  BY <1>1, <1>2, <1>3 DEF Unsent
<1>4. ASSUME Range(ms) \subseteq Range(outbox[s]) PROVE Unsent' \subseteq Unsent
  BY <1>1, <1>4 DEF Unsent
<1>5. ASSUME NEW x, Range(outbox[s]) = {x} \cup Range(ms) PROVE Unsent \subseteq Unsent' \cup {x}
  BY <1>1, <1>5 DEF Unsent
<1> QED
  BY <1>3, <1>4, <1>5

\* The actions to be announced are those among what is unsent.
LEMMA UnannouncedIsUnsent ==
  /\ Unannounced = {id \in 1 .. MaxId : Action(id) \in Unsent}
  /\ Unannounced' = {id \in 1 .. MaxId : Action(id) \in Unsent'}
  BY DEF Unannounced, Unsent

\* A queue that is given a message ends with it; it has lost at most its
\* oldest, and then its connection is marked.
LEMMA Published ==
  ASSUME ViewersAssumption, queue \in [Conn -> Seq(Message)],
         \A d \in Conn : Len(queue[d]) <= Capacity,
         NEW m \in Message, NEW heard, Publish(m, heard), NEW c \in Conn
  PROVE  /\ queue'[c] \in Seq(Message) /\ Len(queue'[c]) <= Capacity
         /\ lagged[c] => lagged'[c]
         /\ c \notin Subscribed => queue'[c] = queue[c] /\ (lagged'[c] <=> lagged[c])
         /\ c \in Subscribed =>
              /\ m \in Waiting(c)' /\ Waiting(c)' \subseteq Waiting(c) \cup {m}
              /\ lagged'[c] \/ Waiting(c)' = Waiting(c) \cup {m}
              /\ \E k \in {0, 1} :
                   /\ Len(queue[c]) \in Nat /\ k <= Len(queue[c])
                   /\ Len(queue'[c]) = Len(queue[c]) - k + 1
                   /\ queue'[c][Len(queue'[c])] = m
                   /\ \A i \in 1 .. Len(queue[c]) - k : queue'[c][i] = queue[c][i + k]
<1>1. /\ queue'[c] = IF c \notin Subscribed THEN queue[c]
                     ELSE Append(IF Full(c) THEN Tail(queue[c]) ELSE queue[c], m)
      /\ lagged'[c] <=> (lagged[c] \/ Full(c))
  BY DEF Publish
<1>2. queue[c] \in Seq(Message) /\ Len(queue[c]) \in Nat /\ Len(queue[c]) <= Capacity
  OBVIOUS
<1>3. Capacity \in Nat /\ Capacity >= 1
  BY DEF ViewersAssumption
<1>4. CASE c \notin Subscribed
  BY <1>1, <1>2, <1>4 DEF Full
<1>5. CASE c \in Subscribed /\ ~Full(c)
  <2>1. queue'[c] = Append(queue[c], m) /\ Len(queue[c]) < Capacity
    BY <1>1, <1>2, <1>3, <1>5 DEF Full
  <2>2. Waiting(c)' = Waiting(c) \cup {m}
    BY <1>2, <2>1, OfAppend DEF Waiting
  <2>3. /\ queue'[c] \in Seq(Message) /\ Len(queue'[c]) = Len(queue[c]) - 0 + 1
        /\ queue'[c][Len(queue'[c])] = m
        /\ \A i \in 1 .. Len(queue[c]) - 0 : queue'[c][i] = queue[c][i + 0]
    BY <1>2, <2>1, OfAppend
  <2> QED
    BY <1>1, <1>2, <1>3, <1>5, <2>1, <2>2, <2>3
<1>6. CASE c \in Subscribed /\ Full(c)
  <2> DEFINE rest == Tail(queue[c])
  <2>1. queue'[c] = Append(rest, m) /\ Len(queue[c]) >= 1 /\ lagged'[c]
    BY <1>1, <1>2, <1>3, <1>6 DEF Full
  <2>2. queue[c] # <<>>
    BY <2>1
  <2>3. /\ rest \in Seq(Message) /\ Len(rest) = Len(queue[c]) - 1
        /\ \A i \in 1 .. Len(queue[c]) - 1 : rest[i] = queue[c][i + 1]
        /\ Range(rest) \subseteq Waiting(c)
    BY <1>2, <2>2, OfTail DEF Waiting
  <2> HIDE DEF rest
  <2>4. /\ queue'[c] \in Seq(Message) /\ Len(queue'[c]) = Len(rest) + 1
        /\ \A i \in 1 .. Len(rest) : queue'[c][i] = rest[i]
        /\ queue'[c][Len(rest) + 1] = m /\ Waiting(c)' = Range(rest) \cup {m}
    BY <2>1, <2>3, OfAppend DEF Waiting
  <2>5. /\ Len(queue'[c]) = Len(queue[c]) - 1 + 1 /\ queue'[c][Len(queue'[c])] = m
        /\ \A i \in 1 .. Len(queue[c]) - 1 : queue'[c][i] = queue[c][i + 1]
    BY <1>2, <2>3, <2>4
  <2> QED
    BY <1>1, <1>2, <1>3, <1>6, <2>1, <2>3, <2>4, <2>5
<1> QED
  BY <1>4, <1>5, <1>6

-----------------------------------------------------------------------------
(* The invariant holds at first. *)

LEMMA InitInv ==
  ASSUME ViewersAssumption, Init
  PROVE  Inv
<1>1. Range(<<>>) = {} /\ DOMAIN <<>> = {}
  BY OfNone
<1>2. Unsent = {}
  BY <1>1 DEF Init, Unsent
<1>3. TypeOK
  <2>1. <<1>> \in Seq(1 .. 1) /\ <<1>> # <<>>
    OBVIOUS
  <2>2. Len(<<>>) = 0 /\ <<>> \in Seq(Message)
    OBVIOUS
  <2> QED
    BY <2>1, <2>2 DEF Init, TypeOK, ViewersAssumption
<1>4. Pending
  BY <1>2, UnannouncedIsUnsent DEF Pending
<1>5. ASSUME NEW c \in Conn PROVE UpToDate(c)
  <2>1. queue[c] = <<>> /\ pc[c] = "new"
    BY DEF Init
  <2> QED
    BY <1>1, <2>1 DEF UpToDate, KeptFor, Known, InOrder, Tracks, Waiting
<1> QED
  BY <1>3, <1>4, <1>5 DEF Inv

-----------------------------------------------------------------------------
(* Steps that publish a message. *)

LEMMA PublishKeeps ==
  ASSUME ViewersAssumption, Inv, NEW m \in Message, NEW heard, Publish(m, heard),
         UNCHANGED <<log, lastId, overtaken>>,
         Unsent' \subseteq Unsent, Unsent \subseteq Unsent' \cup {m},
         \A id \in 1 .. MaxId :
           m = Action(id) => id \in (1 .. lastId) \cap (Range(log) \cup overtaken),
         NEW c \in Conn, pc'[c] = pc[c], told'[c] = told[c]
  PROVE  UpToDate(c)'
<1>1. /\ queue'[c] \in Seq(Message)
      /\ lagged[c] => lagged'[c]
      /\ c \notin Subscribed => queue'[c] = queue[c] /\ (lagged'[c] <=> lagged[c])
      /\ c \in Subscribed =>
           /\ m \in Waiting(c)' /\ Waiting(c)' \subseteq Waiting(c) \cup {m}
           /\ lagged'[c] \/ Waiting(c)' = Waiting(c) \cup {m}
           /\ \E k \in {0, 1} :
                /\ Len(queue[c]) \in Nat /\ k <= Len(queue[c])
                /\ Len(queue'[c]) = Len(queue[c]) - k + 1
                /\ queue'[c][Len(queue'[c])] = m
                /\ \A i \in 1 .. Len(queue[c]) - k : queue'[c][i] = queue[c][i + k]
  BY Published DEF Inv, TypeOK
<1>2. UpToDate(c) /\ (c \in Subscribed <=> c \in Subscribed')
  BY DEF Inv, Subscribed
<1>3. c \notin Subscribed => queue[c] = <<>> /\ queue'[c] = <<>>
  BY <1>1, <1>2 DEF UpToDate, KeptFor
<1>4. KeptFor(c)'
  BY <1>2, <1>3 DEF KeptFor
<1>5. Known(c)'
  <2>1. CASE c \notin Subscribed
    BY <1>1, <1>2, <2>1 DEF UpToDate, Known, Waiting
  <2>2. CASE c \in Subscribed
    BY <1>1, <1>2, <2>2 DEF UpToDate, Known
  <2> QED
    BY <2>1, <2>2
<1>6. InOrder(c)'
  <2>1. CASE c \notin Subscribed
    BY <1>3, <2>1 DEF InOrder
  <2>2. CASE c \in Subscribed
    <3>1. PICK k \in {0, 1} :
            /\ Len(queue[c]) \in Nat /\ k <= Len(queue[c])
            /\ Len(queue'[c]) = Len(queue[c]) - k + 1
            /\ queue'[c][Len(queue'[c])] = m
            /\ \A i \in 1 .. Len(queue[c]) - k : queue'[c][i] = queue[c][i + k]
      BY <1>1, <2>2
    <3>2. DOMAIN queue[c] = 1 .. Len(queue[c]) /\ DOMAIN queue'[c] = 1 .. Len(queue[c]) - k + 1
      BY <1>1, <3>1 DEF Inv, TypeOK
    <3> SUFFICES ASSUME NEW i \in DOMAIN queue'[c], NEW id \in 1 .. MaxId,
                        queue'[c][i] = Action(id), id \notin Range(log) \cup overtaken
                 PROVE  \/ Resync \in Unsent'
                        \/ \E j \in DOMAIN queue'[c] : j > i /\ queue'[c][j] = Resync
      BY DEF InOrder
    <3>3. i # Len(queue'[c]) /\ i \in 1 .. Len(queue[c]) - k
      <4>1. i # Len(queue'[c])
        BY <3>1
      <4> QED
        BY <3>1, <3>2, <4>1
    <3>4. i + k \in DOMAIN queue[c] /\ queue[c][i + k] = Action(id)
      <4>1. i + k \in 1 .. Len(queue[c])
        BY <3>1, <3>3
      <4> QED
        BY <3>1, <3>2, <3>3, <4>1
    <3>5. Resync \in Unsent \/ \E j \in DOMAIN queue[c] : j > i + k /\ queue[c][j] = Resync
      BY <1>2, <3>4 DEF UpToDate, InOrder
    <3>6. CASE m = Resync
      <4>1. Len(queue'[c]) \in DOMAIN queue'[c] /\ Len(queue'[c]) > i
        BY <3>1, <3>2, <3>3
      <4> QED
        BY <3>1, <3>6, <4>1
    <3>7. CASE m # Resync /\ Resync \in Unsent
      BY <3>7
    <3>8. CASE \E j \in DOMAIN queue[c] : j > i + k /\ queue[c][j] = Resync
      <4>1. PICK j \in DOMAIN queue[c] : j > i + k /\ queue[c][j] = Resync
        BY <3>8
      <4>2. j - k \in 1 .. Len(queue[c]) - k /\ (j - k) + k = j /\ j - k > i
        BY <3>1, <3>2, <3>3, <4>1
      <4>3. queue'[c][j - k] = queue[c][(j - k) + k]
        BY <3>1, <4>2
      <4>4. j - k \in 1 .. Len(queue[c]) - k + 1
        BY <3>1, <4>2
      <4>5. queue'[c][j - k] = Resync /\ j - k \in DOMAIN queue'[c]
        BY <3>2, <4>1, <4>2, <4>3, <4>4
      <4> QED
        BY <4>2, <4>5
    <3> QED
      BY <3>5, <3>6, <3>7, <3>8
  <2> QED
    BY <2>1, <2>2
<1>7. Tracks(c)'
  <2> SUFFICES ASSUME pc[c] \in {"snapped", "open"}, c \notin missed', ~Refreshes(c)'
               PROVE  /\ \A id \in Range(log) :
                           id \in told[c] \/ Action(id) \in Waiting(c)' \cup Unsent'
                      /\ told[c] \subseteq Range(log) \cup overtaken
    BY DEF Tracks
  <2>1. c \notin missed /\ (m.kind \in {"action", "resync"} => pc[c] # "snapped")
    BY DEF Publish
  <2>2. ~lagged'[c] /\ ~lagged[c] /\ Resync \notin Waiting(c)' \cup Unsent'
    BY <1>1 DEF Refreshes
  <2>3. ASSUME c \in Subscribed
        PROVE  ~Refreshes(c) /\ Waiting(c) \cup Unsent \subseteq Waiting(c)' \cup Unsent'
    <3>1. Waiting(c)' = Waiting(c) \cup {m}
      BY <1>1, <2>2, <2>3
    <3> QED
      BY <2>2, <3>1 DEF Refreshes
  <2>4. ASSUME c \notin Subscribed
        PROVE  /\ ~Refreshes(c)
               /\ \A id \in 1 .. MaxId :
                    Action(id) \in Waiting(c) \cup Unsent => Action(id) \in Waiting(c)' \cup Unsent'
    <3>1. pc[c] = "snapped"
      BY <2>4 DEF Subscribed
    <3>2. m # Resync /\ \A id \in 1 .. MaxId : m # Action(id)
      BY <2>1, <3>1, Kinds
    <3>3. Waiting(c)' = Waiting(c)
      BY <1>1, <2>4 DEF Waiting
    <3> QED
      BY <2>2, <3>1, <3>2, <3>3 DEF Refreshes
  <2>5. /\ \A id \in Range(log) : id \in told[c] \/ Action(id) \in Waiting(c) \cup Unsent
        /\ told[c] \subseteq Range(log) \cup overtaken
    BY <1>2, <2>1, <2>3, <2>4 DEF UpToDate, Tracks
  <2>6. Range(log) \subseteq 1 .. MaxId
    BY DEF Inv, TypeOK, Range
  <2> QED
    BY <2>3, <2>4, <2>5, <2>6
<1> QED
  BY <1>4, <1>5, <1>6, <1>7 DEF UpToDate

\* The types of what publishing changes.
LEMMA PublishTypes ==
  ASSUME ViewersAssumption, TypeOK, NEW m \in Message, NEW heard, Publish(m, heard)
  PROVE  /\ queue' \in [Conn -> Seq(Message)] /\ lagged' \in [Conn -> BOOLEAN]
         /\ \A c \in Conn : Len(queue'[c]) <= Capacity
<1>1. \A c \in Conn : queue'[c] \in Seq(Message) /\ Len(queue'[c]) <= Capacity
  BY Published DEF TypeOK
<1>2. DOMAIN queue' = Conn /\ queue' = [c \in Conn |-> queue'[c]]
  BY DEF Publish
<1>3. queue' \in [Conn -> Seq(Message)]
  BY <1>1, <1>2
<1>4. lagged' = [c \in Conn |-> lagged[c] \/ Full(c)]
  BY DEF Publish
<1>5. \A c \in Conn : (lagged[c] \/ Full(c)) \in BOOLEAN
  OBVIOUS
<1>6. lagged' \in [Conn -> BOOLEAN]
  BY <1>4, <1>5
<1> QED
  BY <1>1, <1>3, <1>6

LEMMA RingTypes ==
  ASSUME bell \in [Conn -> BOOLEAN], Ring
  PROVE  bell' \in [Conn -> BOOLEAN]
<1>1. bell' = [c \in Conn |-> bell[c] \/ c \in Listening]
  BY DEF Ring
<1>2. \A c \in Conn : (bell[c] \/ c \in Listening) \in BOOLEAN
  OBVIOUS
<1> QED
  BY <1>1, <1>2

\* An announcement goes out.
LEMMA SendKeeps ==
  ASSUME ViewersAssumption, Inv, NEW s \in Sender, Send(s)
  PROVE  Inv'
<1> DEFINE m == Head(outbox[s])
<1>1. /\ outbox[s] \in Seq(Message) /\ outbox[s] # <<>> /\ outbox \in [Sender -> Seq(Message)]
      /\ Publish(m, hearers) /\ outbox' = [outbox EXCEPT ![s] = Tail(outbox[s])] /\ Ring
      /\ UNCHANGED <<log, lastId, sessionVars, consoles, pc, told, overtaken>>
  BY DEF Send, Inv, TypeOK
<1>2. /\ m \in Message /\ Tail(outbox[s]) \in Seq(Message)
      /\ Range(outbox[s]) = {m} \cup Range(Tail(outbox[s]))
  BY <1>1, OfTail
<1> HIDE DEF m
<1>3. Unsent' \subseteq Unsent /\ Unsent \subseteq Unsent' \cup {m} /\ m \in Unsent
  <2>1. DOMAIN outbox = Sender
    BY <1>1
  <2>2. m \in Unsent
    BY <1>2 DEF Unsent
  <2> QED
    BY <1>1, <1>2, <2>1, <2>2, OutboxStep
<1>4. TypeOK'
  <2>1. outbox' \in [Sender -> Seq(Message)]
    BY <1>1, <1>2
  <2>2. bell' \in [Conn -> BOOLEAN]
    BY <1>1, RingTypes DEF Inv, TypeOK
  <2> QED
    BY <1>1, <1>2, <2>1, <2>2, PublishTypes DEF Inv, TypeOK, sessionVars
<1>5. Pending'
  BY <1>1, <1>3, UnannouncedIsUnsent DEF Inv, Pending
<1>6. \A id \in 1 .. MaxId : m = Action(id) => id \in (1 .. lastId) \cap (Range(log) \cup overtaken)
  BY <1>3, UnannouncedIsUnsent DEF Inv, Pending
<1>7. ASSUME NEW c \in Conn PROVE UpToDate(c)'
  BY <1>1, <1>2, <1>3, <1>6, PublishKeeps
<1> QED
  BY <1>4, <1>5, <1>7 DEF Inv

\* A notice or the closing goes out: nothing unsent changes.
LEMMA NewsKeeps ==
  ASSUME ViewersAssumption, Inv, NEW m \in {Notice, Closed}, NEW heard, Publish(m, heard),
         UNCHANGED <<log, lastId, outbox, overtaken>>,
         NEW c \in Conn, pc'[c] = pc[c], told'[c] = told[c]
  PROVE  UpToDate(c)'
<1>1. m \in Message /\ \A id \in 1 .. MaxId : m # Action(id)
  BY Kinds
<1>2. Unsent' = Unsent
  BY DEF Unsent
<1> QED
  BY <1>1, <1>2, PublishKeeps

LEMMA PendingKept ==
  ASSUME Pending, UNCHANGED <<log, lastId, outbox, overtaken>>
  PROVE  Pending'
  BY DEF Pending, Unannounced

LEMMA NoteKeeps ==
  ASSUME ViewersAssumption, Inv, Note
  PROVE  Inv'
<1>1. /\ Publish(Notice, hearers) /\ Ring
      /\ UNCHANGED <<tableVars, sessionVars, consoles, pc, told, overtaken>>
  BY DEF Note
<1>2. TypeOK'
  <2>1. bell' \in [Conn -> BOOLEAN]
    BY <1>1, RingTypes DEF Inv, TypeOK
  <2> QED
    BY <1>1, <2>1, Kinds, PublishTypes DEF Inv, TypeOK, sessionVars, tableVars
<1>3. \A c \in Conn : UpToDate(c)'
  BY <1>1, NewsKeeps DEF tableVars
<1> QED
  BY <1>1, <1>2, <1>3, PendingKept DEF Inv, tableVars

LEMMA CloseTablesKeeps ==
  ASSUME ViewersAssumption, Inv, CloseTables
  PROVE  Inv'
<1>1. /\ closing' = "announced" /\ Publish(Closed, hearers \cup (Subscribed \ consoles))
      /\ UNCHANGED <<tableVars, registry, consoles, pc, told, bell, overtaken>>
  BY DEF CloseTables
<1>2. TypeOK'
  BY <1>1, Kinds, PublishTypes DEF Inv, TypeOK, tableVars
<1>3. \A c \in Conn : UpToDate(c)'
  BY <1>1, NewsKeeps DEF tableVars
<1> QED
  BY <1>1, <1>2, <1>3, PendingKept DEF Inv, tableVars

LEMMA FirstSnapshotKeeps ==
  ASSUME ViewersAssumption, Inv, NEW c \in Conn, FirstSnapshot(c)
  PROVE  Inv'
<1>1. /\ pc[c] = "found" /\ told' = [told EXCEPT ![c] = Range(log)]
      /\ pc' = [pc EXCEPT ![c] = "snapped"] /\ Publish(Notice, hearers) /\ Ring
      /\ UNCHANGED <<tableVars, sessionVars, consoles, overtaken>>
  BY DEF FirstSnapshot
<1>2. Range(log) \subseteq 1 .. lastId
  BY DEF Inv, TypeOK, Range
<1>3. TypeOK'
  <2>1. bell' \in [Conn -> BOOLEAN]
    BY <1>1, RingTypes DEF Inv, TypeOK
  <2>2. told' \in [Conn -> SUBSET (1 .. lastId)]
    BY <1>1, <1>2 DEF Inv, TypeOK
  <2> QED
    BY <1>1, <2>1, <2>2, Kinds, PublishTypes DEF Inv, TypeOK, sessionVars, tableVars
<1>4. \A d \in Conn \ {c} : pc'[d] = pc[d] /\ told'[d] = told[d]
  BY <1>1 DEF Inv, TypeOK
<1>5. \A d \in Conn \ {c} : UpToDate(d)'
  BY <1>1, <1>4, NewsKeeps DEF tableVars
<1>6. UpToDate(c)'
  <2>1. c \notin Subscribed
    BY <1>1 DEF Subscribed
  <2>2. queue'[c] = queue[c]
    BY <1>1, <2>1 DEF Publish
  <2>3. queue'[c] = <<>>
    BY <2>1, <2>2 DEF Inv, UpToDate, KeptFor
  <2>4. DOMAIN queue'[c] = {} /\ Waiting(c)' = {}
    BY <2>3, OfNone DEF Waiting
  <2>5. told'[c] = Range(log')
    BY <1>1 DEF Inv, TypeOK, tableVars
  <2> QED
    BY <2>3, <2>4, <2>5 DEF UpToDate, KeptFor, Known, InOrder, Tracks
<1> QED
  BY <1>1, <1>3, <1>5, <1>6, PendingKept DEF Inv, tableVars

-----------------------------------------------------------------------------
(* Steps that change the table. *)

\* While a request for snapshots is on its way nobody is behind.
LEMMA ResyncCovers ==
  ASSUME Inv, lastId' >= lastId, lastId' \in Nat, Resync \in Unsent',
         UNCHANGED <<pc, queue>>, NEW c \in Conn
  PROVE  UpToDate(c)'
<1>1. UpToDate(c) /\ lastId \in Nat
  BY DEF Inv, TypeOK
<1>2. KeptFor(c)'
  BY <1>1 DEF UpToDate, KeptFor, Subscribed
<1>3. Known(c)'
  BY <1>1 DEF UpToDate, Known, Waiting
<1>4. InOrder(c)' /\ Tracks(c)'
  BY DEF InOrder, Tracks, Refreshes
<1> QED
  BY <1>2, <1>3, <1>4 DEF UpToDate

LEMMA ActKeeps ==
  ASSUME ViewersAssumption, Inv, NEW s \in Sender, NEW shown \in BOOLEAN, Act(s, shown)
  PROVE  Inv'
<1> DEFINE id == lastId + 1
           ms == IF shown THEN <<Action(id), Resync>> ELSE <<Action(id)>>
<1>1. /\ lastId \in 1 .. MaxId /\ lastId < MaxId /\ MaxId \in Nat /\ lastId' = id
      /\ log' = Append(log, id) /\ outbox[s] = <<>> /\ outbox' = [outbox EXCEPT ![s] = ms]
      /\ outbox \in [Sender -> Seq(Message)]
      /\ UNCHANGED <<sessionVars, connVars, historyVars>>
  BY DEF Act, Announce, Inv, TypeOK, ViewersAssumption
<1>2. id \in 1 .. MaxId /\ id \in 1 .. id /\ 1 .. lastId \subseteq 1 .. id
  BY <1>1
<1>3. /\ ms \in Seq(Message) /\ Action(id) \in Range(ms) /\ Range(ms) \subseteq {Action(id), Resync}
  BY <1>2, OfOne, OfTwo, Kinds
<1> HIDE DEF ms, id
<1>4. Unsent' = Unsent \cup Range(ms)
  BY <1>1, OutboxStep
<1>5. log' \in Seq(1 .. id) /\ log' # <<>> /\ Range(log') = Range(log) \cup {id}
  <2>1. log \in Seq(1 .. id)
    BY <1>2 DEF Inv, TypeOK, id
  <2> QED
    BY <1>1, <1>2, <2>1, OfAppend
<1>6. TypeOK'
  <2>1. outbox' \in [Sender -> Seq(Message)]
    BY <1>1, <1>3
  <2>2. told' \in [Conn -> SUBSET (1 .. lastId')]
    BY <1>1, <1>2 DEF Inv, TypeOK, connVars
  <2> QED
    BY <1>1, <1>2, <1>5, <2>1, <2>2 DEF Inv, TypeOK, sessionVars, connVars
<1>7. Pending'
  <2>1. \A i \in 1 .. MaxId : Action(i) \in Range(ms) => i = id
    BY <1>2, <1>3, Kinds
  <2>2. Unannounced' \subseteq Unannounced \cup {id}
    BY <1>4, <2>1, UnannouncedIsUnsent
  <2> QED
    BY <1>1, <1>2, <1>5, <2>2 DEF Inv, Pending, historyVars
<1>8. ASSUME NEW c \in Conn PROVE UpToDate(c)'
  <2>1. UpToDate(c)
    BY DEF Inv
  <2>2. KeptFor(c)'
    BY <1>1, <2>1 DEF UpToDate, KeptFor, Subscribed, connVars
  <2>3. Known(c)'
    BY <1>1, <1>2, <2>1 DEF UpToDate, Known, Waiting, connVars
  <2>4. InOrder(c)'
    BY <1>1, <1>4, <1>5, <2>1 DEF UpToDate, InOrder, connVars, historyVars
  <2>5. Tracks(c)'
    BY <1>1, <1>3, <1>4, <1>5, <2>1
    DEF UpToDate, Tracks, Refreshes, Waiting, connVars, historyVars
  <2> QED
    BY <2>2, <2>3, <2>4, <2>5 DEF UpToDate
<1> QED
  BY <1>6, <1>7, <1>8 DEF Inv

\* Undoing and dealing anew ask for snapshots.
LEMMA ResyncKeeps ==
  ASSUME ViewersAssumption, Inv, NEW s \in Sender, Announce(s, <<Resync>>),
         lastId' \in lastId .. MaxId, log' \in Seq(1 .. lastId'), log' # <<>>,
         overtaken \subseteq overtaken', Unannounced \subseteq Range(log') \cup overtaken',
         UNCHANGED <<sessionVars, connVars>>
  PROVE  Inv'
<1>1. /\ lastId \in 1 .. MaxId /\ MaxId \in Nat /\ 1 .. lastId \subseteq 1 .. lastId'
      /\ lastId' \in 1 .. MaxId /\ lastId' >= lastId /\ lastId' \in Nat
  BY DEF Inv, TypeOK, ViewersAssumption
<1>2. outbox[s] = <<>> /\ outbox' = [outbox EXCEPT ![s] = <<Resync>>] /\ DOMAIN outbox = Sender
  BY DEF Announce, Inv, TypeOK
<1>3. <<Resync>> \in Seq(Message) /\ Range(<<Resync>>) = {Resync}
  BY Kinds, OfOne
<1>4. Unsent' = Unsent \cup {Resync}
  BY <1>2, <1>3, OutboxStep
<1>5. TypeOK'
  <2>1. outbox' \in [Sender -> Seq(Message)]
    BY <1>2, <1>3 DEF Inv, TypeOK
  <2>2. told' \in [Conn -> SUBSET (1 .. lastId')]
    BY <1>1 DEF Inv, TypeOK, connVars
  <2> QED
    BY <1>1, <2>1, <2>2 DEF Inv, TypeOK, sessionVars, connVars
<1>6. Pending'
  <2>1. Unannounced' \subseteq Unannounced
    BY <1>4, UnannouncedIsUnsent, Kinds
  <2> QED
    BY <1>1, <2>1 DEF Inv, Pending
<1>7. \A c \in Conn : UpToDate(c)'
  BY <1>1, <1>4, ResyncCovers DEF connVars
<1> QED
  BY <1>5, <1>6, <1>7 DEF Inv

LEMMA UndoKeeps ==
  ASSUME ViewersAssumption, Inv, NEW s \in Sender, NEW n \in 1 .. Len(log), Undo(s, n)
  PROVE  Inv'
<1>1. lastId' \in lastId .. MaxId
  BY DEF Undo, Inv, TypeOK, ViewersAssumption
<1>2. log' \in Seq(1 .. lastId') /\ log' # <<>>
  BY OfFront DEF Undo, Inv, TypeOK
<1> QED
  BY <1>1, <1>2, ResyncKeeps DEF Undo

LEMMA RedealKeeps ==
  ASSUME ViewersAssumption, Inv, NEW s \in Sender, Redeal(s)
  PROVE  Inv'
<1>1. lastId' = lastId + 1 /\ lastId' \in lastId .. MaxId /\ lastId' \in 1 .. lastId'
  BY DEF Redeal, Inv, TypeOK, ViewersAssumption
<1>2. log' \in Seq(1 .. lastId') /\ log' # <<>>
  BY <1>1 DEF Redeal
<1> QED
  BY <1>1, <1>2, ResyncKeeps DEF Redeal

-----------------------------------------------------------------------------
(* Steps of one connection. *)

\* The others stay as they are.
LEMMA Untouched ==
  ASSUME Inv, UNCHANGED <<tableVars, missed, overtaken>>, NEW d \in Conn,
         pc'[d] = pc[d], told'[d] = told[d], queue'[d] = queue[d], lagged'[d] = lagged[d]
  PROVE  UpToDate(d)'
<1>1. UpToDate(d) /\ (d \in Subscribed <=> d \in Subscribed') /\ Unsent' = Unsent
      /\ Waiting(d)' = Waiting(d)
  BY DEF Inv, Subscribed, Unsent, Waiting, tableVars
<1>2. KeptFor(d)'
  BY <1>1 DEF UpToDate, KeptFor
<1>3. Known(d)'
  BY <1>1 DEF UpToDate, Known, tableVars
<1>4. InOrder(d)'
  BY <1>1 DEF UpToDate, InOrder, tableVars
<1>5. Tracks(d)'
  BY <1>1 DEF UpToDate, Tracks, Refreshes, tableVars
<1> QED
  BY <1>2, <1>3, <1>4, <1>5 DEF UpToDate

\* So the step of a connection keeps the invariant if it keeps the types and
\* leaves that connection up to date.
LEMMA TurnKeeps ==
  ASSUME Inv, TypeOK', NEW c \in Conn, UNCHANGED <<tableVars, missed, overtaken>>,
         \A d \in Conn \ {c} : /\ pc'[d] = pc[d] /\ told'[d] = told[d]
                               /\ queue'[d] = queue[d] /\ lagged'[d] = lagged[d],
         UpToDate(c)'
  PROVE  Inv'
<1>1. Pending'
  BY PendingKept DEF Inv, tableVars
<1>2. \A d \in Conn : UpToDate(d)'
  BY Untouched
<1> QED
  BY <1>1, <1>2 DEF Inv

\* With nothing waiting, a connection that does not follow the table, or not
\* yet, is up to date.
LEMMA FreshIsUpToDate ==
  ASSUME NEW c \in Conn, queue'[c] = <<>>, pc'[c] \notin {"snapped", "open"}
  PROVE  UpToDate(c)'
  BY OfNone DEF UpToDate, KeptFor, Known, InOrder, Tracks, Waiting

\* A connection that takes a further step on its way.
LEMMA MovesOn ==
  ASSUME Inv, NEW c \in Conn, UNCHANGED <<tableVars, missed, overtaken, queue>>,
         c \in Subscribed => c \in Subscribed', Tracks(c)'
  PROVE  UpToDate(c)'
<1>1. UpToDate(c) /\ Unsent' = Unsent /\ Waiting(c)' = Waiting(c)
  BY DEF Inv, Unsent, Waiting, tableVars
<1>2. KeptFor(c)'
  BY <1>1 DEF UpToDate, KeptFor
<1>3. Known(c)'
  BY <1>1 DEF UpToDate, Known, tableVars
<1>4. InOrder(c)'
  BY <1>1 DEF UpToDate, InOrder, tableVars
<1> QED
  BY <1>2, <1>3, <1>4 DEF UpToDate

LEMMA ArriveKeeps ==
  ASSUME Inv, NEW c \in Conn, Arrive(c)
  PROVE  Inv'
<1>1. /\ pc[c] = "new" /\ pc'[c] \in {"found", "console"}
      /\ \A d \in Conn \ {c} : pc'[d] = pc[d]
      /\ UNCHANGED <<tableVars, sessionVars, told, queue, lagged, bell, historyVars>>
  BY DEF Arrive, Inv, TypeOK
<1>2. TypeOK'
  BY DEF Arrive, Inv, TypeOK, tableVars, sessionVars
<1>3. UpToDate(c)'
  <2>1. queue'[c] = <<>>
    BY <1>1 DEF Inv, UpToDate, KeptFor, Subscribed
  <2> QED
    BY <1>1, <2>1, FreshIsUpToDate
<1> QED
  BY <1>1, <1>2, <1>3, TurnKeeps DEF historyVars

LEMMA SubscribeKeeps ==
  ASSUME Inv, NEW c \in Conn, Subscribe(c)
  PROVE  Inv'
<1>1. /\ pc[c] = "snapped" /\ pc'[c] = "open" /\ \A d \in Conn \ {c} : pc'[d] = pc[d]
      /\ UNCHANGED <<tableVars, sessionVars, consoles, told, queue, lagged, bell, historyVars>>
  BY DEF Subscribe, Inv, TypeOK
<1>2. TypeOK'
  BY DEF Subscribe, Inv, TypeOK, tableVars, sessionVars
<1>3. Tracks(c)'
  BY <1>1 DEF Inv, UpToDate, Tracks, Refreshes, Waiting, Unsent, tableVars, historyVars
<1>4. UpToDate(c)'
  BY <1>1, <1>3, MovesOn DEF Subscribed, historyVars
<1> QED
  BY <1>1, <1>2, <1>4, TurnKeeps DEF historyVars

LEMMA KibitzKeeps ==
  ASSUME Inv, NEW c \in Conn, Kibitz(c)
  PROVE  Inv'
<1>1. /\ pc[c] = "console" /\ pc'[c] = "subscribed" /\ \A d \in Conn \ {c} : pc'[d] = pc[d]
      /\ UNCHANGED <<tableVars, sessionVars, consoles, told, queue, lagged, bell, historyVars>>
  BY DEF Kibitz, Inv, TypeOK
<1>2. TypeOK'
  BY DEF Kibitz, Inv, TypeOK, tableVars, sessionVars
<1>3. Tracks(c)'
  BY <1>1 DEF Tracks
<1>4. UpToDate(c)'
  BY <1>1, <1>3, MovesOn DEF Subscribed, historyVars
<1> QED
  BY <1>1, <1>2, <1>4, TurnKeeps DEF historyVars

LEMMA SnapshotKeeps ==
  ASSUME Inv, NEW c \in Conn, Snapshot(c)
  PROVE  Inv'
<1>1. /\ pc[c] \in {"subscribed", "resync"} /\ pc'[c] = "open" /\ told'[c] = Range(log)
      /\ \A d \in Conn \ {c} : pc'[d] = pc[d] /\ told'[d] = told[d]
      /\ UNCHANGED <<tableVars, sessionVars, consoles, queue, lagged, bell, historyVars>>
  BY DEF Snapshot, Inv, TypeOK
<1>2. TypeOK'
  <2>1. Range(log) \subseteq 1 .. lastId
    BY DEF Inv, TypeOK, Range
  <2> QED
    BY <2>1 DEF Snapshot, Inv, TypeOK, tableVars, sessionVars
<1>3. Tracks(c)'
  BY <1>1 DEF Tracks, tableVars
<1>4. UpToDate(c)'
  BY <1>1, <1>3, MovesOn DEF Subscribed, historyVars
<1> QED
  BY <1>1, <1>2, <1>4, TurnKeeps DEF historyVars

LEMMA LagKeeps ==
  ASSUME Inv, NEW c \in Conn, Lag(c)
  PROVE  Inv'
<1>1. /\ pc[c] = "open" /\ pc'[c] = "resync"
      /\ \A d \in Conn \ {c} : pc'[d] = pc[d] /\ lagged'[d] = lagged[d]
      /\ UNCHANGED <<tableVars, sessionVars, consoles, told, queue, bell, historyVars>>
  BY DEF Lag, Inv, TypeOK
<1>2. TypeOK'
  BY DEF Lag, Inv, TypeOK, tableVars, sessionVars
<1>3. Tracks(c)'
  BY <1>1 DEF Tracks
<1>4. UpToDate(c)'
  BY <1>1, <1>3, MovesOn DEF Subscribed, historyVars
<1> QED
  BY <1>1, <1>2, <1>4, TurnKeeps DEF historyVars

\* A connection that ends has nothing waiting.
LEMMA EndKeeps ==
  ASSUME Inv, NEW c \in Conn, Ends(c), bell' \in [Conn -> BOOLEAN],
         UNCHANGED <<tableVars, sessionVars, consoles, historyVars>>
  PROVE  Inv'
<1>1. /\ pc'[c] = "done" /\ queue'[c] = <<>>
      /\ \A d \in Conn \ {c} : /\ pc'[d] = pc[d] /\ told'[d] = told[d]
                               /\ queue'[d] = queue[d] /\ lagged'[d] = lagged[d]
  BY DEF Ends, Inv, TypeOK
<1>2. TypeOK'
  <2>1. <<>> \in Seq(Message) /\ Len(<<>>) = 0
    OBVIOUS
  <2>2. \A d \in Conn : Len(queue'[d]) <= Capacity
    <3>1. Len(queue[c]) \in Nat /\ Len(queue[c]) <= Capacity
      BY DEF Inv, TypeOK
    <3>2. 0 <= Capacity
      BY ViewersAssumption DEF ViewersAssumption
    <3> QED
      BY <1>1, <2>1, <3>2 DEF Inv, TypeOK
  <2> QED
    BY <2>1, <2>2 DEF Ends, Inv, TypeOK, tableVars, sessionVars
<1>3. UpToDate(c)'
  BY <1>1, FreshIsUpToDate
<1> QED
  BY <1>1, <1>2, <1>3, TurnKeeps DEF historyVars

LEMMA ReceiveKeeps ==
  ASSUME ViewersAssumption, Inv, NEW c \in Conn, Receive(c)
  PROVE  Inv'
<1>1. CASE HangsUp(c) /\ Ends(c)
  BY <1>1, EndKeeps DEF Receive, Inv, TypeOK
<1>2. CASE ~(HangsUp(c) /\ Ends(c))
  <2> DEFINE m == Head(queue[c])
  <2>1. /\ pc[c] = "open" /\ ~lagged[c] /\ queue[c] # <<>> /\ queue[c] \in Seq(Message)
        /\ told' = IF m.kind = "action" THEN [told EXCEPT ![c] = @ \cup {m.id}] ELSE told
        /\ pc' = [pc EXCEPT ![c] = IF m = Resync THEN "resync" ELSE "open"]
        /\ queue' = [queue EXCEPT ![c] = Tail(queue[c])]
        /\ UNCHANGED <<lagged, tableVars, sessionVars, consoles, bell, historyVars>>
    BY <1>2 DEF Receive, Inv, TypeOK
  <2>2. /\ m \in Message /\ m = queue[c][1] /\ Tail(queue[c]) \in Seq(Message)
        /\ Len(queue[c]) \in Nat /\ Len(queue[c]) >= 1
        /\ Len(Tail(queue[c])) = Len(queue[c]) - 1
        /\ \A i \in 1 .. Len(queue[c]) - 1 : Tail(queue[c])[i] = queue[c][i + 1]
        /\ Waiting(c) = {m} \cup Range(Tail(queue[c]))
    BY <2>1, OfTail DEF Waiting
  <2>3. /\ queue'[c] = Tail(queue[c]) /\ Waiting(c)' = Range(Tail(queue[c]))
        /\ pc'[c] = (IF m = Resync THEN "resync" ELSE "open")
        /\ \A d \in Conn \ {c} : pc'[d] = pc[d] /\ told'[d] = told[d] /\ queue'[d] = queue[d]
    BY <2>1 DEF Inv, TypeOK, Waiting
  <2> HIDE DEF m
  <2>4. UpToDate(c) /\ Unsent' = Unsent
    BY <2>1 DEF Inv, Unsent, tableVars
  <2>5. \A id \in 1 .. MaxId : m = Action(id) => id \in 1 .. lastId /\ told'[c] = told[c] \cup {id}
    BY <2>1, <2>2, <2>4, Kinds DEF UpToDate, Known, Inv, TypeOK
  <2>6. (\A id \in 1 .. MaxId : m # Action(id)) => told' = told
    BY <2>1, <2>2, Kinds
  <2>7. TypeOK'
    <3>1. told' \in [Conn -> SUBSET (1 .. lastId)]
      <4>1. told'[c] \in SUBSET (1 .. lastId)
        BY <2>5, <2>6 DEF Inv, TypeOK
      <4> QED
        BY <2>1, <2>3, <4>1 DEF Inv, TypeOK
    <3>2. /\ queue' \in [Conn -> Seq(Message)]
          /\ \A d \in Conn : Len(queue'[d]) <= Capacity
      <4>1. Len(Tail(queue[c])) <= Capacity
        BY <2>2, ViewersAssumption DEF Inv, TypeOK, ViewersAssumption
      <4> QED
        BY <2>1, <2>2, <2>3, <4>1 DEF Inv, TypeOK
    <3> QED
      BY <2>1, <3>1, <3>2 DEF Inv, TypeOK, tableVars, sessionVars
  <2>8. KeptFor(c)'
    BY <2>3 DEF KeptFor, Subscribed
  <2>9. Known(c)'
    BY <2>1, <2>2, <2>3, <2>4 DEF UpToDate, Known, tableVars
  <2>10. InOrder(c)'
    <3>1. /\ DOMAIN queue[c] = 1 .. Len(queue[c])
          /\ DOMAIN queue'[c] = 1 .. Len(queue[c]) - 1
      <4>1. DOMAIN Tail(queue[c]) = 1 .. Len(Tail(queue[c]))
        BY <2>2
      <4>2. DOMAIN queue[c] = 1 .. Len(queue[c])
        BY <2>1
      <4> QED
        BY <2>2, <2>3, <4>1, <4>2
    <3> SUFFICES ASSUME NEW i \in DOMAIN queue'[c], NEW id \in 1 .. MaxId,
                        queue'[c][i] = Action(id), id \notin Range(log) \cup overtaken,
                        Resync \notin Unsent
                 PROVE  \E j \in DOMAIN queue'[c] : j > i /\ queue'[c][j] = Resync
      BY <2>1, <2>4 DEF InOrder, tableVars, historyVars
    <3>2. i + 1 \in DOMAIN queue[c] /\ queue[c][i + 1] = Action(id)
      BY <2>2, <2>3, <3>1
    <3>3. PICK j \in DOMAIN queue[c] : j > i + 1 /\ queue[c][j] = Resync
      BY <2>4, <3>2 DEF UpToDate, InOrder
    <3>4. j - 1 \in 1 .. Len(queue[c]) - 1 /\ (j - 1) + 1 = j /\ j - 1 > i
      BY <2>2, <3>1, <3>3
    <3>5. queue'[c][j - 1] = Resync
      BY <2>2, <2>3, <3>3, <3>4
    <3> QED
      BY <3>1, <3>4, <3>5
  <2>11. Tracks(c)'
    <3> SUFFICES ASSUME m # Resync, c \notin missed, Resync \notin Waiting(c)' \cup Unsent
                 PROVE  /\ \A id \in Range(log) :
                             id \in told'[c] \/ Action(id) \in Waiting(c)' \cup Unsent
                        /\ told'[c] \subseteq Range(log) \cup overtaken
      BY <2>1, <2>3, <2>4 DEF Tracks, Refreshes, tableVars, historyVars
    <3>1. ~Refreshes(c)
      BY <2>1, <2>2, <2>3 DEF Refreshes
    <3>2. /\ \A id \in Range(log) : id \in told[c] \/ Action(id) \in Waiting(c) \cup Unsent
          /\ told[c] \subseteq Range(log) \cup overtaken
      BY <2>1, <2>4, <3>1 DEF UpToDate, Tracks
    <3>3. CASE \E id \in 1 .. MaxId : m = Action(id)
      <4>1. PICK id \in 1 .. MaxId : m = Action(id)
        BY <3>3
      <4>2. told'[c] = told[c] \cup {id}
        BY <2>5, <4>1
      <4>3. \A i : Action(i) = Action(id) => i = id
        BY DEF Action
      <4>4. id \in Range(log) \cup overtaken
        <5>1. 1 \in DOMAIN queue[c] /\ queue[c][1] = Action(id)
          BY <2>1, <2>2, <4>1
        <5>2. ASSUME NEW j \in DOMAIN queue[c], j > 1 PROVE queue[c][j] # Resync
          <6>1. j - 1 \in 1 .. Len(queue[c]) - 1 /\ (j - 1) + 1 = j
            BY <2>1, <2>2, <5>2
          <6>2. queue[c][j] \in Waiting(c)'
            BY <2>1, <2>2, <2>3, <6>1 DEF Range
          <6> QED
            BY <6>2
        <5> QED
          BY <2>4, <5>1, <5>2 DEF UpToDate, InOrder
      <4> QED
        BY <2>2, <2>3, <3>2, <4>1, <4>2, <4>3, <4>4
    <3>4. CASE \A id \in 1 .. MaxId : m # Action(id)
      <4>1. Range(log) \subseteq 1 .. MaxId
        BY DEF Inv, TypeOK, Range
      <4> QED
        BY <2>2, <2>3, <2>6, <3>2, <3>4, <4>1
    <3> QED
      BY <3>3, <3>4
  <2>12. UpToDate(c)'
    BY <2>8, <2>9, <2>10, <2>11 DEF UpToDate
  <2> QED
    BY <2>1, <2>3, <2>7, <2>12, TurnKeeps DEF historyVars
<1> QED
  BY <1>1, <1>2

LEMMA WakeKeeps ==
  ASSUME Inv, NEW c \in Conn, Wake(c)
  PROVE  Inv'
<1>1. /\ bell' \in [Conn -> BOOLEAN]
      /\ UNCHANGED <<tableVars, sessionVars, consoles, historyVars>>
  BY DEF Wake, Inv, TypeOK
<1>2. CASE Ends(c)
  BY <1>1, <1>2, EndKeeps
<1>3. CASE UNCHANGED <<pc, told, queue, lagged>>
  <2>1. TypeOK'
    BY <1>1, <1>3 DEF Inv, TypeOK, tableVars, sessionVars
  <2>2. UpToDate(c)'
    BY <1>1, <1>3, Untouched DEF historyVars
  <2> QED
    BY <1>1, <1>3, <2>1, <2>2, TurnKeeps DEF historyVars
<1> QED
  BY <1>2, <1>3 DEF Wake

LEMMA LeaveKeeps ==
  ASSUME Inv, NEW c \in Conn, Leave(c)
  PROVE  Inv'
  BY EndKeeps DEF Leave, Inv, TypeOK

-----------------------------------------------------------------------------
(* Steps of the session, and all steps. *)

\* A step that changes neither the table nor a connection.
LEMMA SessionKeeps ==
  ASSUME Inv, UNCHANGED <<tableVars, pc, told, queue, lagged, consoles, missed, overtaken>>,
         registry' \in {"this", "none", "other"},
         closing' \in {"open", "removed", "announced", "closed"},
         bell' \in [Conn -> BOOLEAN]
  PROVE  Inv'
<1>1. TypeOK'
  BY DEF Inv, TypeOK, tableVars
<1>2. \A c \in Conn : UpToDate(c)'
  BY Untouched
<1> QED
  BY <1>1, <1>2, PendingKept DEF Inv, tableVars

LEMMA StepInv ==
  ASSUME ViewersAssumption, Inv, [Next]_vars
  PROVE  Inv'
<1>1. ASSUME NEW s \in Sender,
             \/ \E shown \in BOOLEAN : Act(s, shown)
             \/ \E n \in 1 .. Len(log) : Undo(s, n)
             \/ Redeal(s)
             \/ Send(s)
      PROVE  Inv'
  BY <1>1, ActKeeps, UndoKeeps, RedealKeeps, SendKeeps
<1>2. ASSUME NEW c \in Conn, Arrive(c) \/ Turn(c) \/ Wake(c) \/ Leave(c)
      PROVE  Inv'
  BY <1>2, ArriveKeeps, FirstSnapshotKeeps, SubscribeKeeps, KibitzKeeps, SnapshotKeeps,
     LagKeeps, ReceiveKeeps, WakeKeeps, LeaveKeeps
  DEF Turn
<1>3. CASE Note
  BY <1>3, NoteKeeps
<1>4. CASE Close
  BY <1>4, SessionKeeps DEF Close, connVars, historyVars, Inv, TypeOK
<1>5. CASE CloseTables
  BY <1>5, CloseTablesKeeps
<1>6. CASE CloseConsoles
  <2>1. bell' \in [Conn -> BOOLEAN]
    BY <1>6, RingTypes DEF CloseConsoles, Inv, TypeOK
  <2> QED
    BY <1>6, <2>1, SessionKeeps DEF CloseConsoles, Inv, TypeOK
<1>7. CASE Create
  BY <1>7, SessionKeeps DEF Create, connVars, Inv, TypeOK
<1>8. CASE UNCHANGED vars
  BY <1>8, SessionKeeps DEF vars, sessionVars, connVars, historyVars, Inv, TypeOK
<1> QED
  BY <1>1, <1>2, <1>3, <1>4, <1>5, <1>6, <1>7, <1>8 DEF Next

LEMMA InvAlways == Spec => []Inv
<1>1. Init => Inv
  BY InitInv, ViewersAssumption
<1>2. Inv /\ [Next]_vars => Inv'
  BY StepInv, ViewersAssumption
<1> QED
  BY <1>1, <1>2, PTL DEF Spec

-----------------------------------------------------------------------------
(* What the clients get to know. *)

\* No queue grows beyond the channel's capacity, and no client is told of
\* anything the table has not seen (routes/ws.rs, the channel of a table).
THEOREM TypeCorrect == Spec => []TypeOK
<1>1. Inv => TypeOK
  BY DEF Inv
<1> QED
  BY <1>1, InvAlways, PTL

\* No call or card is lost to a client that has its first snapshot, however
\* short the queue and however many change the table; unless a message fell
\* between the snapshot and the subscription (routes/ws.rs, the snapshot
\* after Lagged).
THEOREM ClientsMissNothing == Spec => []NothingLost
<1>1. Inv => NothingLost
  BY DEF Inv, UpToDate, Tracks, NothingLost
<1> QED
  BY <1>1, InvAlways, PTL

\* No client keeps a call or card that was taken back, unless the undo
\* overtook its announcement (routes/ws.rs, the snapshot after an undo).
THEOREM ClientsKeepNoGhosts == Spec => []NoGhosts
<1>1. Inv => NoGhosts
  BY DEF Inv, UpToDate, Tracks, NoGhosts
<1> QED
  BY <1>1, InvAlways, PTL
=============================================================================
