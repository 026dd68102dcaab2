# bridge-table-service in TLA+

A bridge table service seats people and bots at tables, admits their calls and
cards, lets them claim and undo, and runs sessions of tables for a teacher or a
host.  This project models what it does to its state, checks the models with TLC
and proves some of what they show with TLAPS.  Paths below are relative to
`src/src/` of the repository.

## The system

| Part | State | Operations |
|---|---|---|
| Auction rules (`engine/auction.rs`) | none | next caller, legality of a call, end of the auction, contract |
| Card play rules (`engine/play.rs`) | none | legal cards, winner of a trick |
| Event-sourced table (`table.rs`) | board, log of actions | apply, undo, new table, fold |
| Room (`rooms.rs`) | the table, the seats with their occupants, open seats, reservations, board mode, sides whose bots pass | seat, rebind, vacate, reserve, who controls a seat |
| Bot driver (`bots.rs`) | one running flag per room, a watchdog per room | kick; a loop that decides under the lock, thinks without it, acts under it |
| Claims (`claims.rs`) | none between claims; the request during one | check under the lock, judge without it, apply under it |
| Client protocol (`routes/ws.rs`) | per connection: its room, its seats, two broadcast receivers | bid, play, claim, undo, deal, leave, the host's controls |
| Sessions (`sessions.rs`) | rooms, waiting lobby, connections, deck with its current board, policies, pause | place, assign, kick, reserve, load, deal to all, advance |
| Backends (`bots/bba.rs`, `bots/ben.rs`) | the cache of one predicted auction per room | generate, continue a prediction |
| Registry, dealing, authentication, admin channel, events, start-up | maps, a write-only database | lookups and I/O |

They interact in three ways.  Handlers and tasks share a room under one
asynchronous lock and release it before anything slow.  Every handler that
changed a room kicks its bot driver, after the lock is released.  Sessions and
rooms broadcast notices that connections act on, re-reading the state.

What is hard here:

* **Two looks with the lock released between them.**  A bot's turn and a claim
  decide, wait for a backend, and act; a guard (length of the log, number of
  cards played) stands for "nothing happened meanwhile".
* **Starting and stopping the driver** with a flag that is taken and given up
  outside the lock, while kicks, a pause and a watchdog race with it.
* **Everything is a fold of the log**: undo truncates it, so every prefix has to
  fold to the position that stood there; the rules of the auction and of the
  play look only at the end of it.
* **Who controls a seat** depends on occupants, grace periods, open seats, board
  mode and the contract, and is asked at different moments by the driver, by the
  handlers and by undo.
* **Seats and connections**: several connections to a person, several seats to a
  connection, reservations, a waiting lobby and host actions in several steps.
* **Lockstep**: one deck dealt to many rooms without a common lock, while tables
  are added and settings change.
* **Placement**: a search for a chair goes from table to table, a lock at a time,
  and opens a table at its end.
* **A cache that outlives its lock**: predicted calls are dropped after the table
  has been rewound, while a bot may be asking for more of them.
* **Snapshots and announcements**: a change is announced after its lock is
  released, on a channel that forgets what a slow connection has not taken.

What makes each part correct: the auction admits exactly what the Laws do and
ends; the fold agrees with the game; cards and tricks are conserved; nobody is
left without a move; one driver runs in a room, stops when paused and never stops
for good while a bot has the turn; a claim ends a board once, with the tricks it
was judged for; an undo hands the turn back to a person; a deal or a setting that
nobody overlaps reaches every table; people are spread or paired as the policy
wants, and nobody loses or doubles a chair; no prediction outlives its board; and
no client is left without a call or card, or with one that was taken back.

## The modules

| Module | Models | From |
|---|---|---|
| `Bridge` | seats, cards, legal cards, winner of a trick | `engine/play.rs` |
| `Auction` | calls, legality, end, contract, as operators | `engine/auction.rs` |
| `Bidding` | one auction as a state machine: `MakeCall`, `UndoTo` | `table.rs` |
| `TableLog` | board and log; `Fold`, `Admits`, `Apply`, `UndoTo`, `NewTable` | `table.rs` |
| `BridgeGame` | abstract specification: the game move by move, with no log | the Laws, as the table promises them |
| `TableGame` | properties of the table; the refinement to `BridgeGame` | |
| `Room` | a room with its seats, mode and pause, one action per handler | `rooms.rs`, `routes/ws.rs`, `sessions.rs` |
| `BotDriver` | the driver tasks, the watchdog and the kicks of the handlers | `bots.rs` |
| `Claims` | claims in their two steps among everything else in the room | `claims.rs`, `routes/ws.rs` |
| `ClaimsJudged` | the same with what each claim was judged on | |
| `Seats` | people, connections, lobby, reservations and the hosts around one table; the refinement to the seats of `Room` | `sessions.rs`, `rooms.rs`, `routes/ws.rs` |
| `Placement` | the tables of a session, the seat policies and the search for a chair among them | `sessions.rs`, `routes/ws.rs` |
| `Lockstep` | the deck, the list of tables, their boards and settings, one step for each lock | `sessions.rs`, `routes/ws.rs` |
| `Predictions` | a bot's bid from the cache or the backend, and everyone who drops the cache | `bots/bba.rs`, `bots.rs`, `routes/ws.rs` |
| `Viewers` | connections with their snapshots, queues and lags; the closing of a session | `routes/ws.rs`, `routes/admin.rs`, `rooms.rs` |
| `BiddingProofs`, `BotDriverProofs`, `SeatsProofs`, `PlacementProofs`, `LockstepProofs`, `PredictionsProofs`, `ViewersProofs` | the theorems about the module of that name | |
| `TableProofs` | the theorems about `TableLog`, `TableGame`, `Claims` and `ClaimsJudged`; `BotDriverProofs` builds on them | |
| `MC...` | instances for TLC | |

`Bridge` <- `Auction` <- `Bidding`; `Auction` <- `TableLog` <- `Room` <- `BotDriver`
and `Claims`, each extending the one before, so that a driver or a claim runs over
the real table and not over a stand-in for it.  `Seats` stands beside them: it
keeps who sits where and leaves out the table, and instantiates `Room` to show
that whatever becomes of people and connections changes the seats of a room by one
of the disjuncts of `SeatStep`.  `BotDriver` has all of these among its handlers;
`Claims` has people who sit down and get up only.  `Placement` widens `Seats` to
many tables and leaves out how people come back; it extends `Bridge` for the seats.
`Predictions` extends `Auction`: what `BotDriver` calls a suggestion is worked out
there, for a bid.  `Lockstep` and `Viewers` stand alone: a board is a name in the
first, an action on the table an identity in the second.

A definition whose comment begins with *Slip* is a plausible mistake in the
definition after it.  It is no part of the model: replacing the definition by its
slip makes a property fail, which shows that the property depends on the code
being right there.

### State and actions against the code

* Seats are 0 to 3 clockwise from North, so `Direction::next` is addition modulo
  4.  A strain is its rank.  The absence of a seat is -1.
* `TableLog.actions` is `TableState.actions`.  `Fold` is `TableState::fold` without
  the fields that only snapshots use.  `Tricks` is 13 in the code, `Calls` the 38
  calls.  The flag that marks a claim as a ruling does not influence the fold and
  is left out of the log.
* `Room.seats` holds, for each seat, what the code asks of it: `bot` and `open` for
  an absent seat without and with the mark that no bot plays it, `here` for a
  connected occupant, `gone` and `lapsed` for a disconnected one before and after
  the grace period of a seat on turn.  Time is the action `GraceEnds`.  Who the
  occupant is, is left out; a call comes from whoever is `here`.
* Each action of `Room` is what one handler does under the lock of the room.
  `BotDriver` adds for each handler whether it kicks: `kicks` counts the handlers
  that have released the lock and not kicked yet.  Leaving, a dropped socket, the
  end of a grace period and a pause do not kick; nor does a change of board mode
  while the bots are paused, nor a deal whose source is refused, although it has
  set the board mode by then (`DealRefused`).
* A driver task is at `gate` (reads the pause), `stop` (found it, flag still up),
  `decide` (phase A under the lock), `think` (phase B, ends in phase C under the
  lock), `clear` (nothing to do, flag still up), `recheck` (flag down, looks once
  more) or `retake` (swaps the flag back).  What the bidding and card play
  backends answer is any legal action, `Suggestions`; pass is among the calls, as
  the driver passes when a backend fails.
* `Claims`: a claim is `asked` once the handler has found its sender entitled,
  `judged` once `make_claim` has looked at it under the first lock, and closed
  under the second lock or refused by the solver.  A ruling skips the solver only.
  The number of plays a claim says it has seen comes from the client and may be any;
  the model has it chosen where the first lock compares it.  A bot's turn is one step there.
* `Seats`: a person is a ticket subject.  A connection is `new`, then being placed
  (`resume`, `south`, `rebind`, `redeem`, `return`, `reclaim`, `fill`, one for each
  paragraph of `place_seat`), `placed`, `joining` once registered, `up` once it
  listens, `rebound` between learning of its new seats and leaving the lobby, then
  `closing`, `marking` or `forgetting`, and `done`.  Each connection arrives once,
  as a socket does.  Whatever takes a lock of its own is a step.  A host
  is a connection that controls the session, of its owner or a teacher; each runs one
  operation at a time, since its connection handles its messages in their order, and
  keeps in `host[h]` what the operation carries from one lock to the next.  Several
  hosts run theirs at once, so that one may act between the two locks of another's
  kick, or on somebody whom another is seating.  The seating lock is `SeatingFree`:
  of the hosts' operations, the seating of those who wait alone takes it.  The policy for arrivals may change
  between any two of them, so `Wish`, `AutoSeat` and `Wait` are alternatives.  An
  unread notice is a member of `told`: notices of changed seats carry nothing, so
  several are as one.  A chair is `here` or `gone`; its grace is in `Room`.  With
  every chair taken the code opens another table for an arrival; here it is `done`,
  and the table it opens is in `Placement`.
* `Placement`: a policy is the record that `seat_one` works from: which chairs, in
  which order, and whether the search goes round from the counter `cursor`
  (`next_arrival`).  `search` is the operation that holds the seating lock; its
  `looks` are what is left of the tables it listed when it began, one lock each.
  The host's operations hold no seating lock and come between any two looks.
* `Lockstep`: `deck`, `rooms`, `session`, `open` and each table have a lock or an
  atomic of their own in the code, so every action touches one of them.  `op` is
  what an operation carries in its local variables from one to the next: the index,
  the board, the list of tables still to do.  Next and previous board read the index
  before they deal, loaded or not, and deal nothing if there is no set by then.  `at` is the `board_index` of a room.
  The settings (`bot_mode`, `board_mode`) are stored and inherited alike.
* `Predictions`: `bot` is `choosing` when phase A is over, `asking` while it holds
  the lock of the cache across the request, `acting` with a call in hand.  `drops`
  counts the handlers that have released the room and not dropped the cache yet.
  The backend answers with any auction that extends the calls, as `generate`
  checks, or fails.
* `Viewers`: a message is an action, a notice (anything that tells nothing of the
  log), a request for snapshots or the news that the session is closed.  `told` is
  what the client knows.  The queue is the receiver of the channel; a full one loses
  its oldest message and marks the connection as lagging.  `bell` is an unread
  notice of the session: a console looks at the registry for any of them.
* `ClaimsJudged` adds to `Claims` what each claim was judged on.

## What the runs check

| Run | Instance | Shows |
|---|---|---|
| `bidding_rules` | three bids, two of one strain; all doubles, redoubles, passes, undos | bids ascend, doubles and redoubles answer the other side, nothing follows the end, auctions are bounded |
| `table_play` | one board of two cards a hand, three bids of which two are in one strain, claims of every size at every point, undo, redeal | the fold implements the game, with its declarer; cards and tricks are conserved; the log is in order; nobody is stuck |
| `driver` | two tasks, one handler on its way to its kick, people at North and South, the modes in which there is play; fairness | one driver, the flag tells; a pause stops the bots but for one action in flight; a table that waits for a bot goes on |
| `claims` | two claims under way, of South and the host, one for a trick too many; all modes | one claim to a log, credited in full, on the cards it was judged on unless the table was rewound; undo after a call or card returns the turn to a person |
| `seats` | two chairs, the owner of a friends' table and a guest of one name, a chair that may be held for the guest; two connections and one host, or one connection and two hosts | of placements and seatings of the waiting one at a time; open chairs are vacant; a connected person loses the chair to a host who takes it or on leaving only; the seats change as `Room` says, whatever the hosts do between each other's locks |
| `placement` | four people, five policies, two tables opened by the host, two upsets | no table is opened while a chair asked for stays free; people are spread evenly or paired; everyone is seated once |
| `lockstep` | two hosts and an arrival, sets of one and two boards, two tables | after a deal that ran alone every table is on the deck's board, after a change that ran alone has its setting; the window fits the set |
| `predictions` | two boards with different dealers, one bid, two calls, two handlers late with their drop | when all have dropped it the cache is of this board and these calls; calls land where they were thought about |
| `viewers` | one connection, of a player or a console; two senders; a channel of two messages; three actions | nothing is lost to a client, nothing taken back stays with it; who listened when the session closed hangs up |
| `reloaded_seat` | violated | the clean-up after an old connection marks the chair of a person who is back as disconnected |
| `added_table` | violated: a set of three boards, one host | a table added late is advanced from the first board, not from the one it plays |
| `stale_prediction` | violated: the instance of `predictions` | a prediction stored after the drop, or served before it, is of another board |

### Bounds, and why they are enough

`Bids`, `Calls`: legality compares a bid with one earlier bid by level and strain,
so three bids with an equal level, an equal strain and a difference in both meet
every case.  `Tricks`: two cards a hand are enough for a second trick led by its
predecessor's winner, a void, a ruff, a discard and a revoke to refuse; one card
where the question is about drivers or claims.  Doubles are in `bidding_rules` only,
as they change nothing in the play.  `Task`: the flag keeps
all but one task out of the loop, and a second is needed for one to be leaving
while another starts; more only add tasks that are leaving.  `MaxKicks` bounds the
handlers between their change and their kick; the kicks are alike, and the watchdog
may kick at any moment as well, so one makes every difference that two make.
`Claimant`: two, for one claim to race another.  `Person` and `Conn`: two people, so
that one can be displaced, impersonated by name or swapped with; two connections,
so that both are one person's or each has one.  `Chairs`: two, for a swap and for
several seats to a person; South is one of them, which the owner takes.
`Policies` of `seats`: one that seats and one that lets wait (a policy that only
holds arrivals back adds no step).  One chair may be reserved, and for the guest.
`Host`: two hosts beside two connections are beyond TLC, so `MaxActors` lets three of
the four take part, any three; two hosts are what it takes for one to act between the
locks of the other, and what all four do rests on the proofs, which know no bounds.
Auctions are
finite, and logs with them.

`placement`: four people fill two tables by pairs or by two chairs and open more, so
that the search goes round and past full tables, and a third person finds the spread
uneven if there is anything to find; `MaxMoves` lets the host or a departure change
a table behind the search and the table before it as well.  `lockstep`: a set of one
board and one of two make every index of one beyond or within the other; two hosts
and an arrival are enough for an operation to overlap two others; a second table is
the one that is added.  `predictions`: two calls let an opening be served, diverge
and be undone; with two boards of different dealers a call can be on the wrong one
and out of turn; two handlers can be late, one dropping what was stored for the
other.  `viewers`: two places in the queue, for a message to be driven out by the
one after the next; two senders, for an undo to overtake an action; connections do
not meet but through the table, so one is enough.

### Fairness

`FairDriverSpec` assumes that a driver task goes on (the runtime polls it, the
backends answer or time out, after which the task passes or plays a rule bot's
card), and that the watchdog ticks for ever (`ensure_keepalive` never ends and rooms
are not evicted).  Nothing is assumed of people, nor of a handler on its way to its
kick, for which the watchdog would make up.  Both are weak fairness with its ENABLED
worked out: a task that is not idle can always step, and the watchdog spawns a task
whenever the flag is down and one is idle.  `BotsKeepGoing` then
says that a table where, from some moment on, the bots are not paused and a bot
has the turn does not keep its log.  Without the watchdog it would be false: the
kick of a resume is lost when it comes while the driver is about to clear its flag
over the pause.

`Viewers!FairSpec` assumes weak fairness of each connection's steps towards its
client, and of the look of a woken console.  Both are branches of one `select!`,
which takes its ready branches at random, in a task that the runtime polls; sends to
a client that does not read block, and a socket that breaks ends the connection,
which is `Leave` and happens when it likes.  Nothing is assumed of senders or of
the one who closes the session.

## What is proved

TLAPS proves the following for every value of the constants that the assumptions
admit; `PROJECT.json` lists the theorems with what each establishes.

**The auction** (`BiddingProofs`, for every set of bids): the type invariant,
`BidsAscend`, `DoublesAnswer`, `NothingAfterTheEnd` and `AuctionBounded`.  The
first four are inductive with the type invariant.  The work is in what a scan for
the last call of a kind finds (`LastBidIndex`, `LastActionIndex`), in
`BidOutranksAll`, which makes a comparison with the last bid one with all bids
because outranking is transitive, and in `LegalDoubleAnswers`.  The bound needs a
strengthening, `AllWithin`: of every auction that undo can bring back, it says how
far the last call that is not a pass can be from the start, by the number of bids
and by whether that call is a bid, a double or a redouble.  Assumption:
`BidsAssumption`, the bids are bids.

**The table** (`TableProofs`, for any boards, hands of any size and any set of calls
with a pass): `TypeOK`, `LogInOrder`, `CardsConserved`, `TricksAccounted`,
`NeverStuck`.  None of them is inductive, as undo brings back any earlier log and the
guards look at the end of the log only.  The inductive `Inv` says of *every prefix*
that it is `Sound`: calls, then plays of a contract, then at most one claim; plays in
turn round the table from the leader of each trick; every card from the hand of its
seat and played once; hands that shrink by a card a trick; a claim for no more than
was left.  Undo then keeps it for free, a new table starts it afresh, and the whole
work is that an admitted action makes a sound log a sound one (a call, a card, the
last card of a trick or a claim at a time).  The fold reads its log in one pass, a
recursive function of the position: that it splits a log into its parts, and what it
makes of one action more, is proved once (`ScanIs`) and everything else speaks of the
parts.  Induction is stated for a set of numbers (`Induct`, from the library's fact
that a non-empty set has a least one), since the library's induction theorems take an
operator, which the provers cannot instantiate; `Recursion` gets from it that the
recursive function exists.  Assumption:
`TableAssumption`: thirteen cards a hand, or any other positive number, no card in
two hands.

**The game** (`TableImplementsGame`, same module and assumption): the table, with the
positions it has been through as history, implements `BridgeGame`, where there is no
log: every admitted call, card and claim is the move of the game it stands for, a new
table starts a game, and undo is a return to a position that was there.  `GameInv`
says that the history is the fold of the prefixes, and adds to their soundness that
their auctions are legal to their ends.  `CallMoves`, `PlayMoves` and `ClaimMoves` are
the three moves.  The declarer is where it is hard: the code takes the first of the
side to have named the strain, the game keeps it from bid to bid.

**Claims** (`TableProofs`, for any claims under way and anything they ask for):
`ClaimsTypeOK`, `OneClaim`, `ClaimCreditedInFull`, `UndoOfTurnWaits`,
`ClaimJudgedHere`.  `ClaimsInv` adds to `Inv` that a claim judged under the first lock
asked for no more tricks than there were then; with the guard on the number of cards
played, that is what is left under the second.  `OneClaim` follows since a claim ends
the play and so admits nothing after it.  For `UndoOfTurnWaits` every action of the log
must have been admitted to the log before it (`AllAdmitted`): the one that is taken
back was then made by the seat on turn.  For `ClaimJudgedHere`, `VerdictInv` says that
while nothing was taken back, the cards a claim was judged on are the first of those
played, so that as many cards are the same cards.  Assumptions: `TableAssumption`,
`RoomAssumption` (seats people may take are seats, modes are modes) and
`ClaimsAssumption` (what is asked for is a number of tricks of a seat).

**The driver** (`BotDriverProofs`, for every number of tasks and handlers, every board,
call and seat, every interleaving): `DriverTypeOK`, `OneDriver` and `PauseHolds`.
`OneDriver` says not only that two tasks are never in the loop but that the flag is up
exactly while one is; with where the tasks are it is inductive (`DriverInv`), since
each of the steps of a task either stays in the loop, leaves it with the flag dropped,
or enters it having found the flag down (`TaskStepMoves`).  `PauseInv` strengthens
`PauseHolds`: at most one action lands in a pause, none while a task that has not
passed its gate again could still think.  Both use only that the handlers leave the
driver's variables alone; `DriverTypeOK` goes through all of them, and adds that a task
carries a suggestion exactly while it thinks.

`DriverPlaysTheTable` and, for claims, `ClaimsPlayTheTable` (in `TableProofs`) are how
the parts fit together: each implies `TableLog!Spec`, so that whatever tasks think and
claims wait for while the board is played, taken back and dealt anew, the room takes
its table through steps of the log alone, and every theorem about the log holds of
it.  A suggestion may be of a board that is no longer on the table, and a claim may
ask for more tricks than there are; what makes either a step of the log is that the
table admits it in the moment it lands.  That needs the log to be sound there (`Inv`:
whose turn it is is a seat, and what it may play is of its hand), and of what the
tasks carry only that it is an action of some table (`Playable`).  Assumptions:
`DriverAssumption`, `RoomAssumption` and `TableAssumption`.

**Seats** (`SeatsProofs`, for any people, connections, chairs, policies and reservations):
`TypeOK`, `OpenIsEmpty`, `ChairsAreSafe`, and `SeatsAsInRoom`, the refinement of the
seats of `Room`, for any number of hosts at work at once.  The inductive invariant
`SeatInv` says that chairs are vacant or a person's, that connections on their way have
a person, that the operations of the hosts are about people and chairs that exist, and
that open chairs are vacant.  Of the chairs a kick has in hand in its middle nothing is
known any more: another host may have emptied, opened or refilled them, and the second
lock makes bots of all of them, which is `Expel` of `Room`.  The argument goes through `Effect`: each of the thirty steps does one of
eight things to the chairs (`StepEffect`), and the theorems are about those.
`TypeInv` adds what the lock of the seating promises (`OneIsSeating`): one arrival is
being placed or one host is seating the waiting, since whoever starts either finds
nobody at it (`HostSeating`), and no operation without the lock enters either.
Assumption: `SeatsAssumption`.

**Placement** (`PlacementProofs`, for any finite set of people, any policies among the
five, any number of tables and of moves of the host): `TypeOK`, `NoNeedlessTable`, `Evenly`,
`PartnersTogether` and `SeatedOnce`.  `Ahead` is what makes the first of them inductive: a chair that stayed
free since the search began is on one of the looks it still has to take, so the
search cannot come to its end and open a table.  `Chaired` says who has a chair and
who has none by where the search stands, of everybody whom neither the host nor a
departure has touched.  The cursor grows without end in the code; here `Counted`
bounds it by the people dealt with, of whom each is counted once.

`Evenly` and `PartnersTogether` say nothing of the search, and what is inductive about
the filling, `Even`, does: while nobody is moved, the searches going round that are
over have seated one each, `q` times at all tables and once more at the first `r`, and
the one under way looks at the table after that first (`Lap`); once a table had to be
opened, all but the newest are full and stay so.  By pairs, the tables fill in their
order (`InTurn`) and are looked at in it (`InOrder`).  Either way a chair that is asked
for and free is among those free from the start (`OnSpare`), so that a search that
passes a table by passes a full one, and a table that is opened finds all others full
(`AtNew`).  Assumption: `PlacementAssumption`.

**Lockstep** (`LockstepProofs`, for any hosts and arrivals, any sets of boards, settings
and number of tables): `TypeOK`, `InStep`, `SettingsAgree` and `WindowFits`.  An aspect
(the boards, a setting, the window) is settled once an operation nobody overlapped has
set it.  `Alone` says that whenever anything is settled at most one operation is under
way; `Underway` says of that one, aspect by aspect, what it has still to do: deal to
all tables, to those left in its list, or nothing but to bring a table that is being
added.  Each step of an operation then carries one of these to the next.  Assumption:
`LockstepAssumption`.

**Predictions** (`PredictionsProofs`, for any boards, dealers, bids, passing sides,
numbers of calls and of handlers, and any backend): the type invariant, `CacheIsCurrent` and
`CallsLandInPlace`.  The inductive invariant `Inv` adds two things.  `TurnStands`: a
turn that was not overtaken by a rewinding is of the board on the table, and its
calls open those made since; with the guard on the length they are then the same,
which is why a comparison of lengths is enough there.  `ChoiceLegal`: the call a bot
is about to make is legal after the calls it has captured.  `CacheIsCurrent` follows
since only `Answer` fills the cache, and every rewinding leaves a handler that has
still to drop it.  Assumption: `PredictionsAssumption`.

**Viewers** (`ViewersProofs`, for any connections and senders, and every capacity of the
channel): `TypeOK`, `NothingLost` and `NoGhosts`.  The inductive invariant follows each
action from the log to the outboxes and the queues.  It rests on the order of a queue
(`InOrder`): behind an action that has been taken back there is a request for a
snapshot, or one is still to be sent; and on what a full queue does when it drops its
oldest message: it marks the connection as lagging, which makes it ask for a snapshot
(`Tracks` excuses who is about to get one).  Assumption: `ViewersAssumption`, the
channel keeps at least one message.

Only model-checked: the two liveness properties, `BotsKeepGoing` of the driver and
`ClosedHangUp` of the viewers, since fairness and ENABLED are out of the provers' reach.
Every invariant and action property that a passing run checks, and both refinements,
are theorems.

## Where the code and its comments part

The three violated runs are faults met while modelling; `PROJECT.json` quotes the
lines.  Two sentences promise more than the code keeps, and `Seats` follows the code:

* `sessions.rs:27` says of the benched that they are "never auto-reseated, even on
  reconnect".  It is the lobby that knows who is benched, and it forgets those who drop
  (`sessions.rs:1043`, here `Forget`): who comes back to an automatic session is seated
  (`AutoSeat`).  Nor does a seating of the waiting that is under way look again at those
  it has listed: who is placed and benched by another host meanwhile is seated all the
  same (`SeatStudent`).
* `rooms.rs:241` says of a reservation that it "Never coexists with an occupant" as
  "seating clears the reservation".  `try_place` clears the open mark only: an owner who
  sits South (`TakeSouth`), an arrival or a move takes a held chair, and the reservation
  stays beside the occupant until it is redeemed, which then gives no chair.

No property says either, as both fail in the model.

Some promises hold but for a window, and their properties say for which:
`NothingLost` leaves out what falls between a connection's first snapshot and its
subscription, `NoGhosts` an undo announced before the action it takes back,
`CacheIsCurrent` a prediction stored late, `ClaimJudgedHere` and `CallsLandInPlace` a
table that was rewound meanwhile (the guards compare a length and a count, which may
come back), `SeatedOnce` an arrival whose chair at a new table the host gave to
another, `ClosedHangUp` a console that finds a new session under the old name, and
who arrives between the removal of the session and the news of it.  `InStep`,
`SettingsAgree` and `WindowFits` speak of what an operation that ran alone has set:
while operations overlap the code promises nothing, and the properties say that
whatever the overlap left behind, the next operation that runs alone puts right.
`ChairsAreSafe` lets hosts take chairs from anybody, and a leaving connection those it
believes are its own.  `BotsKeepGoing` counts on the watchdog, which also makes up for
the last look of a driver that misses a turn (`bots.rs:160`).  Each
window is in its module; without its exception the property fails there.

## What is not modelled

* How people return to a session of several tables (`Seats` has one table, and
  `Placement` arrivals only); which connection sent a call or card (`Room` takes it
  from whoever is connected in the seat).
* Notices of the session that a player misses because it lags (`routes/ws.rs:341`):
  `Seats` delivers every notice, `Viewers` has those that wake the consoles.
* What bots do between a load and its first deal: `Lockstep` has no play, and the
  driver model takes the session as loaded.
* The sides whose bots pass, beyond the bidding of one table in `Predictions`: new
  tables do not inherit them (`sessions.rs:1264`).
* Policies of chairs and sides other than the five a console can choose.
* The contents of frames, events and snapshots; parsing of PBN and tickets.
* The card play backends, the dealer, the demo room's creation, authentication, the
  event record, configuration and observability: I/O and data.

## Plan

1. The rules, the table and the game: done.
2. `Room`, `BotDriver`, `Claims`: done, with proofs for the auction and the driver.
3. `Seats` with several hosts, `Placement`: done, with proofs for both.
4. `Lockstep`, `Predictions`, `Viewers`: done, with proofs for all three.
5. `TableProofs`, the types of the driver and the bound on auctions: done.
6. The remaining safety properties (the types of `Seats`, `Evenly`, `PartnersTogether`) and the composition of the driver and of claims with the table
   (`DriverPlaysTheTable`, `ClaimsPlayTheTable`): done.
7. What would come next: a return to a session of several tables.
