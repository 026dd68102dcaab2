------------------------------ MODULE Lockstep ------------------------------
(***************************************************************************)
(* The deck of a session and its tables (src/src/sessions.rs): a set of    *)
(* boards is loaded and one board after another dealt to all tables, while *)
(* tables are added and single tables sent ahead.  The deck, the list of   *)
(* tables and every table have locks of their own, none held with another: *)
(* an operation is a row of steps, and several hosts and arriving players  *)
(* run theirs at once.  What is played at a table is left out.             *)
(***************************************************************************)
EXTENDS Integers, Sequences, SequencesExt, FiniteSets, TLC

CONSTANTS
  Host,        \* connections that may control the session
  Arrival,     \* arriving players, for whom tables are added
  SetSize,     \* the boards in each set that may be loaded
  NoSet,
  FirstSet,    \* the set the session is created with, NoSet if it is idle
  FirstTables, \* the tables it is created with
  MaxTables,   \* bound: tables in all
  MaxAsked,    \* bound: the board numbers and windows asked for
  Adhoc,       \* whether the session is a friends' table
  Setting,     \* settings of the bots and boards that tables inherit
  Value,       \* their values
  Default

DeckSet == DOMAIN SetSize
Actor   == Host \cup Arrival
Table   == 1 .. MaxTables

ASSUME LockstepAssumption ==
  /\ NoSet \notin DeckSet
  /\ FirstSet \in DeckSet \cup {NoSet}
  /\ \A d \in DeckSet : SetSize[d] \in Nat \ {0}
  /\ MaxTables \in Nat /\ FirstTables \in 0 .. MaxTables
  /\ MaxAsked \in Nat
  /\ Adhoc \in BOOLEAN
  /\ Default \in Value
  /\ "boardMode" \in Setting /\ Setting \cap {"boards", "window"} = {}

VARIABLES
  deck,        \* the loaded set and the index of its current board
  session,     \* the settings of the session
  open,        \* how many boards are open
  rooms,       \* the tables, in the order of the session's list
  tableNo,     \* the number of the newest table
  shows,       \* the board each table plays
  at,          \* the index each table believes it is at
  set,         \* the settings of each table
  op,          \* the operation each actor has under way
  settled,     \* history: no operation ran across the last to set these
  ahead        \* history: tables sent ahead since they were last dealt to

roomVars == <<shows, at, set>>
sessionVars == <<deck, session, open, rooms, tableNo>>
vars == <<sessionVars, roomVars, op, settled, ahead>>

-----------------------------------------------------------------------------

Placeholder == <<NoSet, 0>>
Boards(d) == IF d = NoSet THEN 0 ELSE SetSize[d]
Size == Boards(deck.set)
Loaded == deck.set # NoSet
DeckBoard == IF Loaded THEN <<deck.set, deck.index>> ELSE Placeholder

Idle == [step |-> "idle"]
Go(a, next) == op' = [op EXCEPT ![a] = next]
In(a, step) == op[a].step = step
Aspect == {"boards", "window"} \cup Setting

\* An operation begins.  If it runs alone it settles what it sets at all
\* tables, otherwise nothing is settled any more.
Begin(a, next, sets) ==
  /\ In(a, "idle")
  /\ Go(a, next)
  /\ settled' = IF \A b \in Actor \ {a} : In(b, "idle") THEN settled \cup sets ELSE {}

Continue(a, step, next) == In(a, step) /\ Go(a, next) /\ UNCHANGED settled

-----------------------------------------------------------------------------
(* Dealing a board of the set to all tables. *)

\* Whatever board number is asked for, one of the set is dealt.  Without a
\* set nothing will be, unless one is loaded in between.
Deal(index) == [step |-> "deal", index |-> index]
BeginDeal(a, index) ==
  /\ Begin(a, Deal(index), IF Loaded THEN {"boards"} ELSE {})
  /\ UNCHANGED <<sessionVars, roomVars, ahead>>

Goto(a, n) == BeginDeal(a, IF n = 0 THEN 0 ELSE n - 1)

\* The current board is read now, and the one beside it is dealt later.
NextBoard(a) == BeginDeal(a, deck.index + 1)
PrevBoard(a) == BeginDeal(a, IF deck.index = 0 THEN 0 ELSE deck.index - 1)

\* Slip: the deck does not note the board that is dealt.
DealDeckUnmoved(a) ==
  /\ In(a, "deal") /\ Loaded
  /\ \E i \in {IF op[a].index < Size THEN op[a].index ELSE Size - 1} :
       Continue(a, "deal", [step |-> "list", index |-> i, board |-> <<deck.set, i>>])
  /\ UNCHANGED <<sessionVars, roomVars, ahead>>

\* Slip: the index is not cut to the set.
DealDeckUncut(a) ==
  /\ In(a, "deal") /\ Loaded
  /\ \E i \in {op[a].index} :
       /\ Continue(a, "deal", [step |-> "list", index |-> i, board |-> <<deck.set, i>>])
       /\ deck' = [deck EXCEPT !.index = i]
  /\ UNCHANGED <<session, open, rooms, tableNo, roomVars, ahead>>

\* The deck: cut the index to the set, note it, take its board.
DealDeck(a) ==
  /\ In(a, "deal") /\ Loaded
  /\ \E i \in {IF op[a].index < Size THEN op[a].index ELSE Size - 1} :
       /\ Continue(a, "deal", [step |-> "list", index |-> i, board |-> <<deck.set, i>>])
       /\ deck' = [deck EXCEPT !.index = i]
  /\ UNCHANGED <<session, open, rooms, tableNo, roomVars, ahead>>

DealNothing(a) ==
  /\ ~Loaded
  /\ Continue(a, "deal", Idle)
  /\ UNCHANGED <<sessionVars, roomVars, ahead>>

\* The tables there are now,
DealList(a) ==
  /\ Continue(a, "list", [step  |-> IF rooms = <<>> THEN "idle" ELSE "tables",
                          index |-> op[a].index, board |-> op[a].board, todo |-> rooms])
  /\ UNCHANGED <<sessionVars, roomVars, ahead>>

Rest(a) == IF Len(op[a].todo) = 1 THEN Idle ELSE [op[a] EXCEPT !.todo = Tail(@)]

\* and one after another gets the board, from the first call on.
DealTable(a) ==
  /\ In(a, "tables")
  /\ \E t \in {Head(op[a].todo)} :
       /\ shows' = [shows EXCEPT ![t] = op[a].board]
       /\ at' = [at EXCEPT ![t] = op[a].index]
       /\ ahead' = ahead \ {t}
  /\ Continue(a, "tables", Rest(a))
  /\ UNCHANGED <<sessionVars, set>>

-----------------------------------------------------------------------------
(* Loading a set, with or without a board mode, and changing a setting. *)

Store(s, v, total) == [step |-> "store", setting |-> s, value |-> v, total |-> total]
OpenAll(total) == [step |-> "open", total |-> total]

\* A new set begins at its first board; the boards are open and dealt later.
Load(a, d) ==
  /\ \/ Begin(a, OpenAll(SetSize[d]), {"boards", "window"})
     \/ \E v \in Value : Begin(a, Store("boardMode", v, SetSize[d]), {"boards", "window", "boardMode"})
  /\ deck' = [set |-> d, index |-> 0]
  /\ UNCHANGED <<session, open, rooms, tableNo, roomVars, ahead>>

LoadOpens(a) ==
  /\ In(a, "open")
  /\ open' = op[a].total
  /\ Continue(a, "open", Deal(0))
  /\ UNCHANGED <<deck, session, rooms, tableNo, roomVars, ahead>>

ChangeSetting(a, s, v) ==
  /\ Begin(a, Store(s, v, 0), {s})
  /\ UNCHANGED <<sessionVars, roomVars, ahead>>

AfterSetting(a) == IF op[a].total = 0 THEN Idle ELSE OpenAll(op[a].total)

\* The session first, for tables to come; then the tables there are.
StoreSetting(a) ==
  /\ In(a, "store")
  /\ session' = [session EXCEPT ![op[a].setting] = op[a].value]
  /\ Continue(a, "store", [op[a] EXCEPT !.step = "roster"])
  /\ UNCHANGED <<deck, open, rooms, tableNo, roomVars, ahead>>

SettingList(a) ==
  /\ In(a, "roster")
  /\ Continue(a, "roster",
       IF rooms = <<>> THEN AfterSetting(a)
       ELSE [step |-> "apply", setting |-> op[a].setting, value |-> op[a].value,
             total |-> op[a].total, todo |-> rooms])
  /\ UNCHANGED <<sessionVars, roomVars, ahead>>

SettingTable(a) ==
  /\ In(a, "apply")
  /\ \E t \in {Head(op[a].todo)} : set' = [set EXCEPT ![t][op[a].setting] = op[a].value]
  /\ Continue(a, "apply", IF Len(op[a].todo) = 1 THEN AfterSetting(a) ELSE Rest(a))
  /\ UNCHANGED <<sessionVars, shows, at, ahead>>

-----------------------------------------------------------------------------
(* Adding a table, and sending one ahead. *)

\* A new table takes the deck's current board, and believes it is at the
\* first; it takes the settings of the session; then it is listed.
Add(a) ==
  /\ tableNo < MaxTables
  /\ tableNo' = tableNo + 1
  /\ Begin(a, [step |-> "inherit", table |-> tableNo + 1, board |-> DeckBoard], {})
  /\ UNCHANGED <<deck, session, open, rooms, roomVars, ahead>>

\* Slip: a new table keeps the default settings.
InheritDefault(a) ==
  /\ In(a, "inherit")
  /\ \E t \in {op[a].table} :
       /\ Continue(a, "inherit", [step |-> "push", table |-> t])
       /\ shows' = [shows EXCEPT ![t] = op[a].board]
       /\ at' = [at EXCEPT ![t] = 0]
  /\ UNCHANGED <<sessionVars, set, ahead>>

Inherit(a) ==
  /\ In(a, "inherit")
  /\ \E t \in {op[a].table} :
       /\ Continue(a, "inherit", [step |-> "push", table |-> t])
       /\ shows' = [shows EXCEPT ![t] = op[a].board]
       /\ at' = [at EXCEPT ![t] = 0]
       /\ set' = [set EXCEPT ![t] = session]
  /\ UNCHANGED <<sessionVars, ahead>>

Push(a) ==
  /\ In(a, "push")
  /\ rooms' = Append(rooms, op[a].table)
  /\ Continue(a, "push", Idle)
  /\ UNCHANGED <<deck, session, open, tableNo, roomVars, ahead>>

\* The host sends one table to its next board: the boards are taken from
\* the deck, whose index does not move, then the table counts on.
Advance(a, t) ==
  /\ t \in Range(rooms)
  /\ Begin(a, [step |-> "advance", table |-> t, boards |-> deck.set], {})
  /\ UNCHANGED <<sessionVars, roomVars, ahead>>

AdvanceTable(a) ==
  /\ In(a, "advance")
  /\ Continue(a, "advance", Idle)
  /\ \E t \in {op[a].table}, d \in {op[a].boards} :
       IF at[t] + 1 < Boards(d)
       THEN /\ at' = [at EXCEPT ![t] = at[t] + 1]
            /\ shows' = [shows EXCEPT ![t] = <<d, at[t] + 1>>]
            /\ ahead' = ahead \cup {t}
       ELSE UNCHANGED <<at, shows, ahead>>
  /\ UNCHANGED <<sessionVars, set>>

\* Slip: the window is not cut to the set.
WidenUncut(a, n) ==
  /\ Begin(a, [step |-> "widen", to |-> n], {})
  /\ UNCHANGED <<sessionVars, roomVars, ahead>>

\* The window of open boards, cut to the set, is widened and never narrowed.
Widen(a, n) ==
  /\ Begin(a, [step |-> "widen", to |-> IF n < Size THEN n ELSE Size], {})
  /\ UNCHANGED <<sessionVars, roomVars, ahead>>

WidenTo(a) ==
  /\ In(a, "widen")
  /\ open' = IF op[a].to > open THEN op[a].to ELSE open
  /\ Continue(a, "widen", Idle)
  /\ UNCHANGED <<deck, session, rooms, tableNo, roomVars, ahead>>

-----------------------------------------------------------------------------

Init ==
  /\ deck = [set |-> FirstSet, index |-> 0]
  /\ session = [s \in Setting |-> Default]
  /\ open = IF Adhoc \/ Size = 0 THEN Size ELSE 1
  /\ rooms = [t \in 1 .. FirstTables |-> t]
  /\ tableNo = FirstTables
  /\ shows = [t \in Table |-> DeckBoard]
  /\ at = [t \in Table |-> 0]
  /\ set = [t \in Table |-> [s \in Setting |-> Default]]
  /\ op = [a \in Actor |-> Idle]
  /\ settled = Aspect
  /\ ahead = {}

Command(h) ==
  \/ \E d \in DeckSet : Load(h, d)
  \/ \E n \in 0 .. MaxAsked : Goto(h, n) \/ Widen(h, n)
  \/ NextBoard(h) \/ PrevBoard(h)
  \/ \E s \in Setting, v \in Value : ChangeSetting(h, s, v)
  \/ Add(h)
  \/ \E t \in Table : Advance(h, t)

Work(a) ==
  \/ DealDeck(a) \/ DealNothing(a) \/ DealList(a) \/ DealTable(a)
  \/ LoadOpens(a) \/ StoreSetting(a) \/ SettingList(a) \/ SettingTable(a)
  \/ Inherit(a) \/ Push(a) \/ AdvanceTable(a) \/ WidenTo(a)

Next ==
  \/ \E h \in Host : Command(h)
  \/ \E a \in Arrival : Add(a)
  \/ \E a \in Actor : Work(a)

Spec == Init /\ [][Next]_vars

-----------------------------------------------------------------------------
(* What the operations keep. *)

Quiet == \A a \in Actor : In(a, "idle")
BoardOf == {Placeholder} \cup UNION {{d} \X (0 .. SetSize[d] - 1) : d \in DeckSet}

\* The deck's index is one of its boards, every table plays the placeholder
\* or a board of some set, tables are listed once.
TypeOK ==
  /\ deck \in [set : DeckSet \cup {NoSet}, index : Nat]
  /\ IF Loaded THEN deck.index \in 0 .. Size - 1 ELSE deck.index = 0
  /\ session \in [Setting -> Value]
  /\ open \in Nat
  /\ tableNo \in 0 .. MaxTables
  /\ IsInjective(rooms) /\ Range(rooms) \subseteq 1 .. tableNo
  /\ shows \in [Table -> BoardOf]
  /\ at \in [Table -> Nat]
  /\ set \in [Table -> [Setting -> Value]]
  /\ settled \subseteq Aspect /\ ahead \subseteq Table

\* Whatever interleavings went before, one deal to all tables that nobody
\* overlaps brings every table, the ones added late included, to the board
\* the deck stands at (sessions.rs deal_index_to_all, "the board all
\* teacher_set tables are on"); only tables sent ahead leave it again.
InStep ==
  (Quiet /\ "boards" \in settled) =>
    \A t \in Range(rooms) \ ahead : shows[t] = DeckBoard

\* The same of the settings: after a change that nobody overlaps, every
\* table has the setting that the session hands to new ones (set_bot_mode,
\* set_board_mode, add_room, load_boards with a mode).
SettingsAgree ==
  Quiet => \A s \in Setting \cap settled, t \in Range(rooms) :
             set[t][s] = session[s]

\* The window of open boards is within the loaded set, unless a load and a
\* widening overlapped (open_boards_to, load_boards).
WindowFits == (Quiet /\ "window" \in settled) => open <= Size

\* A table sent ahead within a set goes to the board after the one it plays
\* ("Advance `room` to its next board", advance).
AdvanceIsNext ==
  [][\A a \in Host : (In(a, "advance") /\ AdvanceTable(a)) =>
       \A t \in {op[a].table} :
         (shows'[t] # shows[t] \/ at'[t] # at[t]) /\ shows[t][1] = deck.set
           => shows'[t] = <<deck.set, shows[t][2] + 1>>]_vars
=============================================================================
