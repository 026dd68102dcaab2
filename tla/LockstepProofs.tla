---------------------------- MODULE LockstepProofs ----------------------------
(***************************************************************************)
(* What the operations on a session's deck and tables keep, for every set  *)
(* of actors, boards and settings and every number of tables.  An aspect   *)
(* that is settled was set by an operation nobody overlapped, so at most   *)
(* one operation is under way whenever anything is settled; the inductive  *)
(* invariant says, step by step, what that one has still to do.            *)
(***************************************************************************)
EXTENDS Lockstep, TLAPS

\* The operations an actor may have under way, by how far they have come.
Operation ==
       [step : {"idle"}]
  \cup [step : {"deal"}, index : Nat]
  \cup [step : {"list"}, index : Nat, board : BoardOf]
  \cup [step : {"tables", "idle"}, index : Nat, board : BoardOf, todo : Seq(Table)]
  \cup [step : {"store", "roster"}, setting : Setting, value : Value, total : Nat]
  \cup [step : {"apply"}, setting : Setting, value : Value, total : Nat, todo : Seq(Table)]
  \cup [step : {"open"}, total : Nat]
  \cup [step : {"inherit"}, table : Table, board : BoardOf]
  \cup [step : {"push"}, table : Table]
  \cup [step : {"advance"}, table : Table, boards : DeckSet \cup {NoSet}]
  \cup [step : {"widen"}, to : Nat]

\* A setting is stored as the first part of loading a set.
Loads(a) == op[a].step \in {"store", "roster", "apply"} /\ op[a].total # 0

\* The boards are opened on a loaded deck, and the deck stays loaded; who goes
\* round the tables has tables left.
Typed ==
  /\ rooms \in Seq(Table)
  /\ op \in [Actor -> Operation]
  /\ \A a \in Actor : In(a, "open") \/ Loads(a) => Loaded
  /\ \A a \in Actor : op[a].step \in {"tables", "apply"} => op[a].todo # <<>>

\* A table that is being added has a number of its own and is not listed.
Adding(a) == op[a].step \in {"inherit", "push"}
Fresh ==
  /\ \A a \in Actor : Adding(a) => op[a].table \in (1 .. tableNo) \ Range(rooms)
  /\ \A a, b \in Actor : a # b /\ Adding(a) /\ Adding(b) => op[a].table # op[b].table

\* Whenever anything is settled, at most one operation is under way.
Alone ==
  settled # {} => \A a, b \in Actor : a # b => In(a, "idle") \/ In(b, "idle")

Dealt == \A t \in Range(rooms) \ ahead : shows[t] = DeckBoard

\* The boards, while a is the only one at work: all tables are still to be
\* dealt to, if there is a set; or those left are; or all are in step, and a table that is being
\* added will be.
BoardsHold(a) ==
  \/ In(a, "deal") /\ (Loaded \/ Dealt)
  \/ In(a, "open") \/ Loads(a)
  \/ In(a, "list") /\ op[a].board = DeckBoard
  \/ /\ In(a, "tables") /\ op[a].board = DeckBoard
     /\ \A t \in Range(rooms) \ ahead : shows[t] = DeckBoard \/ t \in Range(op[a].todo)
  \/ /\ op[a].step \notin {"deal", "open", "list", "tables"} /\ ~Loads(a)
     /\ Dealt
     /\ In(a, "inherit") => op[a].board = DeckBoard
     /\ In(a, "push") => shows[op[a].table] = DeckBoard

\* The setting s, likewise.
Sets(a, s) == op[a].step \in {"store", "roster", "apply"} /\ op[a].setting = s
SettingHolds(a, s) ==
  \/ In(a, "store") /\ Sets(a, s)
  \/ In(a, "roster") /\ Sets(a, s) /\ session[s] = op[a].value
  \/ /\ In(a, "apply") /\ Sets(a, s) /\ session[s] = op[a].value
     /\ \A t \in Range(rooms) : set[t][s] = session[s] \/ t \in Range(op[a].todo)
  \/ /\ ~Sets(a, s)
     /\ \A t \in Range(rooms) : set[t][s] = session[s]
     /\ In(a, "push") => set[op[a].table][s] = session[s]

\* The window, likewise: it is still to be opened to the size of the set, or
\* within it and about to be widened to no more.
WindowHolds(a) ==
  \/ (In(a, "open") \/ Loads(a)) /\ op[a].total = Size
  \/ /\ ~In(a, "open") /\ ~Loads(a)
     /\ open <= Size
     /\ In(a, "widen") => op[a].to <= Size

Holds(a) ==
  /\ "boards" \in settled => BoardsHold(a)
  /\ \A s \in Setting \cap settled : SettingHolds(a, s)
  /\ "window" \in settled => WindowHolds(a)

Underway == \A a \in Actor : ~In(a, "idle") => Holds(a)

Inv ==
  /\ TypeOK /\ Typed /\ Fresh /\ Alone /\ Underway
  /\ InStep /\ SettingsAgree /\ WindowFits

-----------------------------------------------------------------------------
(* Facts about sequences, boards and operations. *)

\* What a sequence holds is its head and what its tail holds.
LEMMA RangeOfTail ==
  ASSUME NEW S, NEW s \in Seq(S), s # <<>>
  PROVE  /\ Head(s) \in S /\ Tail(s) \in Seq(S)
         /\ Range(s) = {Head(s)} \cup Range(Tail(s))
         /\ Len(s) = 1 => Range(s) = {Head(s)}
         /\ Len(s) # 1 => Tail(s) # <<>>
<1>1. Head(s) \in S /\ Tail(s) \in Seq(S)
  OBVIOUS
<1>2. Len(s) \in Nat /\ Len(s) >= 1 /\ Len(Tail(s)) = Len(s) - 1
  OBVIOUS
<1>3. ASSUME NEW i \in 1 .. Len(s) PROVE s[i] \in {Head(s)} \cup Range(Tail(s))
  <2>1. CASE i = 1
    BY <2>1
  <2>2. CASE i # 1
    <3>1. i - 1 \in 1 .. Len(Tail(s)) /\ Tail(s)[i - 1] = s[i]
      BY <1>2, <2>2
    <3>2. DOMAIN Tail(s) = 1 .. Len(Tail(s))
      BY <1>1
    <3>3. Tail(s)[i - 1] \in Range(Tail(s))
      BY <3>1, <3>2 DEF Range
    <3> QED
      BY <3>1, <3>3
  <2> QED
    BY <2>1, <2>2
<1>4. ASSUME NEW i \in 1 .. Len(Tail(s)) PROVE Tail(s)[i] \in Range(s)
  <2>1. i + 1 \in 1 .. Len(s) /\ Tail(s)[i] = s[i + 1]
    BY <1>2
  <2> QED
    BY <2>1 DEF Range
<1>5. Head(s) \in Range(s)
  BY <1>2 DEF Range
<1>6. Range(s) = {Head(s)} \cup Range(Tail(s))
  BY <1>1, <1>3, <1>4, <1>5 DEF Range
<1>7. Len(s) = 1 => Range(s) = {Head(s)}
  BY <1>2 DEF Range
<1>8. Len(s) # 1 => Tail(s) # <<>>
  BY <1>2
<1> QED
  BY <1>1, <1>6, <1>7, <1>8

\* Appending adds to what a sequence holds, and keeps it free of repetition
\* if what is appended is new.
LEMMA RangeOfAppend ==
  ASSUME NEW S, NEW s \in Seq(S), NEW x \in S
  PROVE  /\ Append(s, x) \in Seq(S) /\ Append(s, x) # <<>>
         /\ Range(Append(s, x)) = Range(s) \cup {x}
         /\ IsInjective(s) /\ x \notin Range(s) => IsInjective(Append(s, x))
<1>1. /\ Append(s, x) \in Seq(S)
      /\ Len(s) \in Nat /\ Len(Append(s, x)) = Len(s) + 1
      /\ \A i \in 1 .. Len(s) : Append(s, x)[i] = s[i]
      /\ Append(s, x)[Len(s) + 1] = x
  OBVIOUS
<1>2. Range(Append(s, x)) = Range(s) \cup {x}
  BY <1>1 DEF Range
<1>3. ASSUME IsInjective(s), x \notin Range(s) PROVE IsInjective(Append(s, x))
  BY <1>1, <1>3 DEF IsInjective, Range
<1> QED
  BY <1>1, <1>2, <1>3

\* A number below the size of a set names one of its boards.
LEMMA BoardOfSet ==
  ASSUME NEW d \in DeckSet, NEW i \in 0 .. SetSize[d] - 1
  PROVE  <<d, i>> \in BoardOf
  BY DEF BoardOf

\* The deck stands at a board of its set, or at the placeholder.
LEMMA DeckBoardIsBoard ==
  ASSUME LockstepAssumption, TypeOK
  PROVE  /\ DeckBoard \in BoardOf /\ Size \in Nat
         /\ Loaded => deck.set \in DeckSet /\ Size = SetSize[deck.set] /\ Size >= 1
<1>1. CASE Loaded
  <2>1. deck.set \in DeckSet /\ Size = SetSize[deck.set] /\ Size \in Nat /\ Size >= 1
    BY <1>1 DEF LockstepAssumption, TypeOK, Loaded, Size, Boards
  <2> QED
    BY <1>1, <2>1, BoardOfSet DEF TypeOK, DeckBoard
<1>2. CASE ~Loaded
  BY <1>2 DEF DeckBoard, Placeholder, BoardOf, Size, Boards, Loaded
<1> QED
  BY <1>1, <1>2

\* What an operation carries, by how far it has come.
LEMMA Carries ==
  ASSUME NEW o \in Operation
  PROVE  /\ o.step = "deal" => o.index \in Nat
         /\ o.step \in {"list", "tables"} => o.index \in Nat /\ o.board \in BoardOf
         /\ o.step = "tables" => /\ o.todo \in Seq(Table)
                                 /\ [o EXCEPT !.todo = Tail(o.todo)] =
                                    [step |-> "tables", index |-> o.index, board |-> o.board,
                                     todo |-> Tail(o.todo)]
         /\ o.step \in {"store", "roster", "apply"} =>
              o.setting \in Setting /\ o.value \in Value /\ o.total \in Nat
         /\ o.step = "store" =>
              [o EXCEPT !.step = "roster"] =
                [step |-> "roster", setting |-> o.setting, value |-> o.value, total |-> o.total]
         /\ o.step = "apply" => /\ o.todo \in Seq(Table)
                                /\ [o EXCEPT !.todo = Tail(o.todo)] =
                                   [step |-> "apply", setting |-> o.setting, value |-> o.value,
                                    total |-> o.total, todo |-> Tail(o.todo)]
         /\ o.step = "open" => o.total \in Nat
         /\ o.step = "inherit" => o.table \in Table /\ o.board \in BoardOf
         /\ o.step = "push" => o.table \in Table
         /\ o.step = "advance" => o.table \in Table /\ o.boards \in DeckSet \cup {NoSet}
         /\ o.step = "widen" => o.to \in Nat
<1>1. CASE o \in [step : {"deal"}, index : Nat]
  BY <1>1
<1>2. CASE o \in [step : {"list"}, index : Nat, board : BoardOf]
  BY <1>2
<1>3. CASE o \in [step : {"tables", "idle"}, index : Nat, board : BoardOf, todo : Seq(Table)]
  <2>1. o = [step |-> o.step, index |-> o.index, board |-> o.board, todo |-> o.todo]
    BY <1>3
  <2>2. ASSUME NEW t
        PROVE  [o EXCEPT !.todo = t] = [step |-> o.step, index |-> o.index,
                                        board |-> o.board, todo |-> t]
    BY <2>1
  <2>3. /\ o.step \in {"tables", "idle"} /\ o.todo \in Seq(Table)
        /\ o.index \in Nat /\ o.board \in BoardOf
    BY <1>3
  <2> QED
    BY <2>2, <2>3
<1>4. CASE o \in [step : {"store", "roster"}, setting : Setting, value : Value, total : Nat]
  BY <1>4
<1>5. CASE o \in [step : {"apply"}, setting : Setting, value : Value, total : Nat,
                  todo : Seq(Table)]
  <2>1. o = [step |-> o.step, setting |-> o.setting, value |-> o.value, total |-> o.total,
             todo |-> o.todo]
    BY <1>5
  <2>2. ASSUME NEW t
        PROVE  [o EXCEPT !.todo = t] = [step |-> o.step, setting |-> o.setting,
                                        value |-> o.value, total |-> o.total, todo |-> t]
    BY <2>1
  <2>3. /\ o.step = "apply" /\ o.todo \in Seq(Table)
        /\ o.setting \in Setting /\ o.value \in Value /\ o.total \in Nat
    BY <1>5
  <2> QED
    BY <2>2, <2>3
<1>6. CASE o \in [step : {"idle"}] \cup [step : {"open"}, total : Nat]
              \cup [step : {"inherit"}, table : Table, board : BoardOf]
              \cup [step : {"push"}, table : Table]
              \cup [step : {"advance"}, table : Table, boards : DeckSet \cup {NoSet}]
              \cup [step : {"widen"}, to : Nat]
  BY <1>6
<1> QED
  BY <1>1, <1>2, <1>3, <1>4, <1>5, <1>6 DEF Operation

-----------------------------------------------------------------------------
(* How a step of one operation leaves the others. *)

OthersIdle(a) == \A b \in Actor \ {a} : In(b, "idle")

LEMMA GoesOn ==
  ASSUME op \in [Actor -> Operation], NEW a \in Actor, NEW next \in Operation, Go(a, next)
  PROVE  /\ op' \in [Actor -> Operation] /\ op'[a] = next
         /\ \A b \in Actor \ {a} : op'[b] = op[b]
  BY DEF Go

\* If anything is settled after an operation begins, it runs alone.
LEMMA Begins ==
  ASSUME Inv, NEW a \in Actor, NEW next \in Operation, next.step # "idle",
         NEW sets \in SUBSET Aspect, Begin(a, next, sets)
  PROVE  /\ Go(a, next) /\ In(a, "idle") /\ settled' \subseteq Aspect /\ Alone'
         /\ settled' # {} => Quiet /\ settled' = settled \cup sets /\ OthersIdle(a)'
<1>1. Go(a, next) /\ In(a, "idle")
  BY DEF Begin
<1>2. op' \in [Actor -> Operation] /\ op'[a] = next /\ \A b \in Actor \ {a} : op'[b] = op[b]
  BY <1>1, GoesOn DEF Inv, Typed
<1>3. settled' \subseteq Aspect
  BY DEF Begin, Inv, TypeOK
<1>4. CASE OthersIdle(a)
  <2>1. OthersIdle(a)'
    BY <1>2, <1>4 DEF OthersIdle, In
  <2>2. Alone'
    BY <2>1 DEF OthersIdle, Alone
  <2>3. Quiet /\ settled' = settled \cup sets
    BY <1>1, <1>4 DEF Begin, OthersIdle, Quiet
  <2> QED
    BY <1>1, <1>3, <2>1, <2>2, <2>3
<1>5. CASE ~OthersIdle(a)
  BY <1>1, <1>3, <1>5 DEF Begin, OthersIdle, Alone
<1> QED
  BY <1>4, <1>5

\* If anything is settled while an operation runs, it runs alone, and what
\* it has still to do is known.
LEMMA Continues ==
  ASSUME Inv, NEW a \in Actor, NEW next \in Operation, NEW step, step # "idle",
         Continue(a, step, next)
  PROVE  /\ Go(a, next) /\ op[a].step = step /\ settled' = settled /\ Alone'
         /\ op[a] \in Operation
         /\ settled' # {} => Holds(a) /\ OthersIdle(a)'
<1>1. Go(a, next) /\ op[a].step = step /\ settled' = settled
  BY DEF Continue, In
<1>2. op' \in [Actor -> Operation] /\ op'[a] = next /\ \A b \in Actor \ {a} : op'[b] = op[b]
  BY <1>1, GoesOn DEF Inv, Typed
<1>3. op[a] \in Operation
  BY DEF Inv, Typed
<1>4. CASE settled = {}
  BY <1>1, <1>3, <1>4 DEF Alone
<1>5. CASE settled # {}
  <2>1. Holds(a)
    BY <1>1 DEF Inv, Underway, In
  <2>2. OthersIdle(a)
    BY <1>1, <1>5 DEF Inv, Alone, OthersIdle, In
  <2>3. OthersIdle(a)'
    BY <1>2, <2>2 DEF OthersIdle, In
  <2>4. Alone'
    BY <2>3 DEF OthersIdle, Alone
  <2> QED
    BY <1>1, <1>3, <2>1, <2>3, <2>4
<1> QED
  BY <1>4, <1>5

\* The types of the operations, and that those who deal deal a loaded deck.
LEMMA TypedStep ==
  ASSUME Typed, NEW a \in Actor, NEW next \in Operation, Go(a, next),
         rooms' \in Seq(Table), Loaded => Loaded',
         next.step = "open" => Loaded',
         (next.step \in {"store", "roster", "apply"} /\ next.total # 0) => Loaded',
         next.step \in {"tables", "apply"} => next.todo # <<>>
  PROVE  Typed'
<1>1. op' \in [Actor -> Operation] /\ op'[a] = next /\ \A b \in Actor \ {a} : op'[b] = op[b]
  BY GoesOn DEF Typed
<1>2. \A b \in Actor : In(b, "open")' \/ Loads(b)' => Loaded'
  BY <1>1 DEF Typed, Loads, Loaded, In
<1>3. \A b \in Actor : op'[b].step \in {"tables", "apply"} => op'[b].todo # <<>>
  BY <1>1 DEF Typed
<1> QED
  BY <1>1, <1>2, <1>3 DEF Typed

\* Steps that add no table.
LEMMA FreshStep ==
  ASSUME Typed, Fresh, NEW a \in Actor, NEW next \in Operation, Go(a, next),
         next.step \notin {"inherit", "push"}, UNCHANGED <<rooms, tableNo>>
  PROVE  Fresh'
<1>1. op'[a] = next /\ \A b \in Actor \ {a} : op'[b] = op[b]
  BY GoesOn DEF Typed
<1>2. \A b \in Actor : Adding(b)' => Adding(b) /\ op'[b].table = op[b].table
  BY <1>1 DEF Adding
<1> QED
  BY <1>2 DEF Fresh

\* What the acting operation is known to leave to do is all there is to know.
LEMMA Concludes ==
  ASSUME NEW a \in Actor, settled' # {} => OthersIdle(a)' /\ Holds(a)'
  PROVE  InStep' /\ SettingsAgree' /\ WindowFits' /\ Underway'
<1>1. CASE settled' = {}
  BY <1>1 DEF InStep, SettingsAgree, WindowFits, Underway, Holds
<1>2. CASE settled' # {}
  <2>1. OthersIdle(a)' /\ Holds(a)'
    BY <1>2
  <2>2. Underway'
    BY <2>1 DEF Underway, OthersIdle
  <2>3. ASSUME Quiet' PROVE op'[a].step = "idle"
    BY <2>3 DEF Quiet, In
  <2>4. InStep'
    BY <2>1, <2>3 DEF InStep, Holds, BoardsHold, Loads, In, Dealt
  <2>5. SettingsAgree'
    BY <2>1, <2>3 DEF SettingsAgree, Holds, SettingHolds, Sets, In
  <2>6. WindowFits'
    BY <2>1, <2>3 DEF WindowFits, Holds, WindowHolds, Loads, In
  <2> QED
    BY <2>2, <2>4, <2>5, <2>6
<1> QED
  BY <1>1, <1>2

\* The same before anything has begun.
LEMMA AtRest ==
  ASSUME Inv, Quiet
  PROVE  /\ "boards" \in settled => Dealt
         /\ \A s \in Setting \cap settled, t \in Range(rooms) : set[t][s] = session[s]
         /\ "window" \in settled => open <= Size
  BY DEF Inv, InStep, SettingsAgree, WindowFits, Dealt

-----------------------------------------------------------------------------
(* The invariant holds at first. *)

LEMMA InitInv ==
  ASSUME LockstepAssumption, Init
  PROVE  Inv
<1>1. rooms \in Seq(Table) /\ IsInjective(rooms) /\ Range(rooms) \subseteq 1 .. tableNo
  <2>1. rooms \in Seq(Table)
    BY DEF Init, LockstepAssumption, Table
  <2>2. \A t \in DOMAIN rooms : rooms[t] = t /\ t \in 1 .. FirstTables
    BY DEF Init
  <2> QED
    BY <2>1, <2>2 DEF Init, IsInjective, Range
<1>2. /\ deck \in [set : DeckSet \cup {NoSet}, index : Nat]
      /\ deck.index = 0 /\ deck.set = FirstSet
  BY DEF Init, LockstepAssumption
<1>3. IF Loaded THEN deck.index \in 0 .. Size - 1 ELSE deck.index = 0
  BY <1>2 DEF LockstepAssumption, Loaded, Size, Boards
<1>4. DeckBoard \in BoardOf /\ Size \in Nat
  <2>1. CASE Loaded
    BY <2>1, <1>2, <1>3, BoardOfSet DEF DeckBoard, Loaded, Size, Boards, LockstepAssumption
  <2>2. CASE ~Loaded
    BY <2>2, <1>2 DEF DeckBoard, Loaded, BoardOf, Size, Boards
  <2> QED
    BY <2>1, <2>2
<1>5. open \in Nat /\ open <= Size
  BY <1>4 DEF Init
<1>6. op \in [Actor -> Operation] /\ \A a \in Actor : op[a].step = "idle"
  BY DEF Init, Idle, Operation
<1>7. TypeOK
  <2>1. /\ session \in [Setting -> Value] /\ set \in [Table -> [Setting -> Value]]
        /\ at \in [Table -> Nat] /\ tableNo \in 0 .. MaxTables
        /\ settled \subseteq Aspect /\ ahead \subseteq Table
    BY DEF Init, LockstepAssumption
  <2>2. shows \in [Table -> BoardOf]
    BY <1>4 DEF Init
  <2> QED
    BY <1>1, <1>2, <1>3, <1>5, <2>1, <2>2 DEF TypeOK
<1>8. Typed /\ Fresh /\ Alone /\ Underway
  BY <1>1, <1>6 DEF Typed, Fresh, Alone, Underway, Loads, Adding, In
<1>9. InStep
  BY <1>1 DEF Init, InStep, Table, DeckBoard, Loaded, Range
<1>10. SettingsAgree
  BY <1>1 DEF Init, SettingsAgree, Range
<1>11. WindowFits
  BY <1>5 DEF WindowFits
<1> QED
  BY <1>7, <1>8, <1>9, <1>10, <1>11 DEF Inv

-----------------------------------------------------------------------------
(* Every operation that begins keeps it. *)

LEMMA TypeKept ==
  ASSUME TypeOK, UNCHANGED <<sessionVars, roomVars, ahead>>, settled' \subseteq Aspect
  PROVE  TypeOK'
  BY DEF TypeOK, sessionVars, roomVars, Loaded, Size

\* A command that only begins, and has nothing to do yet.
LEMMA CommandKeeps ==
  ASSUME LockstepAssumption, Inv, NEW a \in Actor, NEW next \in Operation,
         NEW sets \in SUBSET Aspect,
         Begin(a, next, sets), UNCHANGED <<sessionVars, roomVars, ahead>>,
         next.step \notin {"idle", "tables", "apply", "open", "inherit", "push"},
         (next.step \in {"store", "roster"} /\ next.total # 0) => Loaded,
         (Quiet /\ settled' = settled \cup sets /\ op'[a] = next) => Holds(a)'
  PROVE  Inv'
<1>1. /\ Go(a, next) /\ settled' \subseteq Aspect /\ Alone'
      /\ settled' # {} => Quiet /\ settled' = settled \cup sets /\ OthersIdle(a)'
  BY Begins
<1>2. op'[a] = next
  BY <1>1, GoesOn DEF Inv, Typed
<1>3. TypeOK'
  BY <1>1, TypeKept DEF Inv
<1>4. Typed'
  <2>1. rooms' \in Seq(Table) /\ (Loaded <=> Loaded')
    BY DEF Inv, Typed, sessionVars, Loaded
  <2> QED
    BY <1>1, <2>1, TypedStep DEF Inv
<1>5. Fresh'
  BY <1>1, FreshStep DEF Inv, sessionVars
<1>6. InStep' /\ SettingsAgree' /\ WindowFits' /\ Underway'
  BY <1>1, <1>2, Concludes
<1> QED
  BY <1>1, <1>3, <1>4, <1>5, <1>6 DEF Inv

LEMMA DealBegins ==
  ASSUME LockstepAssumption, Inv, NEW a \in Actor, NEW i \in Nat,
         BeginDeal(a, i)
  PROVE  Inv'
<1>1. Deal(i) \in Operation /\ Deal(i).step = "deal"
  BY DEF Deal, Operation
<1> DEFINE sets == IF Loaded THEN {"boards"} ELSE {}
<1>2. sets \in SUBSET Aspect /\ "boards" \in Aspect
  BY DEF Aspect
<1>d. Begin(a, Deal(i), sets) /\ UNCHANGED <<sessionVars, roomVars, ahead>>
  BY DEF BeginDeal
<1>3. ASSUME Quiet, settled' = settled \cup sets, op'[a] = Deal(i)
      PROVE  Holds(a)'
  <2>1. op'[a].step = "deal"
    BY <1>1, <1>3
  <2>2. ASSUME "boards" \in settled' PROVE BoardsHold(a)'
    <3>1. Loaded' = Loaded /\ DeckBoard' = DeckBoard
      BY <1>d DEF sessionVars, Loaded, DeckBoard
    <3>2. ~Loaded => Dealt
      BY <1>3, <2>2, AtRest
    <3>3. ~Loaded => Dealt'
      BY <1>d, <3>1, <3>2 DEF Dealt, sessionVars, roomVars
    <3> QED
      BY <2>1, <3>1, <3>3 DEF BoardsHold, In
  <2>3. ASSUME NEW s \in Setting \cap settled' PROVE SettingHolds(a, s)'
    <3>1. s \in Setting \cap settled
      BY <1>3, <2>3 DEF LockstepAssumption
    <3>2. \A t \in Range(rooms) : set[t][s] = session[s]
      BY <1>3, <3>1, AtRest
    <3> QED
      BY <1>d, <2>1, <3>2 DEF SettingHolds, Sets, In, sessionVars, roomVars
  <2>4. ASSUME "window" \in settled' PROVE WindowHolds(a)'
    BY <1>d, <1>3, <2>1, <2>4, AtRest DEF WindowHolds, Loads, In, sessionVars, Size
  <2> QED
    BY <2>2, <2>3, <2>4 DEF Holds
<1> HIDE DEF sets
<1> QED
  BY <1>1, <1>2, <1>d, <1>3, CommandKeeps

LEMMA GotoKeeps ==
  ASSUME LockstepAssumption, Inv, NEW a \in Actor,
         (\E n \in 0 .. MaxAsked : Goto(a, n)) \/ NextBoard(a) \/ PrevBoard(a)
  PROVE  Inv'
<1>1. deck.index \in Nat
  <2>1. Size \in Nat
    BY DeckBoardIsBoard DEF Inv
  <2> QED
    BY <2>1 DEF Inv, TypeOK
<1>2. CASE \E n \in 0 .. MaxAsked : Goto(a, n)
  <2>1. PICK n \in 0 .. MaxAsked : Goto(a, n)
    BY <1>2
  <2>2. (IF n = 0 THEN 0 ELSE n - 1) \in Nat
    BY <2>1, LockstepAssumption DEF LockstepAssumption
  <2> QED
    BY <2>1, <2>2, DealBegins DEF Goto
<1>3. CASE NextBoard(a)
  <2>1. deck.index + 1 \in Nat
    BY <1>1
  <2> QED
    BY <1>3, <2>1, DealBegins DEF NextBoard
<1>4. CASE PrevBoard(a)
  <2>1. (IF deck.index = 0 THEN 0 ELSE deck.index - 1) \in Nat
    BY <1>1
  <2> QED
    BY <1>4, <2>1, DealBegins DEF PrevBoard
<1> QED
  BY <1>2, <1>3, <1>4

LEMMA ChangeKeeps ==
  ASSUME LockstepAssumption, Inv, NEW a \in Actor, NEW s \in Setting, NEW v \in Value,
         ChangeSetting(a, s, v)
  PROVE  Inv'
<1> DEFINE next == Store(s, v, 0)
<1>1. next \in Operation /\ next.step = "store" /\ next.total = 0 /\ next.setting = s
  BY DEF Store, Operation
<1>2. {s} \in SUBSET Aspect
  BY DEF Aspect
<1>3. ASSUME Quiet, settled' = settled \cup {s}, op'[a] = next
      PROVE  Holds(a)'
  <2>1. op'[a].step = "store" /\ op'[a].total = 0 /\ op'[a].setting = s
    BY <1>1, <1>3
  <2>2. ~Loads(a)'
    BY <2>1 DEF Loads
  <2>3. ASSUME "boards" \in settled' PROVE BoardsHold(a)'
    <3>1. "boards" \in settled
      BY <1>3, <2>3 DEF LockstepAssumption
    <3>2. Dealt'
      BY <1>3, <3>1, AtRest DEF ChangeSetting, Dealt, sessionVars, roomVars, DeckBoard, Loaded
    <3> QED
      BY <2>1, <2>2, <3>2 DEF BoardsHold, In
  <2>4. ASSUME NEW z \in Setting \cap settled' PROVE SettingHolds(a, z)'
    <3>1. CASE z = s
      BY <2>1, <3>1 DEF SettingHolds, Sets, In
    <3>2. CASE z # s
      <4>1. \A t \in Range(rooms) : set[t][z] = session[z]
        BY <1>3, <3>2, AtRest
      <4> QED
        BY <2>1, <3>2, <4>1 DEF SettingHolds, Sets, In, ChangeSetting, sessionVars, roomVars
    <3> QED
      BY <3>1, <3>2
  <2>5. ASSUME "window" \in settled' PROVE WindowHolds(a)'
    <3>1. "window" \in settled
      BY <1>3, <2>5 DEF LockstepAssumption
    <3>2. open' <= Size'
      BY <1>3, <3>1, AtRest DEF ChangeSetting, sessionVars, Size
    <3> QED
      BY <2>1, <2>2, <3>2 DEF WindowHolds, In
  <2> QED
    BY <2>3, <2>4, <2>5 DEF Holds
<1> QED
  BY <1>1, <1>2, <1>3, CommandKeeps DEF ChangeSetting

\* What is settled stays so while an operation begins that settles nothing.
LEMMA RestHolds ==
  ASSUME Inv, Quiet, NEW a \in Actor, settled' = settled,
         UNCHANGED <<deck, session, open, rooms, roomVars, ahead>>,
         op'[a].step \in {"inherit", "advance", "widen"},
         op'[a].step = "inherit" => op'[a].board = DeckBoard,
         op'[a].step = "widen" => op'[a].to <= Size
  PROVE  Holds(a)'
<1>1. ~Loads(a)'
  BY DEF Loads
<1>2. ASSUME "boards" \in settled PROVE BoardsHold(a)'
  <2>1. Dealt'
    BY <1>2, AtRest DEF Dealt, roomVars, DeckBoard, Loaded
  <2>2. op'[a].step = "inherit" => op'[a].board = DeckBoard'
    BY DEF DeckBoard, Loaded
  <2> QED
    BY <1>1, <2>1, <2>2 DEF BoardsHold, In
<1>3. ASSUME NEW s \in Setting \cap settled PROVE SettingHolds(a, s)'
  <2>1. \A t \in Range(rooms) : set[t][s] = session[s]
    BY <1>3, AtRest
  <2> QED
    BY <2>1 DEF SettingHolds, Sets, In, roomVars
<1>4. ASSUME "window" \in settled PROVE WindowHolds(a)'
  <2>1. open' <= Size' /\ Size' = Size
    BY <1>4, AtRest DEF Size
  <2> QED
    BY <1>1, <2>1 DEF WindowHolds, In
<1> QED
  BY <1>2, <1>3, <1>4 DEF Holds

LEMMA AdvanceKeeps ==
  ASSUME LockstepAssumption, Inv, NEW a \in Actor, NEW t \in Table, Advance(a, t)
  PROVE  Inv'
<1> DEFINE next == [step |-> "advance", table |-> t, boards |-> deck.set]
<1>1. next \in Operation /\ next.step = "advance"
  BY DEF Operation, Inv, TypeOK
<1>2. ASSUME Quiet, settled' = settled \cup {}, op'[a] = next PROVE Holds(a)'
  <2>1. settled' = settled /\ op'[a].step = "advance"
    BY <1>1, <1>2
  <2> QED
    BY <1>2, <2>1, RestHolds DEF Advance, sessionVars
<1> QED
  BY <1>1, <1>2, CommandKeeps DEF Advance

LEMMA WidenKeeps ==
  ASSUME LockstepAssumption, Inv, NEW a \in Actor, NEW n \in 0 .. MaxAsked, Widen(a, n)
  PROVE  Inv'
<1>1. Size \in Nat /\ n \in Nat
  BY DeckBoardIsBoard, LockstepAssumption DEF Inv, LockstepAssumption
<1> DEFINE to == IF n < Size THEN n ELSE Size
<1> DEFINE next == [step |-> "widen", to |-> to]
<1>2. to \in Nat /\ to <= Size
  BY <1>1
<1> HIDE DEF to
<1>3. next \in Operation /\ next.step = "widen" /\ next.to = to
  BY <1>2 DEF Operation
<1>4. Begin(a, next, {}) /\ UNCHANGED <<sessionVars, roomVars, ahead>>
  BY DEF Widen, to
<1>5. ASSUME Quiet, settled' = settled \cup {}, op'[a] = next PROVE Holds(a)'
  <2>1. settled' = settled /\ op'[a].step = "widen" /\ op'[a].to <= Size
    BY <1>2, <1>3, <1>5
  <2> QED
    BY <1>4, <1>5, <2>1, RestHolds DEF sessionVars
<1> QED
  BY <1>3, <1>4, <1>5, CommandKeeps

\* Loading begins with the deck.
LEMMA LoadBegins ==
  ASSUME LockstepAssumption, Inv, NEW a \in Actor, NEW d \in DeckSet,
         NEW next \in Operation, next.step \in {"open", "store"}, next.total = SetSize[d],
         NEW sets \in SUBSET Aspect, {"boards", "window"} \subseteq sets,
         \A s \in Setting \cap sets : next.step = "store" /\ next.setting = s,
         Begin(a, next, sets),
         deck' = [set |-> d, index |-> 0],
         UNCHANGED <<session, open, rooms, tableNo, roomVars, ahead>>
  PROVE  Inv'
<1>1. /\ Go(a, next) /\ settled' \subseteq Aspect /\ Alone'
      /\ settled' # {} => Quiet /\ settled' = settled \cup sets /\ OthersIdle(a)'
  BY Begins
<1>2. op'[a] = next
  BY <1>1, GoesOn DEF Inv, Typed
<1>3. /\ SetSize[d] \in Nat \ {0}
      /\ deck'.set = d /\ deck'.index = 0 /\ deck'.set # NoSet /\ Loaded' /\ Size' = SetSize[d]
  BY DEF LockstepAssumption, Loaded, Size, Boards
<1>4. TypeOK'
  BY <1>1, <1>3 DEF Inv, TypeOK, roomVars
<1>5. Typed'
  BY <1>1, <1>3, TypedStep DEF Inv, Typed
<1>6. Fresh'
  BY <1>1, FreshStep DEF Inv
<1>7. ASSUME settled' # {} PROVE Holds(a)'
  <2>1. op'[a].step \in {"open", "store"} /\ op'[a].total = SetSize[d] /\ op'[a].total # 0
    BY <1>2, <1>3
  <2>2. op'[a].step = "open" \/ Loads(a)'
    BY <2>1 DEF Loads
  <2>3. BoardsHold(a)'
    BY <2>2 DEF BoardsHold, In
  <2>4. ASSUME NEW s \in Setting \cap settled' PROVE SettingHolds(a, s)'
    <3>1. CASE s \in sets
      BY <1>2, <3>1 DEF SettingHolds, Sets, In
    <3>2. CASE s \notin sets
      <4>1. \A t \in Range(rooms) : set[t][s] = session[s]
        BY <1>1, <1>7, <2>4, <3>2, AtRest
      <4>2. op'[a].step # "push" /\ (Sets(a, s)' => op'[a].step = "store")
        BY <2>1 DEF Sets
      <4> QED
        BY <4>1, <4>2 DEF SettingHolds, Sets, In, roomVars
    <3> QED
      BY <3>1, <3>2
  <2>5. WindowHolds(a)'
    BY <1>3, <2>1, <2>2 DEF WindowHolds, In
  <2> QED
    BY <2>3, <2>4, <2>5 DEF Holds
<1>8. InStep' /\ SettingsAgree' /\ WindowFits' /\ Underway'
  BY <1>1, <1>7, Concludes
<1> QED
  BY <1>1, <1>4, <1>5, <1>6, <1>8 DEF Inv

LEMMA LoadKeeps ==
  ASSUME LockstepAssumption, Inv, NEW a \in Actor, NEW d \in DeckSet, Load(a, d)
  PROVE  Inv'
<1>1. SetSize[d] \in Nat
  BY DEF LockstepAssumption
<1>2. CASE Begin(a, OpenAll(SetSize[d]), {"boards", "window"})
  <2>1. /\ OpenAll(SetSize[d]) \in Operation /\ OpenAll(SetSize[d]).step = "open"
        /\ OpenAll(SetSize[d]).total = SetSize[d]
    BY <1>1 DEF OpenAll, Operation
  <2>2. {"boards", "window"} \in SUBSET Aspect /\ Setting \cap {"boards", "window"} = {}
    BY DEF Aspect, LockstepAssumption
  <2> QED
    BY <1>2, <2>1, <2>2, LoadBegins DEF Load
<1>3. CASE \E v \in Value : Begin(a, Store("boardMode", v, SetSize[d]),
                                  {"boards", "window", "boardMode"})
  <2>1. PICK v \in Value : Begin(a, Store("boardMode", v, SetSize[d]),
                                 {"boards", "window", "boardMode"})
    BY <1>3
  <2> DEFINE next == Store("boardMode", v, SetSize[d])
  <2>2. /\ next \in Operation /\ next.step = "store" /\ next.total = SetSize[d]
        /\ next.setting = "boardMode"
    BY <1>1 DEF Store, Operation, LockstepAssumption
  <2>3. {"boards", "window", "boardMode"} \in SUBSET Aspect
    BY DEF Aspect, LockstepAssumption
  <2>4. \A s \in Setting \cap {"boards", "window", "boardMode"} : s = "boardMode"
    BY DEF LockstepAssumption
  <2> HIDE DEF next
  <2>5. Begin(a, next, {"boards", "window", "boardMode"})
    BY <2>1 DEF next
  <2> QED
    BY <2>2, <2>3, <2>4, <2>5, LoadBegins DEF Load
<1> QED
  BY <1>2, <1>3 DEF Load

\* A new table takes the next number, which no other table has.
LEMMA AddKeeps ==
  ASSUME LockstepAssumption, Inv, NEW a \in Actor, Add(a)
  PROVE  Inv'
<1> DEFINE next == [step |-> "inherit", table |-> tableNo + 1, board |-> DeckBoard]
<1>1. /\ tableNo \in Nat /\ tableNo + 1 \in Table /\ tableNo' = tableNo + 1
      /\ tableNo' \in 0 .. MaxTables
  BY DEF Add, Inv, TypeOK, LockstepAssumption, Table
<1>2. /\ next \in Operation /\ next.step = "inherit"
      /\ next.table = tableNo + 1 /\ next.board = DeckBoard
  BY <1>1, DeckBoardIsBoard DEF Inv, Operation
<1>3. Begin(a, next, {}) /\ UNCHANGED <<deck, session, open, rooms, roomVars, ahead>>
  BY DEF Add
<1> HIDE DEF next
<1>4. /\ Go(a, next) /\ settled' \subseteq Aspect /\ Alone' /\ In(a, "idle")
      /\ settled' # {} => Quiet /\ settled' = settled /\ OthersIdle(a)'
  BY <1>2, <1>3, Begins
<1>5. op'[a] = next /\ \A b \in Actor \ {a} : op'[b] = op[b]
  BY <1>2, <1>4, GoesOn DEF Inv, Typed
<1>6. TypeOK'
  <2>1. Range(rooms) \subseteq 1 .. tableNo'
    BY <1>1 DEF Inv, TypeOK
  <2> QED
    BY <1>1, <1>3, <1>4, <2>1 DEF Inv, TypeOK, roomVars, Loaded, Size
<1>7. Typed'
  BY <1>2, <1>3, <1>4, TypedStep DEF Inv, Typed, Loaded
<1>8. Fresh'
  <2>1. \A b \in Actor \ {a} : Adding(b)' => /\ Adding(b) /\ op'[b].table = op[b].table
                                             /\ op[b].table \in (1 .. tableNo) \ Range(rooms)
    BY <1>5 DEF Adding, Inv, Fresh
  <2>2. /\ op'[a].table = tableNo + 1
        /\ tableNo + 1 \notin Range(rooms) /\ tableNo + 1 \notin 1 .. tableNo
    BY <1>1, <1>2, <1>5 DEF Inv, TypeOK
  <2>3. 1 .. tableNo \subseteq 1 .. tableNo' /\ tableNo + 1 \in 1 .. tableNo'
    BY <1>1
  <2>4. \A b \in Actor : Adding(b)' => op'[b].table \in (1 .. tableNo') \ Range(rooms')
    BY <1>3, <2>1, <2>2, <2>3
  <2>5. \A b, c \in Actor : b # c /\ Adding(b)' /\ Adding(c)' => op'[b].table # op'[c].table
    <3>1. \A b, c \in Actor \ {a} : b # c /\ Adding(b)' /\ Adding(c)' => op'[b].table # op'[c].table
      BY <2>1 DEF Inv, Fresh
    <3>2. \A b \in Actor \ {a} : Adding(b)' => op'[b].table # op'[a].table
      BY <2>1, <2>2
    <3> QED
      BY <3>1, <3>2
  <2> QED
    BY <2>4, <2>5 DEF Fresh
<1>9. ASSUME settled' # {} PROVE Holds(a)'
  BY <1>2, <1>3, <1>4, <1>5, <1>9, RestHolds
<1>10. InStep' /\ SettingsAgree' /\ WindowFits' /\ Underway'
  BY <1>4, <1>9, Concludes
<1> QED
  BY <1>4, <1>6, <1>7, <1>8, <1>10 DEF Inv

-----------------------------------------------------------------------------
(* Every step of an operation under way keeps it. *)

LEMMA WorkKeeps ==
  ASSUME Inv, NEW a \in Actor, NEW step, step # "idle", NEW next \in Operation,
         Continue(a, step, next),
         TypeOK', Fresh', rooms' \in Seq(Table), Loaded => Loaded',
         next.step = "open" => Loaded,
         (next.step \in {"store", "roster", "apply"} /\ next.total # 0) => Loaded,
         next.step \in {"tables", "apply"} => next.todo # <<>>,
         (Holds(a) /\ settled # {} /\ settled' = settled /\ op'[a] = next) => Holds(a)'
  PROVE  Inv'
<1>1. /\ Go(a, next) /\ settled' = settled /\ Alone'
      /\ settled' # {} => Holds(a) /\ OthersIdle(a)'
  BY Continues
<1>2. op'[a] = next
  BY <1>1, GoesOn DEF Inv, Typed
<1>3. Typed'
  BY <1>1, TypedStep DEF Inv
<1>4. InStep' /\ SettingsAgree' /\ WindowFits' /\ Underway'
  BY <1>1, <1>2, Concludes
<1> QED
  BY <1>1, <1>3, <1>4 DEF Inv

\* The same for steps that add no table.
LEMMA QuietWorkKeeps ==
  ASSUME Inv, NEW a \in Actor, NEW step, step # "idle", NEW next \in Operation,
         Continue(a, step, next), next.step \notin {"inherit", "push"},
         TypeOK', UNCHANGED <<rooms, tableNo>>, Loaded => Loaded',
         next.step = "open" => Loaded,
         (next.step \in {"store", "roster", "apply"} /\ next.total # 0) => Loaded,
         next.step \in {"tables", "apply"} => next.todo # <<>>,
         (Holds(a) /\ settled # {} /\ settled' = settled /\ op'[a] = next) => Holds(a)'
  PROVE  Inv'
<1>1. Go(a, next)
  BY Continues
<1>2. Fresh' /\ rooms' \in Seq(Table)
  BY <1>1, FreshStep DEF Inv, Typed
<1> QED
  BY <1>2, WorkKeeps

\* What each step knows of the operation it goes on with.
LEMMA Knows ==
  ASSUME Inv, NEW a \in Actor
  PROVE  /\ op[a] \in Operation
         /\ op[a].step = "open" => Loaded
         /\ (op[a].step \in {"store", "roster", "apply"} /\ op[a].total # 0) => Loaded
         /\ op[a].step \in {"tables", "apply"} => op[a].todo # <<>>
  BY DEF Inv, Typed, Loads, In

\* The settings and the window, if a step leaves both and all tables' settings.
LEMMA OthersHold ==
  ASSUME NEW a \in Actor, Holds(a), settled' = settled,
         op[a].step \in {"deal", "list", "tables"},
         op'[a].step \in {"deal", "list", "tables", "idle"},
         UNCHANGED <<session, open, rooms, set>>, Size' = Size
  PROVE  /\ \A s \in Setting \cap settled' : SettingHolds(a, s)'
         /\ "window" \in settled' => WindowHolds(a)'
<1>1. ASSUME NEW s \in Setting \cap settled PROVE SettingHolds(a, s)'
  BY <1>1 DEF Holds, SettingHolds, Sets, In
<1>2. ASSUME "window" \in settled PROVE WindowHolds(a)'
  BY <1>2 DEF Holds, WindowHolds, Loads, In
<1> QED
  BY <1>1, <1>2

LEMMA DealDeckKeeps ==
  ASSUME LockstepAssumption, Inv, NEW a \in Actor, DealDeck(a)
  PROVE  Inv'
<1>1. op[a].step = "deal" /\ op[a].index \in Nat /\ Loaded
  BY Knows, Carries DEF DealDeck, In
<1>2. /\ deck.set \in DeckSet /\ deck.set # NoSet
      /\ Size = SetSize[deck.set] /\ Size \in Nat /\ Size >= 1
  BY <1>1, DeckBoardIsBoard DEF Inv, Loaded
<1> DEFINE i == IF op[a].index < Size THEN op[a].index ELSE Size - 1
           next == [step |-> "list", index |-> i, board |-> <<deck.set, i>>]
<1>3. i \in 0 .. Size - 1
  BY <1>1, <1>2
<1> HIDE DEF i
<1>4. next \in Operation /\ next.step = "list" /\ next.board = <<deck.set, i>>
  BY <1>2, <1>3, BoardOfSet DEF Operation
<1>5. /\ Continue(a, "deal", next) /\ deck' = [deck EXCEPT !.index = i]
      /\ UNCHANGED <<session, open, rooms, tableNo, roomVars, ahead>>
  BY DEF DealDeck, i
<1> HIDE DEF next
<1>6. deck' = [set |-> deck.set, index |-> i]
  <2>1. deck = [set |-> deck.set, index |-> deck.index]
    BY DEF Inv, TypeOK
  <2> QED
    BY <2>1, <1>5
<1>7. Loaded' /\ Size' = Size /\ DeckBoard' = <<deck.set, i>>
  BY <1>2, <1>6 DEF Loaded, Size, DeckBoard
<1>8. settled' = settled
  BY <1>5 DEF Continue
<1>9. TypeOK'
  BY <1>2, <1>3, <1>5, <1>6, <1>7, <1>8 DEF Inv, TypeOK, roomVars
<1>10. ASSUME Holds(a), settled' = settled, op'[a] = next PROVE Holds(a)'
  <2>1. op'[a].step = "list" /\ op'[a].board = DeckBoard'
    BY <1>4, <1>7, <1>10
  <2>2. BoardsHold(a)'
    BY <2>1 DEF BoardsHold, In
  <2> QED
    BY <1>1, <1>5, <1>7, <1>10, <2>1, <2>2, OthersHold DEF Holds, roomVars
<1> QED
  BY <1>4, <1>5, <1>7, <1>9, <1>10, QuietWorkKeeps

LEMMA DealNothingKeeps ==
  ASSUME LockstepAssumption, Inv, NEW a \in Actor, DealNothing(a)
  PROVE  Inv'
<1>1. /\ Continue(a, "deal", Idle) /\ ~Loaded
      /\ UNCHANGED <<sessionVars, roomVars, ahead>>
  BY DEF DealNothing
<1>2. Idle \in Operation /\ Idle.step = "idle" /\ op[a].step = "deal" /\ settled' = settled
  BY <1>1 DEF Operation, Idle, Continue, In
<1>3. TypeOK'
  BY <1>1, <1>2, TypeKept DEF Inv, TypeOK
<1>4. Loaded' = Loaded /\ Size' = Size /\ DeckBoard' = DeckBoard
  BY <1>1 DEF sessionVars, Loaded, Size, DeckBoard
<1>5. ASSUME Holds(a), settled' = settled, op'[a] = Idle PROVE Holds(a)'
  <2>1. op'[a].step = "idle"
    BY <1>2, <1>5
  <2>2. ASSUME "boards" \in settled PROVE BoardsHold(a)'
    <3>1. Dealt
      BY <1>1, <1>2, <1>5, <2>2 DEF Holds, BoardsHold, Loads, In
    <3>2. Dealt'
      BY <1>1, <1>4, <3>1 DEF Dealt, sessionVars, roomVars
    <3> QED
      BY <2>1, <3>2 DEF BoardsHold, Loads, In
  <2> QED
    BY <1>1, <1>2, <1>4, <1>5, <2>1, <2>2, OthersHold DEF Holds, sessionVars, roomVars
<1> QED
  BY <1>1, <1>2, <1>3, <1>4, <1>5, QuietWorkKeeps DEF sessionVars

LEMMA DealListKeeps ==
  ASSUME LockstepAssumption, Inv, NEW a \in Actor, DealList(a)
  PROVE  Inv'
<1> DEFINE next == [step  |-> IF rooms = <<>> THEN "idle" ELSE "tables",
                    index |-> op[a].index, board |-> op[a].board, todo |-> rooms]
<1>1. Continue(a, "list", next) /\ UNCHANGED <<sessionVars, roomVars, ahead>>
  BY DEF DealList
<1>2. op[a].step = "list" /\ op[a].index \in Nat /\ op[a].board \in BoardOf
  BY <1>1, Knows, Carries DEF Continue, In
<1>3. /\ next \in Operation /\ next.todo = rooms /\ next.board = op[a].board
      /\ next.step = IF rooms = <<>> THEN "idle" ELSE "tables"
  BY <1>2 DEF Operation, Inv, Typed
<1> HIDE DEF next
<1>4. settled' = settled
  BY <1>1 DEF Continue
<1>5. TypeOK'
  BY <1>1, <1>4, TypeKept DEF Inv, TypeOK
<1>6. Size' = Size /\ (Loaded => Loaded') /\ DeckBoard' = DeckBoard
  BY <1>1 DEF Size, Loaded, DeckBoard, sessionVars
<1>7. ASSUME Holds(a), settled' = settled, op'[a] = next PROVE Holds(a)'
  <2>1. ASSUME "boards" \in settled PROVE BoardsHold(a)'
    <3>1. op[a].board = DeckBoard
      BY <1>2, <1>7, <2>1 DEF Holds, BoardsHold, Loads, In
    <3>2. CASE rooms = <<>>
      <4>1. Range(rooms) = {}
        BY <3>2 DEF Range
      <4>2. op'[a].step = "idle" /\ Dealt'
        BY <1>1, <1>3, <1>7, <3>2, <4>1 DEF Dealt, sessionVars
      <4> QED
        BY <4>2 DEF BoardsHold, Loads, In
    <3>3. CASE rooms # <<>>
      <4>1. op'[a].step = "tables" /\ op'[a].board = DeckBoard' /\ op'[a].todo = rooms'
        BY <1>1, <1>3, <1>6, <1>7, <3>1, <3>3 DEF sessionVars
      <4> QED
        BY <4>1 DEF BoardsHold, In
    <3> QED
      BY <3>2, <3>3
  <2>2. op'[a].step \in {"tables", "idle"}
    BY <1>3, <1>7
  <2> QED
    BY <1>1, <1>2, <1>6, <1>7, <2>1, <2>2, OthersHold DEF Holds, sessionVars, roomVars
<1> QED
  BY <1>1, <1>3, <1>5, <1>6, <1>7, QuietWorkKeeps DEF sessionVars

\* After its step at a table an operation is done, or has the other tables
\* still to do.
LEMMA DealRest ==
  ASSUME Inv, NEW a \in Actor, op[a].step = "tables"
  PROVE  /\ Rest(a) \in Operation /\ Rest(a).step \in {"tables", "idle"}
         /\ Rest(a).step = "tables" =>
              /\ Rest(a).board = op[a].board /\ Rest(a).todo # <<>>
              /\ Range(op[a].todo) = {Head(op[a].todo)} \cup Range(Rest(a).todo)
         /\ Rest(a).step = "idle" => Range(op[a].todo) = {Head(op[a].todo)}
<1>1. /\ op[a].todo \in Seq(Table) /\ op[a].todo # <<>>
      /\ op[a].index \in Nat /\ op[a].board \in BoardOf
      /\ [op[a] EXCEPT !.todo = Tail(op[a].todo)] =
           [step |-> "tables", index |-> op[a].index, board |-> op[a].board,
            todo |-> Tail(op[a].todo)]
  BY Knows, Carries
<1>2. /\ Tail(op[a].todo) \in Seq(Table)
      /\ Range(op[a].todo) = {Head(op[a].todo)} \cup Range(Tail(op[a].todo))
      /\ Len(op[a].todo) = 1 => Range(op[a].todo) = {Head(op[a].todo)}
      /\ Len(op[a].todo) # 1 => Tail(op[a].todo) # <<>>
  BY <1>1, RangeOfTail
<1>3. CASE Len(op[a].todo) = 1
  BY <1>2, <1>3 DEF Rest, Idle, Operation
<1>4. CASE Len(op[a].todo) # 1
  <2>1. Rest(a) = [step |-> "tables", index |-> op[a].index, board |-> op[a].board,
                   todo |-> Tail(op[a].todo)]
    BY <1>1, <1>4 DEF Rest
  <2> QED
    BY <1>1, <1>2, <1>4, <2>1 DEF Operation
<1> QED
  BY <1>3, <1>4

LEMMA DealTableKeeps ==
  ASSUME LockstepAssumption, Inv, NEW a \in Actor, DealTable(a)
  PROVE  Inv'
<1>1. /\ op[a].step = "tables" /\ op[a].todo \in Seq(Table) /\ op[a].todo # <<>>
      /\ op[a].index \in Nat /\ op[a].board \in BoardOf
  BY Knows, Carries DEF DealTable, In
<1> DEFINE t == Head(op[a].todo)
<1>2. t \in Table
  BY <1>1
<1>3. /\ shows' = [shows EXCEPT ![t] = op[a].board] /\ at' = [at EXCEPT ![t] = op[a].index]
      /\ ahead' = ahead \ {t}
      /\ Continue(a, "tables", Rest(a)) /\ UNCHANGED <<sessionVars, set>>
  BY DEF DealTable
<1> HIDE DEF t
<1>4. settled' = settled
  BY <1>3 DEF Continue
<1>5. TypeOK'
  <2>1. shows' \in [Table -> BoardOf] /\ at' \in [Table -> Nat]
    BY <1>1, <1>2, <1>3 DEF Inv, TypeOK
  <2> QED
    BY <1>3, <1>4, <2>1 DEF Inv, TypeOK, sessionVars, Loaded, Size
<1>6. Size' = Size /\ (Loaded => Loaded') /\ DeckBoard' = DeckBoard /\ UNCHANGED rooms
  BY <1>3 DEF Size, Loaded, DeckBoard, sessionVars
<1>7. /\ Rest(a) \in Operation /\ Rest(a).step \in {"tables", "idle"}
      /\ Rest(a).step = "tables" =>
           /\ Rest(a).board = op[a].board /\ Rest(a).todo # <<>>
           /\ Range(op[a].todo) = {t} \cup Range(Rest(a).todo)
      /\ Rest(a).step = "idle" => Range(op[a].todo) = {t}
  BY <1>1, DealRest DEF t
<1>8. ASSUME Holds(a), settled' = settled, op'[a] = Rest(a) PROVE Holds(a)'
  <2>1. ASSUME "boards" \in settled PROVE BoardsHold(a)'
    <3>1. /\ op[a].board = DeckBoard
          /\ \A r \in Range(rooms) \ ahead : shows[r] = DeckBoard \/ r \in Range(op[a].todo)
      BY <1>1, <1>8, <2>1 DEF Holds, BoardsHold, Loads, In
    <3>2. shows'[t] = DeckBoard' /\ \A r \in Table \ {t} : shows'[r] = shows[r]
      BY <1>2, <1>3, <1>6, <3>1 DEF Inv, TypeOK
    <3>3. Range(rooms) \subseteq Table
      BY DEF Inv, Typed, Range
    <3>4. \A r \in Range(rooms') \ ahead' : shows'[r] = DeckBoard' \/ r \in Range(op[a].todo) \ {t}
      BY <1>3, <1>6, <3>1, <3>2, <3>3
    <3>5. CASE Rest(a).step = "tables"
      BY <1>6, <1>7, <1>8, <3>1, <3>4, <3>5 DEF BoardsHold, In
    <3>6. CASE Rest(a).step = "idle"
      <4>1. Dealt'
        BY <1>7, <3>4, <3>6 DEF Dealt
      <4> QED
        BY <1>8, <3>6, <4>1 DEF BoardsHold, Loads, In
    <3> QED
      BY <1>7, <3>5, <3>6
  <2> QED
    BY <1>1, <1>3, <1>6, <1>7, <1>8, <2>1, OthersHold DEF Holds, sessionVars
<1> QED
  BY <1>3, <1>5, <1>6, <1>7, <1>8, QuietWorkKeeps DEF sessionVars

LEMMA LoadOpensKeeps ==
  ASSUME LockstepAssumption, Inv, NEW a \in Actor, LoadOpens(a)
  PROVE  Inv'
<1>1. op[a].step = "open" /\ op[a].total \in Nat /\ Loaded
  BY Knows, Carries DEF LoadOpens, In
<1>2. /\ Continue(a, "open", Deal(0)) /\ open' = op[a].total
      /\ UNCHANGED <<deck, session, rooms, tableNo, roomVars, ahead>>
  BY DEF LoadOpens
<1>3. Deal(0) \in Operation /\ Deal(0).step = "deal"
  BY DEF Deal, Operation
<1>4. settled' = settled
  BY <1>2 DEF Continue
<1>5. Size' = Size /\ Loaded' = Loaded
  BY <1>2 DEF Size, Loaded
<1>6. TypeOK'
  BY <1>1, <1>2, <1>4, <1>5 DEF Inv, TypeOK, roomVars
<1>7. ASSUME Holds(a), settled' = settled, op'[a] = Deal(0) PROVE Holds(a)'
  <2>1. op'[a].step = "deal"
    BY <1>3, <1>7
  <2>2. BoardsHold(a)'
    BY <1>1, <1>5, <2>1 DEF BoardsHold, In
  <2>3. ASSUME NEW s \in Setting \cap settled PROVE SettingHolds(a, s)'
    BY <1>1, <1>2, <1>7, <2>1, <2>3 DEF Holds, SettingHolds, Sets, In, roomVars
  <2>4. ASSUME "window" \in settled PROVE WindowHolds(a)'
    <3>1. op[a].total = Size /\ Size \in Nat
      BY <1>1, <1>7, <2>4, DeckBoardIsBoard DEF Inv, Holds, WindowHolds, In
    <3> QED
      BY <1>2, <1>5, <2>1, <3>1 DEF WindowHolds, Loads, In
  <2> QED
    BY <1>7, <2>2, <2>3, <2>4 DEF Holds
<1> QED
  BY <1>1, <1>2, <1>3, <1>5, <1>6, <1>7, QuietWorkKeeps

\* While a setting is changed the boards are not touched.
LEMMA BoardsWait ==
  ASSUME NEW a \in Actor, BoardsHold(a), op[a].step \in {"store", "roster", "apply"},
         UNCHANGED <<deck, rooms, shows, ahead>>,
         \/ Loads(a) /\ op'[a].step = "open"
         \/ Loads(a) /\ Loads(a)'
         \/ ~Loads(a) /\ op'[a].step = "idle"
         \/ ~Loads(a) /\ ~Loads(a)' /\ op'[a].step \in {"store", "roster", "apply"}
  PROVE  BoardsHold(a)'
<1>1. CASE Loads(a)
  BY <1>1 DEF BoardsHold, Loads, In
<1>2. CASE ~Loads(a)
  <2>1. Dealt
    BY <1>2 DEF BoardsHold, In
  <2>2. Dealt'
    BY <2>1 DEF Dealt, DeckBoard, Loaded
  <2> QED
    BY <1>2, <2>2 DEF BoardsHold, Loads, In
<1> QED
  BY <1>1, <1>2

\* And the window is opened after it.
LEMMA WindowWaits ==
  ASSUME NEW a \in Actor, WindowHolds(a), op[a].step \in {"store", "roster", "apply"},
         UNCHANGED <<deck, open>>,
         \/ Loads(a) /\ op'[a].step = "open" /\ op'[a].total = op[a].total
         \/ Loads(a) /\ Loads(a)' /\ op'[a].total = op[a].total
         \/ ~Loads(a) /\ op'[a].step = "idle"
         \/ ~Loads(a) /\ ~Loads(a)' /\ op'[a].step \in {"store", "roster", "apply"}
  PROVE  WindowHolds(a)'
  BY DEF WindowHolds, Loads, In, Size

\* Once all tables have a setting, the operation is done or goes on to open
\* the boards.
LEMMA AfterwardsOpens ==
  ASSUME Inv, NEW a \in Actor, op[a].step \in {"store", "roster", "apply"}
  PROVE  /\ AfterSetting(a) \in Operation
         /\ \/ ~Loads(a) /\ AfterSetting(a).step = "idle"
            \/ /\ Loads(a) /\ AfterSetting(a).step = "open"
               /\ AfterSetting(a).total = op[a].total
<1>1. op[a].total \in Nat
  BY Knows, Carries
<1> QED
  BY <1>1 DEF AfterSetting, Idle, OpenAll, Loads, Operation

LEMMA StoreKeeps ==
  ASSUME LockstepAssumption, Inv, NEW a \in Actor, StoreSetting(a)
  PROVE  Inv'
<1>1. /\ op[a].step = "store"
      /\ op[a].setting \in Setting /\ op[a].value \in Value /\ op[a].total \in Nat
      /\ [op[a] EXCEPT !.step = "roster"] =
           [step |-> "roster", setting |-> op[a].setting, value |-> op[a].value,
            total |-> op[a].total]
  BY Knows, Carries DEF StoreSetting, In
<1> DEFINE next == [op[a] EXCEPT !.step = "roster"]
<1>2. /\ next \in Operation /\ next.step = "roster" /\ next.total = op[a].total
      /\ next.setting = op[a].setting /\ next.value = op[a].value
  BY <1>1 DEF Operation
<1>3. /\ Continue(a, "store", next) /\ session' = [session EXCEPT ![op[a].setting] = op[a].value]
      /\ UNCHANGED <<deck, open, rooms, tableNo, roomVars, ahead>>
  BY DEF StoreSetting
<1> HIDE DEF next
<1>4. settled' = settled
  BY <1>3 DEF Continue
<1>5. Loaded' = Loaded /\ (Loads(a) => Loaded)
  BY <1>3, Knows DEF Loaded, Loads
<1>6. TypeOK'
  BY <1>1, <1>3, <1>4 DEF Inv, TypeOK, roomVars, Loaded, Size
<1>7. ASSUME Holds(a), settled' = settled, op'[a] = next PROVE Holds(a)'
  <2>1. op'[a].step = "roster" /\ (Loads(a)' <=> Loads(a)) /\ op'[a].total = op[a].total
    BY <1>1, <1>2, <1>7 DEF Loads
  <2>2. ASSUME "boards" \in settled PROVE BoardsHold(a)'
    BY <1>1, <1>3, <1>7, <2>1, <2>2, BoardsWait DEF Holds, roomVars
  <2>3. ASSUME NEW s \in Setting \cap settled PROVE SettingHolds(a, s)'
    <3>1. CASE s = op[a].setting
      <4>1. session'[s] = op'[a].value
        BY <1>1, <1>2, <1>3, <1>7, <3>1 DEF Inv, TypeOK
      <4> QED
        BY <1>2, <1>7, <3>1, <4>1 DEF SettingHolds, Sets, In
    <3>2. CASE s # op[a].setting
      <4>1. session'[s] = session[s]
        BY <1>3, <3>2 DEF Inv, TypeOK
      <4>2. \A t \in Range(rooms) : set[t][s] = session[s]
        BY <1>1, <1>7, <2>3, <3>2 DEF Holds, SettingHolds, Sets, In
      <4> QED
        BY <1>2, <1>3, <1>7, <3>2, <4>1, <4>2 DEF SettingHolds, Sets, In, roomVars
    <3> QED
      BY <3>1, <3>2
  <2>4. ASSUME "window" \in settled PROVE WindowHolds(a)'
    BY <1>1, <1>3, <1>7, <2>1, <2>4, WindowWaits DEF Holds
  <2> QED
    BY <1>7, <2>2, <2>3, <2>4 DEF Holds
<1>8. next.total # 0 => Loaded
  BY <1>1, <1>2, <1>5 DEF Loads
<1> QED
  BY <1>2, <1>3, <1>5, <1>6, <1>7, <1>8, QuietWorkKeeps

LEMMA SettingListKeeps ==
  ASSUME LockstepAssumption, Inv, NEW a \in Actor, SettingList(a)
  PROVE  Inv'
<1>1. /\ op[a].step = "roster"
      /\ op[a].setting \in Setting /\ op[a].value \in Value /\ op[a].total \in Nat
  BY Knows, Carries DEF SettingList, In
<1> DEFINE all == [step |-> "apply", setting |-> op[a].setting, value |-> op[a].value,
                   total |-> op[a].total, todo |-> rooms]
           next == IF rooms = <<>> THEN AfterSetting(a) ELSE all
<1>2. Continue(a, "roster", next) /\ UNCHANGED <<sessionVars, roomVars, ahead>>
  BY DEF SettingList
<1>3. /\ all \in Operation /\ all.step = "apply" /\ all.total = op[a].total /\ all.todo = rooms
      /\ all.setting = op[a].setting /\ all.value = op[a].value
  BY <1>1 DEF Operation, Inv, Typed
<1> HIDE DEF all
<1>4. /\ next \in Operation
      /\ rooms = <<>> => \/ ~Loads(a) /\ next.step = "idle"
                         \/ /\ Loads(a) /\ next.step = "open" /\ next.total = op[a].total
      /\ rooms # <<>> => next = all
  BY <1>1, <1>3, AfterwardsOpens
<1> HIDE DEF next
<1>5. settled' = settled
  BY <1>2 DEF Continue
<1>6. Loaded' = Loaded /\ (Loads(a) => Loaded)
  BY <1>2, Knows DEF Loaded, Loads, sessionVars
<1>7. TypeOK'
  BY <1>2, <1>5, TypeKept DEF Inv, TypeOK
<1>8. ASSUME Holds(a), settled' = settled, op'[a] = next PROVE Holds(a)'
  <2>1. \/ Loads(a) /\ op'[a].step = "open" /\ op'[a].total = op[a].total
        \/ Loads(a) /\ Loads(a)' /\ op'[a].total = op[a].total
        \/ ~Loads(a) /\ op'[a].step = "idle"
        \/ ~Loads(a) /\ ~Loads(a)' /\ op'[a].step \in {"store", "roster", "apply"}
    BY <1>1, <1>3, <1>4, <1>8 DEF Loads
  <2>2. ASSUME "boards" \in settled PROVE BoardsHold(a)'
    BY <1>1, <1>2, <1>8, <2>1, <2>2, BoardsWait DEF Holds, roomVars, sessionVars
  <2>3. ASSUME NEW s \in Setting \cap settled PROVE SettingHolds(a, s)'
    <3>1. /\ s = op[a].setting => session[s] = op[a].value
          /\ s # op[a].setting => \A t \in Range(rooms) : set[t][s] = session[s]
      BY <1>1, <1>8, <2>3 DEF Holds, SettingHolds, Sets, In
    <3>2. CASE rooms = <<>>
      <4>1. Range(rooms) = {}
        BY <3>2 DEF Range
      <4>2. op'[a].step \in {"idle", "open"}
        BY <1>4, <1>8, <3>2
      <4> QED
        BY <1>2, <4>1, <4>2 DEF SettingHolds, Sets, In, sessionVars
    <3>3. CASE rooms # <<>>
      BY <1>2, <1>3, <1>4, <1>8, <3>1, <3>3 DEF SettingHolds, Sets, In, sessionVars, roomVars
    <3> QED
      BY <3>2, <3>3
  <2>4. ASSUME "window" \in settled PROVE WindowHolds(a)'
    BY <1>1, <1>2, <1>8, <2>1, <2>4, WindowWaits DEF Holds, sessionVars
  <2> QED
    BY <1>8, <2>2, <2>3, <2>4 DEF Holds
<1>9. /\ next.step \notin {"inherit", "push", "deal", "store", "roster", "tables"}
      /\ next.step = "open" => Loaded
      /\ (next.step = "apply" /\ next.total # 0) => Loaded
      /\ next.step = "apply" => next.todo # <<>>
  BY <1>1, <1>3, <1>4, <1>6 DEF Loads
<1> QED
  BY <1>2, <1>4, <1>6, <1>7, <1>8, <1>9, QuietWorkKeeps DEF sessionVars

LEMMA SettingTableKeeps ==
  ASSUME LockstepAssumption, Inv, NEW a \in Actor, SettingTable(a)
  PROVE  Inv'
<1>1. /\ op[a].step = "apply" /\ op[a].todo \in Seq(Table) /\ op[a].todo # <<>>
      /\ op[a].setting \in Setting /\ op[a].value \in Value /\ op[a].total \in Nat
      /\ [op[a] EXCEPT !.todo = Tail(op[a].todo)] =
           [step |-> "apply", setting |-> op[a].setting, value |-> op[a].value,
            total |-> op[a].total, todo |-> Tail(op[a].todo)]
  BY Knows, Carries DEF SettingTable, In
<1>2. /\ Tail(op[a].todo) \in Seq(Table) /\ Head(op[a].todo) \in Table
      /\ Range(op[a].todo) = {Head(op[a].todo)} \cup Range(Tail(op[a].todo))
      /\ Len(op[a].todo) = 1 => Range(op[a].todo) = {Head(op[a].todo)}
      /\ Len(op[a].todo) # 1 => Tail(op[a].todo) # <<>>
  BY <1>1, RangeOfTail
<1> DEFINE t == Head(op[a].todo)
           next == IF Len(op[a].todo) = 1 THEN AfterSetting(a) ELSE Rest(a)
           more == [step |-> "apply", setting |-> op[a].setting, value |-> op[a].value,
                    total |-> op[a].total, todo |-> Tail(op[a].todo)]
<1>3. /\ set' = [set EXCEPT ![t][op[a].setting] = op[a].value]
      /\ Continue(a, "apply", next) /\ UNCHANGED <<sessionVars, shows, at, ahead>>
  BY DEF SettingTable
<1>4. /\ more \in Operation /\ more.step = "apply" /\ more.total = op[a].total
      /\ more.setting = op[a].setting /\ more.value = op[a].value
      /\ more.todo = Tail(op[a].todo)
  BY <1>1, <1>2 DEF Operation
<1>5. /\ next \in Operation
      /\ Len(op[a].todo) = 1 => \/ ~Loads(a) /\ next.step = "idle"
                                \/ /\ Loads(a) /\ next.step = "open"
                                   /\ next.total = op[a].total
      /\ Len(op[a].todo) # 1 => next = more
  <2>1. CASE Len(op[a].todo) = 1
    BY <1>1, <2>1, AfterwardsOpens
  <2>2. CASE Len(op[a].todo) # 1
    <3>1. next = more
      BY <1>1, <2>2 DEF Rest
    <3> QED
      BY <1>4, <2>2, <3>1
  <2> QED
    BY <2>1, <2>2
<1> HIDE DEF t, next, more
<1>6. settled' = settled
  BY <1>3 DEF Continue
<1>7. Loaded' = Loaded /\ (Loads(a) => Loaded)
  BY <1>3, Knows DEF Loaded, Loads, sessionVars
<1>8. t \in Table
  BY <1>2 DEF t
<1>9. TypeOK'
  <2>1. set' \in [Table -> [Setting -> Value]]
    BY <1>1, <1>3, <1>8 DEF Inv, TypeOK
  <2> QED
    BY <1>3, <1>6, <2>1 DEF Inv, TypeOK, sessionVars, Loaded, Size
<1>10. ASSUME Holds(a), settled' = settled, op'[a] = next PROVE Holds(a)'
  <2>1. \/ Loads(a) /\ op'[a].step = "open" /\ op'[a].total = op[a].total
        \/ Loads(a) /\ Loads(a)' /\ op'[a].total = op[a].total
        \/ ~Loads(a) /\ op'[a].step = "idle"
        \/ ~Loads(a) /\ ~Loads(a)' /\ op'[a].step \in {"store", "roster", "apply"}
    BY <1>1, <1>4, <1>5, <1>10 DEF Loads
  <2>2. ASSUME "boards" \in settled PROVE BoardsHold(a)'
    BY <1>1, <1>3, <1>10, <2>1, <2>2, BoardsWait DEF Holds, sessionVars
  <2>3. ASSUME NEW s \in Setting \cap settled PROVE SettingHolds(a, s)'
    <3>0. Range(rooms) \subseteq Table
      BY DEF Inv, Typed, Range
    <3>1. CASE s # op[a].setting
      <4>1. \A r \in Range(rooms) : set[r][s] = session[s]
        BY <1>1, <1>10, <2>3, <3>1 DEF Holds, SettingHolds, Sets, In
      <4>2. \A r \in Table : set'[r][s] = set[r][s]
        BY <1>3, <1>8, <3>1 DEF Inv, TypeOK
      <4>3. \A r \in Range(rooms') : set'[r][s] = session'[s]
        BY <1>3, <3>0, <4>1, <4>2 DEF sessionVars
      <4>4. op'[a].step \in {"idle", "open"} \/ (op'[a].step = "apply" /\ op'[a].setting # s)
        BY <1>4, <1>5, <1>10, <3>1
      <4> QED
        BY <4>3, <4>4 DEF SettingHolds, Sets, In
    <3>2. CASE s = op[a].setting
      <4>1. /\ session[s] = op[a].value
            /\ \A r \in Range(rooms) : set[r][s] = session[s] \/ r \in Range(op[a].todo)
        BY <1>1, <1>10, <2>3, <3>2 DEF Holds, SettingHolds, Sets, In
      <4>2. set'[t][s] = op[a].value /\ \A r \in Table \ {t} : set'[r][s] = set[r][s]
        BY <1>3, <1>8, <2>3, <3>2 DEF Inv, TypeOK
      <4>3. session' = session /\ rooms' = rooms
        BY <1>3 DEF sessionVars
      <4>4. \A r \in Range(rooms') : set'[r][s] = session'[s] \/ r \in Range(op[a].todo) \ {t}
        BY <3>0, <4>1, <4>2, <4>3
      <4>5. CASE Len(op[a].todo) = 1
        <5>1. op'[a].step \in {"idle", "open"}
          BY <1>5, <1>10, <4>5
        <5>2. Range(op[a].todo) \ {t} = {}
          BY <1>2, <4>5 DEF t
        <5> QED
          BY <4>4, <5>1, <5>2 DEF SettingHolds, Sets, In
      <4>6. CASE Len(op[a].todo) # 1
        <5>1. op'[a].step = "apply" /\ op'[a].setting = s /\ session'[s] = op'[a].value
          BY <1>4, <1>5, <1>10, <3>2, <4>1, <4>3, <4>6
        <5>2. Range(op[a].todo) \ {t} \subseteq Range(op'[a].todo)
          BY <1>2, <1>4, <1>5, <1>10, <4>6 DEF t
        <5> QED
          BY <4>4, <5>1, <5>2 DEF SettingHolds, Sets, In
      <4> QED
        BY <4>5, <4>6
    <3> QED
      BY <3>1, <3>2
  <2>4. ASSUME "window" \in settled PROVE WindowHolds(a)'
    BY <1>1, <1>3, <1>10, <2>1, <2>4, WindowWaits DEF Holds, sessionVars
  <2> QED
    BY <1>10, <2>2, <2>3, <2>4 DEF Holds
<1>11. /\ next.step \notin {"inherit", "push", "deal", "store", "roster", "tables"}
       /\ next.step = "open" => Loaded
       /\ (next.step = "apply" /\ next.total # 0) => Loaded
       /\ next.step = "apply" => next.todo # <<>>
  BY <1>1, <1>2, <1>4, <1>5, <1>7 DEF Loads
<1> QED
  BY <1>3, <1>5, <1>7, <1>9, <1>10, <1>11, QuietWorkKeeps DEF sessionVars

\* A table being added changes nothing of those listed.
LEMMA InheritKeeps ==
  ASSUME LockstepAssumption, Inv, NEW a \in Actor, Inherit(a)
  PROVE  Inv'
<1>1. op[a].step = "inherit" /\ op[a].table \in Table /\ op[a].board \in BoardOf
  BY Knows, Carries DEF Inherit, In
<1> DEFINE t == op[a].table
           next == [step |-> "push", table |-> t]
<1>2. /\ Continue(a, "inherit", next)
      /\ shows' = [shows EXCEPT ![t] = op[a].board] /\ at' = [at EXCEPT ![t] = 0]
      /\ set' = [set EXCEPT ![t] = session]
      /\ UNCHANGED <<sessionVars, ahead>>
  BY DEF Inherit
<1>3. next \in Operation /\ next.step = "push" /\ next.table = t
  BY <1>1 DEF Operation
<1>4. t \in (1 .. tableNo) \ Range(rooms)
  BY <1>1 DEF Inv, Fresh, Adding
<1> HIDE DEF next
<1>5. settled' = settled /\ Go(a, next)
  BY <1>2 DEF Continue
<1>6. op'[a] = next /\ \A b \in Actor \ {a} : op'[b] = op[b]
  BY <1>3, <1>5, GoesOn DEF Inv, Typed
<1>7. TypeOK'
  <2>1. /\ shows' \in [Table -> BoardOf] /\ at' \in [Table -> Nat]
        /\ set' \in [Table -> [Setting -> Value]]
    BY <1>1, <1>2 DEF Inv, TypeOK
  <2> QED
    BY <1>2, <1>5, <2>1 DEF Inv, TypeOK, sessionVars, Loaded, Size
<1>8. Fresh'
  <2>1. \A b \in Actor : Adding(b)' => Adding(b) /\ op'[b].table = op[b].table
    BY <1>1, <1>3, <1>6 DEF Adding
  <2> QED
    BY <1>2, <2>1 DEF Inv, Fresh, sessionVars
<1>9. rooms' \in Seq(Table) /\ Loaded' = Loaded /\ DeckBoard' = DeckBoard /\ Size' = Size
  BY <1>2 DEF Inv, Typed, Loaded, DeckBoard, Size, sessionVars
<1>10. /\ Range(rooms) \subseteq Table \ {t}
       /\ \A r \in Table \ {t} : shows'[r] = shows[r] /\ set'[r] = set[r]
       /\ shows'[t] = op[a].board /\ set'[t] = session
  BY <1>1, <1>2, <1>4 DEF Inv, TypeOK, Typed, Range
<1>11. ASSUME Holds(a), op'[a] = next PROVE Holds(a)'
  <2>1. op'[a].step = "push" /\ op'[a].table = t /\ ~Loads(a) /\ ~Loads(a)'
    BY <1>1, <1>3, <1>11 DEF Loads
  <2>2. ASSUME "boards" \in settled PROVE BoardsHold(a)'
    <3>1. op[a].board = DeckBoard /\ Dealt
      BY <1>1, <1>11, <2>1, <2>2 DEF Holds, BoardsHold, In
    <3>2. Dealt'
      BY <1>2, <1>9, <1>10, <3>1 DEF Dealt, sessionVars
    <3>3. shows'[t] = DeckBoard'
      BY <1>9, <1>10, <3>1
    <3> QED
      BY <2>1, <3>2, <3>3 DEF BoardsHold, In
  <2>3. ASSUME NEW s \in Setting \cap settled PROVE SettingHolds(a, s)'
    <3>1. \A r \in Range(rooms) : set[r][s] = session[s]
      BY <1>1, <1>11, <2>3 DEF Holds, SettingHolds, Sets, In
    <3>2. \A r \in Range(rooms') : set'[r][s] = session'[s]
      BY <1>2, <1>10, <3>1 DEF sessionVars
    <3>3. set'[t][s] = session'[s]
      BY <1>2, <1>10 DEF sessionVars
    <3> QED
      BY <2>1, <3>2, <3>3 DEF SettingHolds, Sets, In
  <2>4. ASSUME "window" \in settled PROVE WindowHolds(a)'
    <3>1. open <= Size
      BY <1>1, <1>11, <2>1, <2>4 DEF Holds, WindowHolds, In
    <3> QED
      BY <1>2, <1>9, <2>1, <3>1 DEF WindowHolds, In, sessionVars
  <2> QED
    BY <1>5, <2>2, <2>3, <2>4 DEF Holds
<1> QED
  BY <1>2, <1>3, <1>7, <1>8, <1>9, <1>11, WorkKeeps

\* A table that is listed has the deck's board and the session's settings.
LEMMA PushKeeps ==
  ASSUME LockstepAssumption, Inv, NEW a \in Actor, Push(a)
  PROVE  Inv'
<1>1. op[a].step = "push" /\ op[a].table \in Table
  BY Knows, Carries DEF Push, In
<1> DEFINE t == op[a].table
<1>2. /\ Continue(a, "push", Idle) /\ rooms' = Append(rooms, t)
      /\ UNCHANGED <<deck, session, open, tableNo, roomVars, ahead>>
  BY DEF Push
<1>3. Idle \in Operation /\ Idle.step = "idle"
  BY DEF Idle, Operation
<1>4. t \in (1 .. tableNo) \ Range(rooms)
  BY <1>1 DEF Inv, Fresh, Adding
<1>5. /\ rooms' \in Seq(Table) /\ Range(rooms') = Range(rooms) \cup {t} /\ IsInjective(rooms')
  BY <1>1, <1>2, <1>4, RangeOfAppend DEF Inv, Typed, TypeOK
<1>6. settled' = settled /\ Go(a, Idle)
  BY <1>2 DEF Continue
<1>7. op'[a] = Idle /\ \A b \in Actor \ {a} : op'[b] = op[b]
  BY <1>3, <1>6, GoesOn DEF Inv, Typed
<1>8. TypeOK'
  BY <1>2, <1>4, <1>5, <1>6 DEF Inv, TypeOK, roomVars, Loaded, Size
<1>9. Fresh'
  <2>1. \A b \in Actor : Adding(b)' => b # a /\ Adding(b) /\ op'[b].table = op[b].table
    BY <1>3, <1>7 DEF Adding
  <2>2. \A b \in Actor : Adding(b)' => op'[b].table # t
    BY <1>1, <2>1 DEF Inv, Fresh, Adding
  <2> QED
    BY <1>2, <1>5, <2>1, <2>2 DEF Inv, Fresh
<1>10. Loaded' = Loaded /\ DeckBoard' = DeckBoard /\ Size' = Size
  BY <1>2 DEF Loaded, DeckBoard, Size
<1>11. ASSUME Holds(a), op'[a] = Idle PROVE Holds(a)'
  <2>1. op'[a].step = "idle" /\ ~Loads(a) /\ ~Loads(a)'
    BY <1>1, <1>3, <1>11 DEF Loads
  <2>2. ASSUME "boards" \in settled PROVE BoardsHold(a)'
    <3>1. shows[t] = DeckBoard /\ Dealt
      BY <1>1, <1>11, <2>1, <2>2 DEF Holds, BoardsHold, In
    <3>2. Dealt'
      BY <1>2, <1>5, <1>10, <3>1 DEF Dealt, roomVars
    <3> QED
      BY <2>1, <3>2 DEF BoardsHold, In
  <2>3. ASSUME NEW s \in Setting \cap settled PROVE SettingHolds(a, s)'
    <3>1. set[t][s] = session[s] /\ \A r \in Range(rooms) : set[r][s] = session[s]
      BY <1>1, <1>11, <2>3 DEF Holds, SettingHolds, Sets, In
    <3> QED
      BY <1>2, <1>5, <2>1, <3>1 DEF SettingHolds, Sets, In, roomVars
  <2>4. ASSUME "window" \in settled PROVE WindowHolds(a)'
    BY <1>1, <1>2, <1>10, <1>11, <2>1, <2>4 DEF Holds, WindowHolds, In
  <2> QED
    BY <1>6, <2>2, <2>3, <2>4 DEF Holds
<1> QED
  BY <1>2, <1>3, <1>5, <1>8, <1>9, <1>10, <1>11, WorkKeeps

\* A table that goes ahead is excepted from the step it leaves.
LEMMA AdvanceTableKeeps ==
  ASSUME LockstepAssumption, Inv, NEW a \in Actor, AdvanceTable(a)
  PROVE  Inv'
<1>1. op[a].step = "advance" /\ op[a].table \in Table /\ op[a].boards \in DeckSet \cup {NoSet}
  BY Knows, Carries DEF AdvanceTable, In
<1> DEFINE t == op[a].table
           d == op[a].boards
<1>2. /\ Continue(a, "advance", Idle) /\ UNCHANGED <<sessionVars, set>>
      /\ \/ /\ at[t] + 1 < Boards(d)
            /\ at' = [at EXCEPT ![t] = at[t] + 1]
            /\ shows' = [shows EXCEPT ![t] = <<d, at[t] + 1>>]
            /\ ahead' = ahead \cup {t}
         \/ UNCHANGED <<at, shows, ahead>>
  BY DEF AdvanceTable
<1>3. Idle \in Operation /\ Idle.step = "idle"
  BY DEF Idle, Operation
<1>4. settled' = settled
  BY <1>2 DEF Continue
<1>5. /\ at' \in [Table -> Nat] /\ shows' \in [Table -> BoardOf] /\ ahead' \subseteq Table
      /\ ahead \subseteq ahead' /\ \A r \in Table \ ahead' : shows'[r] = shows[r]
  <2>1. CASE UNCHANGED <<at, shows, ahead>>
    BY <2>1 DEF Inv, TypeOK
  <2>2. CASE /\ at[t] + 1 < Boards(d)
             /\ at' = [at EXCEPT ![t] = at[t] + 1]
             /\ shows' = [shows EXCEPT ![t] = <<d, at[t] + 1>>]
             /\ ahead' = ahead \cup {t}
    <3>1. at[t] + 1 \in Nat
      BY <1>1 DEF Inv, TypeOK
    <3>2. d \in DeckSet /\ SetSize[d] \in Nat /\ at[t] + 1 \in 0 .. SetSize[d] - 1
      BY <1>1, <2>2, <3>1 DEF Boards, LockstepAssumption
    <3>3. <<d, at[t] + 1>> \in BoardOf
      BY <3>2, BoardOfSet
    <3> QED
      BY <1>1, <2>2, <3>1, <3>3 DEF Inv, TypeOK
  <2> QED
    BY <1>2, <2>1, <2>2
<1>6. TypeOK'
  BY <1>2, <1>4, <1>5 DEF Inv, TypeOK, sessionVars, Loaded, Size
<1>7. Loaded' = Loaded /\ DeckBoard' = DeckBoard /\ Size' = Size /\ rooms' = rooms
  BY <1>2 DEF Loaded, DeckBoard, Size, sessionVars
<1>8. ASSUME Holds(a), op'[a] = Idle PROVE Holds(a)'
  <2>1. op'[a].step = "idle" /\ ~Loads(a) /\ ~Loads(a)'
    BY <1>1, <1>3, <1>8 DEF Loads
  <2>2. ASSUME "boards" \in settled PROVE BoardsHold(a)'
    <3>1. Dealt
      BY <1>1, <1>8, <2>1, <2>2 DEF Holds, BoardsHold, In
    <3>2. Range(rooms) \subseteq Table
      BY DEF Inv, Typed, Range
    <3>3. Dealt'
      BY <1>5, <1>7, <3>1, <3>2 DEF Dealt
    <3> QED
      BY <2>1, <3>3 DEF BoardsHold, In
  <2>3. ASSUME NEW s \in Setting \cap settled PROVE SettingHolds(a, s)'
    BY <1>1, <1>2, <1>8, <2>1, <2>3 DEF Holds, SettingHolds, Sets, In, sessionVars
  <2>4. ASSUME "window" \in settled PROVE WindowHolds(a)'
    BY <1>1, <1>2, <1>7, <1>8, <2>1, <2>4 DEF Holds, WindowHolds, In, sessionVars
  <2> QED
    BY <1>4, <2>2, <2>3, <2>4 DEF Holds
<1> QED
  BY <1>2, <1>3, <1>6, <1>7, <1>8, QuietWorkKeeps DEF sessionVars

LEMMA WidenToKeeps ==
  ASSUME LockstepAssumption, Inv, NEW a \in Actor, WidenTo(a)
  PROVE  Inv'
<1>1. op[a].step = "widen" /\ op[a].to \in Nat
  BY Knows, Carries DEF WidenTo, In
<1>2. /\ Continue(a, "widen", Idle) /\ open' = IF op[a].to > open THEN op[a].to ELSE open
      /\ UNCHANGED <<deck, session, rooms, tableNo, roomVars, ahead>>
  BY DEF WidenTo
<1>3. Idle \in Operation /\ Idle.step = "idle"
  BY DEF Idle, Operation
<1>4. settled' = settled
  BY <1>2 DEF Continue
<1>5. TypeOK'
  BY <1>1, <1>2, <1>4 DEF Inv, TypeOK, roomVars, Loaded, Size
<1>6. Loaded' = Loaded /\ DeckBoard' = DeckBoard /\ Size' = Size
  BY <1>2 DEF Loaded, DeckBoard, Size
<1>7. ASSUME Holds(a), op'[a] = Idle PROVE Holds(a)'
  <2>1. op'[a].step = "idle" /\ ~Loads(a) /\ ~Loads(a)'
    BY <1>1, <1>3, <1>7 DEF Loads
  <2>2. ASSUME "boards" \in settled PROVE BoardsHold(a)'
    <3>1. Dealt
      BY <1>1, <1>7, <2>1, <2>2 DEF Holds, BoardsHold, In
    <3>2. Dealt'
      BY <1>2, <1>6, <3>1 DEF Dealt, roomVars
    <3> QED
      BY <2>1, <3>2 DEF BoardsHold, In
  <2>3. ASSUME NEW s \in Setting \cap settled PROVE SettingHolds(a, s)'
    BY <1>1, <1>2, <1>7, <2>1, <2>3 DEF Holds, SettingHolds, Sets, In, roomVars
  <2>4. ASSUME "window" \in settled PROVE WindowHolds(a)'
    <3>1. open <= Size /\ op[a].to <= Size
      BY <1>1, <1>7, <2>1, <2>4 DEF Holds, WindowHolds, In
    <3>2. open' <= Size'
      BY <1>2, <1>6, <3>1
    <3> QED
      BY <2>1, <3>2 DEF WindowHolds, In
  <2> QED
    BY <1>4, <2>2, <2>3, <2>4 DEF Holds
<1> QED
  BY <1>2, <1>3, <1>5, <1>6, <1>7, QuietWorkKeeps

-----------------------------------------------------------------------------
(* All steps. *)

LEMMA StutterKeeps ==
  ASSUME Inv, UNCHANGED vars
  PROVE  Inv'
<1>1. TypeOK' /\ Loaded' = Loaded /\ Size' = Size /\ DeckBoard' = DeckBoard
  BY TypeKept DEF Inv, TypeOK, vars, sessionVars, Loaded, Size, DeckBoard
<1>2. Typed' /\ Fresh' /\ Alone'
  BY <1>1 DEF Inv, Typed, Fresh, Alone, Loads, Adding, In, vars, sessionVars
<1>3. InStep' /\ SettingsAgree' /\ WindowFits'
  BY <1>1 DEF Inv, InStep, SettingsAgree, WindowFits, Quiet, In, vars, sessionVars, roomVars
<1>4. Underway'
  BY <1>1 DEF Inv, Underway, Holds, BoardsHold, SettingHolds, WindowHolds, Sets, Loads, Dealt,
              In, vars, sessionVars, roomVars
<1> QED
  BY <1>1, <1>2, <1>3, <1>4 DEF Inv

LEMMA StepInv ==
  ASSUME LockstepAssumption, Inv, [Next]_vars
  PROVE  Inv'
<1>1. ASSUME NEW h \in Host, Command(h) PROVE Inv'
  <2>1. h \in Actor
    BY DEF Actor
  <2> QED
    BY <1>1, <2>1, LoadKeeps, GotoKeeps, WidenKeeps, ChangeKeeps, AddKeeps, AdvanceKeeps
    DEF Command
<1>2. ASSUME NEW a \in Arrival, Add(a) PROVE Inv'
  BY <1>2, AddKeeps DEF Actor
<1>3. ASSUME NEW a \in Actor, Work(a) PROVE Inv'
  BY <1>3, DealDeckKeeps, DealNothingKeeps, DealListKeeps, DealTableKeeps, LoadOpensKeeps, StoreKeeps,
     SettingListKeeps, SettingTableKeeps, InheritKeeps, PushKeeps, AdvanceTableKeeps,
     WidenToKeeps
  DEF Work
<1>4. CASE UNCHANGED vars
  BY <1>4, StutterKeeps
<1> QED
  BY <1>1, <1>2, <1>3, <1>4 DEF Next

LEMMA InvAlways == Spec => []Inv
<1>1. Init => Inv
  BY InitInv, LockstepAssumption
<1>2. Inv /\ [Next]_vars => Inv'
  BY StepInv, LockstepAssumption
<1> QED
  BY <1>1, <1>2, PTL DEF Spec

-----------------------------------------------------------------------------
(* What the operations keep. *)

\* The deck stands at a board of its set or at none, tables play boards of
\* some set and are listed once, however many operations are under way
\* (sessions.rs, load_boards and add_room).
THEOREM TypeCorrect == Spec => []TypeOK
<1>1. Inv => TypeOK
  BY DEF Inv
<1> QED
  BY <1>1, InvAlways, PTL

\* After a deal to all tables that nobody overlapped, every table listed,
\* but for those sent ahead since, plays the board the deck stands at
\* (sessions.rs, deal_index_to_all).
THEOREM DealtInStep == Spec => []InStep
<1>1. Inv => InStep
  BY DEF Inv
<1> QED
  BY <1>1, InvAlways, PTL

\* After a change of a setting that nobody overlapped, every table listed
\* has the setting that the session gives to new ones (sessions.rs,
\* set_bot_mode and set_board_mode).
THEOREM TablesAgree == Spec => []SettingsAgree
<1>1. Inv => SettingsAgree
  BY DEF Inv
<1> QED
  BY <1>1, InvAlways, PTL

\* The window of open boards is within the set after a load that nobody
\* overlapped (sessions.rs, load_boards and open_boards_to).
THEOREM WindowWithinSet == Spec => []WindowFits
<1>1. Inv => WindowFits
  BY DEF Inv
<1> QED
  BY <1>1, InvAlways, PTL
=============================================================================
