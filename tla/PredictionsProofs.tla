-------------------------- MODULE PredictionsProofs --------------------------
(***************************************************************************)
(* What the cache of predicted calls and the guard of the driver keep, for *)
(* every number of boards, bids, calls and handlers.  The inductive        *)
(* invariant says what a captured turn still has in common with the table: *)
(* unless the table was rewound, its board, and its calls as an opening of *)
(* those now made.                                                         *)
(***************************************************************************)
EXTENDS Predictions, TLAPS

\* A turn under way, not overtaken by a rewinding, is on the table's board
\* and its calls are still the first of the table's.
TurnStands ==
  (bot.pc # "idle" /\ ~bot.moved) => bot.deal = deal /\ Opens(bot.calls, calls)

\* A turn is captured in an auction that goes on, and the call chosen for it
\* is legal there.
ChoiceLegal ==
  /\ bot.pc # "idle" => ~IsComplete(bot.calls)
  /\ bot.pc = "acting" => IsLegal(bot.calls, bot.call)

Inv == TypeOK /\ CacheIsCurrent /\ TurnStands /\ ChoiceLegal

USE DEF Calls

-----------------------------------------------------------------------------
(* Facts about calls and openings. *)

\* A pass is legal while the auction goes on.
LEMMA PassIsLegal ==
  ASSUME NEW s, ~IsComplete(s)
  PROVE  IsLegal(s, Pass)
  BY DEF IsLegal, IsPass, Pass

\* The calls made open themselves.
LEMMA OpensItself ==
  ASSUME NEW s \in Seq(Calls)
  PROVE  Opens(s, s)
  BY DEF Opens

\* An opening of the calls opens them with one more.
LEMMA OpensLonger ==
  ASSUME NEW s \in Seq(Calls), NEW t \in Seq(Calls), NEW c \in Calls, Opens(s, t)
  PROVE  Opens(s, Append(t, c))
  BY DEF Opens

\* An opening of full length is the whole.
LEMMA OpensWhole ==
  ASSUME NEW s \in Seq(Calls), NEW t \in Seq(Calls), Opens(s, t), Len(s) = Len(t)
  PROVE  s = t
  BY DEF Opens

\* What a prediction goes on with is a call.
LEMMA ServedIsCall ==
  ASSUME TypeOK, Serves
  PROVE  Served \in Calls
  BY DEF TypeOK, Turn, Serves, Served, Continues

\* An answer is a sequence of calls; if it says anything, it begins with one.
LEMMA ExtensionsAreCalls ==
  ASSUME PredictionsAssumption, NEW s \in Seq(Calls), NEW more \in Extensions(s)
  PROVE  /\ more \in Seq(Calls)
         /\ more # <<>> => more[1] \in Calls
<1>1. PICK n \in 0 .. MaxCalls + 1 - Len(s) : more \in [1 .. n -> Calls]
  BY DEF Extensions
<1>2. n \in Nat
  BY <1>1, PredictionsAssumption DEF PredictionsAssumption
<1>3. more \in Seq(Calls) /\ Len(more) = n
  BY <1>1, <1>2
<1>4. ASSUME more # <<>> PROVE n >= 1
  BY <1>1, <1>2, <1>3, <1>4
<1> QED
  BY <1>1, <1>2, <1>3, <1>4

-----------------------------------------------------------------------------
(* The invariant holds at first and every step keeps it. *)

LEMMA InitInv ==
  ASSUME PredictionsAssumption, Init
  PROVE  Inv
<1>1. Pass \in Calls
  OBVIOUS
<1>2. TypeOK
  BY <1>1 DEF Init, TypeOK, Turn, NoCache, IdleBot, PredictionsAssumption
<1> QED
  BY <1>2 DEF Init, Inv, CacheIsCurrent, TurnStands, ChoiceLegal, NoCache, IdleBot

LEMMA HumanKeeps ==
  ASSUME PredictionsAssumption, Inv, NEW call \in Calls, HumanCall(call)
  PROVE  Inv'
<1>1. TypeOK'
  BY DEF Inv, TypeOK, Turn, HumanCall
<1>2. CacheIsCurrent'
  BY OpensLonger DEF Inv, TypeOK, Turn, CacheIsCurrent, HumanCall
<1>3. TurnStands'
  BY OpensLonger DEF Inv, TypeOK, Turn, TurnStands, HumanCall
<1>4. ChoiceLegal'
  BY DEF Inv, ChoiceLegal, HumanCall
<1> QED
  BY <1>1, <1>2, <1>3, <1>4 DEF Inv

\* Rewinding leaves a handler with the cache to drop, and marks the turn.
LEMMA RewindKeeps ==
  ASSUME Inv, Rewound, deal' \in Deal, calls' \in Seq(Calls)
  PROVE  Inv'
<1>1. TypeOK'
  <2>1. CASE bot.pc = "idle"
    BY <2>1 DEF Inv, TypeOK, Rewound
  <2>2. CASE bot.pc # "idle"
    <3>1. bot' = [bot EXCEPT !.moved = TRUE]
      BY <2>2 DEF Rewound
    <3>2. bot' \in Turn
      BY <3>1 DEF Inv, TypeOK, Turn
    <3>3. bot'.deal \in Deal
      BY <2>2, <3>1 DEF Inv, TypeOK, Turn
    <3> QED
      BY <3>2, <3>3 DEF Inv, TypeOK, Rewound
  <2> QED
    BY <2>1, <2>2
<1>2. drops' # 0
  BY DEF Inv, TypeOK, Turn, Rewound
<1>3. CacheIsCurrent' /\ TurnStands'
  BY <1>2 DEF Inv, TypeOK, Turn, CacheIsCurrent, TurnStands, Rewound
<1>4. ChoiceLegal'
  BY DEF Inv, TypeOK, Turn, ChoiceLegal, Rewound
<1> QED
  BY <1>1, <1>3, <1>4 DEF Inv

LEMMA HostKeeps ==
  ASSUME PredictionsAssumption, Inv,
         \/ \E n \in 0 .. Len(calls) : UndoTo(n)
         \/ \E d \in Deal : Redeal(d)
         \/ \E sides \in PassSides : SetPassSides(sides)
         \/ Drop
  PROVE  Inv'
<1>1. CASE \E n \in 0 .. Len(calls) : UndoTo(n)
  BY <1>1, RewindKeeps DEF Inv, TypeOK, Turn, UndoTo
<1>2. CASE \E d \in Deal : Redeal(d)
  BY <1>2, RewindKeeps DEF Redeal
<1>3. CASE \E sides \in PassSides : SetPassSides(sides)
  <2>1. drops' # 0
    BY <1>3 DEF Inv, TypeOK, Turn, SetPassSides
  <2> QED
    BY <1>3, <2>1 DEF Inv, TypeOK, Turn, CacheIsCurrent, TurnStands, ChoiceLegal, SetPassSides
<1>4. CASE Drop
  <2>1. TypeOK'
    BY <1>4 DEF Inv, TypeOK, Turn, Drop, NoCache
  <2> QED
    BY <1>4, <2>1 DEF Inv, CacheIsCurrent, TurnStands, ChoiceLegal, Drop, NoCache
<1> QED
  BY <1>1, <1>2, <1>3, <1>4

LEMMA CaptureKeeps ==
  ASSUME PredictionsAssumption, Inv, Capture
  PROVE  Inv'
<1>1. TypeOK'
  BY DEF Inv, TypeOK, Turn, Capture, IdleBot
<1>2. CacheIsCurrent'
  BY DEF Inv, CacheIsCurrent, Capture
<1>3. TurnStands'
  BY OpensItself DEF Inv, TypeOK, Turn, TurnStands, Capture, IdleBot
<1>4. ChoiceLegal'
  BY PassIsLegal DEF Inv, ChoiceLegal, Capture, IdleBot
<1> QED
  BY <1>1, <1>2, <1>3, <1>4 DEF Inv

\* A call chosen, legal in the captured auction, keeps what is known of it.
LEMMA ChosenKeeps ==
  ASSUME Inv, NEW call \in Calls, NEW from \in Deal \cup {NoDeal},
         Chosen(call, from), bot.pc # "idle", IsLegal(bot.calls, call),
         UNCHANGED <<deal, calls>>
  PROVE  TurnStands' /\ ChoiceLegal'
  BY DEF Inv, TypeOK, Turn, TurnStands, ChoiceLegal, Chosen

LEMMA ChoiceKeeps ==
  ASSUME PredictionsAssumption, Inv, Serve \/ Ask \/ Fail
  PROVE  Inv'
<1>1. CASE Serve
  <2>1. Served \in Calls
    BY <1>1, ServedIsCall DEF Inv, Serve
  <2>2. TypeOK'
    BY <1>1, <2>1 DEF Inv, TypeOK, Turn, Serve, Chosen
  <2>3. TurnStands' /\ ChoiceLegal'
    BY <1>1, <2>1, ChosenKeeps DEF Inv, TypeOK, Turn, Serve
  <2> QED
    BY <1>1, <2>2, <2>3 DEF Inv, CacheIsCurrent, Serve
<1>2. CASE Ask
  <2>1. TypeOK'
    BY <1>2 DEF Inv, TypeOK, Turn, Ask, NoCache
  <2> QED
    BY <1>2, <2>1 DEF Inv, TypeOK, Turn, CacheIsCurrent, TurnStands, ChoiceLegal, Ask, NoCache
<1>3. CASE Fail
  <2>1. Pass \in Calls /\ IsLegal(bot.calls, Pass)
    BY <1>3, PassIsLegal DEF Inv, ChoiceLegal, Fail
  <2>2. TypeOK'
    BY <1>3, <2>1 DEF Inv, TypeOK, Turn, Fail, Chosen
  <2>3. TurnStands' /\ ChoiceLegal'
    BY <1>3, <2>1, ChosenKeeps DEF Fail
  <2> QED
    BY <1>3, <2>2, <2>3 DEF Inv, CacheIsCurrent, Fail
<1> QED
  BY <1>1, <1>2, <1>3

LEMMA AnswerKeeps ==
  ASSUME PredictionsAssumption, Inv, NEW more \in Extensions(bot.calls), Answer(more)
  PROVE  Inv'
<1>1. more \in Seq(Calls) /\ (more # <<>> => more[1] \in Calls)
  BY ExtensionsAreCalls DEF Inv, TypeOK, Turn
<1>2. Pass \in Calls /\ IsLegal(bot.calls, Pass)
  BY PassIsLegal DEF Inv, ChoiceLegal, Answer
<1>3. PICK call \in Calls, from \in Deal \cup {NoDeal} :
        Chosen(call, from) /\ IsLegal(bot.calls, call)
  BY <1>1, <1>2 DEF Inv, TypeOK, Turn, Answer
<1>4. TypeOK'
  <2>1. bot.calls \o more \in Seq(Calls)
    BY <1>1 DEF Inv, TypeOK, Turn
  <2> QED
    BY <1>3, <2>1 DEF Inv, TypeOK, Turn, Answer, Chosen
<1>5. TurnStands' /\ ChoiceLegal'
  BY <1>3, ChosenKeeps DEF Answer
<1>6. CacheIsCurrent'
  BY DEF Inv, CacheIsCurrent, TurnStands, Answer
<1> QED
  BY <1>4, <1>5, <1>6 DEF Inv

\* A call that is made stands where it was thought about, or the table was
\* rewound.
LEMMA TurnTaken ==
  ASSUME Inv, bot.pc = "acting", Unmoved, ~bot.moved
  PROVE  deal = bot.deal /\ calls = bot.calls /\ Accepted
  BY OpensWhole DEF Inv, TypeOK, Turn, TurnStands, ChoiceLegal, Unmoved, Accepted

LEMMA EndKeeps ==
  ASSUME PredictionsAssumption, Inv, Discard \/ Land \/ Refuse
  PROVE  Inv'
<1>0. IdleBot \in Turn /\ IdleBot.pc = "idle"
  <2>1. Pass \in Calls
    OBVIOUS
  <2> QED
    BY <2>1 DEF IdleBot, Turn
<1>1. CASE Land
  <2>1. calls' \in Seq(Calls) /\ bot.call \in Calls
    BY <1>1 DEF Inv, TypeOK, Turn, Land
  <2>2. TypeOK'
    BY <1>0, <1>1, <2>1 DEF Inv, TypeOK, Land
  <2>3. CacheIsCurrent'
    BY <1>1, <2>1, OpensLonger DEF Inv, TypeOK, Turn, CacheIsCurrent, Land
  <2> QED
    BY <1>0, <1>1, <2>2, <2>3 DEF Inv, TurnStands, ChoiceLegal, Land
<1>2. CASE Discard \/ Refuse
  <2>1. TypeOK'
    BY <1>0, <1>2 DEF Inv, TypeOK, Discard, Refuse
  <2> QED
    BY <1>0, <1>2, <2>1 DEF Inv, CacheIsCurrent, TurnStands, ChoiceLegal, Discard, Refuse
<1> QED
  BY <1>1, <1>2

\* Nothing is lost by doing nothing.
LEMMA StutterKeeps ==
  ASSUME Inv, UNCHANGED vars
  PROVE  Inv'
  BY DEF vars, Inv, TypeOK, Turn, CacheIsCurrent, TurnStands, ChoiceLegal

LEMMA StepInv ==
  ASSUME PredictionsAssumption, Inv, [Next]_vars
  PROVE  Inv'
  BY HumanKeeps, HostKeeps, CaptureKeeps, ChoiceKeeps, AnswerKeeps, EndKeeps,
     StutterKeeps DEF Next

LEMMA InvAlways == Spec => []Inv
<1>1. Init => Inv
  BY InitInv, PredictionsAssumption
<1>2. Inv /\ [Next]_vars => Inv'
  BY StepInv, PredictionsAssumption
<1> QED
  BY <1>1, <1>2, PTL DEF Spec

-----------------------------------------------------------------------------

\* Every variable keeps its type: the length of the log is all that bounds
\* what a bot captures or the backend predicts.
THEOREM PredictionsTyped == Spec => []TypeOK
<1>1. Inv => TypeOK
  BY DEF Inv
<1> QED
  BY <1>1, InvAlways, PTL

\* Once the handlers that rewound the table have dropped the cache, no bot
\* is served a prediction for another board or from calls that were undone
\* (bots.rs choose_call; the drops in ws.rs and sessions.rs).
THEOREM CacheStaysCurrent == Spec => []CacheIsCurrent
<1>1. Inv => CacheIsCurrent
  BY DEF Inv
<1> QED
  BY <1>1, InvAlways, PTL

\* The length of the log is guard enough for a bot's call, unless the table
\* was rewound while the bot was thinking (bots.rs act_once).
THEOREM CallsAlwaysLandInPlace == Spec => CallsLandInPlace
<1> DEFINE InPlace ==
      (bot.pc = "acting" /\ bot'.pc = "idle" /\ ~bot.moved) =>
       \/ calls' = calls /\ Len(calls) # Len(bot.calls)
       \/ /\ deal = bot.deal
          /\ calls = bot.calls
          /\ calls' = Append(calls, bot.call)
<1>1. ASSUME Inv, Next PROVE InPlace
  <2> SUFFICES ASSUME bot.pc = "acting", bot'.pc = "idle", ~bot.moved
               PROVE  \/ calls' = calls /\ Len(calls) # Len(bot.calls)
                      \/ /\ deal = bot.deal
                         /\ calls = bot.calls
                         /\ calls' = Append(calls, bot.call)
    OBVIOUS
  <2>1. Discard \/ Land \/ Refuse
    BY <1>1 DEF Inv, TypeOK, Turn, Next, HumanCall, UndoTo, Redeal, Rewound, SetPassSides, Drop,
                Capture, Serve, Ask, Fail, Answer, Chosen
  <2>2. CASE Discard
    BY <2>2 DEF Discard, Unmoved
  <2>3. CASE Land
    BY <1>1, <2>3, TurnTaken DEF Land
  <2>4. CASE Refuse
    BY <1>1, <2>4, TurnTaken DEF Refuse
  <2> QED
    BY <2>1, <2>2, <2>3, <2>4
<1>2. Inv /\ [Next]_vars => [InPlace]_vars
  BY <1>1
<1> QED
  BY <1>2, InvAlways, PTL DEF Spec, CallsLandInPlace
=============================================================================
