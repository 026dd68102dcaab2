----------------------------- MODULE Predictions -----------------------------
(***************************************************************************)
(* The bidding of a bot at one table: a turn is captured under the lock of *)
(* the room, a call is chosen without it, from the room's cache of a       *)
(* predicted auction or from the bidding backend, and the call is made     *)
(* under the lock again (src/src/bots.rs, bots/bba.rs).  The cache has a   *)
(* lock of its own, kept while the backend is asked.  Handlers that undo,  *)
(* deal or change the passing sides do so under the lock of the room and   *)
(* drop the cache after they have released it (routes/ws.rs, sessions.rs). *)
(***************************************************************************)
EXTENDS Auction

CONSTANTS
  Deal,        \* the boards that may be dealt
  NoDeal,
  DealerOf,    \* the dealer of each board
  Bids,        \* the bids that are made or predicted
  PassSides,   \* the sets of sides the host lets pass: of Side
  MaxCalls,    \* bound: calls in the log, and in a prediction one more
  MaxDrops     \* bound: handlers on their way to drop the cache

ASSUME PredictionsAssumption ==
  /\ NoDeal \notin Deal
  /\ DealerOf \in [Deal -> Seat]
  /\ Bids \subseteq AllBids
  /\ {} \in PassSides /\ PassSides \subseteq SUBSET Side
  /\ MaxCalls \in Nat /\ MaxDrops \in Nat

Calls == {Pass, Double, Redouble} \cup Bids

VARIABLES
  deal,      \* the board the table plays
  calls,     \* the calls of its log
  passing,   \* the sides whose bots pass
  cache,     \* the predicted auction; history: for which board and calls it
             \* was asked, and whether the table had been rewound by then
  drops,     \* handlers that changed the table and have yet to drop the cache
  bot        \* the driver: what it captured and the call it chose; history:
             \* the board of the prediction, whether the table was rewound

vars == <<deal, calls, passing, cache, drops, bot>>

NoCache == [deal |-> NoDeal, asked |-> <<>>, predicted |-> <<>>, late |-> FALSE]
IdleBot == [pc |-> "idle", deal |-> NoDeal, calls |-> <<>>, moved |-> FALSE,
            call |-> Pass, from |-> NoDeal]

SideOnTurn == SideOf(NextCaller(DealerOf[deal], calls))

-----------------------------------------------------------------------------
(* People and hosts. *)

\* Somebody makes a call; the cache is not looked at.
HumanCall(call) ==
  /\ Len(calls) < MaxCalls
  /\ IsLegal(calls, call)
  /\ calls' = Append(calls, call)
  /\ UNCHANGED <<deal, passing, cache, drops, bot>>

\* The table is rewound; whoever did it has the cache still to drop.
Rewound ==
  /\ drops < MaxDrops
  /\ drops' = drops + 1
  /\ bot' = IF bot.pc = "idle" THEN bot ELSE [bot EXCEPT !.moved = TRUE]
  /\ UNCHANGED <<passing, cache>>

UndoTo(n) ==
  /\ n \in 0 .. Len(calls)
  /\ calls' = SubSeq(calls, 1, n)
  /\ Rewound
  /\ UNCHANGED deal

\* Slip: nobody drops the cache for a new board.
RedealKept(d) ==
  /\ deal' = d
  /\ calls' = <<>>
  /\ bot' = IF bot.pc = "idle" THEN bot ELSE [bot EXCEPT !.moved = TRUE]
  /\ UNCHANGED <<passing, cache, drops>>

\* A new board, or the same from the start.
Redeal(d) ==
  /\ deal' = d
  /\ calls' = <<>>
  /\ Rewound

SetPassSides(sides) ==
  /\ drops < MaxDrops
  /\ passing' = sides
  /\ drops' = drops + 1
  /\ UNCHANGED <<deal, calls, cache, bot>>

\* The handler gets to the cache once nobody asks the backend.
Drop ==
  /\ drops > 0
  /\ bot.pc # "asking"
  /\ cache' = NoCache
  /\ drops' = drops - 1
  /\ UNCHANGED <<deal, calls, passing, bot>>

-----------------------------------------------------------------------------
(* The driver. *)

\* Slip: the board is not captured with the calls.
CaptureCalls ==
  /\ bot.pc = "idle"
  /\ Len(calls) < MaxCalls
  /\ ~IsComplete(calls)
  /\ bot' = [IdleBot EXCEPT !.pc = "choosing", !.calls = calls]
  /\ UNCHANGED <<deal, calls, passing, cache, drops>>

\* Capture the turn of a bot; a bot of a passing side asks nobody.
Capture ==
  /\ bot.pc = "idle"
  /\ Len(calls) < MaxCalls
  /\ ~IsComplete(calls)
  /\ bot' = [IdleBot EXCEPT !.pc = IF SideOnTurn \in passing THEN "acting" ELSE "choosing",
                            !.deal = deal, !.calls = calls]
  /\ UNCHANGED <<deal, calls, passing, cache, drops>>

\* Slip: a prediction serves whatever calls have been made.
ContinuesByLength(predicted, made) == Len(predicted) > Len(made)

\* The prediction goes on from the calls made.
Continues(predicted, made) ==
  /\ Len(predicted) > Len(made)
  /\ \A i \in 1 .. Len(made) : predicted[i] = made[i]

Serves == /\ cache.deal # NoDeal
          /\ Continues(cache.predicted, bot.calls)
Served == cache.predicted[Len(bot.calls) + 1]

Chosen(call, from) == bot' = [bot EXCEPT !.pc = "acting", !.call = call, !.from = from]

\* Slip: a served call is not looked at again.
ServeAny ==
  /\ bot.pc = "choosing"
  /\ Serves
  /\ Chosen(Served, cache.deal)
  /\ UNCHANGED <<deal, calls, passing, cache, drops>>

Serve ==
  /\ bot.pc = "choosing"
  /\ Serves /\ IsLegal(bot.calls, Served)
  /\ Chosen(Served, cache.deal)
  /\ UNCHANGED <<deal, calls, passing, cache, drops>>

\* Otherwise the backend is asked, with the lock of the cache kept; an
\* illegal prediction is forgotten first.
Ask ==
  /\ bot.pc = "choosing"
  /\ Serves => ~IsLegal(bot.calls, Served)
  /\ cache' = IF Serves THEN NoCache ELSE cache
  /\ bot' = [bot EXCEPT !.pc = "asking"]
  /\ UNCHANGED <<deal, calls, passing, drops>>

\* It predicts an auction that extends the calls; if it does not go on, or
\* goes on with an illegal call, the bot passes.
Answer(more) ==
  /\ bot.pc = "asking"
  /\ cache' = [deal |-> bot.deal, asked |-> bot.calls,
               predicted |-> bot.calls \o more, late |-> bot.moved]
  /\ IF more # <<>> /\ IsLegal(bot.calls, more[1])
     THEN Chosen(more[1], bot.deal)
     ELSE Chosen(Pass, NoDeal)
  /\ UNCHANGED <<deal, calls, passing, drops>>

\* It fails, times out, answers with another auction, or there is none.
Fail ==
  /\ bot.pc = "asking"
  /\ Chosen(Pass, NoDeal)
  /\ UNCHANGED <<deal, calls, passing, cache, drops>>

\* Slip: the call is made without a look at the log.
Unguarded == TRUE

\* The log is as long as when the turn was captured.
Unmoved == Len(calls) = Len(bot.calls)

Discard ==
  /\ bot.pc = "acting" /\ ~Unmoved
  /\ bot' = IdleBot
  /\ UNCHANGED <<deal, calls, passing, cache, drops>>

Accepted ==
  /\ DealerOf[bot.deal] = DealerOf[deal]
  /\ IsLegal(calls, bot.call)

Land ==
  /\ bot.pc = "acting" /\ Unmoved /\ Accepted
  /\ calls' = Append(calls, bot.call)
  /\ bot' = IdleBot
  /\ UNCHANGED <<deal, passing, cache, drops>>

\* The table refuses the call, and the driver gives up.
Refuse ==
  /\ bot.pc = "acting" /\ Unmoved /\ ~Accepted
  /\ bot' = IdleBot
  /\ UNCHANGED <<deal, calls, passing, cache, drops>>

-----------------------------------------------------------------------------

\* bound: predictions go one call past the longest log
Extensions(made) == UNION {[1 .. n -> Calls] : n \in 0 .. MaxCalls + 1 - Len(made)}

Init ==
  /\ deal \in Deal
  /\ calls = <<>>
  /\ passing = {}
  /\ cache = NoCache
  /\ drops = 0
  /\ bot = IdleBot

Next ==
  \/ \E call \in Calls : HumanCall(call)
  \/ \E n \in 0 .. Len(calls) : UndoTo(n)
  \/ \E d \in Deal : Redeal(d)
  \/ \E sides \in PassSides : SetPassSides(sides)
  \/ Drop
  \/ Capture \/ Serve \/ Ask \/ Fail
  \/ \E more \in Extensions(bot.calls) : Answer(more)
  \/ Discard \/ Land \/ Refuse

Spec == Init /\ [][Next]_vars

-----------------------------------------------------------------------------
(* What the cache and the guard of the driver are for. *)

Opens(made, all) ==
  /\ Len(made) <= Len(all)
  /\ \A i \in 1 .. Len(made) : made[i] = all[i]

Turn == [pc : {"idle", "choosing", "asking", "acting"}, deal : Deal \cup {NoDeal},
         calls : Seq(Calls), moved : BOOLEAN, call : Calls, from : Deal \cup {NoDeal}]

\* The variables have their types, and a turn under way is of a board.
TypeOK ==
  /\ deal \in Deal
  /\ calls \in Seq(Calls)
  /\ passing \in PassSides
  /\ cache \in [deal : Deal \cup {NoDeal}, asked : Seq(Calls),
                predicted : Seq(Calls), late : BOOLEAN]
  /\ drops \in Nat
  /\ bot \in Turn
  /\ bot.pc # "idle" => bot.deal \in Deal

\* Once every handler that rewound the table has dropped the cache, the
\* prediction in it was asked for the board on the table, from calls that
\* still stand: no bot repeats what was undone, or bids another board.  The
\* exception is a prediction asked for in the old position and stored after
\* the drop.
CacheIsCurrent ==
  (drops = 0 /\ cache.deal # NoDeal /\ ~cache.late) =>
    cache.deal = deal /\ Opens(cache.asked, calls)

\* Unless the table was rewound in between, a call that was thought about is
\* made on the board and after the calls it was thought about, or dropped
\* because somebody called first; the table refuses none (act_once,
\* "Unreachable in principle: suggestions are validated against the same
\* fold the seq guard just pinned").
CallsLandInPlace ==
  [][(bot.pc = "acting" /\ bot'.pc = "idle" /\ ~bot.moved) =>
       \/ calls' = calls /\ Len(calls) # Len(bot.calls)
       \/ /\ deal = bot.deal
          /\ calls = bot.calls
          /\ calls' = Append(calls, bot.call)]_vars

\* A predicted call that the table takes was predicted for the board it is
\* made on ("A new (or rewound) board invalidates the BBA prediction", ws.rs).
PredictedForThisBoard ==
  [][(Land /\ ~bot.moved /\ bot.from # NoDeal) => bot.from = deal]_vars
=============================================================================
