------------------------------- MODULE Claims -------------------------------
(***************************************************************************)
(* Claims at a room (src/src/claims.rs and the claim handlers of           *)
(* routes/ws.rs).  A claim is looked at under the lock of the room, judged *)
(* by the solver with the lock released, and applied under the lock again. *)
(* Between those steps people and bots go on with the board; a bot's turn  *)
(* is one step here, BotDriver has what it is made of.                     *)
(***************************************************************************)
EXTENDS Room

CONSTANTS
  Claimant,   \* claims that may be under way at a time
  Asks        \* what they may ask for: a seat, its tricks, and whether the
              \* host rules so

ASSUME ClaimsAssumption ==
  \A a \in Asks : a.seat \in Seat /\ a.tricks \in Nat /\ a.ruling \in BOOLEAN

VARIABLE claim    \* the claim each claimant has under way

claimsVars == <<roomVars, claim>>

NoClaim == [stage |-> "none"]

PlaysMade == Len(Split(actions).play)

-----------------------------------------------------------------------------
(* Making a claim. *)

\* A connection may claim for a seat it holds, and for declarer and dummy
\* if it controls that side; the host rules for any seat.
Entitled(f, s) ==
  \/ Here(s)
  \/ OnDeclarerSide(f, s) /\ Here(DeclarerSideController(f.contract.declarer))

Ask(c, a) ==
  /\ claim[c] = NoClaim
  /\ a.ruling \/ \E f \in {Fold(board, actions)} : Entitled(f, a.seat)
  /\ claim' = [claim EXCEPT ![c] = [stage |-> "asked", ask |-> a]]
  /\ UNCHANGED roomVars

\* The first lock: refuse what is out of place or out of date.  The number of
\* cards played that the client states with its claim may be any.
InPlace(c, seen, f) ==
  /\ mode # "bidOnly"
  /\ f.phase = "play"
  /\ seen = Len(f.played)
  /\ claim[c].ask.tricks <= TricksLeft(f)

Examine(c) ==
  /\ claim[c].stage = "asked"
  /\ \E f \in {Fold(board, actions)}, n \in 0 .. 4 * Tricks :
       claim' = [claim EXCEPT ![c] = IF InPlace(c, n, f)
                                     THEN [stage |-> "judged", ask |-> @.ask, seen |-> n]
                                     ELSE NoClaim]
  /\ UNCHANGED roomVars

\* The solver may find a player's claim invalid or too hard, or fail.
Refuse(c) ==
  /\ claim[c].stage = "judged" /\ ~claim[c].ask.ruling
  /\ claim' = [claim EXCEPT ![c] = NoClaim]
  /\ UNCHANGED roomVars

\* The second lock: refuse if the number of cards played has changed, else
\* let the table admit the claim or not.
Asked(c) == ClaimAction(claim[c].ask.seat, claim[c].ask.tricks)

\* Slip: the claim is appended to the log past the table's own check.
SettledUnchecked(c) ==
  /\ PlaysMade = claim[c].seen
  /\ actions' = Append(actions, Asked(c))
  /\ UNCHANGED board

\* Slip: a claim that comes back from the solver is applied whatever was
\* played meanwhile.
SettledLate(c) == Apply(Asked(c))

Settled(c) == PlaysMade = claim[c].seen /\ Apply(Asked(c))

Outdated(c) ==
  /\ PlaysMade # claim[c].seen \/ ~Admits(board, actions, Asked(c))
  /\ UNCHANGED <<board, actions>>

Close(c) ==
  /\ claim[c].stage = "judged"
  /\ Settled(c) \/ Outdated(c)
  /\ claim' = [claim EXCEPT ![c] = NoClaim]
  /\ UNCHANGED <<seats, mode, paused>>

ClaimStep(c) == (\E a \in Asks : Ask(c, a)) \/ Examine(c) \/ Refuse(c) \/ Close(c)

-----------------------------------------------------------------------------
(* The rest of the room. *)

BotActs ==
  /\ ~paused
  /\ \E f \in {Fold(board, actions)} :
       /\ BotMustAct(f)
       /\ \E a \in Suggestions(board, f) : Apply(a)
  /\ UNCHANGED <<seats, mode, paused>>

Table ==
  \/ \E call \in Calls : HumanCall(call)
  \/ HumanPlay
  \/ \E n \in 0 .. Len(actions) : HumanUndo(n)
  \/ HumanUndoLast
  \/ \E b \in Boards, m \in Modes : Deal(b, m)
  \/ \E s \in HumanSeats : Occupy(s) \/ Leave({s})
  \/ \E m \in Modes : SetBoardMode(m)
  \/ SetBotsPaused(~paused)
  \/ BotActs

ClaimsInit == RoomInit /\ claim = [c \in Claimant |-> NoClaim]

ClaimsNext ==
  \/ \E c \in Claimant : ClaimStep(c)
  \/ Table /\ UNCHANGED claim

ClaimsSpec == ClaimsInit /\ [][ClaimsNext]_claimsVars

-----------------------------------------------------------------------------
(* Properties. *)

\* Types, and that no claim is with the solver for more than the tricks that
\* were left when it was examined.
ClaimsTypeOK ==
  /\ RoomTypeOK
  /\ \A c \in Claimant :
       /\ claim[c] # NoClaim => /\ claim[c].stage \in {"asked", "judged"}
                                /\ claim[c].ask \in Asks
       /\ claim[c].stage = "judged" =>
            /\ claim[c].seen \in 0 .. 4 * Tricks
            /\ claim[c].ask.tricks <= Tricks - claim[c].seen \div 4

\* Of claims that race, one ends the board: a log holds at most one, as its
\* last action.
OneClaim ==
  \A i \in DOMAIN actions : actions[i].type = "claim" => i = Len(actions)

\* A claim is credited in full: the cut of a claim to the tricks left, which
\* the fold makes, never takes anything away.
ClaimCreditedInFull ==
  \A f \in {Fold(board, actions)}, i \in DOMAIN actions :
    actions[i].type = "claim" =>
      /\ actions[i].tricks <= Tricks - f.completed
      /\ f.won[SideOf(actions[i].seat)] >= actions[i].tricks

\* Undo to the last human action leaves a turn that no bot takes, if that
\* action was a call or a card on a board whose auction is not the bots': the
\* seat that acted, or the human of its side, has the turn again.  A claim may
\* be made out of turn, and bots call for the humans of a play-only board:
\* there the comment on the code says the same, and is wrong.
UndoOfTurnWaits ==
  [][/\ Len(actions') < Len(actions)
     /\ ~paused /\ mode # "playOnly"
     /\ actions[Len(actions') + 1].type # "claim"
     /\ HumanUndoLast
     => \A f \in {Fold(board, actions')} : ~BotMustAct(f)]_claimsVars

=============================================================================
