------------------------------ MODULE TableLog ------------------------------
(***************************************************************************)
(* The event-sourced table (src/src/table.rs).  The authoritative state of *)
(* a table is its board and an append-only log of actions; every view of   *)
(* the game is a fold of the log, an action is admitted against that fold, *)
(* and undo truncates the log.                                             *)
(*                                                                         *)
(* A board is a record of its dealer and its four hands.  The `ruling`     *)
(* flag of a claim is carried by the log and never looked at by the fold;  *)
(* it is left to the module of claims.                                     *)
(***************************************************************************)
EXTENDS Auction

CONSTANTS
  Boards,   \* the boards a table may be given
  Calls,    \* the calls the players choose from; all 38 in the code
  Tricks    \* cards in a hand, so tricks in the play; 13 in the code

ASSUME TableAssumption ==
  /\ Tricks \in Nat \ {0}
  /\ Pass \in Calls /\ Calls \subseteq AllCalls
  /\ \A b \in Boards :
       /\ b.dealer \in Seat /\ b.hands \in [Seat -> SUBSET Card]
       /\ \A s \in Seat : /\ IsFiniteSet(b.hands[s]) /\ Cardinality(b.hands[s]) = Tricks
                          /\ \A t \in Seat \ {s} : b.hands[s] \cap b.hands[t] = {}

VARIABLES
  board,    \* the board being played
  actions   \* the log of that board

NoSeat == -1

CallAction(seat, call)    == [type |-> "call",  seat |-> seat, call |-> call]
PlayAction(seat, card)    == [type |-> "play",  seat |-> seat, card |-> card]
ClaimAction(seat, tricks) == [type |-> "claim", seat |-> seat, tricks |-> tricks]

-----------------------------------------------------------------------------
(* The fold. *)

\* The calls made, the plays and the claims of a log, each oldest first.
Split(acts) ==
  LET entry(a) == IF a.type = "call" THEN a.call ELSE a
      first[n \in 0 .. Len(acts)] ==
        IF n = 0 THEN [call |-> <<>>, play |-> <<>>, claim |-> <<>>]
        ELSE [first[n - 1] EXCEPT ![acts[n].type] = Append(@, entry(acts[n]))]
  IN  first[Len(acts)]

\* The seat on lead after each completed trick: the opening leader, then
\* the winner of every trick in turn.
Leaders(contract, played) ==
  LET card(k, i) == played[4 * (k - 1) + i].card
      lead[k \in 0 .. Len(played) \div 4] ==
        IF k = 0 THEN OpeningLeader(contract)
        ELSE TrickWinner(lead[k - 1], <<card(k, 1), card(k, 2), card(k, 3), card(k, 4)>>,
                         TrumpOf(contract.strain))
  IN  lead

\* Slip: a claim leaves the board in play.
OverByTricks(n, claims) == n = Tricks

Over(n, claims) == n = Tricks \/ claims # <<>>

\* Slips: the tricks not claimed go to nobody; the claim to the wrong side.
SettleClaimOnly(won, claim, left) ==
  [won EXCEPT ![SideOf(claim.seat)] = @ + claim.tricks]
SettleSwapped(won, claim, left) ==
  [s \in Side |-> won[s] + IF s = SideOf(claim.seat) THEN left - claim.tricks ELSE claim.tricks]

\* Tricks to each side once a claim has shared out the ones still to play.
Settle(won, claim, left) ==
  LET taken == IF claim.tricks <= left THEN claim.tricks ELSE left
  IN  [s \in Side |-> won[s] + IF s = SideOf(claim.seat) THEN taken ELSE left - taken]

NoPlay(phase, turn, calls, played) ==
  [phase |-> phase, turn |-> turn, calls |-> calls, contract |-> NoContract,
   played |-> played, completed |-> 0, leader |-> NoSeat, trick |-> <<>>,
   won |-> [s \in Side |-> 0]]

Fold(b, acts) ==
  LET log      == Split(acts)
      calls    == log.call
      played   == log.play
      claims   == log.claim
      contract == Contract(b.dealer, calls)
      n        == Len(played) \div 4
      lead     == Leaders(contract, played)
      trick    == SubSeq(played, 4 * n + 1, Len(played))
      won      == [s \in Side |-> Cardinality({k \in 1 .. n : SideOf(lead[k]) = s})]
      over     == Over(n, claims)
  IN  IF ~IsComplete(calls)
        THEN NoPlay("bidding", NextCaller(b.dealer, calls), calls, played)
      ELSE IF contract = NoContract
        THEN NoPlay("complete", NoSeat, calls, played)
      ELSE [phase     |-> IF over THEN "complete" ELSE "play",
            turn      |-> IF over THEN NoSeat
                          ELSE IF trick # <<>> THEN NextSeat(Last(trick).seat)
                          ELSE lead[n],
            calls     |-> calls,
            contract  |-> contract,
            played    |-> played,
            completed |-> n,
            leader    |-> lead[n],
            trick     |-> trick,
            won       |-> IF claims = <<>> THEN won
                          ELSE Settle(won, Last(claims), Tricks - n)]

\* Slip: the trick in progress is counted twice.
TricksLeftAndOne(f) == IF f.phase = "complete" THEN 0 ELSE Tricks - f.completed + 1

\* Tricks still to play, counting the one in progress.
TricksLeft(f) == IF f.phase = "complete" THEN 0 ELSE Tricks - f.completed

\* The cards a seat still holds, and the suit led to the current trick.
Remaining(b, f, seat) ==
  b.hands[seat] \ {f.played[i].card : i \in {j \in DOMAIN f.played : f.played[j].seat = seat}}

LeadSuit(f) == IF f.trick = <<>> THEN {} ELSE {f.trick[1].card.suit}

\* Slip: legality is judged on the hand as it was dealt.
LegalAsDealt(b, f, seat) == LegalCards(b.hands[seat], LeadSuit(f))

Legal(b, f, seat) == LegalCards(Remaining(b, f, seat), LeadSuit(f))

-----------------------------------------------------------------------------
(* The operations. *)

\* What TableState::apply checks of an action before it appends it.
Admits(b, acts, a) ==
  LET f == Fold(b, acts)
  IN  \/ /\ a.type = "call"
         /\ f.phase = "bidding" /\ f.turn = a.seat
         /\ IsLegal(f.calls, a.call)
      \/ /\ a.type = "play"
         /\ f.phase = "play" /\ f.turn = a.seat
         /\ a.card \in Legal(b, f, a.seat)
      \/ /\ a.type = "claim"
         /\ f.phase = "play"
         /\ a.tricks <= TricksLeft(f)

Apply(a) ==
  /\ Admits(board, actions, a)
  /\ actions' = Append(actions, a)
  /\ UNCHANGED board

UndoTo(n) ==
  /\ n \in 0 .. Len(actions)
  /\ actions' = SubSeq(actions, 1, n)
  /\ UNCHANGED board

\* A fresh table for a board: a new deal discards the old log.
NewTable(b) ==
  /\ board' = b
  /\ actions' = <<>>

Init == board \in Boards /\ actions = <<>>

Next ==
  \/ \E s \in Seat, c \in Calls : Apply(CallAction(s, c))
  \/ \E s \in Seat : \E c \in board.hands[s] : Apply(PlayAction(s, c))
  \/ \E s \in Seat, n \in 0 .. Tricks : Apply(ClaimAction(s, n))
  \/ \E n \in 0 .. Len(actions) : UndoTo(n)
  \/ \E b \in Boards : NewTable(b)

vars == <<board, actions>>

Spec == Init /\ [][Next]_vars

=============================================================================
