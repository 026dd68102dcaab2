----------------------------- MODULE BridgeGame -----------------------------
(***************************************************************************)
(* What a table promises: a game of bridge, kept move by move in the terms *)
(* of the Laws and with no log to fold, together with the stack of the     *)
(* positions it went through so that a move can be taken back.             *)
(***************************************************************************)
EXTENDS Bridge

CONSTANTS Boards, Calls, Tricks

VARIABLES
  board,      \* the board being played
  position,   \* where its game stands
  past        \* the positions before it, oldest first

NoSeat == -1
NoBid  == [level |-> 0, strain |-> 0]

Deal(b) ==
  [phase |-> "bidding", turn |-> b.dealer,
   high |-> NoBid, highSide |-> NoSeat, doubled |-> 0, passes |-> 0,
   named |-> [x \in Side \X Strain |-> NoSeat],
   hands |-> b.hands, leader |-> NoSeat, trick |-> <<>>,
   won |-> [s \in Side |-> 0]]

(***************************************************************************)
(* The moves: q is a position a move of the given kind leads to from p.    *)
(***************************************************************************)

\* Three passes end an auction that has a bid, four one that has none.
PassMade(p, q) ==
  LET n == p.passes + 1
      r == [p EXCEPT !.passes = n, !.turn = NextSeat(@)]
      lead == NextSeat(p.named[<<p.highSide, p.high.strain>>])
  IN  q = IF n = 4 THEN [r EXCEPT !.phase = "complete", !.turn = NoSeat]
          ELSE IF n = 3 /\ p.high # NoBid
          THEN [r EXCEPT !.phase = "play", !.turn = lead, !.leader = lead]
          ELSE r

BidMade(p, q, b) ==
  /\ \/ b.level > p.high.level
     \/ b.level = p.high.level /\ b.strain > p.high.strain
  /\ q = [p EXCEPT !.high = [level |-> b.level, strain |-> b.strain],
                   !.highSide = SideOf(p.turn), !.doubled = 0, !.passes = 0,
                   !.named[<<SideOf(p.turn), b.strain>>] = IF @ = NoSeat THEN p.turn ELSE @,
                   !.turn = NextSeat(@)]

\* The side that did not make the high bid doubles it, the other redoubles.
DoubleMade(p, q, times) ==
  /\ p.high # NoBid
  /\ p.doubled = times - 1
  /\ (times = 1) <=> (p.highSide # SideOf(p.turn))
  /\ q = [p EXCEPT !.doubled = times, !.passes = 0, !.turn = NextSeat(@)]

CallMade(p, q, c) ==
  /\ p.phase = "bidding"
  /\ \/ c.kind = "pass"     /\ PassMade(p, q)
     \/ c.kind = "bid"      /\ BidMade(p, q, c)
     \/ c.kind = "double"   /\ DoubleMade(p, q, 1)
     \/ c.kind = "redouble" /\ DoubleMade(p, q, 2)

\* A trump outranks every other card, a card of the suit led every discard;
\* no rank reaches 100.
Power(card, led, strain) ==
  IF card.suit = strain THEN 200 + card.rank
  ELSE IF card.suit = led THEN 100 + card.rank ELSE 0

\* The place in a trick of the card that wins it.
Best(trick, strain) ==
  LET power(i) == Power(trick[i], trick[1].suit, strain)
  IN  CHOOSE i \in DOMAIN trick : \A j \in DOMAIN trick : power(j) <= power(i)

CardPlayed(p, q, card) ==
  LET hand  == p.hands[p.turn]
      trick == Append(p.trick, card)
      led   == trick[1].suit
      winner == SeatAfter(p.leader, Best(trick, p.high.strain) - 1)
      r == [p EXCEPT !.hands[p.turn] = @ \ {card}, !.trick = trick, !.turn = NextSeat(@)]
      w == [r EXCEPT !.trick = <<>>, !.leader = winner, !.turn = winner,
                     !.won[SideOf(winner)] = @ + 1]
  IN  /\ p.phase = "play"
      /\ card \in hand
      /\ card.suit = led \/ \A c \in hand : c.suit # led
      /\ q = IF Len(trick) < 4 THEN r
             ELSE IF \A s \in Seat : w.hands[s] = {}
             THEN [w EXCEPT !.phase = "complete", !.turn = NoSeat]
             ELSE w

\* A claim shares out the tricks that are left and ends the board.
Claimed(p, q, s, n) ==
  LET left == Tricks - p.won[0] - p.won[1]
  IN  /\ p.phase = "play" /\ n \in 0 .. left
      /\ q = [p EXCEPT !.phase = "complete", !.turn = NoSeat,
                       !.won[SideOf(s)] = @ + n,
                       !.won[1 - SideOf(s)] = @ + left - n]

Moves(p, q) ==
  \/ \E c \in Calls : CallMade(p, q, c)
  \/ \E c \in UNION {p.hands[s] : s \in Seat} : CardPlayed(p, q, c)
  \/ \E s \in Seat, n \in 0 .. Tricks : Claimed(p, q, s, n)

-----------------------------------------------------------------------------

Move ==
  /\ past' = Append(past, position)
  /\ \E p \in {position}, q \in {position'} : Moves(p, q)
  /\ UNCHANGED board

\* Taking moves back restores exactly the position that stood before them.
TakeBack ==
  /\ \E n \in 1 .. Len(past) : position' = past[n] /\ past' = SubSeq(past, 1, n - 1)
  /\ UNCHANGED board

Redeal == \E b \in Boards : board' = b /\ position' = Deal(b) /\ past' = <<>>

Init == board \in Boards /\ position = Deal(board) /\ past = <<>>

Next == Move \/ TakeBack \/ Redeal

vars == <<board, position, past>>

Spec == Init /\ [][Next]_vars

=============================================================================
