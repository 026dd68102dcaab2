------------------------------- MODULE Bridge -------------------------------
(***************************************************************************)
(* The vocabulary of the table service: seats, cards, and the pure rules   *)
(* of cardplay (src/src/engine/play.rs).  Seats are numbered clockwise     *)
(* from North, so that "the next seat" and "the partner" are arithmetic.   *)
(* A strain is its rank, 0 for clubs to 4 for notrump; a suit is a strain  *)
(* below 4.                                                                *)
(*                                                                         *)
(* In every module a definition whose comment begins with `Slip' is a      *)
(* plausible mistake in the definition it precedes: it is not part of the  *)
(* model, and serves to show that a property notices the mistake.          *)
(***************************************************************************)
EXTENDS Integers, Sequences, FiniteSets, SequencesExt

North == 0
East  == 1
South == 2
West  == 3

Seat   == 0 .. 3
Suit   == 0 .. 3
Strain == 0 .. 4
NoTrump == 4

\* Slip: the rotation does not come round past West.
SeatAfterUnwrapped(s, k) == s + k

\* The seat after s, clockwise, the seat k places after it, and its partner.
SeatAfter(s, k) == (s + k) % 4
NextSeat(s)     == SeatAfter(s, 1)
Partner(s)      == SeatAfter(s, 2)

\* The two sides are the parities of the seats.
Side == {0, 1}
SideOf(s) == s % 2

\* A card has a suit and a rank, 14 for the ace.
Card == [suit : Suit, rank : 2 .. 14]

-----------------------------------------------------------------------------
(* Cardplay, one trick at a time. *)

\* Slip: a hand that cannot follow suit has nothing to play.
FollowingOnly(hand, lead) == IF lead = {} THEN hand ELSE {c \in hand : c.suit \in lead}

\* Follow suit if able; `lead` is the set holding the suit led, empty for
\* the card that leads.
LegalCards(hand, lead) ==
  LET following == {c \in hand : c.suit \in lead}
  IN  IF following = {} THEN hand ELSE following

\* The trump suit of a strain, as the set of suits that are trumps.
TrumpOf(strain) == {strain} \ {NoTrump}

\* Slip: a discard of a high card wins the trick.
BeatsByRank(a, b, led, trump) ==
  \/ a.suit \in trump /\ b.suit \notin trump
  \/ (a.suit \in trump <=> b.suit \in trump) /\ a.rank > b.rank

\* Whether card a beats card b in a trick led in suit `led`.
Beats(a, b, led, trump) ==
  \/ a.suit \in trump /\ b.suit \notin trump
  \/ a.suit \in trump /\ b.suit \in trump /\ a.rank > b.rank
  \/ /\ a.suit \notin trump /\ b.suit \notin trump
     /\ a.suit = led
     /\ b.suit # led \/ a.rank > b.rank

\* The seat that wins the four cards of a trick led by `leader`: a left to
\* right scan that keeps the card no later one has beaten yet.
TrickWinner(leader, cards, trump) ==
  LET best(w, i) == IF Beats(cards[i], cards[w], cards[1].suit, trump) THEN i ELSE w
  IN  SeatAfter(leader, best(best(best(1, 2), 3), 4) - 1)

=============================================================================
