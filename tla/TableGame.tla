------------------------------ MODULE TableGame ------------------------------
(***************************************************************************)
(* What the event-sourced table guarantees: properties of its logs, and    *)
(* that folding the log yields the game of BridgeGame, move by move and    *)
(* through every undo.                                                     *)
(***************************************************************************)
EXTENDS TableLog

\* Types: of the log, and of what it folds to.
TypeOK ==
  /\ board \in Boards
  /\ \A f \in {Fold(board, actions)} :
       /\ f.phase \in {"bidding", "play", "complete"}
       /\ {f.turn, f.leader} \subseteq Seat \cup {NoSeat}
       /\ f.completed \in 0 .. Tricks /\ Len(f.trick) \in 0 .. 3
  /\ \A i \in DOMAIN actions :
       /\ actions[i].type \in {"call", "play", "claim"}
       /\ actions[i].seat \in Seat

\* The calls come first, then the plays, and a claim is the last action of
\* its log: the fold takes the last claim it meets and ignores where it
\* stands.
LogInOrder ==
  \A i, j \in DOMAIN actions : i < j =>
    /\ actions[i].type # "claim"
    /\ actions[j].type = "call" => actions[i].type = "call"

\* Every card was played once, by the seat it was dealt to, and the hands
\* shrink together: within a trick a seat that has played holds one card
\* less than one that has not.
CardsConserved ==
  LET f == Fold(board, actions)
      held(s) == Cardinality(Remaining(board, f, s))
  IN  /\ \A i, j \in DOMAIN f.played : f.played[i].card = f.played[j].card => i = j
      /\ \A i \in DOMAIN f.played : f.played[i].card \in board.hands[f.played[i].seat]
      /\ \A s \in Seat :
           held(s) = Tricks - f.completed
                     - (IF \E i \in DOMAIN f.trick : f.trick[i].seat = s THEN 1 ELSE 0)

\* The score adds up: no trick is lost or counted twice, by the play or by
\* a claim made in the middle of a trick.
TricksAccounted ==
  LET f == Fold(board, actions)
  IN  f.contract # NoContract =>
        f.won[0] + f.won[1] = IF f.phase = "complete" THEN Tricks ELSE f.completed

\* A game in progress always has a seat to act and a legal action for it:
\* neither a player nor the bot driver can be left without a move.
NeverStuck ==
  LET f == Fold(board, actions)
  IN  /\ (f.phase = "complete") <=> (f.turn = NoSeat)
      /\ f.phase = "play" => Legal(board, f, f.turn) # {}
      /\ f.phase = "bidding" => Admits(board, actions, CallAction(f.turn, Pass))

-----------------------------------------------------------------------------
(* The game behind a log. *)

\* Seats, by side, that first named each strain.
FirstNamed(b, calls) ==
  [x \in Side \X Strain |->
     LET named == {i \in DOMAIN calls : /\ IsBid(calls[i])
                                        /\ calls[i].strain = x[2]
                                        /\ SideOf(CallerAt(b.dealer, i)) = x[1]}
     IN  IF named = {} THEN NoSeat ELSE CallerAt(b.dealer, Min(named))]

\* How often the last bid has been doubled, and the passes at the end.
DoubledTimes(calls) ==
  Cardinality({i \in LastBid(calls) + 1 .. Len(calls) : ~IsPass(calls[i])})

\* The position that a log with fold f stands for.
PositionOf(b, f) ==
  LET bid == LastBid(f.calls)
  IN  [phase    |-> f.phase,
       turn     |-> f.turn,
       high     |-> IF bid = 0 THEN [level |-> 0, strain |-> 0]
                    ELSE [level |-> f.calls[bid].level, strain |-> f.calls[bid].strain],
       highSide |-> IF bid = 0 THEN NoSeat ELSE SideOf(CallerAt(b.dealer, bid)),
       doubled  |-> DoubledTimes(f.calls),
       passes   |-> Len(f.calls) - LastAction(f.calls),
       named    |-> FirstNamed(b, f.calls),
       hands    |-> [s \in Seat |-> Remaining(b, f, s)],
       leader   |-> f.leader,
       trick    |-> [i \in DOMAIN f.trick |-> f.trick[i].card],
       won      |-> f.won]

\* History variables: what the log stands for now, and what each of its
\* proper prefixes stood for when it was the log.
VARIABLES position, past

Remember ==
  /\ \E f \in {Fold(board', actions')} : position' = PositionOf(board', f)
  /\ past' = IF Len(actions') > Len(actions)
             THEN Append(past, position)
             ELSE SubSeq(past, 1, Len(actions'))

GameInit == Init /\ position = PositionOf(board, Fold(board, actions)) /\ past = <<>>
GameSpec == GameInit /\ [][Next /\ Remember]_<<board, actions, position, past>>

Game == INSTANCE BridgeGame

\* The fold agrees with the game played move by move, whatever was undone.
ImplementsGame == Game!Spec

=============================================================================
