---------------------------- MODULE ClaimsJudged ----------------------------
(***************************************************************************)
(* Claims with two history variables: the board and the cards each claim   *)
(* with the solver was judged on, and whether the table has been rewound   *)
(* or dealt to since.                                                      *)
(***************************************************************************)
EXTENDS Claims

VARIABLES judged, moved

history == <<judged, moved>>

CardsPlayed == Split(actions).play

\* Back by an undo, or to the start of a board.
Rewound == ~IsPrefix(actions, actions') \/ board' # board

WithSolver(c) == claim[c].stage = "judged" /\ ~claim[c].ask.ruling

RememberVerdicts ==
  /\ judged' = [c \in Claimant |->
                  IF ~WithSolver(c)' THEN <<>>
                  ELSE IF WithSolver(c) THEN judged[c] ELSE <<board, CardsPlayed>>]
  /\ moved' = [c \in Claimant |-> WithSolver(c)' /\ WithSolver(c) /\ (moved[c] \/ Rewound)]

JudgedInit ==
  /\ ClaimsInit
  /\ judged = [c \in Claimant |-> <<>>]
  /\ moved = [c \in Claimant |-> FALSE]

JudgedSpec == JudgedInit /\ [][ClaimsNext /\ RememberVerdicts]_<<claimsVars, history>>

\* A player's claim is "applied only if nothing was played meanwhile": while
\* the table is neither rewound nor dealt to, the number of cards played
\* tells that the cards are those the solver saw, whatever else went on.
\* After an undo or a deal it does not, and a claim lands on other cards.
ClaimJudgedHere ==
  [][\A c \in Claimant :
       WithSolver(c) /\ claim'[c] # claim[c] /\ actions' # actions /\ ~moved[c]
         => judged[c] = <<board, CardsPlayed>>]_<<claimsVars, history>>

=============================================================================
