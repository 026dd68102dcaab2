SPECIFICATION GameSpec
CONSTANTS
  Boards <- MCBoards
  Calls <- MCCalls
  Tricks = 2
INVARIANTS
  TypeOK
  LogInOrder
  CardsConserved
  TricksAccounted
  NeverStuck
PROPERTY ImplementsGame
