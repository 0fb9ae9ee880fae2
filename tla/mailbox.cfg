SPECIFICATION FairSpec
CONSTANTS
  MaxTx = 3
  Timeout = 2
  N = 5
INVARIANTS
  TypeOK
  AnswerExplained
  ReturnsDone
  ListsAll
PROPERTIES
  Returns
CHECK_DEADLOCK FALSE
