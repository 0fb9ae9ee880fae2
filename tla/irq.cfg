SPECIFICATION FairSpec
CONSTANTS
  MaxChange = 6
  N = 4
INVARIANTS
  TypeOK
  InOrder
  NoneSkipped
PROPERTIES
  RtlReleased
  LineFollows
