SPECIFICATION PlatformFair
CONSTANTS
  MaxLen = 9
  MaxAddr = 4
  Wide = 8
  MaxEntry = 2
  MAX_NUM_INT = 2
INVARIANTS
  TypeOK
  ReportedIfNoneReached
  TriesAll
  LogAsConfigured
  Wired
  CleanedUp
  DmiExclusive
PROPERTIES
  OwnStatus
  Served
