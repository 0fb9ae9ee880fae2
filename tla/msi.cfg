SPECIFICATION MsiSpec
CONSTANTS
  MaxRaise = 5
INVARIANTS
  WakeupPending
  StillPending
PROPERTIES
  Delivered
CHECK_DEADLOCK FALSE
