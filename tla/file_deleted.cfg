SPECIFICATION Spec
CONSTANTS
  Proc = {p1, p2}
  MaxFile = 2
  MaxCrash = 0
  Word = 16
  None = None
SYMMETRY Symmetry
INVARIANTS
  LastProcessDeletes
CHECK_DEADLOCK FALSE
