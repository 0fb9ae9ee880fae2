SPECIFICATION Spec
CONSTANTS
  Proc = {p1, p2, p3}
  MaxFile = 2
  MaxCrash = 2
  Word = 4
  None = None
SYMMETRY Symmetry
INVARIANTS
  TypeOK
  AttachedIsReady
  NoFileLeft
CHECK_DEADLOCK FALSE
