SPECIFICATION Spec
CONSTANTS
  Blk = {b1}
  NoBlk = noblk
  Proc = {p1, p2}
  MaxVer = 2
  MaxRd = 4
  MaxShort = 0
SYMMETRY Symmetry
INVARIANTS
  LastOneOutCleansUp
CHECK_DEADLOCK FALSE
