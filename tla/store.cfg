SPECIFICATION Spec
CONSTANTS
  Blk = {b1, b2}
  NoBlk = noblk
  Proc = {p1, p2, p3}
  MaxVer = 2
  MaxRd = 3
  MaxShort = 1
SYMMETRY Symmetry
INVARIANTS
  TypeOK
  ReadersKeepBlock
  CopyIsOwn
  FreedOnce
  CountCoversHolders
CHECK_DEADLOCK FALSE
