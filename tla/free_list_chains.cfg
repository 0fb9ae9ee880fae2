SPECIFICATION Spec
CONSTANTS
  Size = 3
  LIST_END = 9
  VerMax = 4
  MaxLag = 3
  MaxChain = 2
  Interleaved = TRUE
  Proc = {p1, p2}
  Handle = {h1, h2, h3}
  NoHandle = nohandle
SYMMETRY Symmetry
INVARIANTS
  Exclusive
