SPECIFICATION Spec
CONSTANTS
  a = a
  b = b
  p1 = p1
  N = 3
  Key = {a, b}
  Home <- HomeApart
  Proc = {p1, p2}
  Puts <- PutsOwn
  Dels <- DelsOwn
  Replace = {b}
  MaxEnt = 4
INVARIANTS
  TypeOK
  EntryAccounted
  GetIsCurrent
PROPERTIES
  DelIsCurrent
  MapSpec
