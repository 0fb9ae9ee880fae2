SPECIFICATION Spec
CONSTANTS
  a = a
  b = b
  p1 = p1
  N = 3
  Key = {a, b}
  Home <- HomeSame
  Proc = {p1}
  Puts <- AnyKey
  Dels <- AnyKey
  Replace = {a, b}
  MaxEnt = 3
PROPERTIES
  MapSpec
