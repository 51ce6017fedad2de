SPECIFICATION Spec
CONSTANTS
  N = 3
  a = a
  b = b
  c = c
  x = x
  y = y
  Node = {a, b}
  Edge = {x, y}
  Origin <- MCOrigin
  Source <- MCSource
  Target <- MCTarget
  MaxOps = 2
  MaxData = 0
  Allow = {"MOVE_LOADED"}
INVARIANT LocationsCorrect
