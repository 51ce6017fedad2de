SPECIFICATION Spec
CONSTANTS
  N = 2
  a = a
  b = b
  c = c
  x = x
  y = y
  Node = {a, b}
  Edge = {x, y}
  Origin <- MCOrigin
  Source <- MCSource
  Target <- MCTarget
  MaxOps = 3
  MaxData = 1
  Allow = {}
INVARIANTS
  TypeOK
  GhostsFresh
  NoFailure
PROPERTIES
  DataNeverRegresses
