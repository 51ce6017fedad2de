SPECIFICATION FairSpec
CONSTANTS
  N = 3
  a = a
  b = b
  c = c
  d = d
  w = w
  x = x
  y = y
  z = z
  Node = {a, b, c, d}
  Edge = {w, x, y, z}
  Host <- MCHost
  Source <- MCSource
  Target <- MCTarget
  First = {y, z}
  MaxOps <- MCOps
  Allow = {}
INVARIANTS TypeOK NoFailure LinksAgree NodesAgree
PROPERTY PeriodsComplete
