SPECIFICATION Spec
CONSTANTS
  a = a
  b = b
  c = c
  Agent = {a, b, c}
  Groups <- MCGroups
  Grids <- MCGrids
  Ranges <- MCRanges
  FirstRanges <- MCFirstRanges
  MaxSide = 5
  MaxMoves = 2
  MaxRuns = 2
  Allow = {}
INVARIANTS TypeOK Lattice OneLocation FieldsExact PerceptionsExact
CHECK_DEADLOCK FALSE
