SPECIFICATION FairSpec
CONSTANTS
  n0 = n0
  n1 = n1
  N = 3
  Node = {n0, n1}
  Host <- MCHost
  Uses = {"LOCK_SHARED", "LOCK"}
  MaxOps <- MCOps
INVARIANT ReaderWriterExclusion
