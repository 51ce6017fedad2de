SPECIFICATION FairSpec
CONSTANTS
  n0 = n0
  n1 = n1
  N = 3
  Node = {n0, n1}
  Host <- MCHost
  Uses = {"READ", "ACQUIRE", "LOCK"}
  MaxOps <- MCOps
INVARIANTS TypeOK LocksCounted RequestsQueuedOnce SomebodyWillWake NoLostUpdate
PROPERTY OperationsComplete
