SPECIFICATION Spec
CONSTANTS
  Requests <- MCRequests
INVARIANT AgentsOnGrid
CHECK_DEADLOCK FALSE
