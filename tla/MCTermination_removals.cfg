SPECIFICATION FairSpec
CONSTANTS
  N = 3
  MaxRequests = 1
  Removes <- MCAll
INVARIANT TerminationSound
