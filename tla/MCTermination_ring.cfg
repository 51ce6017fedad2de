SPECIFICATION FairSpec
CONSTANTS
  N = 4
  MaxRequests = 1
  Removes <- MCDown
INVARIANTS TypeOK TerminationSound PeriodsDoNotMix TokenSweep
PROPERTIES ImplementsBarrier PeriodsComplete
