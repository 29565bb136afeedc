SPECIFICATION FairSpec
CONSTANTS
  N = 3
  Options <- AllOptions
  MaxFaults = 1
INVARIANTS
  FifoExact
  CleanupLeavesNothing
  OkIsComplete
  WearOutAgrees
PROPERTIES
  RunEnds
CHECK_DEADLOCK FALSE
