SPECIFICATION FairSpec
CONSTANTS
  N = 3
  Options <- AllOptions
INVARIANTS
  ItemsFound
  NamesRestored
PROPERTIES
  RunEnds
CHECK_DEADLOCK FALSE
