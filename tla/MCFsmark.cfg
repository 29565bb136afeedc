SPECIFICATION Spec
CONSTANTS
  CommandLines <- SomeCommandLines
  Stamps = {1, 2}
  MaxThreads = 2
  MaxFiles = 12
  MaxFaults = 1
INVARIANTS
  RowIsDurable
  OkIsExact
  FailureHasCause
PROPERTY
  RunEnds
