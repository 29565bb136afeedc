SPECIFICATION SmallfileFairSpec
CONSTANTS
  T = 2
  Iterations = 3
  FilesPerDir = 2
  CheckEvery = 2
  MinFiles = 3
  Options <- AllOptions
  Remains <- NoneOrAll
INVARIANTS
  OperationsPass
  CutByFinisher
PROPERTIES
  RunEnds
