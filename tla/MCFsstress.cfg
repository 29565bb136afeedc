SPECIFICATION Spec
CONSTANTS
  Threads = {t1, t2}
  Nops = 3
  NodeTypes = {"sym"}
  Leftovers <- SomeLeftovers
  MaxSize = 1
  MaxNodes = 7
INVARIANTS
  ListsAreExact
  CleanupIsExact
  BehindEndIsRace
