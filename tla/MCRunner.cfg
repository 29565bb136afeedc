SPECIFICATION FairSpec
CONSTANTS
  N = 2
  Workers = {w1, w2}
  Dirs <- ItemDirs
  Stem <- Apart
  Outputs <- AllOutputs
  KinKinds = {"group", "escaped"}
  CanStick = TRUE
  WaitFails = TRUE
INVARIANTS
  RunOnce
  KillsOwnChild
  NoPanic
  OkIsEarned
PROPERTIES
  KeepsPromise
  Reports
