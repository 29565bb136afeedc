SPECIFICATION FairSpec
CONSTANTS
  N = 2
  Plans = {2}
  MaxLines = 2
  Exits <- AllExits
  KinKinds = {"group", "escaped"}
  CanStick = TRUE
  WaitFails = TRUE
  Word = 16
INVARIANTS
  OkIsEarned
PROPERTIES
  KeepsPromise
  BlockedEnds
  Reports
