SPECIFICATION Spec
CONSTANTS
  Script <- CrashScript
  Clients = {1, 2}
  MaxIdle = 1
  MaxTimeouts = 1
INVARIANTS
  ClaimedOnce
  EndedAfterClaim
  CountsConserved
PROPERTIES
  NoLostUpdate
