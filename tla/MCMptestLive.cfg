SPECIFICATION FairSpec
CONSTANTS
  Script <- WriteScript
  Clients = {1, 2}
  MaxIdle = 1
  MaxTimeouts = 1
PROPERTIES
  MasterEnds
  EveryClientExits
