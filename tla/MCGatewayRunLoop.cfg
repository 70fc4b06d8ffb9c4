SPECIFICATION FairSpec
CONSTANTS
  session = session
  e1 = e1
  e2 = e2
  w1 = w1
  w2 = w2
  Lanes <- MCLanes
  Entries <- MCEntries
  LaneOf <- MCLaneOf
  Caps <- MCCaps
  Waiters <- MCWaiters
  MaxResets = 2
  RespawnModes <- AllModes
  EarlyRestarts = FALSE
  MaxRequests = 2
  MaxStartFailures = 1
  MaxCloseFailures = 1
INVARIANTS
  TypeOK
  DrainWindowCloses
  ServerIsOwned
PROPERTIES
  LanesResetBetweenServers
  RestartCompletes
CHECK_DEADLOCK FALSE
