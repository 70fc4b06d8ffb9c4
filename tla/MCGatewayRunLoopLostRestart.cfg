SPECIFICATION Spec
CONSTANTS
  session = session
  e1 = e1
  e2 = e2
  w1 = w1
  w2 = w2
  Lanes <- MCLanes
  Entries <- MCEntries
  LaneOf <- MCLaneOf
  Caps <- NoCaps
  Waiters <- MCWaiters
  MaxResets = 2
  RespawnModes <- StayModes
  EarlyRestarts = TRUE
  MaxRequests = 2
  MaxStartFailures = 0
  MaxCloseFailures = 0
INVARIANTS
  DrainWindowCloses
CHECK_DEADLOCK FALSE
