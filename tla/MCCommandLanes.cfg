SPECIFICATION FairSpec
CONSTANTS
  main = main
  session = session
  e1 = e1
  e2 = e2
  e3 = e3
  Lanes <- MCLanes
  Entries <- MCEntries
  LaneOf <- MCLaneOf
  Caps <- MCCaps
  Waiters <- MCWaiters
  w1 = w1
  MaxResets = 1
INVARIANTS
  TypeOK
  SlotsAreCurrentTasks
  WaitersExact
PROPERTIES
  AcceptedSettles
  KeepsContract
