SPECIFICATION FairSpec
CONSTANTS
  m1 = m1
  m2 = m2
  m3 = m3
  m4 = m4
  chat = chat
  unkeyed = unkeyed
  unroutable = unroutable
  Msgs <- FourMsgs
  Routes <- MCRoutes
  Unkeyed = unkeyed
  Unroutable = unroutable
  RouteOf <- FourRoutes
  AllSettings <- RefusingSettings
  MaxQueues = 1
  MaxFailures = 1
  MaxClears = 0
  MaxTurns = 1
  MaxCommands = 1
INVARIANTS
  TypeOK
  NoSilentLoss
  NoStrandedItems
PROPERTIES
  QueuedRuns
