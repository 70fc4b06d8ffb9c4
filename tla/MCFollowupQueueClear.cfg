SPECIFICATION Spec
CONSTANTS
  m1 = m1
  m2 = m2
  m3 = m3
  m4 = m4
  chat = chat
  unkeyed = unkeyed
  unroutable = unroutable
  Msgs <- ThreeMsgs
  Routes <- MCRoutes
  Unkeyed = unkeyed
  Unroutable = unroutable
  RouteOf <- ThreeRoutes
  AllSettings <- FollowupRefusing
  MaxQueues = 2
  MaxFailures = 0
  MaxClears = 1
  MaxTurns = 0
  MaxCommands = 0
INVARIANTS
  NoStrandedItems
