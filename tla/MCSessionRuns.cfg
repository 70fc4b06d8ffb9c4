SPECIFICATION FairSpec
CONSTANTS
  k1 = k1
  t1 = t1
  t2 = t2
  c1 = c1
  Keys <- MCKeys
  MaxSid = 3
  Turns <- MCTurns
  KeyOf <- MCKeyOf
  Callers <- MCCallers
  NoKey = noKey
  NoTurn = noTurn
CHECK_DEADLOCK FALSE
INVARIANTS
  TypeOK
  OwnRegistration
  IndexesAgree
  WaitersBacked
  AbortedRunsNothing
  DrainedIsIdle
PROPERTIES
  IdsKeepFinding
  WaitsEnd
