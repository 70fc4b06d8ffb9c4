SPECIFICATION FairSpec
CONSTANTS
  once = once
  again = again
  p1 = p1
  p2 = p2
  Alarm <- MCAlarm
  Repeating <- MCRepeating
  Period = 2
  Hour = 2
  Passes <- MCPasses
  NoPass = noPass
  NoAlarm = noAlarm
INVARIANTS
  TypeOK
  OneShotKept
  CancelledStaysGone
PROPERTIES
  AlarmsGoOff
