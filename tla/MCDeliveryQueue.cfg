SPECIFICATION Spec
CONSTANTS
  live = live
  s1 = s1
  MaxEntries = 2
  BestEffort = {2}
  Reported = {2}
  Scans <- OneScan
  Live = live
  MaxRetries = 2
  MaxScans = 3
  MaxCrashes = 1
  MaxIoErrors = 1
INVARIANTS
  TypeOK
  StrictNeverLost
  GivenUpForCause
PROPERTIES
  NoReplay
CHECK_DEADLOCK FALSE
