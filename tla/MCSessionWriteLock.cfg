SPECIFICATION Spec
CONSTANTS
  gateway = gateway
  cli = cli
  g1 = g1
  g2 = g2
  k1 = k1
  Processes <- MCProcesses
  Callers <- MCCallers
  ProcessOf <- MCProcessOf
  MaxLocks = 2
  MaxCrashes = 1
  MaxSignals = 1
  MaxErrors = 1
INVARIANTS
  TypeOK
  Exclusive
  FileIsBacked
  CountsHolders
SYMMETRY Twins
