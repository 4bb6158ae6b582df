SPECIFICATION Spec
CHECK_DEADLOCK FALSE
CONSTANTS
  Readers = {r1}
  Snapshots = {}
  Grace = 1
  Leak = 0
  SweepEvery = 1
  Expires = FALSE
  MaxTicks = 2
  MaxFiles = 4
  MaxRestarts = 0
INVARIANTS NoReaderLosesAFile
