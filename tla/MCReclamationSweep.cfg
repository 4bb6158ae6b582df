SPECIFICATION Spec
CHECK_DEADLOCK FALSE
CONSTANTS
  Readers = {}
  Snapshots = {}
  Grace = 1
  Leak = 2
  SweepEvery = 2
  Expires = TRUE
  MaxTicks = 2
  MaxFiles = 4
  MaxRestarts = 1
INVARIANTS TableIsWhole
