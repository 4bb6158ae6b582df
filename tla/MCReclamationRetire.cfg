SPECIFICATION Spec
CHECK_DEADLOCK FALSE
CONSTANTS
  Readers = {r1}
  Snapshots = {s1}
  Grace = 2
  Leak = 3
  SweepEvery = 0
  Expires = FALSE
  MaxTicks = 4
  MaxFiles = 4
  MaxRestarts = 1
INVARIANTS TypeOK ReadersKeepTheirFiles SnapshotsStayReadable
