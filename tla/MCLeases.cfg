SPECIFICATION Spec
CONSTANTS
  Readers = {r1, r2, r3}
  Files = {f1, f2, f3}
  NSlots = 2
  EpochBound = 4
SYMMETRY Symmetry
INVARIANTS
  TypeOK
  NothingVanishes
  DrainedMeansGone
  EveryReaderAccountedFor
PROPERTIES
  ImplementsPromise
CHECK_DEADLOCK FALSE
