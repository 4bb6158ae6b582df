SPECIFICATION Spec
CONSTANTS
  c1 = c1  a1 = a1  r1 = r1  r2 = r2  e1 = e1  m1 = m1  x1 = x1
  d1 = d1  d2 = d2
  Creators = {c1}
  Appenders = {a1}
  Recorders = {r1, r2}
  Evolvers = {e1}
  Mergers = {m1}
  Expirers = {x1}
  Partitions = {d1}
  Attempts = 2
  MaxVersion = 5
  MaxFiles = 4
INVARIANTS TypeOK BeginsWithMetadata PositionMatchesRows Contiguous RowsConserved
PROPERTIES CommitsImmutable DetachIsWhole
SYMMETRY Interchangeable
CONSTRAINT OneCastAtATime
CHECK_DEADLOCK FALSE
