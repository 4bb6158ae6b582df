SPECIFICATION CaptureSpec
CONSTANTS
  t1 = t1
  t2 = t2
  Tables = {t1, t2}
  Shapes = {0, 1, 2, 3}
  FirstShape = 2
  SourceDoes <- Everything
  CarriesOn = TRUE
  MaxRows = 2
  MaxTransactions = 2
  MaxStream = 6
  MaxStreaming = 1
  MaxOddities = 1
  MaxRestarts = 1
SYMMETRY Symmetric
CHECK_DEADLOCK FALSE
INVARIANTS RowsOnce NeverTorn
PROPERTIES KeepsPromise
