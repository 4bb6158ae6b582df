SPECIFICATION FairSpec
CONSTANTS
  NumSources = 2
  MaxLines = 3
  BatchRows = 2
  Window = 2
  Tolerated = 1
  Faults <- Survivable
  MaxFaults = 2
INVARIANTS TypeOK ExactlyOnce RefusalsAccountedFor
PROPERTIES NeverForgets EventuallyRead
