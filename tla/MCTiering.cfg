SPECIFICATION Spec
CONSTANTS
    p1 = p1
    p2 = p2
    Purges = {p1, p2}
    Domain = {1, 2}
    RangeOf <- Nested
    Grace = 1
    MaxTime = 2
    MaxRewrites = 1
    MaxCrashes = 1
CHECK_DEADLOCK FALSE
INVARIANTS
    TypeOK
    JournalLeads
    NothingLost
    ReadsAreTrue
