SPECIFICATION Spec
CONSTANTS
    r1 = r1
    r2 = r2
    r3 = r3
    Processes = {r1, r2, r3}
    PidOf <- Pids
    MaxCrashes = 2
    Window = 1
    MaxEntries = 3
    MaxFailures = 1
CHECK_DEADLOCK FALSE
INVARIANTS
    TypeOK
    OneServerUnlessHasty
    NothingSilent
    SoundToTheFirstHole
PROPERTIES
    StaleIsTaken
