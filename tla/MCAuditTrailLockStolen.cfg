SPECIFICATION Spec
CONSTANTS
    r1 = r1
    r2 = r2
    r3 = r3
    Processes = {r1, r2, r3}
    PidOf <- Pids
    MaxCrashes = 0
    MaxFailures = 0
    Window = 1
    MaxEntries = 1
CHECK_DEADLOCK FALSE
INVARIANTS
    OneServer
