SPECIFICATION Spec
CONSTANTS
    t = t
    u = u
    c = c
    m = m
    n = n
    s1 = s1
    s2 = s2
    Tables = {t}
    Clones = {c}
    Names = {n}
    Statements = {s1, s2}
    Attempts = 2
    MaxVersion = 1
    MaxFiles = 2
    MaxMade = 1
    MaxFaults = 1
SYMMETRY Symmetry
INVARIANTS
    TypeOK
    OneInstant
