SPECIFICATION Spec
CONSTANTS
    t = t
    u = u
    c = c
    d = d
    s1 = s1
    s2 = s2
    Standing = {}
    Arriving = {t}
    Names = {c, d}
    Statements = {s1, s2}
    MaxDepth = 2
    MaxVersion = 1
    MaxDefined = 3
    MaxFaults = 1
SYMMETRY Symmetry
INVARIANTS
    TypeOK
    ReadsAreFresh
    ClonesReadTheirVersion
