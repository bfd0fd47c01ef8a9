CONSTANTS
    s1 = s1
    s2 = s2
    a1 = a1
    Scope = {s1, s2}
    Album = {a1}
    NoAlbum = NoAlbum
    NoScope = NoScope
    MaxAttempts = 3
    Batch = 1
    MaxFaults = 2
    LateCalls = TRUE
SPECIFICATION Spec
INVARIANTS
    TypeOK
    ActiveIsGranted
    ClosedIsUngranted
    WaitingIsReachable
PROPERTIES
    RevocationIsFinal
SYMMETRY ScopeSymmetry
CHECK_DEADLOCK FALSE
