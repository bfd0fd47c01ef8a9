CONSTANTS
    s1 = s1
    s2 = s2
    a1 = a1
    Scope = {s1, s2}
    Album = {a1}
    NoAlbum = NoAlbum
    NoScope = NoScope
    MaxAttempts = 2
    Batch = 2
    MaxFaults = 1
    LateCalls = FALSE
SPECIFICATION FairSpec
PROPERTIES
    RevocationSettles
    PublicationSettles
    ImplementsGrant
CHECK_DEADLOCK FALSE
