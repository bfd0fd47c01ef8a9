CONSTANTS
    a = a
    b = b
    Asset = {1, 2}
    Principal = {p}
    OwnerOf <- OneOwner
    Model = {a, b}
    None = None
    BatchSize = 1
    MaxAttempts = 2
    Limit = 1
    MaxEdits = 1
    MaxFaults = 1
SPECIFICATION StartSpec
INVARIANTS
    TypeOK
    ResultIsCurrent
PROPERTIES
    EveryPhotoSettles
CHECK_DEADLOCK FALSE
