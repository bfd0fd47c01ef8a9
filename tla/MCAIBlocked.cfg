CONSTANTS
    a = a
    b = b
    Asset = {1}
    Principal = {p}
    OwnerOf <- OneOwner
    Model = {a}
    None = None
    BatchSize = 1
    MaxAttempts = 2
    Limit = 1
    MaxEdits = 0
    MaxFaults = 0
SPECIFICATION FairSpec
PROPERTY
    UnsupportedIsSkipped
CHECK_DEADLOCK FALSE
