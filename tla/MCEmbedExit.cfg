CONSTANTS
    Asset = {m1, m2}
    Model = {a}
    None = None
    BatchSize = 2
    Budget = 1
    Threshold = 90
    Unreadable = {}
    AdminPromotes = FALSE
    MaxEdits = 1
    MaxFaults = 0
SPECIFICATION FairSpec
PROPERTY
    ClaimsAreRecovered
CHECK_DEADLOCK FALSE
