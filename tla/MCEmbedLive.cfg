CONSTANTS
    Asset = {m1, m2}
    Model = {a, b}
    None = None
    BatchSize = 2
    Budget = 1
    Threshold = 90
    Unreadable = {}
    AdminPromotes = FALSE
    MaxEdits = 1
    MaxFaults = 1
SPECIFICATION RestartedSpec
PROPERTIES
    EveryPhotoSettles
    CompleteIsActivated
CHECK_DEADLOCK FALSE
