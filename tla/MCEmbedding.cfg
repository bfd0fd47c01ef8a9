CONSTANTS
    Asset = {m1, m2}
    Model = {a, b}
    None = None
    BatchSize = 2
    Budget = 1
    Threshold = 90
    Unreadable = {}
    AdminPromotes = TRUE
    MaxEdits = 2
    MaxFaults = 1
SPECIFICATION Spec
SYMMETRY Symmetry
INVARIANTS
    TypeOK
    CountIsExact
PROPERTIES
    ActiveIsKept
    StaleByPromotionOnly
CHECK_DEADLOCK FALSE
