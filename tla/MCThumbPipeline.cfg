CONSTANTS
    Asset = {1, 2}
    Sizes = 2
    Concurrency = 1
    MaxEdits = 1
    MaxFaults = 1
SPECIFICATION FairSpec
INVARIANTS
    TypeOK
    ReadyIsCurrent
PROPERTIES
    VisibleRowsSettle
    NoRowWedged
CHECK_DEADLOCK FALSE
