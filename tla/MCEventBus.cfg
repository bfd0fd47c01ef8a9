CONSTANTS
    Client <- Page
    BufLen = 3
    ChanLen = 2
    MaxEvents = 8
    MaxRestarts = 1
SPECIFICATION FairSpec
INVARIANTS
    TypeOK
    StreamIsComplete
    StreamIsOrdered
PROPERTIES
    ShutdownEnds
CHECK_DEADLOCK FALSE
