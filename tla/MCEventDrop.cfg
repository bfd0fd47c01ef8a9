CONSTANTS
    Client <- Page
    BufLen = 2
    ChanLen = 2
    MaxEvents = 5
    MaxRestarts = 0
SPECIFICATION Spec
PROPERTY
    DropsAreRecovered
CHECK_DEADLOCK FALSE
