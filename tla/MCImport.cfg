CONSTANTS
    f1 = f1
    f2 = f2
    f3 = f3
    d1 = d1
    d2 = d2
    d3 = d3
    File = {f1, f2, f3}
    Group <- PairAndSingle
    Digest = {d1, d2, d3}
    Asset = {a1, a2}
    Worker = {w1, w2}
    Recoverer = r
    NoAsset = none
    MaxEdits = 1
    MaxFaults = 1
SPECIFICATION StartSpec
INVARIANTS
    TypeOK
    ReadyIsComplete
    SuccessIsDurable
    ConflictHasCause
PROPERTIES
    RecoveryIsComplete
    UnprojectedIsInterrupted
    ImplementsLedger
    InterruptedIsFinished
CHECK_DEADLOCK FALSE
