CONSTANTS
    f1 = f1
    f2 = f2
    c1 = c1
    e1 = e1
    File = {f1, f2}
    Checkout = {c1}
    Entry = {e1}
    FileOf <- OnePhoto
    CheckoutOf <- OneFolder
    a = a
    b = b
    x = x
    Content = {a, b, x}
    Original <- Photos
    NoContent = none
    Committer = {p1, p2}
    MaxEdits = 2
    MaxFaults = 1
SPECIFICATION FairSpec
INVARIANTS
    TypeOK
    NoEditOverlooked
    PendingDiffers
    ConflictHasCause
PROPERTIES
    RetiredIsFrozen
    ImplementsLedger
    EditIsNoticed
CHECK_DEADLOCK FALSE
