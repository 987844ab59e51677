SPECIFICATION FairSpec
CONSTANTS
    r1 = r1
    r2 = r2
    Reader <- MCReader
    Stalled <- MCStalled
    Capacity = 2
    None = None
    MaxSnap = 4
    MaxUpsets = 1
INVARIANTS
    TypeOK
    KeepsMostRecent
    CaughtUp
PROPERTIES
    SetReturns
    Shown
CHECK_DEADLOCK FALSE
