SPECIFICATION Spec
CONSTANTS
    r1 = r1
    r2 = r2
    r3 = r3
    Request <- MCRequest
    ann = ann
    bob = bob
    Name <- MCName
    None = None
    MaxStarts = 2
    MaxSessions = 2
    MaxUpsets = 1
SYMMETRY Alike
INVARIANTS
    TypeOK
    NeverLockedOut
PROPERTIES
    SetupCloses
    RevokedStaysOut
CHECK_DEADLOCK FALSE
