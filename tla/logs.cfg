SPECIFICATION FairSpec
CONSTANTS
    p1 = p1
    p2 = p2
    Logger = {g1, g2}
    Page <- MCPage
    Stalled <- MCStalled
    Nobody = Nobody
    Retained = 2
    Capacity = 2
    Shown = 2
    MaxLines = 3
    MaxHangups = 1
INVARIANTS
    TypeOK
    EachInOrder
PROPERTY
    LogReturns
CHECK_DEADLOCK FALSE
