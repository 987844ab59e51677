SPECIFICATION FairSpec
CONSTANTS
    k1 = k1
    k2 = k2
    k3 = k3
    Key <- MCKey
    Worker = {w1, w2, w3}
    Concurrency = 2
    MaxStarts <- MCMaxStarts
    NoKey = NoKey
INVARIANTS
    TypeOK
    OneWorkerPerKey
    OneOutcomePerStart
    WaitMeansQuiet
PROPERTIES
    EventuallyForgotten
    WaitReturns
    PoolSpec
CHECK_DEADLOCK FALSE
