SPECIFICATION HangingSpec
CONSTANTS
    k1 = k1
    k2 = k2
    Key = {k1, k2}
    Worker = {w1, w2}
    Concurrency = 1
    NoKey = NoKey
    Rank <- MCRank
    FirstWorld <- MCFirstWorld
    Options <- FourOptions
    Incomplete = Incomplete
    NotSaved = NotSaved
    FileConfig = Incomplete
    MaxUpsets = 2
    MaxSaves = 1
INVARIANTS
    TypeOK
    SnapshotConsistent
    OutOfSyncIsExplained
PROPERTIES
    Policy
    DriftReported
    Converges
    PickedUpIfWorking
