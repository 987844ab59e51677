SPECIFICATION ReturningSpec
CONSTANTS
    k1 = k1
    k2 = k2
    Key = {k1, k2}
    Worker = {w1, w2}
    Concurrency = 1
    NoKey = NoKey
    Rank <- MCRank
    FirstWorld <- MCFirstWorld
    Options <- OnlyOn
    Incomplete = Incomplete
    NotSaved = NotSaved
    FileConfig <- On
    MaxUpsets = 0
    MaxSaves = 0
PROPERTIES
    PickedUp
