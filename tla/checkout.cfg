SPECIFICATION FairSourceSpec
CONSTANTS
    Handler = {h}
    Loop = Loop
    File = {f1, f2}
    Url = {u1, u2}
    None = None
    Gone = Gone
    MaxCommits = 2
    MaxReads = 1
    MaxUpsets = 2
INVARIANTS
    SourceTypeOK
    LoadsOneCommit
PROPERTY
    CatchesUp
