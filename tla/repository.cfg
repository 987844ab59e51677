SPECIFICATION FairSourceSpec
CONSTANTS
    Handler = {h}
    Loop = Loop
    File = {f1, f2}
    Url = {u1, u2}
    None = None
    Gone = Gone
    MaxCommits = 2
    MaxReads = 0
    MaxUpsets = 1
PROPERTY
    SavedRepositoryApplies
