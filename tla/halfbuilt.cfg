SPECIFICATION FairSpec
CONSTANTS
    tpl = tpl
    web = web
    other = other
    Seed1 = Seed1
    Seed2 = Seed2
    VMID = {10, 90}
    Absent = Absent
    Field = {"cores", "user"}
    Always = {"cores"}
    Counted = {"cores"}
    Unset = Unset
    None = None
    NoName = NoName
    Name <- MCName
    Values = {1, 2}
    Data <- MCData
    Commits <- JustCloned
    FirstGuests <- JustNoGuests
    Strangers <- MCStrangers
    Slots = 2
    MaxUpsets = 1
    MaxRequests = 0
INVARIANT
    QuietMeansBuilt
