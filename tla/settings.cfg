SPECIFICATION Spec
CONSTANTS
    Tab = {a, b}
    Key = {k1, k2, k3}
    EnvKey = {k3}
    p1 = p1
    p2 = p2
    Plain = {p1, p2}
    Blank = Blank
    s1 = s1
    s2 = s2
    Secret = {s1, s2}
    Empty = Empty
    Untouched = Untouched
    Edit <- MCEdit
    Broken = Broken
    None = None
    MaxSaves = 3
    MaxUpsets = 3
INVARIANTS
    TypeOK
    SurvivesRestart
PROPERTIES
    UnreadableIsKept
    SavesWhatItShows
CHECK_DEADLOCK FALSE
