SPECIFICATION Spec
CONSTANTS
    Conns = {c1}
    c1 = c1
    First = c1
    None = None
    ChanCap = 1
    MaxPosts = 1
    MaxSent <- Silent
INVARIANTS
    DoneOnlyReleases
CHECK_DEADLOCK FALSE
