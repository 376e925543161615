SPECIFICATION FairSpec
CONSTANTS
    Conns = {c1, c2}
    c1 = c1
    c2 = c2
    First = c1
    None = None
    ChanCap = 1
    MaxPosts = 2
    MaxSent <- TwoThenNone
INVARIANTS
    TypeOK
    NoGapAfterSnapshot
    LeaverWasCounted
    OpenWhileMembers
PROPERTIES
    LinkKept
    ConsumeReturns
CHECK_DEADLOCK FALSE
