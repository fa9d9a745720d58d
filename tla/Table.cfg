SPECIFICATION FairSpec
CONSTANTS
    t1 = t1
    t2 = t2
    n1 = n1
    Threads = {t1, t2}
    Names = {}
    RequestNames = {}
    Ops = {"locate", "hupall"}
    SpsTotal = 2
    Limit = 1
    FailFloor = 2
    FailCut = 1
    NoLimits = {TRUE}
    CreateFails = TRUE
    OwnerFails = FALSE
    MaxSessions = 2
INVARIANT HeldIsLive
INVARIANT LaunchedOnce
PROPERTY EndsFreed
