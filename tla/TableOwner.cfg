SPECIFICATION Spec
CONSTANTS
    t1 = t1
    t2 = t2
    n1 = n1
    Threads = {t1, t2}
    Names = {n1}
    RequestNames = {n1}
    Ops = {"force", "send", "hupall"}
    SpsTotal = 2
    Limit = 2
    FailFloor = 1
    FailCut = 0
    NoLimits = {FALSE}
    CreateFails = TRUE
    OwnerFails = TRUE
    MaxSessions = 2
INVARIANT OwnerIsLive
INVARIANT TableIsExact
INVARIANT HupAllComplete
SYMMETRY Alike
