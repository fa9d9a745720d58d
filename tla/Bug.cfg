CONSTANTS
    t1 = t1
    t2 = t2
    one = one
    eavesdrop = eavesdrop
    Threads = {t1, t2}
    Adders = {t1}
    Kinds = {one, eavesdrop}
    OneOnly = {one}
    Native = {eavesdrop}
    ThreadLocked = {eavesdrop}
    Popped = {eavesdrop}
    FunctionSets = {{one, eavesdrop}, {one}}
    MaxBugs = 3
SPECIFICATION BugSpec
INVARIANTS
    ClosedOnce
    NoneDropped
CHECK_DEADLOCK FALSE
