SPECIFICATION FairSpec
CONSTANTS
    Callers = {p1}
    Groups = {"g"}
    Delays = {0}
    Intervals = {}
    OwnThread <- Both
    NoDel <- Never
    CreateFails = FALSE
    EventLen = 8
    StartTime = 2
    MaxTime = 3
    MaxTasks = 2
CHECK_DEADLOCK FALSE
PROPERTIES DueIsRun DeletedIsFreed StopEnds
