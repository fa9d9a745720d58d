SPECIFICATION FairSpec
CONSTANTS
    j1 = j1
    j2 = j2
    w1 = w1
    w2 = w2
    Jobs = {j1, j2}
    Workers = {w1, w2}
INVARIANTS
    JobIsSomewhere
PROPERTIES
    LaunchedIsRun
    StopEnds
\* Once the pool is stopped nothing is left to do.
CHECK_DEADLOCK FALSE
