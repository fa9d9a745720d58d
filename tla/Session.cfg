SPECIFICATION FairSpec
CONSTANTS
    Threads = {t1, t2}
    Runner = runner
    Starter = t1
    Targets <- OneTarget
    Results <- Quietly
    LongItem = FALSE
    EarlyHangup = FALSE
    LaunchFails = FALSE
    QueueLen = 1
    NewLoops = 2
    MaxOps = 3
INVARIANTS
    NoSleepThroughChange
    NoSleepThroughMessage
PROPERTIES
    EndsLifecycle
    StateIsRun
