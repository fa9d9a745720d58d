SPECIFICATION Spec
CONSTANTS
    Threads = {t1, t2}
    Runner = runner
    Starter = t1
    Targets <- SomeTargets
    Results <- Anything
    LongItem = TRUE
    EarlyHangup = TRUE
    LaunchFails = TRUE
    QueueLen = 1
    NewLoops = 2
    MaxOps = 4
PROPERTIES
    KeepsLifecycle
