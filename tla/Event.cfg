CONSTANTS
    custom = custom
    talk = talk
    sub = sub
    other = other
    ALL = ALL
    None = None
    NULL = NULL
    f1 = f1
    Types <- MCTypes
    Kinds <- MCKinds
    Nodes <- MCNodes
    Reentrant <- MCReentrant
    DispatchCount = 1
    Firers = {f1}
    QueueLen = 2
    MaxEvents = 3
SPECIFICATION Spec
CHECK_DEADLOCK FALSE
INVARIANTS
    NoFreedNode
    InOrder
    NoneMissed
    ShutdownIsComplete
PROPERTIES
    EventIsDispatched
    ShutdownEnds
