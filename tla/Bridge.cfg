CONSTANTS
    o1 = o1
    Outsiders = {o1}
    Requests = {"hangup", "transfer", "intercept", "hold"}
    Starts <- MCStarts
    Plans <- MCPlans
    MaxRequests = 1
SPECIFICATION Spec
CHECK_DEADLOCK FALSE
INVARIANTS
    LocksBalance
    TransferIsKept
PROPERTIES
    BridgeReturns
    NoOrphan
