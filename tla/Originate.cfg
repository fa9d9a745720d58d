CONSTANTS
    l1 = l1
    l2 = l2
    Legs = {l1, l2}
    None = None
    Options <- MCOptions
    Timelimit = 2
    ProgressLimit = 1
SPECIFICATION Spec
CHECK_DEADLOCK FALSE
INVARIANTS
    LegIsLive
    NoneLeftBehind
    ConfirmedWins
PROPERTIES
    TakenIsKept
    OriginateReturns
    LegsEnd
