SPECIFICATION FairSpec
CONSTANTS
    c1 = c1
    c2 = c2
    Clients = {c1, c2}
    NoClient = NoClient
    Start = 3
    End = 6
    Flags = {"even"}
    Robust = {"udp"}
    Others = TRUE
INVARIANTS
    GivenOnce
    TrackIsExact
    InRange
PROPERTIES
    RequestReturns
