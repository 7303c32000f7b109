SPECIFICATION Spec
CONSTANTS
    s1 = s1
    s2 = s2
    r1 = r1
    r2 = r2
    a1 = a1
    a2 = a2
    c1 = c1
    c2 = c2
    Sessions = {s1, s2}
    Runs = {r1, r2}
    Calls = {c1}
    Addresses = {a1, a2}
    Loopback = loopback
    Direct <- OneDirect
    MaxSessions = 2
    PerSourceConcurrency = 1
    NoRun = NoRun
    NoAddress = NoAddress
SYMMETRY Symmetry
INVARIANTS  RemovedRunsHoldNoSession SourceFollowsContainer
PROPERTIES TicketHolds
CHECK_DEADLOCK FALSE
