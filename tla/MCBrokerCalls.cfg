SPECIFICATION FairSpec
CONSTANTS
    s1 = s1
    s2 = s2
    r1 = r1
    r2 = r2
    a1 = a1
    a2 = a2
    c1 = c1
    c2 = c2
    Sessions = {s1, s2}
    Runs = {r1}
    Calls = {c1, c2}
    Addresses = {a1}
    Loopback = loopback
    Direct <- NoDirect
    MaxSessions = 1
    PerSourceConcurrency = 1
    NoRun = NoRun
    NoAddress = NoAddress
INVARIANTS TypeOK InFlightCountsCalls
PROPERTIES ClaimedSessionsEnd
CHECK_DEADLOCK FALSE
