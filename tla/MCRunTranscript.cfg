SPECIFICATION Spec
CONSTANTS
    Runs = {r1}
    Deleters = {d1}
    RunSlots = 1
    Requests <- ScoredOnly
    Cases = 1
    Batches = 1
    CaseConcurrency = 1
    MaxCalls = 1
INVARIANT FailedRunsHaveNoTranscript
CHECK_DEADLOCK FALSE
