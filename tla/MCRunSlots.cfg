SPECIFICATION FairSpec
CONSTANTS
    Runs = {r1, r2}
    Deleters = {}
    RunSlots = 1
    Requests <- ScoredOrUnticketed
    Cases = 2
    Batches = 1
    CaseConcurrency = 2
    MaxCalls = 0
INVARIANTS SlotsMatchHolders
PROPERTIES AcceptedRunsEnd SlotsComeBack
CHECK_DEADLOCK FALSE
