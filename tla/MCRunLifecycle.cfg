SPECIFICATION Spec
CONSTANTS
    Runs = {r1}
    Deleters = {d1}
    RunSlots = 1
    Requests <- ScoredOrDirect
    Cases = 1
    Batches = 2
    CaseConcurrency = 1
    MaxCalls = 2
INVARIANTS TypeOK UnregisteredIsTerminal ExitLeavesNothing ShownStageIsCurrent WaitingIffRecovering ReportIsWhole CancelReachesWorker
PROPERTIES VerdictIsFinal ClassificationPreserved ConflictOnlyBeforeStart ContractHolds
CHECK_DEADLOCK FALSE
