SPECIFICATION Spec
CONSTANTS
    c1 = c1
    c2 = c2
    Calls = {c1, c2}
    ChatFastMaxAttempts = 1
    RecoveryMaxAttempts = 1
    TransientMaxAttempts = 2
    ChatCapacityMaxWaits = 1
    EmbeddingCapacityMaxWaits = 1
    EmbeddingLane = 1
    EmbeddingSessionRequests = 1
INVARIANTS RejectionsAreRefusals
SYMMETRY Symmetry
CHECK_DEADLOCK FALSE
