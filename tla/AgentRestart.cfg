SPECIFICATION Spec
CONSTANTS
    None = None
    Torn = Torn
    AgentId = {a, b}
    MaxKeys = 5
    Key = {k}
    TTL = 1
    MaxRuns = 3
    MaxTime = 3
INVARIANTS
    TypeOK
    IdentityIsKept
    EnrolledKeysAreOnDisk
    ReplayStillVerifies
PROPERTIES
    KeptResultIsNotRerun
    AnswerIsLastResult
CHECK_DEADLOCK FALSE
