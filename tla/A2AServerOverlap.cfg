SPECIFICATION Spec
CONSTANTS
    None = None
    Request = {r1, r2, r3}
    SyncSkills <- MCSyncSkills
    AsyncSkills <- MCAsyncSkills
    Message <- MCMessage
    TTL = 1
    MaxTime = 1
SYMMETRY MCSymmetry
INVARIANTS
    DuplicateReturnsFirstResult
