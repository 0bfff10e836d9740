SPECIFICATION Spec
CONSTANTS
    None = None
    Call = {c1, c2}
    Args <- MCArgs
    SyncSkills <- MCSyncSkills
    AsyncSkills <- MCAsyncSkills
    MaxKeys = 2
SYMMETRY MCSymmetry
INVARIANTS
    TypeOK
    WorkIsAgreed
    ResultIsOwnOrOfItsKey
    RetriesAgree
CHECK_DEADLOCK FALSE
