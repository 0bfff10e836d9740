SPECIFICATION Spec
CONSTANTS
    None = None
    Call = {c1, c2}
    Args <- MCArgs
    SyncSkills <- MCSyncSkills
    AsyncSkills <- MCAsyncSkills
    MaxKeys = 2
SYMMETRY MCSymmetry
INVARIANTS
    ResultNamesWorkContract
CHECK_DEADLOCK FALSE
