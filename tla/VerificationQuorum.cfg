SPECIFICATION Spec
CONSTANTS
    None = None
    Reviewer <- MCReviewer
    Executor = "exe"
    Terms <- MCTerms
    MaxRevision = 2
    MaxReceipts = 3
INVARIANTS
    TypeOK
    QuorumIsEarned
    FilledCountIsEarned
    UnanimityIsEnough
    ExecutorCountsOnlyIfSelected
CHECK_DEADLOCK FALSE
