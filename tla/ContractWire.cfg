SPECIFICATION Spec
CONSTANTS
    None = None
    Exact = 4
    Value <- MCValue
INVARIANTS
    TypeOK
    ContractIsAccepted
    ProposalHashAgrees
    ReceiptAgrees
CHECK_DEADLOCK FALSE
