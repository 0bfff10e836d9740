SPECIFICATION Spec
CONSTANTS
    None = None
    Seeds <- MCSeeds
    MinLease = 30
    DefaultLease = 1800
    MaxLease = 7200
    LeaseSeconds = 7200
    Step = 360
    StartAttempts = 2
    MaxFaults = 2
    MaxRestarts = 1
INVARIANTS
    PresentIsListed
