SPECIFICATION Spec
CONSTANTS
    None = None
    Agent <- MCAgent
    PublicKey <- MCPublicKey
    Announcement <- MCAnnouncement
    Query <- MCQuery
    MinLease = 1
    DefaultLease = 2
    MaxLease = 3
    MaxTime = 3
INVARIANTS
    TypeOK
    ListedWasHeard
    LeaveSticks
    FreshestReturned
    RowsMeetConstraint
PROPERTIES
    KeyIsPinned
