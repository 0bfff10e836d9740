SPECIFICATION Spec
CONSTANTS
    None = None
    Me = Me
    requester = requester
    reviewer = reviewer
    reviewer2 = reviewer2
    k1 = k1
    k2 = k2
    t1 = t1
    t2 = t2
    i1 = i1
    i2 = i2
    p1 = p1
    p2 = p2
    Elsewhere = Elsewhere
    NotHttp = NotHttp
    Task <- MCTask
    Agent <- MCAgent
    Key <- MCKey
    Path <- MCPath
    Id <- MCId
    Plans <- MCPlans
    Routes <- MCRoutes
    Ahead = {1}
    MaxSkew = 0
INVARIANTS
    TypeOK
    FetchedIsReferenced
    OnlyPartiesAreServed
    BlobIsAsDelivered
PROPERTIES
    PartyGetsItsArtifact
