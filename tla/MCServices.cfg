SPECIFICATION ServicesSpec
CONSTANTS
    Caller = {k1, k2}
    Server = {s1, s2}
    Slate = {1, 2}
    Kickoffs <- MCKickoffs
    Lifetime = 1
    MaxRetries = 1
    Freshness = 0
    Lead = 2
    Window = 0
    Nobody = Nobody
    Cutoffs = {2}
    MaxTime = 3
    MaxRequests = 2
    MaxRestarts = 1
    Session = {s1, s2}
    Fetch <- MCFetch
    Canonical <- MCCanonical
    MaxCalls = 3
    NoId = NoId
    NoTxn = NoTxn
    NoEvent = NoEvent
INVARIANTS
    FreshMeansRecent
    DecisionsSound
    
    IngestionSound
PROPERTIES
    QuarantineFinal
    ServicesEnd
CHECK_DEADLOCK FALSE
