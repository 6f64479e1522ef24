SPECIFICATION RefreshSpec
CONSTANTS
    Caller = {k1, k2}
    Server = {s1, s2}
    Slate = {1, 2}
    Kickoffs <- MCKickoffs
    Lifetime = 1
    MaxRetries = 1
    Freshness = 0
    Lead = 2
    Window = 0
    Nobody = Nobody
    Cutoffs = {4}
    MaxTime = 4
    MaxRequests = 2
    MaxRestarts = 1
INVARIANTS
    HorizonPassesOnce
CHECK_DEADLOCK FALSE
