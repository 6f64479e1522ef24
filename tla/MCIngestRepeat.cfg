SPECIFICATION Spec
CONSTANTS
    Session = {s1, s2}
    Fetch <- RepeatFetch
    Canonical <- MCCanonical
    MaxCalls = 3
    NoId = NoId
    NoTxn = NoTxn
    NoEvent = NoEvent
INVARIANTS
    RepeatReusesEvent
CHECK_DEADLOCK FALSE
