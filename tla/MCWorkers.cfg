SPECIFICATION WorkersSpec
CONSTANTS
    Principal = {alice}
    Portfolio = {p1}
    BetId = {b1, b2}
    Rec = {r1}
    Key = {k1, k2}
    Session = {s1, s2}
    MaxCalls = 3
    NoOne = NoOne
    NoKey = NoKey
    NoRec = NoRec
    NoBet = NoBet
    alice = alice
    p1 = p1
    r1 = r1
    b1 = b1
    k1 = k1
    k2 = k2
    StartingCapital = 4
    Policy <- MCPolicy
    Row <- MCRow
    Order <- MCOrder
    Payout <- MCPayout
    Request <- MixedRequests
    Worker = {w1, w2}
    Manifests <- MCManifests
    Drafts <- MCDrafts
    Finals <- MCFinals
    Kickoff <- MCKickoff
    None = None
    MaxTransactions = 5
    Job = {"audit", "market"}
    Kind <- MCKind
    Plan <- MCPlan
    Limit <- MCLimit
    CallLimit <- MCCallLimit
    Credits = 12
    KeptBack = 5
    CadenceChange = 30
    Offsets <- MCOffsets
    NoSnapshot = NoSnapshot
    Nothing = Nothing
    MaxAcquisitions = 3
    MaxLosses = 1
INVARIANTS
    RegistrySound
    ArchiveSound
    CreditsAccounted
    FinishedPlanStands
PROPERTIES
    RowsAreForever
    WorkEnds
CHECK_DEADLOCK FALSE
