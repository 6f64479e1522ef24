SPECIFICATION ViewSpec
CONSTANTS
    Principal = {alice}
    Portfolio = {main}
    BetId = {b1, b2, b3}
    Rec = {r1, r2, r3, r4, r5}
    Key = {}
    NoOne = NoOne
    NoKey = NoKey
    NoRec = NoRec
    NoBet = NoBet
    main = main
    r1 = r1
    r2 = r2
    r3 = r3
    r4 = r4
    r5 = r5
    StartingCapital = 200
    Policy <- MCPolicy
    Row <- MCRow
    Order <- MCOrder
    Payout <- RiskPayout
    NoRead = NoRead
    NoRun = NoRun
SYMMETRY Symmetric
INVARIANTS
    ApprovedExposureWithinPeak
    NoOpposingApproved
    QuietReadBalances
PROPERTIES
    PeakIsHighWater
CHECK_DEADLOCK FALSE
