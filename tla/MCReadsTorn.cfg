SPECIFICATION ReadSpec
CONSTANTS
    Principal = {alice}
    Portfolio = {main}
    BetId = {b1, b2}
    Rec = {r1}
    Key = {}
    NoOne = NoOne
    NoKey = NoKey
    NoRec = NoRec
    NoBet = NoBet
    NoRead = NoRead
    NoRun = NoRun
    main = main
    r1 = r1
    StartingCapital = 10
    Policy <- MCPolicy
    Row <- MCRow
    Order <- MCOrder
    Payout <- MCPayout
SYMMETRY Symmetric
INVARIANTS
    FrozenEquityWasReal
CHECK_DEADLOCK FALSE
