SPECIFICATION LoadSpec
CONSTANTS
    Principal = {alice}
    Portfolio = {p1}
    BetId = {b1, b2}
    Rec = {r1}
    Key = {k1, k2}
    Session = {s1, s2, s3}
    MaxCalls = 4
    NoOne = NoOne
    NoKey = NoKey
    NoRec = NoRec
    NoBet = NoBet
    alice = alice
    p1 = p1
    r1 = r1
    b1 = b1
    k1 = k1
    k2 = k2
    StartingCapital = 4
    Policy <- MCPolicy
    Row <- MCRow
    Order <- MCOrder
    Payout <- MCPayout
    Request <- AllRequests
SYMMETRY Interchangeable
INVARIANTS
    AnswersAgree
PROPERTIES
    ImplementsLedger
CHECK_DEADLOCK FALSE
