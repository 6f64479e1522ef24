SPECIFICATION Spec
CONSTANTS
    Principal = {alice, bob}
    Portfolio = {p1, p2}
    BetId = {b1, b2}
    Rec = {r1, r2}
    Key = {k1}
    NoOne = NoOne
    NoKey = NoKey
    NoRec = NoRec
    NoBet = NoBet
    p1 = p1
    p2 = p2
    r1 = r1
    r2 = r2
    StartingCapital <- MCStartingCapital
    Policy <- MCPolicy
    Row <- MCRow
    Order <- MCOrder
    Payout <- MCPayout
SYMMETRY Symmetric
INVARIANTS
    TypeOK
    Solvent
    LedgerMatchesBets
    MutatedOnce
PROPERTIES
    ImplementsAccount
    NothingUndone
CHECK_DEADLOCK FALSE
