SPECIFICATION DecisionsSpec
CONSTANTS
    Family = {f1}
    MaxTime = 4
    MaxCalls = 2
    MaxAnswers = 2
    NoState = NoState
    BetSlot = {b1, b2, b3, b4, b5, b6}
    main = main
    b1 = b1
    NoOffer = NoOffer
    StartingCapital = 200
    TopN = 4
    Slate = 1
    Policy <- MCPolicy
    Candidate <- MCCandidate
    Offer <- MCOffer
    Book <- MCBook
    Quantum = 1000
    Grid = 2
    Histogram <- MCHistogram
    Reach = 12
    Boards <- MCBoards
    Cutoff = 8
    KickOff = 10
    SupportedBook = {1, 2, 3}
    StaleAfter = 5
    MaxQuoteAge = 3
    MinBooks = 2
    MinEdge = 20
    MinEv = 20
    MaxDispersion = 100
    OutlierThreshold = 40
    Pointless = Pointless
    NoBoard = NoBoard
    FirstQuotes <- MCFirst
    Chance = {1, 2}
    Odds = {110, 200}
    Spread = {60, 80}
    Age = {0, 160}
    MostBooks = 3
    GateEdge = 8
    GateEv = 15
    GateDispersion = 60
    GateBooks = 2
    GateAge = 120
    LongestOdds = 300
    CoreEdge = 15
    CoreEv = 30
    Unknown = Unknown
INVARIANTS
    SettledReplaysAgree
    LinesNeverReturn
    RunApprovable
    OfferedStill
    ValueConsistent
    CenterIsTheBooks
PROPERTIES
    BetterIsNeverWorse
CHECK_DEADLOCK FALSE
