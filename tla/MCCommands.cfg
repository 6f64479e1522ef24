SPECIFICATION CommandsSpec
CONSTANTS
    Inputs <- MCInputs
    Supported = {"dk", "fd"}
    NoEvent = NoEvent
    NoPoint = NoPoint
    NoInput = NoInput
    Command = {c1, c2}
    Evaluations = {ea, eb}
    Cohort <- MCCohort
    Torn = Torn
    Absent = Absent
    MaxCommands = 7
    MaxCrashes = 1
    Corpora <- MCCorpora
    HorizonSets <- MCHorizonSets
    MorningPolicies = {"first_kickoff", "fixed"}
    Metric = {"off", "def"}
    CounterOf <- MCCounter
    Delay = 24
    DayHours = 24
    MorningLead = 3
    FixedMorning = 9
    DayAhead = 24
    HourAhead = 1
    PriorSeasons = 3
    Missing = Missing
    TeamAnswers <- MCTeams
    GameAnswers <- MCGameAnswers
    Unknown = Unknown
    MaxRuns = 3
    MaxLost = 1
    Schedule <- MCSchedule
    FirstSeason = 1
    FirstFold = 2
    ValidationSeason = 4
    EndSeasons = {3, 4}
    HorizonChoices = {{"morning"}, {"morning", "day"}}
    FirstCalibration = 3
    FirstMarket = 3
    Quoted <- MCQuoted
    AsOfBefore <- MCAsOfBefore
    MorningHorizon = "morning"
    ReferenceHorizon = "day"
    MarketHorizons = {"morning"}
    OutcomeDelay = 24
    MinPool = 2
    NoFile = NoFile
    MaxExperiments = 6
    Owner = {"o1", "o2"}
    Portfolio = {"p1", "p2"}
    Files <- MCFiles
    Starting = 10
    LiveStake = 2
    Unset = Unset
    MaxImports = 3
    MaxLive = 3
SYMMETRY Interchangeable
INVARIANTS
    PricesWellFounded
    PlansCovered
    ValidReportStands
    RowSeesExactlyThePast
    CorpusSound
    RunsHeal
    OutOfSample
PROPERTIES
    SealStands
    ImportSound
CHECK_DEADLOCK FALSE
