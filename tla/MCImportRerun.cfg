SPECIFICATION ImportSpec
CONSTANTS
    Owner = {"o1", "o2"}
    Portfolio = {"p1", "p2"}
    Files <- MCFiles
    Starting = 10
    LiveStake = 2
    Unset = Unset
    MaxImports = 3
    MaxLive = 3
PROPERTIES
    RepeatKeepsLiveCash
CHECK_DEADLOCK FALSE
