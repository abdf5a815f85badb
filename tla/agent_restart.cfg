SPECIFICATION FairSpec
CONSTANTS
    Turns = {t1}
    NoTurn = NoTurn
    Transport = "polling"
    QueueLimit = 1
    MaxRuns = 2
    MaxCrashes = 1
PROPERTIES
    EveryTurnEnds
CHECK_DEADLOCK FALSE
