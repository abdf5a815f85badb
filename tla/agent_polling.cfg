SPECIFICATION FairSpec
CONSTANTS
    Turns = {t1}
    NoTurn = NoTurn
    Transport = "polling"
    QueueLimit = 1
    MaxRuns = 2
    MaxCrashes = 1
INVARIANTS
    TypeOK
    LogIsContiguous
    CursorTrailsLog
    TurnsAreWhole
    AcceptedMeansLogged
PROPERTIES
    TurnsEndWithoutCrash
    BrowserCatchesUp
CHECK_DEADLOCK FALSE
