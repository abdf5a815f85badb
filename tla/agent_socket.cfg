SPECIFICATION Spec
CONSTANTS
    Turns = {t1}
    NoTurn = NoTurn
    Transport = "socket"
    QueueLimit = 1
    MaxRuns = 2
    MaxCrashes = 1
CONSTRAINT ShortLog
INVARIANTS
    ViewIsPrefix
CHECK_DEADLOCK FALSE
