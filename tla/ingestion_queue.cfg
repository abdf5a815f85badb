SPECIFICATION FairSpec
CONSTANTS
    p1 = p1
    p2 = p2
    b1 = b1
    c1 = c1
    Jobs = {p1, p2, b1}
    Workers = {w1, w2}
    NoWorker = NoWorker
    NoJob = NoJob
    Kind <- MCKind
    Follow <- MCFollow
    MaxAttempts <- MCMaxAttempts
INVARIANTS
    TypeOK
    TargetsFollowJobs
    FailedOnlyWhenSpent
    OnlyCrashesStrandLeases
PROPERTIES
    StaleAttemptNeverWrites
    EveryJobSettles
    ImplementsPromise
