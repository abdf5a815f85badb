\* Rows changed by overlapping transactions: objects and their deletion, money,
\* the Vault's migration, questions, candidates, classrooms.
SPECIFICATION RowsSpec
CONSTANTS
    Uploads = {u1, u2}
    Cleaners = {c1}
    NoCleaner = NoCleaner
    VaultScope = VaultScope
    o1 = o1
    r1 = r1
    Users = {u1}
    Orders = {o1}
    References = {r1}
    Requests = {q1}
    Clients = {c1, c2}
    Amounts = {1}
    PaidAmounts = {1, 2}
    MockTrade <- MCMockTrade
    MigNotes = {n1}
    Manifests = {m1}
    MaxMigEdits = 1
    v1 = v1
    k1 = k1
    k2 = k2
    k3 = k3
    QbVersions = {v1, v2}
    QbKeys = {k1, k2, k3}
    LastSubmission = 3
    QbScores = {0, 10}
    FullScore = 10
    Window = 1
    Legacy <- MCLegacy
    PageSize = 1
    LastDay = 1
    MaxGenerations = 1
    Batches = {b1, b2}
    Refs <- MCRefs
    NoRef = "null"
    Strip <- MCStrip
    TitleOf <- MCTitleOf
    Answers <- MCAnswers
    Reviewers = {c1, c2}
    MaxAttempts = 2
    Nobody = nobody
    Members = {u1}
    Owner = owner
    Invites = {i1, i2}
    First = i1
    UseLimits = {2}
    RoomCalls = {c1, c2}
SYMMETRY SameKeys
INVARIANTS
    RowsTypeOK
    LiveRowsKeepObjects
    DeletedObjectsAreQueued
    NeverOverdrawn
    BalanceIsItsHistory
    OnlyRepeatedReservationsDeadlock
    VaultServesEveryNote
    AttemptsFormOneChain
    PagesShowEveryRow
    ReviewPublishesItsTree
    AdmissionHolds
PROPERTIES
    EndedStaysEnded
\* Requests end, and nothing more need be asked for.
CHECK_DEADLOCK FALSE
