SPECIFICATION FairSpec
CONSTANTS
    Docs = {d1, d2}
    MaxVersions = 2
    Contracts = {k1, k2}
    FirstContract = k1
    MaxDrifts = 0
    Files = {}
    Hashes = {h1, h2}
    NoHash = NoHash
    MaxEdits = 0
    MaxRollbacks = 0
CHECK_DEADLOCK FALSE
PROPERTIES
    SearchableStaysSearchable
    ReadyVersionsSettle
