SPECIFICATION Spec
CONSTANTS
    Docs = {d1}
    MaxVersions = 1
    Contracts = {k1, k2}
    FirstContract = k1
    MaxDrifts = 0
    Files = {f1}
    Hashes = {h1, h2}
    NoHash = NoHash
    MaxEdits = 3
    MaxRollbacks = 0
CHECK_DEADLOCK FALSE
PROPERTY
    SemanticResultIsSearched
