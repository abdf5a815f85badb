SPECIFICATION Spec
CONSTANTS
    Docs = {d1, d2}
    MaxVersions = 1
    Contracts = {k1, k2}
    FirstContract = k1
    MaxDrifts = 2
    Files = {f1}
    Hashes = {h1, h2}
    NoHash = NoHash
    MaxEdits = 2
    MaxRollbacks = 1
CHECK_DEADLOCK FALSE
INVARIANTS
    TypeOK
    
PROPERTY
    ActiveNeverMovesBack
