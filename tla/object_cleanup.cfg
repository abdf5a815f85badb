SPECIFICATION FairSpec
CONSTANTS
    Uploads = {u1}
    Cleaners = {c1, c2}
    NoCleaner = NoCleaner
    VaultScope = VaultScope
INVARIANTS
    CompletedMeansGone
PROPERTIES
    EveryDeletionCompletes
CHECK_DEADLOCK FALSE
