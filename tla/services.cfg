\* Services in which something has to happen in the end: payments, Vault files,
\* change sets and OCR calls.
SPECIFICATION ServicesSpec
CONSTANTS
    Nobody = nobody
    PayOrders = {o1}
    PayCalls = {c1, c2}
    LastSerial = 1
    MaxRestarts = 1
    PathOrder <- MCPathOrder
    VaultContents = {"x", "y"}
    Inodes = {1, 2, 3}
    VaultCalls = {c1, c2}
    MaxEdits = 2
    CsFiles = {f1, f2}
    CsContents = {"x"}
    MaxSets = 2
    MaxCsEdits = 3
    MaxTries = 2
    LastPage = 2
    MaxOcrPages = 1
    ImageSizes = {2, 4}
    MaxEvidence = 3
    MaxOutput = 2
    MaxText = 1
    MaxGiven = 3
    PipeSize = 1
    MessageLimit = 1
INVARIANTS
    ServicesTypeOK
    AcknowledgedIsRecorded
PROPERTIES
    PaymentsArrive
    VaultConverges
    ChangeSetsSettle
    OcrCallsEnd
\* Requests end, and nothing more need be asked for.
CHECK_DEADLOCK FALSE
