CONSTANTS
    Origins = {a, b, c}
    Org = a
    Allowed = {a, b}
    Configs <- AllConfigs
    Given = {0, 1, 2}
    MaxRedirs = 2
    BodyLen = 2
    MaxAttempts = 2
    None = None
SPECIFICATION FairSpec
INVARIANTS
    NoCredentialLeak
    RequestReachesOrigin
    ReadsOwnResponse
    FileIsPrefix
    SuccessIsComplete
    RemovedOnError
PROPERTY TransferEnds
