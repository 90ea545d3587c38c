CONSTANTS
    N = 3
    ParallelMax = 2
    ReqRetry = 1
    FailEarly = TRUE
    RetryAllErrors = FALSE
    RetryConnRefused = TRUE
SPECIFICATION FairSpec
INVARIANTS
    NoLostWakeup
    NoRequestDropped
PROPERTIES
    CancelledStops
    GroupSpec
    CutShortEnds
    EverythingEnds
