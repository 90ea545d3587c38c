CONSTANTS
    Documents <- MCDocuments
    MaxCalls = 3
    MaxAnswers = 4
    None = None
SPECIFICATION Spec
INVARIANTS
    OwnResult
    CleanAfterError
CHECK_DEADLOCK FALSE
