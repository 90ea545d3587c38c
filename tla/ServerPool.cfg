CONSTANTS
    w1 = w1
    w2 = w2
    c1 = c1
    c2 = c2
    c3 = c3
    None = None
    Workers = {w1, w2}
    TlsWorkers = {w2}
    Conns = {c1, c2, c3}
    TlsConns = {c2, c3}
    MaxRequests = 1
    Requests <- TargetForms
    OneAtATime = FALSE
SPECIFICATION Spec
INVARIANT EndsClean
CHECK_DEADLOCK FALSE
