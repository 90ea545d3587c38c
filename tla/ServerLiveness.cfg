CONSTANTS
    w1 = w1
    w2 = w2
    c1 = c1
    c2 = c2
    c3 = c3
    None = None
    Workers = {w1}
    TlsWorkers = {w1}
    Conns = {c1, c2}
    TlsConns = {c1, c2}
    MaxRequests = 2
    Requests <- GoodForms
    OneAtATime = TRUE
SPECIFICATION FairSpec
PROPERTIES
    RequestsDispatched
    WorkerRecovered
    EveryoneAdmitted
CHECK_DEADLOCK FALSE
