CONSTANTS
    w1 = w1
    w2 = w2
    c1 = c1
    c2 = c2
    c3 = c3
    None = None
    Workers = {w1}
    TlsWorkers = {}
    Conns = {c1}
    TlsConns = {}
    MaxRequests = 2
    Requests <- PlainForms
    OneAtATime = FALSE
SPECIFICATION FairSpec
PROPERTY RequestsDispatched
CHECK_DEADLOCK FALSE
