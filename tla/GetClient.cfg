CONSTANTS
    Hosts = {"a", "b"}
    Ports = {80, 8080}
    max_redirects = 3
    None = None
SPECIFICATION FairSpec
INVARIANTS
    RequestToOrigin
    NothingLeftOver
PROPERTY GetEnds
