CONSTANTS
    Urls <- SomeUrls
    Forms <- SomeForms
    SecureNames = {"__Secure-n"}
    HostNames = {"__Host-n"}
    PublicSuffixes = {}
    Files = {f, g}
    Empty = ""
    Tabbed = {"TAB"}
    Hashed = {"#"}
    Second = 2
    Zone = 1
    EpochMax = 5
    MaxSets = 2
    MaxRuns = 3
    MaxTime = 3
    None = None
SPECIFICATION Spec
SYMMETRY Symmetry
INVARIANTS
    SentInScope
    LatestWins
PROPERTY RestoresJar
CHECK_DEADLOCK FALSE
