CONSTANTS
    Hosts <- MCHosts
    Length <- MCLength
    Ports <- MCPorts
    URLs <- MCURLs
    Configs <- AllConfigs
    MaxName = 2
    None = None
    Any = Any
SPECIFICATION Spec
INVARIANTS
    Authentic
    ReplyConsumed
PROPERTY DialSpec
