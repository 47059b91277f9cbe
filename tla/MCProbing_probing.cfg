\* One tunnel, two throughput commands, two refreshing tasks.
CONSTANTS
    Ifaces = {"i"}
    Peers = {"p"}
    Neighbour <- ToP
    TokenPeer <- NoToken
    Cmds <- TwoTests
    UdpLeg = FALSE
    Grace = 2
    LegLimit = 2
    ReopenDelay = 1
    WindowSize = 2
    MaxUpsets = 2
    MaxFaults = 1
    None = "none"
SPECIFICATION Spec
INVARIANTS TypeOK CleanWindow
PROPERTIES FlapKeeps PingsResume ProbesFollow
