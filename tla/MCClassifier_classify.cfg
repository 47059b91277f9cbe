\* One tunnel whose halves are both owned here.
CONSTANTS
    Links <- Tunnel
    Metrics = {1, 2, 3}
    RttBound <- RttBounds
    TcpBound <- TcpBounds
    PairCost = "symmetric"
    AlwaysFresh = 0
    TcpCarry = 1
    BusyHold = 1
    HysteresisPasses = 2
    MAXCOST = 4
    ClassCost <- Costs
    Hubs = {"a"}
    HubSpokeOffset = 2
    Reports <- TunnelReports
    MaxUpsets = 1
SPECIFICATION Spec
INVARIANT Prompt
PROPERTIES Hysteresis RecoversOnEvidence
