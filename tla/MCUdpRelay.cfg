CONSTANTS
    direct = direct
    socks = socks
    composed = composed
    NoClient = NoClient
    NoFlow = NoFlow
    Clients = {c1, c2}
    Keys = {direct, socks, composed}
    Kind <- Kinds
    Configs <- AllConfigs
    MaxTargets = 2
    MaxFlows = 2
    Capacity = 1
    MaxGauge = 3
SPECIFICATION FairSpec
INVARIANTS FlowsOwnTheirs CountsExact
PROPERTIES CancelledEnds
CHECK_DEADLOCK FALSE
