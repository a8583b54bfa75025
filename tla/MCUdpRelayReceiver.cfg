CONSTANTS
    direct = direct
    socks = socks
    composed = composed
    NoClient = NoClient
    NoFlow = NoFlow
    Clients = {c1, c2}
    Keys = {direct, socks, composed}
    Kind <- Kinds
    Configs <- AllConfigs
    MaxTargets = 2
    MaxFlows = 2
    Capacity = 1
    MaxGauge = 3
SPECIFICATION Spec
INVARIANTS FlowHasReceiver
CHECK_DEADLOCK FALSE
