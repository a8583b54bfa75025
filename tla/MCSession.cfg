CONSTANTS
    u1 = u1
    u2 = u2
    u3 = u3
    Upstreams = {u1, u2, u3}
    Leases <- AllLeases
    Peers = {p1, p2, p3}
    MaxEntries = 2
    Earlier <- EarlierPeers
    p1 = p1
    p2 = p2
    p3 = p3
    Timeout = 1
    SweepInterval = 3
    MaxTime = 3
    Sessions = {s1, s2}
    MaxRequests = 2
    Configs <- AllConfigs
    ChainOf <- TwoHops
SPECIFICATION SessionSpec
INVARIANTS LeaseFollowsSession  ReportedOnce
PROPERTIES CacheSound SetupEnds
CHECK_DEADLOCK FALSE
