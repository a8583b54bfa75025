CONSTANTS
    a1 = a1
    a2 = a2
    a3 = a3
    l1 = l1
    l2 = l2
    Listeners = {l1, l2}
    UdpSections <- AllSections
    Assocs = {a1, a2, a3}
    ListenerOf <- Arrives
    DefaultPerListener = 1
SPECIFICATION AssocFairSpec
INVARIANTS AssociationsCounted EveryRelayReachable
PROPERTIES ClosedEnds
CHECK_DEADLOCK FALSE
