SPECIFICATION Spec
CONSTANTS
    k1 = k1  k2 = k2
    e1 = e1  e2 = e2
    c1 = c1  c2 = c2  c3 = c3
    Clients = {k1, k2}
    Externals = {e1, e2}
    Conns = {c1, c2, c3}
    Capacity = 1
    Configs <- SmallConfigs
INVARIANTS CountersExact
PROPERTIES ExternalServed ReverseEnds
CHECK_DEADLOCK FALSE
