CONSTANTS
    BufferSize = 2
    Window = 1
    Budget = 2
    MaxBytes = 2
    Policies = {"Drain", "DrainFor"}
    Upstreams = {"Socket", "HttpOnly"}
    HeadLength = 2
SPECIFICATION FairSpec
INVARIANTS NoLostWakeup
PROPERTIES ImplementsPipe RelayEnds
