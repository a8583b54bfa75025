CONSTANTS
    Requests <- MCRequests
    Responses <- MCResponses
    Modes = {"patient", "early", "busy", "echo"}
    MaxRequests = 2
    MaxSent = 2
    MaxInfo = 1
    BodyLimit = 1
    Window = 2
    PipeCap = 1
SPECIFICATION Spec
CHECK_DEADLOCK FALSE
INVARIANTS
    InStep
    BytesExact
PROPERTY
    ForwardEnds
