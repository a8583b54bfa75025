CONSTANTS
    u1 = u1
    u2 = u2
    Members <- TwoMembers
    Kinds = {"FirstAvailable", "RoundRobin", "Random", "LeastConnections"}
    Fallbacks = {"Reject", "Direct", "UseUnhealthy"}
    Rules <- AllRules
    Default = "Group"
    Requests = {r1, r2}
    Classes <- AllClasses
    MaxChanges = 2
    CursorMod = 4
SPECIFICATION Spec
INVARIANTS ErrorMeansAllDown RoundRobinBalanced
PROPERTIES ImplementsSelection LeastLoadedWhenAlone
CHECK_DEADLOCK FALSE
