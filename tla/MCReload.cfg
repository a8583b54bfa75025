CONSTANTS
    Ids = {"a", "b"}
    Specs = {"s1", "s2"}
    Groups = {"g"}
    Captured = {"v1", "v2"}
    Inputs <- AllInputs
    Startup <- Base
    Callers = {c1, c2}
    Conns = {k1, k2}
    MaxReloads = 3
    GenMax = 2
SPECIFICATION ReloadSpec
INVARIANTS Consistent ReportsExact OldPoolsAreLate
PROPERTIES KeepsWhatIsInUse
CHECK_DEADLOCK FALSE
