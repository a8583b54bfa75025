CONSTANTS
    Callers = {t1, t2}
    EntryMax = 2
    PoolMax = 1
    PoolSize = 1
    MaxStreams = 1
SPECIFICATION PoolFairSpec
INVARIANTS Accounted
PROPERTIES RetiredDrains IdleReaped
