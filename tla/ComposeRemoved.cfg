CONSTANTS
    Sids = {s1}
    Threads = {t1}
    PortStart = 1
    PortEnd = 1
    StuckDeadline = 1
    TtlDefault = 1
    TtlMax = 2
    TtlResetAdd = 2
    LastStart = 0
    StoreMayFail = FALSE
    Horizon = 3
    DownMayFail = TRUE
    EarlyDelete = FALSE
    SlowCreate = FALSE
    PoolSize = 3
    MaxCrashes = 0
SPECIFICATION Spec
INVARIANTS MissingComposeMeansNoContainer
