CONSTANTS
    Sids = {s1}
    Threads = {t1}
    PortStart = 1
    PortEnd = 1
    StuckDeadline = 1
    TtlDefault = 1
    TtlMax = 2
    TtlResetAdd = 2
    LastStart = 0
    StoreMayFail = TRUE
    Horizon = 3
    DownMayFail = TRUE
    EarlyDelete = TRUE
    SlowCreate = TRUE
    PoolSize = 2
    MaxCrashes = 1
SPECIFICATION FairSpec
PROPERTIES EventuallyNuked ServesAgain
