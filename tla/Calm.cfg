CONSTANTS
    Sids = {s1, s2}
    Threads = {t1, t2}
    PortStart = 1
    PortEnd = 1
    StuckDeadline = 1
    TtlDefault = 1
    TtlMax = 2
    TtlResetAdd = 2
    LastStart = 1
    StoreMayFail = FALSE
    Horizon = 3
    DownMayFail = FALSE
    EarlyDelete = FALSE
    SlowCreate = FALSE
    PoolSize = 4
    MaxCrashes = 1
SPECIFICATION Spec
INVARIANTS NukedIsGone AllocatedPortIsFree MissingComposeMeansNoContainer ReadyIsServing
PROPERTIES ImplementsPortLease
SYMMETRY Symmetry
