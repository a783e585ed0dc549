CONSTANTS
    Sids = {s1}
    Threads = {t1, t2}
    PortStart = 1
    PortEnd = 1
    StuckDeadline = 1
    TtlDefault = 1
    TtlMax = 2
    TtlResetAdd = 2
    LastStart = 1
    StoreMayFail = TRUE
    Horizon = 4
    DownMayFail = TRUE
    EarlyDelete = TRUE
    SlowCreate = TRUE
    PoolSize = 3
    MaxCrashes = 1
SPECIFICATION Spec
INVARIANTS TypeOK NothingWithoutRow TunnelClosedWhenPublic AuditedWhenPublic StuckIsOverdue ExpiredTeardownStands HandedOver HandedOutIsViewable
PROPERTIES ImplementsStore Lifecycle ExtendedOnce CreatesRunBlocks
