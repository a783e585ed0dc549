CONSTANTS
    Sids = {s1, s2, s3}
    PortStart = 1
    PortEnd = 2
    StuckDeadline = 1
    TtlDefault = 1
    TtlMax = 2
    TtlResetAdd = 2
    StoreMayFail = TRUE
    Horizon = 2
SPECIFICATION StoreSpec
INVARIANTS StoreTypeOK PortsUnique DeadlineBounded
PROPERTIES ReleasedForGood ImplementsPortLease
SYMMETRY Symmetry
