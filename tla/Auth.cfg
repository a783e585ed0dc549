CONSTANTS
    Kids = {k1, k2}
    Threads = {t1, t2}
    TTL = 1
    Horizon = 2
SPECIFICATION AuthSpec
INVARIANTS AuthTypeOK KeysAreFresh UnknownOnlyIfRetired
SYMMETRY Symmetry
