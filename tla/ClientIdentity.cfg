SPECIFICATION IdentitySpec
CONSTANTS
    Caller = {t1, t2, t3}
    Secret = {k1, k2, k3, k4}
    NoKey = NoKey
SYMMETRY Symmetry
INVARIANTS
    RecordHasSecret
    IdentityKept
CHECK_DEADLOCK FALSE
