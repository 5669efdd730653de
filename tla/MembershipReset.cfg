SPECIFICATION Spec
CONSTANTS
    Task = {t1, t2}
    None = None
    MaxKeys = 5
    MaxRequests = 3
INVARIANTS
    NoDanglingReference
