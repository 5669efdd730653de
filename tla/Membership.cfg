SPECIFICATION Spec
CONSTANTS
    Task = {t1, t2}
    None = None
    MaxKeys = 6
    MaxRequests = 3
INVARIANTS
    TypeOK
    SecretsOfRecords
    OneIdentity
PROPERTIES
    MembershipStable
