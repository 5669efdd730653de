SPECIFICATION RelaySpec
CONSTANTS
    Member <- MCMember
    Founder = "founder"
    App = {app}
    Name = {name}
    Lifetime = 2
    Expiry = {1, 2}
    MaxMembers = 3
    Limit <- MCLimit
    Request <- MCRequest
    Applicant <- MCApplicant
    Wants <- MCWants
    GoodUntil <- MCGoodUntil
    Grants <- MCGrants
    Bindings <- MCBindings
    Relays <- MCRelays
    Invitation = {inv1, inv2}
    InitRun = {init1, init2}
    Nobody = Nobody
    Closed = Closed
    MaxRevision = 3
    MaxOrphans = 0
SYMMETRY Symmetry
INVARIANTS
    SerialsUnique
    RelaysBacked
    EpochNamesMembers
    RevocationPossible
    RecoveryRootKept
    AnsweredIsAllowed
    AccessIsMembership
CHECK_DEADLOCK FALSE
