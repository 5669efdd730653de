SPECIFICATION Spec
CONSTANTS
    Member <- MCMember
    Founder = "founder"
    App = {app}
    Name = {}
    Lifetime = 2
    Expiry = {1, 2}
    MaxMembers = 3
    Limit <- MCLimit
    Request <- MCRequest
    Applicant <- MCApplicant
    Wants <- MCWants
    GoodUntil <- MCGoodUntil
    Grants <- PlainGrants
    Bindings <- MCBindings
    Relays = {}
    Invitation = {inv}
    Nobody = Nobody
    Closed = Closed
    MaxRevision = 3
    MaxOrphans = 1
INVARIANTS
    MemoryTrue
    HistoryChains
    InvitationSpentOnce
    TicketHolderCanFollow
PROPERTIES
    RevokedInvitationStaysUnspent
CHECK_DEADLOCK FALSE
