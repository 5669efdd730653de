SPECIFICATION ReloadSpec
CONSTANTS
    Member = {"alice"}
    Founder = "founder"
    App = {}
    Name = {}
    Lifetime = 1
    Expiry = {1}
    MaxMembers = 2
    Limit <- MCLimit
    Request = {"a"}
    Applicant <- MCApplicant
    Wants <- MCWants
    GoodUntil <- MCGoodUntil
    Grants <- MCGrants
    Bindings = {}
    Relays = {}
    Invitation = {}
    InitRun = {init}
    Nobody = Nobody
    Closed = Closed
    MaxRevision = 2
    MaxOrphans = 0
PROPERTY
    LiveReload
CHECK_DEADLOCK FALSE
