SPECIFICATION Spec
CONSTANTS
    Endpoint <- MCEndpoint
    Addr = {"x", "y"}
    Reader = "reader"
    Service = "service"
    Newest = 0
    Epoch <- MCEpoch
    Lists <- SharedLists
    Grants <- SharedGrants
    None = None
    Ttl = 2
    Capacity = 2
    MaxTime = 3
    MaxFlight = 2
    MaxFaults = 1
INVARIANTS
    NeverBack
    DirectoryAgrees
