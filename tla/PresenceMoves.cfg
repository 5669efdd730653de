SPECIFICATION Spec
CONSTANTS
    Endpoint <- MCEndpoint
    Addr = {"x"}
    Reader = "reader"
    Service = "service"
    Newest = 1
    Epoch <- MCEpoch
    Lists <- MovingLists
    Grants <- MovingGrants
    None = None
    Ttl = 1
    Capacity = 1
    MaxTime = 3
    MaxFlight = 1
    MaxFaults = 0
INVARIANTS
 TypeOK
 SupersededFades
PROPERTIES
 AddressMoves
