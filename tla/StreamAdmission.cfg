SPECIFICATION Spec
CONSTANTS
    Conn = {"c1", "c2"}
    Stream = {"s1", "s2", "s3", "s4"}
    On <- MCOn
    Endpoint = {"ann", "bob"}
    Remote <- MCRemote
    Route = {"first", "other"}
    To <- MCTo
    Datagram = {"other"}
    Addr = {"x", "y"}
    Source <- MCSource
    Complete = {"s1", "s2", "s3"}
    Newest = 1
    Clients <- MCClients
    Hosts <- MCHosts
    MaxHandlers = 1
    Capacity = 1
    Attentive = {"first"}
    NoConn = NoConn
INVARIANTS
    TypeOK
PROPERTIES
    NoStaleAdmission
    EveryConnectionServed
    EveryStreamServed
