SPECIFICATION SyncSpec
CONSTANTS
    Peer <- MCPeer
    Authority = "authority"
    Rank <- MCRank
    LastRevision = 3
    Lists <- MCLists
    GoodUntil <- Expiring
    Unjoined = Unjoined
    MaxBatch = 2
    MaxTime = 1
    MaxLost = 1
    MaxFaults = 1
    MaxStops = 2
INVARIANTS
    SyncTypeOK
    OnlyWhatListsIt
PROPERTIES
    ConvergesUnlessStuck
CHECK_DEADLOCK FALSE
