SPECIFICATION Spec
CONSTANTS
    Reader = "r"
    Peer <- OnePeer
    LastAddress = 1
    Mobile <- OnePeer
    Synced = {"r"}
    Stored <- OneStored
    Nothing = Nothing
    NetworkChange = NetworkChange
    Skew <- OneSkew
    Lists <- AllLists
    LastEpoch = 1
    SlotTicks = 1
    LastTick = 1
    QueueLen = 1
    MaxFaults = 1
INVARIANTS
    Recognized
    WillExpire
PROPERTIES
    FindsUnlessStuck
