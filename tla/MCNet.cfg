CONSTANTS
    p1 = p1
    p2 = p2
    Peer <- MCPeer
    Nobody = Nobody
    NFd = 3
    NConn = 1
    MaxEvents = 2
    MaxUnread = 1
SPECIFICATION FairSpec
INVARIANTS
    DescriptorsKept
    NothingMissed
PROPERTY Served
CHECK_DEADLOCK FALSE
