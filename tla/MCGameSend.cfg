CONSTANTS
    NConn = 2
    NClient = 2
    PacketSize <- MCPacketSize
    Buffer = 2
    MaxProduced = 2
SPECIFICATION FairSpec
INVARIANT NothingLost
PROPERTIES ImplementsByteStream PlayerServed
CHECK_DEADLOCK FALSE
