CONSTANTS
    f1 = f1
    f2 = f2
    f3 = f3
    ann = ann
    NConn = 2
    NSlot = 3
    Socket <- MCSocket
    User <- MCUser
    MaxSaved = 1
    MaxLate = 1
SPECIFICATION Spec
SYMMETRY SocketSymmetry
INVARIANTS ClientServerAgree   NpcsKnown
PROPERTY EvictedByStalePointer
CHECK_DEADLOCK FALSE
