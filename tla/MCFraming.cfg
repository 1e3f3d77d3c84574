CONSTANTS
    Server <- MCServer
    SizeAt <- MCSizeAt
    KeyMod = 7
    Cut <- MCCut
    MaxSent = 4
SPECIFICATION Spec
INVARIANTS
    NothingLeft
    MisframedCause
PROPERTY ImplementsRequests
CHECK_DEADLOCK FALSE
