CONSTANTS
    net = net
    timer = timer
    worker = worker
    c1 = c1
    c2 = c2
    None = None
    Pusher <- MCPusher
    Worker = worker
    Closer = net
    Work <- MCWork
    Capacity = 3
    MaxPush = 4
    MaxSpurious = 1
    MaxStart = 1
SPECIFICATION FairSpec
INVARIANTS BacklogIsLostSignals FaultCause
PROPERTIES ImplementsChannel AllButLostDelivered CloseStopsBusyWorker
CHECK_DEADLOCK FALSE
