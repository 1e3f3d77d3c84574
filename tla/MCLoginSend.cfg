CONSTANTS
    main0 = main0
    worker = worker
    conn = conn
    None = None
    Pusher <- MCPusher
    Worker = worker
    Closer = main0
    Main = main0
    Work <- MCWork
    Conn = conn
    Capacity = 2
    MaxPush = 6
    MaxSpurious = 2
    MaxStart = 0
    Size = 2
    Buffer = 4
    MaxAsk = 3
SPECIFICATION LoginSpec
CHECK_DEADLOCK FALSE
INVARIANT SendWithinBuffer
PROPERTY StreamUntilRaced
