\* A response that takes two writes.
SPECIFICATION ServerSpec
CONSTANTS
    t1 = t1
    t2 = t2
    c1 = c1
    c2 = c2
    c3 = c3
    c4 = c4
    NoConn = NoConn
    Threads <- TwoThreads
    Conns <- ThreeConns
    Wrap = 8
    Segments <- MCSegments
    Begins <- MCBegins
    Registered <- FilesUris
    HasDefault = FALSE
    HandlerAt <- FilesHandlers
    Requests <- FilesRequests
    Faults = {}
SYMMETRY Symmetry
INVARIANT DeliveredIntact
CHECK_DEADLOCK FALSE
