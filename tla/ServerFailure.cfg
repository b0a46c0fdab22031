\* A request whose uri is not below that of the handler its Referer chooses.
SPECIFICATION ServerSpec
CONSTANTS
    t1 = t1
    t2 = t2
    c1 = c1
    c2 = c2
    c3 = c3
    c4 = c4
    NoConn = NoConn
    Threads <- TwoThreads
    Conns <- ThreeConns
    Wrap = 8
    Segments <- MCSegments
    Begins <- MCBegins
    Registered <- FilesUris
    HasDefault = FALSE
    HandlerAt <- FilesHandlers
    Requests <- FilesRequests
    Faults = {}
SYMMETRY Symmetry
INVARIANT FailureAnswers500
CHECK_DEADLOCK FALSE
