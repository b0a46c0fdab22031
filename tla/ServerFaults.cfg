\* Clients leave, requests arrive in pieces, accepts fail, handlers throw, and
\* pages are made while others count.
SPECIFICATION ServerSpec
CONSTANTS
    t1 = t1
    t2 = t2
    c1 = c1
    c2 = c2
    c3 = c3
    c4 = c4
    NoConn = NoConn
    Threads <- TwoThreads
    Conns <- ThreeConns
    Wrap = 8
    Segments <- MCSegments
    Begins <- MCBegins
    Registered <- MixedUris
    HasDefault = TRUE
    HandlerAt <- MixedHandlers
    Requests <- MixedRequests
    Faults = {"accept", "client", "split", "throw"}
SYMMETRY Symmetry
INVARIANTS OneThreadPerRequest EveryWriteIsCounted OneAccept ExitOnlyAfterDrain
PROPERTIES ServesItsClients CallsStatus
CHECK_DEADLOCK FALSE
