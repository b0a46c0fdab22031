\* Every order of statements that configure, fail, repeat or are unknown; and
\* of one config, which has a HoldingHandler that may keep a thread, or all of
\* them, for ever, the server runs.
SPECIFICATION ServingSpec
CONSTANTS
    MaxStatements = 3
    Configs <- ServingConfigs
    Stoi <- MCStoi
    Builders = {"EchoHandler", "StaticHandler", "HoldingHandler", "NotFoundHandler"}
    PortWrap = 100
    t1 = t1
    t2 = t2
    c1 = c1
    c2 = c2
    c3 = c3
    c4 = c4
    NoConn = NoConn
    Threads <- TwoThreads
    Conns <- FourConns
    Wrap = 8
    Segments <- MCSegments
    Begins <- MCBegins
    Registered <- HoldingUris
    HasDefault = TRUE
    HandlerAt <- HoldingHandlers
    Requests <- HoldingRequests
    Faults = {}
INVARIANTS HandlersAsConfigured ListedUnderItsHandler ListensOnItsPort
PROPERTY EveryRequestAnswered
CHECK_DEADLOCK FALSE
