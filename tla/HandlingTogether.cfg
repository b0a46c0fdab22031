\* Nested registered uris and "/", and no default handler; behind one of them
\* calls that follow redirects, some at the same time, and hosts that fail.
SPECIFICATION HandlingSpec
CONSTANTS
    Segments <- MCSegments
    Registered <- Nested
    HasDefault = FALSE
    Requests <- MCRequests
    Threads = {"t1", "t2"}
    Hosts = {"example", "www", "ww", "secure"}
    Configured = "example"
    Location <- MCLocation
    NoHost = NoHost
    OtherName <- MCOtherName
    Faults = {"connect", "garbage", "reset"}
    MaxCalls = 2
INVARIANTS LongestPrefixWins FollowsToTheEnd NamesItsHost
PROPERTIES Terminates RedirectSticks EveryCallEnds
CHECK_DEADLOCK FALSE
