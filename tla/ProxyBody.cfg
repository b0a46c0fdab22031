\* One call at a time, and a body that arrives together with the headers.
SPECIFICATION ProxySpec
CONSTANTS
    Threads = {"t1"}
    Hosts = {"example", "www", "ww", "secure"}
    Configured = "example"
    Location <- MCLocation
    NoHost = NoHost
    OtherName <- MCOtherName
    Faults = {}
    MaxCalls = 2
INVARIANT ReturnsTheBody
CHECK_DEADLOCK FALSE
