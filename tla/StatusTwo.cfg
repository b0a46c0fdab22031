\* Two threads count and make pages.
SPECIFICATION StatusSpec
CONSTANTS
    t1 = t1
    t2 = t2
    Threads <- MCThreads
    Uris <- MCUris
    Codes = {200}
    Wrap = 3
    MaxCalls = 4
SYMMETRY Symmetry
INVARIANTS TypeOK NeverOvercounts SerialCountsExact PageNeverAhead
CHECK_DEADLOCK FALSE
