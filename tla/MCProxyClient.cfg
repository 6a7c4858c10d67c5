\* Every order of two goroutines' calls, the proxy and the clock.
SPECIFICATION FairSpec

CONSTANTS
    c1 = c1
    c2 = c2
    Nothing = Nothing
    Callers <- MCCallers
    MaxCalls <- MCMaxCalls
    Requests <- MCRequests
    Asks <- MCAsks
    KindMap <- MCKindMap
    URLs <- MCURLs
    BadURLs <- MCBadURLs

INVARIANTS
    TypeOK
    ErrorsTellTheFate

PROPERTIES
    Implements
    CallsReturn

\* The callers run out of calls.
CHECK_DEADLOCK FALSE
