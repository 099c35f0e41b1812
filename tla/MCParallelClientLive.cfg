SPECIFICATION FairSpec
CONSTANTS
    h1 = h1
    h2 = h2
    Host <- MCHosts
    HostLists <- MCHostLists
    WithConfig = TRUE
    PoolSize = 1
    Timed = TRUE
    MaxCalls = 2
PROPERTIES CallReturns
CHECK_DEADLOCK FALSE
