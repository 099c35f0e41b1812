SPECIFICATION Spec
CONSTANTS
    h1 = h1
    h2 = h2
    Host <- MCHosts
    HostLists <- MCHostLists
    WithConfig = TRUE
    PoolSize = 2
    Timed = TRUE
    MaxCalls = 3
INVARIANTS
    Inv CacheSound
PROPERTIES ConnectionReused
CHECK_DEADLOCK FALSE
