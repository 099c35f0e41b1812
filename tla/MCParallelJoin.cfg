SPECIFICATION FairSpec
CONSTANTS
    Outputs = 2
    MayFail <- MCMayFail
    Removals = {0, 2}
    PoolSize = 2
    MaxJoins = 3
INVARIANTS Inv
PROPERTIES TimedJoinEnds
CHECK_DEADLOCK FALSE
