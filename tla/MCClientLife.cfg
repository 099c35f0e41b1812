SPECIFICATION LifeSpec
CONSTANTS
    num_retries = 3
    MaxAddrs = 2
    MaxRounds = 12
INVARIANTS LifeInv
PROPERTIES ClientEnds KeepAliveEnds
CHECK_DEADLOCK FALSE
