SPECIFICATION ShellsSpec
CONSTANTS
    s1 = s1
    s2 = s2
    Shell <- TwoShells
    Pieces = 2
    MaxCommands = 2
    PoolSize = 2
    MaxCalls = 2
    MaxJobs = 6
INVARIANTS ShellsInv
PROPERTIES RunDelivers EndAfterCommands
CHECK_DEADLOCK FALSE
