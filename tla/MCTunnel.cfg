SPECIFICATION FairSpec
CONSTANTS
    c1 = c1
    c3 = c3
    t1 = t1
    None = None
    Client = {c1, c3}
    Thread = {t1}
    ThreadOf <- OneThread
    Direct = {c3}
    MayLackKey = {c1}
    UpChunks = 2
    DownChunks = 1
    MaxConnections = 1
    Retries = 2
INVARIANTS
    Inv OwnPort ServerKept ServerHasClient NothingDropped
PROPERTIES RequestAnswered TunnelTornDown ExitFinishes
CHECK_DEADLOCK FALSE
