SPECIFICATION FairSpec
CONSTANTS
    c1 = c1
    c2 = c2
    Channels = {c1, c2}
    Streams = {"stdout"}
    MaxChunks <- MCMaxChunks
    MaxWaits = 1
INVARIANTS IInv
PROPERTIES KeepsPromise ExitCodeFinal ExitCodeAvailable ReadersEnd TimedWaitEnds
CHECK_DEADLOCK FALSE
