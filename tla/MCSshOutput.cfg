SPECIFICATION FairSpec
CONSTANTS
    Channels = {c1}
    Streams = {"stdout", "stderr"}
    MaxChunks = 2
    MaxWaits = 2
INVARIANTS IInv JoinedMeansAllOutput
PROPERTIES KeepsPromise ReadersEnd TimedWaitEnds
CHECK_DEADLOCK FALSE
