SPECIFICATION LinesFairSpec
CONSTANTS
    Byte = {"a", "b", "eol"}
    Eol = "eol"
    Chunks <- LongChunks
    MaxBytes = 5
    MaxReads = 2
INVARIANTS LinesInv
PROPERTIES TimedReadReturns
CHECK_DEADLOCK FALSE
