SPECIFICATION FairSpec
CONSTANTS
    Byte = {"a", "b"}
    Chunks <- MCChunks
    Readers = {r1, r2}
    MaxBytes = 4
INVARIANTS IInv
PROPERTIES ImplementsStream IteratorsEnd BytesDelivered
CHECK_DEADLOCK FALSE
