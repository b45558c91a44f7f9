SPECIFICATION Spec
CONSTANTS
    NSlot = 2
    QCap = 16
    Lookahead = 10
    Layers = 1
    NMat = 7
    UpMat = 4
    MaxChunk = 2
    Chunks <- MCChunks
    Forwards = {"prompt", "decode"}
    Faults = {"open", "read"}
    MaxFault = 2
    MaxPass = 2
CHECK_DEADLOCK FALSE
INVARIANTS
    SlotExclusive
    NothingLost
    OwnBytes
