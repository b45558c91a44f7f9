SPECIFICATION Spec
CONSTANTS
    NSlot = 2
    QCap = 16
    Lookahead = 10
    Layers = 2
    NMat = 7
    UpMat = 4
    MaxChunk = 2
    Chunks <- MCChunks
    Forwards = {"prompt", "decode"}
    Faults = {}
    MaxFault = 0
    MaxPass = 2
INVARIANT BitExact
