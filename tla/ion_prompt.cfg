SPECIFICATION FairSpec
CONSTANTS
    NSlot = 2
    QCap = 16
    Lookahead = 10
    Layers = 2
    NMat = 7
    UpMat = 4
    MaxChunk = 2
    Chunks <- MCChunks
    Forwards = {"prompt"}
    Faults = {}
    MaxFault = 0
    MaxPass = 2
INVARIANTS
    TypeOK
    QueueInOrder
    HeadQuiet
PROPERTIES
    Terminates
    StreamSpec
