SPECIFICATION Spec
CONSTANTS
    Layers = 3
    KvCap = 17
    MaxSeq = 19
    Headers = {0, 1, 3, 4, 6, 7, 8, 10, 14, 15, 16, 17, 20}
    Steps = {0, 2, 30}
    Deltas = {0, 2, 5}
INVARIANTS
    AttendsOwnPrefix
    MemoryHeld
    HeadPicks
PROPERTIES
    Ends
