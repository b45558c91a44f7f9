SPECIFICATION Spec
CONSTANTS
    N = 4
    Passes = 2
    MaxFault = 2
INVARIANTS LogitsExact BufferExclusive WorkerJoined
PROPERTY PassEnds
