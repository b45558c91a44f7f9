SPECIFICATION Spec
CONSTANTS
    Carveout = 28102656
    Neuron = 262144
    Slot = 2179072
    NSlot = 2
    Cent = 1835008
    GscLayer = 931840
    L = 24
    IonLayers = 22
    PoolsEst = 2097152
    MpEst = 1048576
    Pool = 142336
    Mp = 266240
    Others = {0, 495616, 495617, 884736, 884737, 2330624, 2330625, 2359296, 2359297,
              2981888, 2981889, 4194304, 4194305, 7340032, 7340033, 24694784, 24694785,
              25743360, 25743361, 27840512, 27840513}
    MaxFault = 2
INVARIANTS
    CachesYield
    CleanStart
    ForwardBacked
    FreedOnce
