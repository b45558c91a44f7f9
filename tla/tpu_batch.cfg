SPECIFICATION Spec
CONSTANTS
    Engines = {"demo", "pool"}
    Kvh = 3
    HeadDim = 64
    Heads = 3
    Ffn = 1536
    MaxRows = 10
    MaxKv = 85
INVARIANTS
    OperandsHeld
    NothingLost
    LayerAnswers
