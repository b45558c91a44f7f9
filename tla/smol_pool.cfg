SPECIFICATION Spec
CONSTANTS
    None = None
    Contexts = {2, 64, 338, 1569, 2048}
    Files = {0, 1, 10, 11, 400, 1600}
    News = {0, 3, 255}
    CacheKbs = {None, 0, 1, 1152}
INVARIANTS
    MemoryApart
    EmbeddingRight
    TokensPicked
