SPECIFICATION Spec
CONSTANTS
    ChunkAddrs = {8, 24}
    ChunkSize = 14
    HeaderSize = 2
    MinCapacity = 2
    MinSize = 2
    MaxU32 = 26
    Sizes = {1, 5, 12, 13, 14}
    Aligns = {2, 4}
    Layouts <- MCLayouts
INVARIANTS
    Tiling
    FreeListExact
    LiveSound
    NewChunkServes
