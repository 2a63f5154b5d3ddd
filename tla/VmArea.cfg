SPECIFICATION AreaSpec
CONSTANTS
    PageSize = 2
    Length = 6
    MaxUsize = 8
    Bytes = {0, 1}
    Zero = 0
    Buffers <- MCBuffers
    MaxPages = 3
    None = None
PROPERTY
    ImplementsFlatMemory
