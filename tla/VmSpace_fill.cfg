SPECIFICATION Spec
CONSTANTS
    Spaces = {s1}
    a1 = a1
    a2 = a2
    Areas = {a1, a2}
    NumPages <- MCNumPages
    PageSize = 2
    Entries = 4
    HugeEntries = 1
    KernelBase = 768
    MaxUsize = 1023
    MapAddrs = {0, 1, 2, 6, 800, 1022}
    ReadAddrs = {0, 1, 3, 6, 7, 1022}
    ReadLens = {0, 1, 2, 4, 8}
    MaxPages = 10
INVARIANT ReadFills
