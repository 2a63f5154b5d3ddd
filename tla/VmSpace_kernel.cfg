SPECIFICATION Spec
CONSTANTS
    Spaces = {s1}
    a1 = a1
    a2 = a2
    Areas = {a1, a2}
    NumPages <- MCNumPages
    PageSize = 2
    Entries = 4
    HugeEntries = 1
    KernelBase = 768
    MaxUsize = 1023
    MapAddrs = {6, 288}
    ReadAddrs = {}
    ReadLens = {}
    MaxPages = 10
INVARIANT KernelTableFixed
