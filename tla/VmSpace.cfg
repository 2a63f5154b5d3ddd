SPECIFICATION Spec
CONSTANTS
    Spaces = {s1, s2}
    a1 = a1
    a2 = a2
    Areas = {a1, a2}
    NumPages <- MCNumPages
    PageSize = 2
    Entries = 4
    HugeEntries = 1
    KernelBase = 768
    MaxUsize = 1023
    MapAddrs = {1, 126, 128, 800, 1022}
    ReadAddrs = {127, 129}
    ReadLens = {0, 3}
    MaxPages = 10
INVARIANTS
    MappingsSorted
    TranslationExact
    PagesExclusive
    ReadAgrees
PROPERTY
    ReadRefused
SYMMETRY MCSymmetry
