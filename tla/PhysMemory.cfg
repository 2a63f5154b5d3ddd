SPECIFICATION Spec
CONSTANTS
    BootMaps <- MCBootMaps
    Points = {0, 2, 3, 5, 8}
    PageSize = 2
    DirectMapEnd = 9
    MaxUsize = 11
    MaxRegions = 3
    AllocLens = {2, 4}
INVARIANTS
    RegionsUsable
    RegionsComplete
PROPERTY
    ImplementsPageSource
