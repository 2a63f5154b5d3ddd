SPECIFICATION Spec
CONSTANTS
    PageSize = 64
    StackBase = 4096
    StackSize = 512
    KernelBase = 8192
    StackArgs <- MCStackArgs
    ArgVecs <- MCArgVecs
    NumMax = 2
    TickMod = 3
    Machines <- MCMachines
INVARIANTS
    BootInfoExact
    FilesExact
    ServersExact
    ImageExact
    StackExact
    KernelReady
    PanicExplained
PROPERTIES
    TimerTicks
