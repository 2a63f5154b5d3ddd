SPECIFICATION FairSpec
CONSTANTS
    CPUs = {c1, c2}
    Bsp = c1
    c1 = c1
    c2 = c2
    Threads = {t1, t2}
    t1 = t1
    t2 = t2
    Faulty = {}
    Peers <- OwnThread
    QueueCap = 2
    NoThread = NoThread
    NoCpu = NoCpu

INVARIANT PanicOnlyForMemory
PROPERTY TerminationDelivered
PROPERTY QueuedRuns
PROPERTY TerminatedFreed
