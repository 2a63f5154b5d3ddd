SPECIFICATION Spec
CONSTANTS
    CPUs = {c1, c2}
    Bsp = c1
    c1 = c1
    c2 = c2
    Threads = {t1, t2, t3}
    t3 = t3
    t1 = t1
    t2 = t2
    Faulty = {t1, t2, t3}
    Peers <- AnyPeers
    QueueCap = 2
    NoThread = NoThread
    NoCpu = NoCpu

INVARIANT TypeOK
INVARIANT OneOwner
INVARIANT NoLostThread
INVARIANT ArchExclusive
INVARIANT UserDataPinned
INVARIANT RefsExact
INVARIANT PanicOnlyForMemory
SYMMETRY Symmetry
