SPECIFICATION Spec
CONSTANTS
    CPUs = {c1}
    Bsp = c1
    c1 = c1
    Threads = {t1, t2}
    t1 = t1
    t2 = t2
    NoThread = NoThread
    QueueCap = 1
    Calls <- MCCalls
    Stamps = {2, 3}
    MemStart = 10
    MemEnd = 17
    IovecsAt <- MCIovecsAt
    ChunkLen = 2
    MaxIovecs = 3
INVARIANTS
    WriteExact
PROPERTY
    ResumeExact
SYMMETRY Symmetry
