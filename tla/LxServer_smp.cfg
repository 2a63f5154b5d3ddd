SPECIFICATION FairSpec
CONSTANTS
    CPUs = {c1, c2}
    Bsp = c1
    c1 = c1
    c2 = c2
    Threads = {t1, t2}
    t1 = t1
    t2 = t2
    NoThread = NoThread
    QueueCap = 2
    Calls <- MCFewCalls
    Stamps = {2, 3}
    MemStart = 10
    MemEnd = 17
    IovecsAt <- MCIovecsAt
    ChunkLen = 2
    MaxIovecs = 3
INVARIANT
    NoServerPanic
PROPERTIES
    ResumeExact
    SyscallAnswered
