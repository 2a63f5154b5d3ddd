SPECIFICATION RefSpec
CONSTANTS
    c1 = c1
    c2 = c2
    c3 = c3
    r1 = r1
    r2 = r2
    r3 = r3
    CPUs = {c1, c2, c3}
    Refs = {r1, r2, r3}
    Types = {"Thread", "VmArea"}
    ObjType = "Thread"
    Rights = {"READ", "WRITE"}
    DEFAULT_RIGHT <- MCRight
SYMMETRY Symmetry
INVARIANTS
    CounterExact
    FreeOrdered
    LockOrdered
