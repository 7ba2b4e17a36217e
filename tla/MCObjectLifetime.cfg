SPECIFICATION Spec
CONSTANTS
    Modulus = 2
    Objects = {acc, sock}
    Acceptors = {acc}
    Futures = {f1, f2}
    None = None
    MaxHeld = 2
SYMMETRY Symmetry
INVARIANTS
    RefcountExact
    NoUseAfterFree
    GarbageIsRooted
CHECK_DEADLOCK FALSE
PROPERTIES
    KeepsObjectsAlive
