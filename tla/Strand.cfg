SPECIFICATION FairSpec
CONSTANTS
    Strands = {s1, s2}
    Posted = {p}
    Dispatched = {d}
    Futures = {f1, f2}
    Wrappers = {w1, w2}
    None = None
    MaxNesting = 3
    Modulus = 2
INVARIANTS
    StrandOutlivesHandlers
    Serialized
PROPERTIES
    KeepsStrandsAlive
    EveryHandlerEnds
CHECK_DEADLOCK FALSE
