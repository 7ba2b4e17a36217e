SPECIFICATION FairSpec
CONSTANTS
    Reads = {r1, r2}
    Writes = {w1}
    MaxLength = 2
    MaxArrived = 2
    MaxAssigned = 1
INVARIANTS
    EachByteOnce
    OneConnection
    AloneIsContiguous
    WriteDataIntact
PROPERTIES
    FullUnlessError
    EndsAfterClose
CHECK_DEADLOCK FALSE
