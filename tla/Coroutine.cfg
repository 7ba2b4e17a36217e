SPECIFICATION FairSpec
CONSTANTS
    Futures = {f1, f2, f3}
    Posts = {p1}
    Generators = {g1, g2}
    ErrorCodes = {0, 1}
    Other = Other
    None = None
    MaxNesting = 2
INVARIANTS
    SendTargetAwaits
    TimelyWaiterIsKnown
    LastErrorIsOwn
PROPERTIES
    TimelyWaitEnds
    WakesItsWaiter
CHECK_DEADLOCK FALSE
