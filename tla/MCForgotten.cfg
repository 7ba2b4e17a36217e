SPECIFICATION Spec
CONSTANTS
    Futures = {f1, f2, f3}
    Posts = {p1, p2}
    Generators = {g1, g2, g3}
    ErrorCodes = {0}
    Other = Other
    None = None
    MaxNesting = 3
INVARIANTS
    AwaitedKnowsWaiter
CHECK_DEADLOCK FALSE
