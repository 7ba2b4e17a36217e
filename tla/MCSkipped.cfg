SPECIFICATION ServiceSpec
CONSTANTS
    Posts = {p1, p2, p3}
    Operations = {o1}
    MaxFrames = 4
INVARIANT ConsumedIsCalled
CHECK_DEADLOCK FALSE
