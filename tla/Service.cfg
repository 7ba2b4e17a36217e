SPECIFICATION FairServiceSpec
CONSTANTS
    Posts = {p1, p2, p3}
    Operations = {o1}
    MaxFrames = 4
INVARIANTS
    OwnStopLeavesNothing
    WaitingLoopHasWork
PROPERTIES
    ReadyIsInvoked
CHECK_DEADLOCK FALSE
