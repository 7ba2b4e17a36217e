SPECIFICATION FairSpec
CONSTANTS
    Acceptors = {a1, a2}
    Sockets = {c1, s1, s2}
    Clients = {c1}
    Addresses = {d1}
    Operations = {o1, o2}
    NoAddress = NoAddress
    NoSocket = NoSocket
    NoObject = NoObject
    Free = Free
    File = File
    Stale = Stale
    NoPeer = NoPeer
    Gone = Gone
INVARIANTS
    BoundIsReachable
    HandedOpenIffOk
PROPERTIES
    EveryOneEnds
CHECK_DEADLOCK FALSE
