SPECIFICATION FairDatagramSpec
CONSTANTS
    Receives = {r1, r2}
    Sends = {x1}
    UdpSockets = {u1, u2}
    UdgSockets = {g1}
    NoSocket = NoSocket
    MaxArrived = 2
INVARIANTS
    LastPeerIsOwn
    EachDatagramOnce
PROPERTIES
    EndsAfterClose
CHECK_DEADLOCK FALSE
