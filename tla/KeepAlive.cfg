SPECIFICATION Spec
CONSTANTS
    Modulus = 65536
    MaxInFlight = 131074
INVARIANTS
    AliveWhileInFlight
