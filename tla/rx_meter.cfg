SPECIFICATION Spec
CONSTANTS
    rc = rc
    ud = ud
    Connections <- MCConnections
    Reliable <- MCReliable
    Second = 3
    PsnModulus = 8
    Psns = {0, 1}
    WireBytes = {1, 2}
    IngressBytes = 3
    DrainRate = 2
    DrainScale = 3
    RcPps = 2
    UdPps = 0
    NicPps = 4
    MaxTime = 4
    MaxOffered = 4
INVARIANTS
    RateCeiling
    LeakyBucket
    HostInOrder
CHECK_DEADLOCK FALSE
