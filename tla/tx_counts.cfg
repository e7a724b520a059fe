SPECIFICATION PortSpec
CONSTANTS
    MaxExtents = 2
    MaxPackets = 3
    MaxAttempts = 2
    MaxTime = 1
    Payloads = {1, 2}
    Mtu = 1
    InitialPsn = 0
    PsnModulus = 8
    MaxInflightWqes = 2
    MaxInflightBytes = 0
    MaxInflightPackets = 2
    BitDelays = {0}
    MessageDelays = {0}
    TransportEnabled = TRUE
    Rto = 1
    PortMayReject = FALSE
INVARIANT ExtentCounts
CHECK_DEADLOCK FALSE
