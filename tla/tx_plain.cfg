SPECIFICATION PortSpec
CONSTANTS
    MaxExtents = 3
    MaxPackets = 4
    MaxAttempts = 1
    MaxTime = 2
    Payloads = {0, 1, 4}
    Mtu = 2
    InitialPsn = 0
    PsnModulus = 8
    MaxInflightWqes = 2
    MaxInflightBytes = 3
    MaxInflightPackets = 0
    BitDelays = {1}
    MessageDelays = {0}
    TransportEnabled = FALSE
    Rto = 0
    PortMayReject = TRUE
INVARIANTS
    WindowBound
    ExtentOutcome
CHECK_DEADLOCK FALSE
