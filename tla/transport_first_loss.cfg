SPECIFICATION Spec
CONSTANTS
    MaxExtents = 2
    MaxPackets = 3
    MaxAttempts = 3
    MaxTime = 2
    Payloads = {1, 2}
    Mtu = 1
    InitialPsn = 0
    PsnModulus = 8
    MaxInflightWqes = 0
    MaxInflightBytes = 0
    MaxInflightPackets = 0
    BitDelays = {0}
    MessageDelays = {0}
    TransportEnabled = TRUE
    Rto = 1
    MaxFaults = 1
    FirstPacketSafe = FALSE
INVARIANT AckedWasDelivered
CHECK_DEADLOCK FALSE
