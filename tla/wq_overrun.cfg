SPECIFICATION Spec
CONSTANTS
    SqDepth = 3
    CqDepth = 2
    MaxWqes = 3
    MaxAttempts = 0
    Reported = {}
    MaxTime = 1
    AdmitDelays = {0}
    CqeDelays = {0, 1}
INVARIANTS
    CqReclaimable
    LostKeepsItsEntry
    RingSlots
PROPERTIES
    ImplementsCompletion
CHECK_DEADLOCK FALSE
