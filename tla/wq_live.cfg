SPECIFICATION FairSpec
CONSTANTS
    SqDepth = 2
    CqDepth = 1
    MaxWqes = 3
    MaxAttempts = 1
    Reported = {1}
    MaxTime = 2
    AdmitDelays = {1}
    CqeDelays = {0}
INVARIANTS
    OwnerConservation
    QuietMeansFinished
PROPERTIES
    AnnouncedExactly
    RungIsFreed
CHECK_DEADLOCK FALSE
