SPECIFICATION ReducerSpec
CONSTANTS
    r1 = r1
    r2 = r2
    Request = {r1, r2}
    Arrival <- MCArrival
    Layer = {0}
    TokenCount = 2
    MaxSteps = 3
    MaxBatch = 1
    MaxLatency = 1
    MaxTime = 2
INVARIANTS
    CommitsTogether
    ClosedWhenDrained
    NoTokenSkipped
    TimeConserved
CHECK_DEADLOCK FALSE
