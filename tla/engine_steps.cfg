CONSTANTS
    Engines = {e1, e2}
    StepIndices = {0, 1}
    Latencies = {0, 1, 2}
    Publishers = {executor, sink}
    LastInstant = 2
    MaxSubmissions = 2
    MaxMeddling = 2
SPECIFICATION FairSpec
INVARIANTS RetiredInDueOrder NoCompletionSkipped DueRetiredFirst PublishedOnceWhenDue
PROPERTIES PoisonIsFinal EventuallyRetired
CHECK_DEADLOCK FALSE
