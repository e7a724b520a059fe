SPECIFICATION FairSpec
CONSTANTS
    Caller = {c1, c2}
    MaxCalls = 2
    MaxFaults = 1
INVARIANTS
    ExchangeExclusive
    ReturnedMeansReaped
PROPERTIES
    EveryCallReturns
    ThreadsEnd
CHECK_DEADLOCK FALSE
