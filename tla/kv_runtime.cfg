SPECIFICATION Spec
CONSTANTS
    Block = {b1, b2, b3}
    Request = {r1, r2}
    Capacity = 2
    BlockTokens = 2
    Execution = {x1, x2}
    MaxRefs = 3
    MaxReserved = 1
    MaxCalls = 2
    MaxBlocks = 2
SYMMETRY Symmetry
INVARIANTS
    PoolsConserved
    ReferencesKept
    AuthoritiesAgree
PROPERTY AdoptedOnce
CHECK_DEADLOCK FALSE
