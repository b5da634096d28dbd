SPECIFICATION Spec
CONSTANTS
    a1 = a1
    a2 = a2
    Client = {a1, a2}
    User = {u1}
    MaxRequests <- Limits
    Window = 1
    MaxKeys = 2
    CleanEvery = 3
    MaxTime = 4
    MaxChecks = 6
    None = None
SYMMETRY Symmetry
INVARIANTS Quota MemoryIsBounded
PROPERTIES RejectionsAreDeserved OnlyTheIdlestIsForgotten
CHECK_DEADLOCK FALSE
