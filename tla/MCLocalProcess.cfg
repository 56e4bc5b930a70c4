SPECIFICATION Spec
CONSTANTS
    Requests = {r1, r2, r3}
    MaxInFlight = 2
    MaxRuns = 2
    Capacity = 1
    Room = 5
    RunTtl = 1
    MaxTime = 1
    Window = 4
    Opening = 1
    ChallengeTtl = 1
    SessionTtl = 1
SYMMETRY Symmetry
INVARIANTS
    TypeOK
    LateAttemptsAreRefused
    CopiedOnceInOrder
PROPERTIES
    NothingIsMissing
    CompletedRunIsFrozen
CHECK_DEADLOCK FALSE
