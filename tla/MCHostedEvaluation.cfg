SPECIFICATION Spec
CONSTANTS
    Runs = {a, b}
    NoRun = NoRun
    Capacity = 2
    Ttl = 1
    MaxEvents = 4
    MaxTime = 1
SYMMETRY Symmetry
INVARIANTS
    EarlyExplorationPrecludesRelease
    ReleaseFollowsAuthorization
PROPERTIES
    FinalReportIsFrozen
CHECK_DEADLOCK FALSE
