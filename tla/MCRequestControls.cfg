SPECIFICATION Spec
CONSTANTS
    Client = c1
    Clients <- OneClient
    NoClient = NoClient
    Requests = {r1, r2, r3}
    Traffic <- Burst
    Limit <- SmallLimits
    Window = 2
    Answers = {"2xx"}
    MaxTime = 3
SYMMETRY Symmetry
INVARIANTS
    TypeOK
    WindowLimit
    RefusalIsEarned
    MetricsReflectAnswers
CHECK_DEADLOCK FALSE
