SPECIFICATION RSpec
CONSTANTS
    Families = {"resource", "protocol_action"}
    MethodOf <- TrapMethods
    Window = 8
    Cap = 2
    Horizon = 1
    MaxRequests = 2
    Ttl = 2
    TrapTtl = 1
    Callers = {w1, w2}
    Calls <- TrapCalls
    Lossy = TRUE
    MaxSkew = 0
    MaxTime = 1
    MaxTries = 2
INVARIANTS
    ReplayFollowsActivation
CHECK_DEADLOCK FALSE
