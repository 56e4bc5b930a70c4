SPECIFICATION RFairSpec
CONSTANTS
    Families = {"resource", "protocol_action"}
    MethodOf <- TrapMethods
    Window = 5
    Cap = 2
    Horizon = 1
    MaxRequests = 2
    Ttl = 1
    TrapTtl = 1
    Callers = {w1, w2}
    Calls <- AllCalls
    Lossy = TRUE
    MaxSkew = 0
    MaxTime = 1
    MaxTries = 2
INVARIANTS
    RTypeOK
    RecordTellsOneStory
    AnswersAccountForRecord
    ContentionIsEarned
    RecordLapsesForGood
PROPERTIES
    ImplementsService
    EveryCallAnswered
CHECK_DEADLOCK FALSE
