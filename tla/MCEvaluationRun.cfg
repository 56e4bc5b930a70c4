SPECIFICATION FairSpec
CONSTANTS
    Sessions = {a, b}
    NoSession = NoSession
    MaxRequests = 5
    MaxSessions = 2
    Ttl = 1
    MaxTime = 1
    Deployments = {"bare", "harness"}
INVARIANTS
    TypeOK
    EarlyExplorationPrecludesRelease
    ReleaseFollowsGrant
    HarnessOrderIsUnambiguous
    OutcomeIsSound
PROPERTIES
    EveryRequestAnswered
CHECK_DEADLOCK FALSE
