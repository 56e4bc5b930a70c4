SPECIFICATION Spec
CONSTANTS
    Challenges = {c1}
    Sessions = {s1, s2}
    Requests = {r1, r2}
    NoSession = NoSession
    NoTtl = NoTtl
    Lifetime = 2
    TtlArgs <- GatewayTtl
    MaxSkew = 1
    MaxTime = 4
INVARIANTS
    AcceptedWithinTtl
CHECK_DEADLOCK FALSE
