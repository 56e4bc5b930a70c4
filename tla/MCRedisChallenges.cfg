SPECIFICATION Spec
CONSTANTS
    Challenges = {c1}
    Sessions = {s1, s2}
    Requests = {r1, r2, r3}
    NoSession = NoSession
    NoTtl = NoTtl
    Lifetime = 1
    TtlArgs <- StoreTtl
    MaxSkew = 1
    MaxTime = 3
SYMMETRY Symmetry
INVARIANTS
    OnlyTheOwnerSpends
    AcceptanceAge
PROPERTIES
    ImplementsContract
CHECK_DEADLOCK FALSE
