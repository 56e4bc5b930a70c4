SPECIFICATION Spec
CONSTANTS
    Issues = {i1}
    Verifies = {v1, v2}
    Traps = {}
    Gets = {g1}
    Sessions = {s1}
    NoSession = NoSession
    Handlers <- AllHandlers
    KindOf <- Kind
    Routes = {"default", "public"}
    Facts = {"nonce"}
    Lifetime = 1
    EvidenceTtl = 2
    TrapTtl = 1
    BurstLimit = 1
    MaxTime = 2
SYMMETRY Symmetry
INVARIANTS
    AccessIsEarned
    AccessWindow
    VerdictIsFinal
    RevocationIsFinal
    EvidenceCoversSession
PROPERTIES
    NoSessionIsExtended
CHECK_DEADLOCK FALSE
