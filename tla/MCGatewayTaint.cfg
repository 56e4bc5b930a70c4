SPECIFICATION Spec
CONSTANTS
    Issues = {i1}
    Verifies = {v1}
    Traps = {t1}
    Gets = {g1}
    Sessions = {s1}
    NoSession = NoSession
    Handlers <- AllHandlers
    KindOf <- Kind
    Routes = {"default"}
    Facts = {"webdriver", "header"}
    Lifetime = 1
    EvidenceTtl = 2
    TrapTtl = 1
    BurstLimit = 1
    MaxTime = 2
SYMMETRY Symmetry
INVARIANTS
    TaintIsNeverReleased
    TaintedVerificationIsDenied
CHECK_DEADLOCK FALSE
