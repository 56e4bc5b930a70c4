SPECIFICATION Spec
CONSTANTS
    Paths = {"/a", "/b"}
    Inputs <- Considered
INVARIANTS
    ReleaseIsEarned
    NoSingleGroupDenial
    VerifierNeverChallenges
    EvidenceNeverHelps
CHECK_DEADLOCK FALSE
