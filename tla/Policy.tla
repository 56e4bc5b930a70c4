------------------------------- MODULE Policy -------------------------------
(***************************************************************************)
(* The two places where a request is decided, the gateway's catch-all      *)
(* route and the challenge verifier, over AccessPolicy.                    *)
(***************************************************************************)
EXTENDS AccessPolicy

CONSTANT Inputs     \* the requests considered: a set of records in InputSpace

Endpoints == {"gateway", "verify"}

InputSpace ==
    [endpoint : Endpoints, signals : Signals, routes : Seq(RouteRule),
     strictness : {"balanced", "strict"}, path : Paths]

ASSUME InputsAssumption == Inputs \subseteq InputSpace

\* The decision an endpoint acts on: the verifier ignores the route rules.
Decision(in) ==
    IF in.endpoint = "verify"
    THEN EvaluateDashboard(VerifiedSignals(in.signals), << >>, in.strictness, in.path)
    ELSE EvaluateDashboard(in.signals, in.routes, in.strictness, in.path)

-----------------------------------------------------------------------------
VARIABLES
    input,      \* the request being decided
    outcome     \* "pending", then its decision

vars == <<input, outcome>>

Init == input \in Inputs /\ outcome = "pending"

Decide ==
    /\ outcome = "pending"
    /\ outcome' = Decision(input)
    /\ UNCHANGED input

Next == Decide

Spec == Init /\ [][Next]_vars

TypeOK == input \in InputSpace /\ outcome \in Decisions \cup {"pending"}

-----------------------------------------------------------------------------
Sig == input.signals
Routed == MatchedAction(input.routes, input.path)
AtGateway == input.endpoint = "gateway"
AtVerifier == input.endpoint = "verify"

\* Protected content is released only to a verified session, the development
\* token or a path the operator made public, whatever the evidence, the
\* crawler claim and the list of route rules are.
ReleaseIsEarned ==
    (AtGateway /\ outcome = "ALLOW") =>
        ~Sig.invalid_token /\ (Sig.valid \/ Sig.development \/ Routed = "public")

\* A presented credential that does not verify blocks on every route, even one
\* the operator made public: a route rule cannot rescue it.
BadCredentialBlocks ==
    (AtGateway /\ Sig.invalid_token /\ outcome # "pending") => outcome = "BLOCK"

\* One group of evidence, with replays and traps of several families that are no
\* groups of their own, never denies an undeclared client: at the verifier it always
\* earns a session, at the gateway a valid session always passes where no rule blocks
\* the path.
NoSingleGroupDenial ==
    (/\ outcome # "pending"
     /\ \A g, h \in Groups(Sig) : g = h
     /\ Sig.crawler = "unknown"
     /\ AtVerifier \/ (Sig.valid /\ ~Sig.invalid_token /\ Routed # "block"))
    => outcome = "ALLOW"

\* The verifier decides ALLOW or BLOCK: a bootstrap decision there would spend
\* the challenge and send the browser nowhere.
VerifierNeverChallenges == AtVerifier => outcome # "CHALLENGE"

Rank == [d \in Decisions |->
            CASE d = "BLOCK" -> 0 [] d = "CHALLENGE" -> 1 [] d = "ALLOW" -> 2]

\* More evidence never helps a client: with one more signal group observed, the
\* same request would not have been decided more favourably.
EvidenceNeverHelps ==
    outcome # "pending" =>
        \A g \in SignalGroups :
            Rank[Decision([input EXCEPT !.signals = [Sig EXCEPT ![g] = TRUE]])]
                <= Rank[outcome]

\* The operator's strictness setting never admits a request that the balanced
\* setting does not, nor refuses one that it admits: it only adds a reason to a
\* request the signals already blocked.
StrictnessIsInert ==
    outcome # "pending" =>
        \A strictness \in {"balanced", "strict"} :
            outcome = Decision([input EXCEPT !.strictness = strictness])
=============================================================================
