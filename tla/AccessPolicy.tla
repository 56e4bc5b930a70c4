---------------------------- MODULE AccessPolicy ----------------------------
(***************************************************************************)
(* The access policy of the gateway, evaluate_signals and                  *)
(* evaluate_dashboard, as pure operators.  Signals keep what the decision  *)
(* reads; reason texts are reduced to the last reason of each exit, the    *)
(* only one a later step looks at.                                         *)
(***************************************************************************)
EXTENDS Naturals, Sequences, FiniteSets

CONSTANT Paths      \* request paths the route rules can tell apart

Decisions == {"ALLOW", "CHALLENGE", "BLOCK"}
Crawlers == {"ai", "search", "automation", "unknown"}
RouteActions == {"default", "block", "verified", "public", "human"}
Phases == {"none", "before_verification", "after_verification_started"}

\* The signals collect_signals builds, reduced to what the policy reads.
Signals ==
    [invalid_token : BOOLEAN, development : BOOLEAN, valid : BOOLEAN,
     crawler : Crawlers, activated : BOOLEAN, phase : Phases,
     replays : Nat, families : Nat, burst : BOOLEAN,
     header_inconsistent : BOOLEAN, webdriver : BOOLEAN,
     browser_navigation : BOOLEAN]

RouteRule == [pattern : SUBSET Paths, action : RouteActions]

-----------------------------------------------------------------------------
\* The independent groups of evidence evaluate_signals counts.
SignalGroups == {"activated", "burst", "header_inconsistent", "webdriver"}

Groups(s) == {g \in SignalGroups : s[g]}

\* Slips in counting the groups: exactly two, more than two, and trap families
\* counted as a group.
ExactlyTwoGroups(s) == Cardinality(Groups(s)) = 2
ThreeGroups(s) == Cardinality(Groups(s)) > 2
TwoGroupsOrFamilies(s) == Cardinality(Groups(s)) > 1 \/ s.families > 1

TwoGroups(s) == \E g, h \in Groups(s) : g # h

Verdict(decision, reason) == [decision |-> decision, reason |-> reason]

\* evaluate_signals: the first exit that applies, in the order of the code.
EvaluateSignals(s) ==
    IF s.invalid_token THEN Verdict("BLOCK", "invalid_session")
    ELSE IF s.development THEN Verdict("ALLOW", "valid_development_token")
    ELSE IF s.crawler \in {"ai", "automation"}
         THEN Verdict("BLOCK", "disallowed_crawler")
    ELSE IF s.activated /\ s.burst
         THEN Verdict("BLOCK", "combined_automation_evidence")
    ELSE IF TwoGroups(s) THEN Verdict("BLOCK", "multiple_signal_groups")
    ELSE IF s.valid THEN Verdict("ALLOW", "valid_verified_session")
    ELSE IF s.browser_navigation
         THEN Verdict("CHALLENGE", "transparent_session_bootstrap")
    ELSE Verdict("BLOCK", "missing_browser_navigation")

\* The action of the first route rule whose pattern matches; "default", which
\* leaves the loop, also stands for no rule matching.
MatchedAction(routes, path) ==
    LET hits == {i \in DOMAIN routes : path \in routes[i].pattern}
    IN  IF hits = {} THEN "default"
        ELSE routes[CHOOSE i \in hits : \A j \in hits : i <= j].action

HumanRoute(s) ==
    IF s.crawler \in {"ai", "search", "automation"} THEN "BLOCK"
    ELSE IF s.valid THEN "ALLOW"
    ELSE IF s.browser_navigation THEN "CHALLENGE"
    ELSE "BLOCK"

StrictDecision(verdict, strictness) ==
    IF strictness = "strict" /\ verdict.reason = "multiple_signal_groups"
    THEN "BLOCK" ELSE verdict.decision

\* evaluate_dashboard once the route's action is known: an invalid token is
\* final, then the route rule decides, then the signals (and strictness) do.
RoutedDecision(s, action, strictness) ==
    LET verdict == EvaluateSignals(s)
    IN  IF s.invalid_token THEN verdict.decision
        ELSE CASE action = "block" -> "BLOCK"
               [] action = "public" -> "ALLOW"
               [] action = "verified" -> IF s.valid THEN "ALLOW" ELSE "BLOCK"
               [] action = "human" -> HumanRoute(s)
               [] OTHER -> StrictDecision(verdict, strictness)

\* Slip: a public rule counts wherever it matches.
AnyPublicRule(s, routes, strictness, path) ==
    IF \E i \in DOMAIN routes : path \in routes[i].pattern /\ routes[i].action = "public"
    THEN RoutedDecision(s, "public", strictness)
    ELSE RoutedDecision(s, MatchedAction(routes, path), strictness)

EvaluateDashboard(s, routes, strictness, path) ==
    RoutedDecision(s, MatchedAction(routes, path), strictness)

\* Slip: the credential is cleared, the session not marked valid.
CredentialCleared(s) == [s EXCEPT !.invalid_token = FALSE, !.development = FALSE]

\* What /challenge/verify does to the signals of a consumed challenge before
\* it asks for a decision.
VerifiedSignals(s) ==
    [s EXCEPT !.valid = TRUE, !.invalid_token = FALSE, !.development = FALSE]
=============================================================================
