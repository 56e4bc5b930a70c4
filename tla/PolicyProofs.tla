---------------------------- MODULE PolicyProofs ----------------------------
(***************************************************************************)
(* Proofs about Policy: what TLC checks on bounded inputs holds for every  *)
(* set of paths, every list of route rules and every combination of        *)
(* signals.                                                                *)
(***************************************************************************)
EXTENDS Policy, TLAPS

\* evaluate_signals always reaches a decision.
LEMMA EvaluateSignalsType ==
    ASSUME NEW s PROVE EvaluateSignals(s).decision \in Decisions
  BY DEF EvaluateSignals, Verdict, Decisions

\* So does evaluate_dashboard, whatever rule matched.
LEMMA EvaluateDashboardType ==
    ASSUME NEW s, NEW routes, NEW strictness, NEW path
    PROVE  EvaluateDashboard(s, routes, strictness, path) \in Decisions
  <1>1. StrictDecision(EvaluateSignals(s), strictness) \in Decisions
    BY EvaluateSignalsType DEF StrictDecision, Decisions
  <1>2. HumanRoute(s) \in Decisions
    BY DEF HumanRoute, Decisions
  <1> QED
    BY <1>1, <1>2, EvaluateSignalsType DEF EvaluateDashboard, RoutedDecision, Decisions

\* The decision stands for the input it was made for.
DecidedInv == outcome # "pending" => outcome = Decision(input)

LEMMA DecidedInvariant == Spec => [](TypeOK /\ DecidedInv)
  <1>1. Init => TypeOK /\ DecidedInv
    BY InputsAssumption DEF Init, TypeOK, DecidedInv
  <1>2. TypeOK /\ DecidedInv /\ [Next]_vars => (TypeOK /\ DecidedInv)'
    <2> SUFFICES ASSUME TypeOK, DecidedInv, [Next]_vars PROVE (TypeOK /\ DecidedInv)'
      OBVIOUS
    <2>1. CASE Decide
      <3>1. Decision(input) \in Decisions
        BY EvaluateDashboardType DEF Decision
      <3> QED
        BY <2>1, <3>1 DEF Decide, TypeOK, DecidedInv
    <2>2. CASE UNCHANGED vars
      BY <2>2 DEF vars, TypeOK, DecidedInv
    <2> QED
      BY <2>1, <2>2 DEF Next
  <1> QED
    BY <1>1, <1>2, PTL DEF Spec

\* Type correctness of the policy machine.
THEOREM TypeCorrect == Spec => []TypeOK
  BY DecidedInvariant, PTL

-----------------------------------------------------------------------------
\* Without a route decision, a release needs a session or the development token.
LEMMA SignalsRelease ==
    ASSUME NEW s, EvaluateSignals(s).decision = "ALLOW"
    PROVE  ~s.invalid_token /\ (s.valid \/ s.development)
  BY DEF EvaluateSignals, Verdict

\* Protected content is released only to a verified session, the development
\* token or on a public path, for every list of route rules.
THEOREM ReleaseEarned == Spec => []ReleaseIsEarned
  <1>1. TypeOK /\ DecidedInv => ReleaseIsEarned
    <2> SUFFICES ASSUME DecidedInv, AtGateway, outcome = "ALLOW"
                 PROVE  ~Sig.invalid_token
                        /\ (Sig.valid \/ Sig.development \/ Routed = "public")
      BY DEF ReleaseIsEarned
    <2>1. EvaluateDashboard(Sig, input.routes, input.strictness, input.path) = "ALLOW"
      BY DEF DecidedInv, Decision, AtGateway, Sig
    <2>2. CASE Sig.invalid_token
      BY <2>1, <2>2, SignalsRelease DEF EvaluateDashboard, RoutedDecision
    <2>3. CASE ~Sig.invalid_token
      <3>1. HumanRoute(Sig) = "ALLOW" => Sig.valid
        BY DEF HumanRoute
      <3>2. StrictDecision(EvaluateSignals(Sig), input.strictness) = "ALLOW"
                => EvaluateSignals(Sig).decision = "ALLOW"
        BY DEF StrictDecision
      <3> QED
        BY <2>1, <2>3, <3>1, <3>2, SignalsRelease DEF EvaluateDashboard, RoutedDecision, Routed
    <2> QED
      BY <2>2, <2>3
  <1> QED
    BY <1>1, DecidedInvariant, PTL

\* A credential that does not verify blocks, whatever the route rules say.
THEOREM BadCredentialBlocked == Spec => []BadCredentialBlocks
  <1>1. TypeOK /\ DecidedInv => BadCredentialBlocks
    BY DEF BadCredentialBlocks, DecidedInv, Decision, AtGateway, Sig,
           EvaluateDashboard, RoutedDecision, EvaluateSignals, Verdict
  <1> QED
    BY <1>1, DecidedInvariant, PTL

\* No rule can match an empty list.
LEMMA NoRoutes == ASSUME NEW path PROVE MatchedAction(<< >>, path) = "default"
  BY DEF MatchedAction

\* One group of evidence, in any detail, never denies an undeclared client.
THEOREM SingleGroupPasses == Spec => []NoSingleGroupDenial
  <1>1. TypeOK /\ DecidedInv => NoSingleGroupDenial
    <2> SUFFICES ASSUME TypeOK, DecidedInv, outcome # "pending",
                        ~TwoGroups(Sig), Sig.crawler = "unknown",
                        AtVerifier \/ (Sig.valid /\ ~Sig.invalid_token /\ Routed # "block")
                 PROVE  outcome = "ALLOW"
      BY DEF NoSingleGroupDenial, TwoGroups
    <2>1. \A s \in Signals :
            (/\ s.valid /\ ~s.invalid_token /\ s.crawler = "unknown" /\ ~TwoGroups(s))
              => EvaluateSignals(s).decision = "ALLOW"
                 /\ EvaluateSignals(s).reason # "multiple_signal_groups"
      BY DEF EvaluateSignals, Verdict, TwoGroups, Groups, SignalGroups, Signals
    <2>2. Sig \in Signals
      BY DEF TypeOK, InputSpace, Sig
    <2>3. CASE AtVerifier
      <3> DEFINE s == VerifiedSignals(Sig)
      <3>1. /\ s \in Signals /\ s.valid /\ ~s.invalid_token /\ s.crawler = "unknown"
            /\ \A g \in SignalGroups : s[g] = Sig[g]
        BY <2>2 DEF VerifiedSignals, Signals, SignalGroups
      <3>2. ~TwoGroups(s)
        BY <3>1 DEF TwoGroups, Groups
      <3>3. EvaluateDashboard(s, << >>, input.strictness, input.path) = "ALLOW"
        BY <2>1, <3>1, <3>2, NoRoutes DEF EvaluateDashboard, RoutedDecision, StrictDecision
      <3> QED
        BY <2>3, <3>3 DEF DecidedInv, Decision, AtVerifier, Sig
    <2>4. CASE ~AtVerifier
      <3>1. EvaluateDashboard(Sig, input.routes, input.strictness, input.path) = "ALLOW"
        BY <2>1, <2>2, <2>4 DEF EvaluateDashboard, RoutedDecision, StrictDecision, HumanRoute, Routed
      <3> QED
        BY <2>4, <3>1 DEF DecidedInv, Decision, AtVerifier, Sig
    <2> QED
      BY <2>3, <2>4
  <1> QED
    BY <1>1, DecidedInvariant, PTL

\* A consumed challenge is issued a session or denied one, nothing else.
THEOREM VerifierDecides == Spec => []VerifierNeverChallenges
  <1>1. TypeOK /\ DecidedInv => VerifierNeverChallenges
    <2> SUFFICES ASSUME TypeOK, DecidedInv, AtVerifier, outcome # "pending"
                 PROVE  outcome # "CHALLENGE"
      BY DEF VerifierNeverChallenges
    <2> DEFINE s == VerifiedSignals(Sig)
    <2>1. Sig \in Signals
      BY DEF TypeOK, InputSpace, Sig
    <2>2. s.valid
      BY <2>1 DEF VerifiedSignals, Signals
    <2>3. EvaluateSignals(s).decision # "CHALLENGE"
      BY <2>2 DEF EvaluateSignals, Verdict
    <2>4. EvaluateDashboard(s, << >>, input.strictness, input.path) # "CHALLENGE"
      BY <2>3, NoRoutes DEF EvaluateDashboard, RoutedDecision, StrictDecision
    <2> QED
      BY <2>4 DEF DecidedInv, Decision, AtVerifier, Sig
  <1> QED
    BY <1>1, DecidedInvariant, PTL

\* The exits of evaluate_signals that strictness looks for have blocked already.
LEMMA StrictDecisionSame ==
    ASSUME NEW s, NEW strictness
    PROVE  StrictDecision(EvaluateSignals(s), strictness) = EvaluateSignals(s).decision
  BY DEF StrictDecision, EvaluateSignals, Verdict

\* Strictness never changes a decision.
THEOREM StrictnessChangesNothing == Spec => []StrictnessIsInert
  <1>1. TypeOK /\ DecidedInv => StrictnessIsInert
    <2> SUFFICES ASSUME TypeOK, DecidedInv, outcome # "pending",
                        NEW strictness \in {"balanced", "strict"}
                 PROVE  outcome = Decision([input EXCEPT !.strictness = strictness])
      BY DEF StrictnessIsInert
    <2> DEFINE in == [input EXCEPT !.strictness = strictness]
    <2>1. /\ in.endpoint = input.endpoint /\ in.signals = input.signals
          /\ in.routes = input.routes /\ in.path = input.path
      BY DEF TypeOK, InputSpace
    <2>2. \A s, routes, path, a, b :
            EvaluateDashboard(s, routes, a, path) = EvaluateDashboard(s, routes, b, path)
      BY StrictDecisionSame DEF EvaluateDashboard, RoutedDecision
    <2>3. Decision(in) = Decision(input)
      BY <2>1, <2>2 DEF Decision
    <2> QED
      BY <2>3 DEF DecidedInv
  <1> QED
    BY <1>1, DecidedInvariant, PTL

\* Signal s with one more group of evidence.
More(s, g) == [s EXCEPT ![g] = TRUE]

\* A group of evidence touches nothing else the policy reads.
LEMMA MoreEvidence ==
    ASSUME NEW s \in Signals, NEW g \in SignalGroups
    PROVE  /\ More(s, g) \in Signals
           /\ \A f \in {"invalid_token", "development", "valid", "crawler",
                        "browser_navigation"} : More(s, g)[f] = s[f]
           /\ \A h \in SignalGroups : s[h] => More(s, g)[h]
  BY DEF More, Signals, SignalGroups

\* The signals alone never decide better with one more group.
LEMMA SignalsNeverHelp ==
    ASSUME NEW s \in Signals, NEW t \in Signals,
           \A f \in {"invalid_token", "development", "valid", "crawler",
                     "browser_navigation"} : t[f] = s[f],
           \A h \in SignalGroups : s[h] => t[h]
    PROVE  \/ EvaluateSignals(t).decision = EvaluateSignals(s).decision
           \/ EvaluateSignals(t).decision = "BLOCK"
  <1>1. TwoGroups(s) => TwoGroups(t)
    BY DEF TwoGroups, Groups
  <1>2. (s.activated => t.activated) /\ (s.burst => t.burst)
    BY DEF SignalGroups
  <1>3. /\ t.invalid_token = s.invalid_token /\ t.development = s.development
        /\ t.valid = s.valid /\ t.crawler = s.crawler
        /\ t.browser_navigation = s.browser_navigation
    OBVIOUS
  <1>4. CASE TwoGroups(t) \/ (t.activated /\ t.burst)
    BY <1>3, <1>4, Zenon DEF EvaluateSignals, Verdict
  <1>5. CASE ~TwoGroups(t) /\ ~(t.activated /\ t.burst)
    BY <1>1, <1>2, <1>3, <1>5 DEF EvaluateSignals, Verdict
  <1> QED
    BY <1>4, <1>5

\* Nor do the route rules make more of it.
LEMMA RulesNeverHelp ==
    ASSUME NEW s \in Signals, NEW t \in Signals, NEW routes, NEW strictness, NEW path,
           \A f \in {"invalid_token", "development", "valid", "crawler",
                     "browser_navigation"} : t[f] = s[f],
           \A h \in SignalGroups : s[h] => t[h]
    PROVE  LET d == EvaluateDashboard(s, routes, strictness, path)
               e == EvaluateDashboard(t, routes, strictness, path)
           IN  e = d \/ e = "BLOCK"
  <1>1. /\ t.invalid_token = s.invalid_token /\ t.valid = s.valid
        /\ HumanRoute(t) = HumanRoute(s)
    BY DEF HumanRoute
  <1>2. \A u : u.invalid_token => EvaluateSignals(u).decision = "BLOCK"
    BY DEF EvaluateSignals, Verdict
  <1> QED
    BY <1>1, <1>2, SignalsNeverHelp, StrictDecisionSame DEF EvaluateDashboard, RoutedDecision

\* More evidence never helps, at either endpoint.
THEOREM MoreEvidenceNeverHelps == Spec => []EvidenceNeverHelps
  <1>1. TypeOK /\ DecidedInv => EvidenceNeverHelps
    <2> SUFFICES ASSUME TypeOK, DecidedInv, outcome # "pending", NEW g \in SignalGroups
                 PROVE  Rank[Decision([input EXCEPT !.signals = More(Sig, g)])] <= Rank[outcome]
      BY DEF EvidenceNeverHelps, More
    <2> DEFINE in == [input EXCEPT !.signals = More(Sig, g)]
    <2>1. /\ in.endpoint = input.endpoint /\ in.signals = More(Sig, g)
          /\ in.routes = input.routes /\ in.path = input.path
          /\ in.strictness = input.strictness
      BY DEF TypeOK, InputSpace
    <2>2. Sig \in Signals /\ input.signals = Sig
      BY DEF TypeOK, InputSpace, Sig
    <2>3. Decision(in) = outcome \/ Decision(in) = "BLOCK"
      <3>1. CASE input.endpoint = "verify"
        <4> DEFINE s == VerifiedSignals(Sig)
                   t == VerifiedSignals(More(Sig, g))
        <4>1. /\ s \in Signals /\ t \in Signals
              /\ \A f \in {"invalid_token", "development", "valid", "crawler",
                           "browser_navigation"} : t[f] = s[f]
              /\ \A h \in SignalGroups : s[h] => t[h]
          <5>1. \A u \in Signals :
                  /\ VerifiedSignals(u) \in Signals
                  /\ VerifiedSignals(u).valid /\ ~VerifiedSignals(u).invalid_token
                  /\ ~VerifiedSignals(u).development
                  /\ VerifiedSignals(u).crawler = u.crawler
                  /\ VerifiedSignals(u).browser_navigation = u.browser_navigation
                  /\ \A h \in SignalGroups : VerifiedSignals(u)[h] = u[h]
            BY DEF VerifiedSignals, Signals, SignalGroups
          <5>2. More(Sig, g) \in Signals
            BY <2>2, MoreEvidence
          <5>3. t.valid = s.valid /\ t.invalid_token = s.invalid_token
                /\ t.development = s.development
            BY <2>2, <5>2 DEF VerifiedSignals, Signals
          <5> QED
            BY <2>2, <5>1, <5>2, <5>3, MoreEvidence
        <4>2. LET d == EvaluateDashboard(s, << >>, input.strictness, input.path)
                  e == EvaluateDashboard(t, << >>, input.strictness, input.path)
              IN  e = d \/ e = "BLOCK"
          BY <4>1, RulesNeverHelp
        <4> QED
          BY <2>1, <2>2, <3>1, <4>2 DEF Decision, DecidedInv
      <3>2. CASE input.endpoint # "verify"
        <4>1. LET d == EvaluateDashboard(Sig, input.routes, input.strictness, input.path)
                  e == EvaluateDashboard(More(Sig, g), input.routes, input.strictness, input.path)
              IN  e = d \/ e = "BLOCK"
          BY <2>2, MoreEvidence, RulesNeverHelp
        <4> QED
          BY <2>1, <2>2, <3>2, <4>1 DEF Decision, DecidedInv
      <3> QED
        BY <3>1, <3>2
    <2>4. outcome \in Decisions
      BY DEF TypeOK
    <2> QED
      BY <2>3, <2>4 DEF Rank, Decisions
  <1> QED
    BY <1>1, DecidedInvariant, PTL
=============================================================================
