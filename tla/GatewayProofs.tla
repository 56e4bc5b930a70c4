---------------------------- MODULE GatewayProofs ----------------------------
(***************************************************************************)
(* Proofs about Gateway for any number of sessions and of requests in      *)
(* flight: type correctness, then one inductive invariant from which the   *)
(* properties on access, verdicts, revocation and evidence follow.         *)
(***************************************************************************)
EXTENDS Gateway, TLAPS

-----------------------------------------------------------------------------
\* The decision at the gateway is one of the three it acts on, and content that
\* no rule makes public needs a valid session.
LEMMA DecisionType ==
    ASSUME NEW h \in Handlers, req[h].route \in Access!RouteActions
    PROVE  GatewayDecision(h) \in {"ALLOW", "BLOCK", "CHALLENGE"}
  BY DEF GatewayDecision, Access!RoutedDecision, Access!EvaluateSignals, Access!HumanRoute,
         Access!StrictDecision, Access!Verdict, Access!RouteActions, SignalsOf

LEMMA AllowNeedsValid ==
    ASSUME NEW h \in Handlers, req[h].route \in Access!RouteActions \ {"public"},
           GatewayDecision(h) = "ALLOW", local[h].valid \in BOOLEAN
    PROVE  local[h].valid
  BY DEF GatewayDecision, Access!RoutedDecision, Access!EvaluateSignals, Access!HumanRoute,
         Access!StrictDecision, Access!Verdict, Access!RouteActions, SignalsOf

\* What a handler writes keeps the types of the tables it writes to.
LEMMA UpdateType ==
    ASSUME NEW s, NEW record, TypeOK, Update(s, record),
           Kept(s) => record \in Evidences
    PROVE  evidence' \in [Sessions -> Evidences]
  BY DEF Update, Kept, TypeOK

LEMMA KeptType ==
    ASSUME TypeOK, NEW s
    PROVE  Kept(s) => evidence[s] \in Evidences
  BY DEF Kept, TypeOK

\* Cookies and tokens that requests carry name sessions that exist.
LEMMA CookieType == TypeOK => Known \subseteq AnySession /\ TokenCookie \subseteq AnySession
  BY DEF Known, TokenCookie, AnySession, TypeOK, Locals

LEMMA RequestType ==
    ASSUME TypeOK, NEW h \in Handlers
    PROVE  RequestsOf(KindOf[h]) \subseteq Requests
<1>1. Known \subseteq AnySession /\ TokenCookie \subseteq AnySession
  BY CookieType
<1>2. NoRequest \in Requests
  BY DEF NoRequest, Requests, AnySession, Access!RouteActions
<1>3. Cookie \subseteq AnySession /\ NoSession \in AnySession
  BY <1>1 DEF Cookie, AnySession
<1>4. \A fact : Maybe(fact, TRUE) \subseteq BOOLEAN /\ Maybe(fact, FALSE) \subseteq BOOLEAN
  BY DEF Maybe
<1>5. Routes \subseteq Access!RouteActions /\ "default" \in Access!RouteActions
  BY HandlerAssumption DEF Access!RouteActions
<1>6. VerifyRequests \subseteq Requests
  BY <1>1, <1>3, <1>4, <1>5 DEF VerifyRequests, Requests
<1>7. TrapRequests \subseteq Requests
  BY <1>1, <1>3, <1>5 DEF TrapRequests, Requests
<1>8. GetRequests \subseteq Requests
  BY <1>1, <1>3, <1>4, <1>5 DEF GetRequests, Requests
<1> QED
  BY <1>2, <1>6, <1>7, <1>8, HandlerAssumption DEF RequestsOf, Kinds

LEMMA InitType == Init => TypeOK
  BY TimeAssumption, HandlerAssumption
     DEF Init, TypeOK, NoChallenge, NoEvidence, Evidences, NoRequest, Requests, NoLocal, Locals,
         AnySession, PCs, Access!RouteActions

-----------------------------------------------------------------------------
LEMMA StepType == TypeOK /\ [Next]_vars => TypeOK'
<1> SUFFICES ASSUME TypeOK, Next PROVE TypeOK'
  BY DEF TypeOK, vars
<1>1. ASSUME NEW h \in Handlers, Serve(h) PROVE TypeOK'
  <2> USE DEF Goto
  <2>0. local[h] \in Locals /\ req[h] \in Requests /\ KindOf[h] \in Kinds
    BY HandlerAssumption DEF TypeOK
  <2>a. now \in Nat /\ now + Lifetime \in Nat
    BY TimeAssumption DEF TypeOK
  <2>1. CASE Arrive(h)
    <3>1. req' \in [Handlers -> Requests]
      BY <2>1, RequestType DEF Arrive, TypeOK
    <3>2. local' \in [Handlers -> Locals]
      BY <2>1, <2>0 DEF Arrive, TypeOK, Locals, Trapped, Automated
    <3>3. pc' \in [Handlers -> PCs]
      BY <2>1, <2>0 DEF Arrive, TypeOK, PCs, FirstStep, Kinds
    <3> QED
      BY <2>1, <3>1, <3>2, <3>3 DEF Arrive, TypeOK
  <2>2. CASE Mint(h)
    <3>1. PICK s \in Sessions :
             /\ challenge' = [challenge EXCEPT ![s] = [state |-> "open", born |-> now]]
             /\ local' = [local EXCEPT ![h].session = s]
      BY <2>2 DEF Mint
    <3>2. local' \in [Handlers -> Locals]
      BY <3>1, <2>0 DEF TypeOK, Locals, AnySession
    <3>3. challenge' \in [Sessions -> [state : {"none", "open", "spent"}, born : Nat]]
      BY <3>1 DEF TypeOK
    <3> QED
      BY <2>2, <3>2, <3>3 DEF Mint, TypeOK, PCs
  <2>3. CASE Create(h)
    BY <2>3 DEF Create, TypeOK, NoEvidence, Evidences, PCs
  <2>4. CASE Expose(h)
    <3>1. Kept(local[h].session) =>
            [evidence[local[h].session] EXCEPT !.exposed = TRUE] \in Evidences
      BY KeptType DEF Evidences
    <3>2. evidence' \in [Sessions -> Evidences]
      BY <2>4, <3>1, UpdateType DEF Expose
    <3> QED
      BY <2>4, <3>2 DEF Expose, TypeOK, PCs, Terminal
  <2>5. CASE Identify(h)
    BY <2>5, <2>0 DEF Identify, TypeOK, Locals, Requests, PCs, Verified, AnySession
  <2>6. CASE Touch(h)
    <3>1. CASE UNCHANGED evidence
      BY <2>6, <3>1 DEF Touch, TypeOK, PCs, Terminal
    <3>2. CASE Update(local[h].session, [evidence[local[h].session] EXCEPT !.activated = TRUE])
      <4>1. Kept(local[h].session) =>
              [evidence[local[h].session] EXCEPT !.activated = TRUE] \in Evidences
        BY KeptType DEF Evidences
      <4>2. evidence' \in [Sessions -> Evidences]
        BY <3>2, <4>1, UpdateType
      <4> QED
        BY <2>6, <4>2 DEF Touch, TypeOK, PCs, Terminal
    <3> QED
      BY <2>6, <3>1, <3>2 DEF Touch, TypeOK, PCs, Terminal
  <2>7. CASE Submitted(h)
    BY <2>7, <2>0 DEF Submitted, TypeOK, Locals, Requests, PCs
  <2>8. CASE Consume(h)
    <3>1. pc' \in [Handlers -> PCs]
      BY <2>8 DEF Consume, TypeOK, PCs
    <3>2. CASE Spends(h)
      <4>1. challenge' = [challenge EXCEPT ![req[h].target].state = "spent"]
        BY <2>8, <3>2 DEF Consume
      <4>2. challenge' \in [Sessions -> [state : {"none", "open", "spent"}, born : Nat]]
        BY <4>1 DEF TypeOK
      <4>3. local' = [local EXCEPT ![h] = [@ EXCEPT !.taken = TRUE, !.takenAt = now]]
        BY <2>8, <3>2 DEF Consume
      <4>4. [local[h] EXCEPT !.taken = TRUE, !.takenAt = now] \in Locals
        BY <2>0 DEF TypeOK, Locals
      <4>5. local' \in [Handlers -> Locals]
        BY <4>3, <4>4 DEF TypeOK
      <4> QED
        BY <2>8, <3>1, <4>2, <4>5 DEF Consume, TypeOK
    <3>3. CASE ~Spends(h)
      BY <2>8, <3>1, <3>3 DEF Consume, TypeOK
    <3> QED
      BY <3>2, <3>3
  <2>9. CASE Reject(h)
    BY <2>9 DEF Reject, TypeOK, PCs, Terminal
  <2>10. CASE Report(h)
    <3>1. Kept(local[h].session) =>
            [evidence[local[h].session] EXCEPT !.webdriver = req[h].webdriver] \in Evidences
      BY <2>0, KeptType DEF Evidences, Requests
    <3>2. evidence' \in [Sessions -> Evidences]
      BY <2>10, <3>1, UpdateType DEF Report
    <3> QED
      BY <2>10, <3>2 DEF Report, TypeOK, PCs
  <2>11. CASE Check(h)
    <3>1. SessionLive(Verified(h)) \in BOOLEAN /\ Verified(h) \in AnySession
      BY <2>0 DEF SessionLive, Verified, AnySession, Requests
    <3>2. local' \in [Handlers -> Locals]
      BY <2>11, <2>0, <3>1 DEF Check, TypeOK, Locals, Requests
    <3> QED
      BY <2>11, <3>2 DEF Check, TypeOK, PCs
  <2>12. CASE Observe(h)
    <3>1. CASE Kept(local[h].session)
      <4>1. PICK n \in StillCounted(local[h].session) :
                LET count == IF n > BurstLimit THEN n ELSE n + 1 IN
                /\ Update(local[h].session, [evidence[local[h].session] EXCEPT
                                                !.at = now, !.observed = count])
                /\ local' = [local EXCEPT ![h].burst = count > BurstLimit]
        BY <2>12, <3>1 DEF Observe
      <4>2. n \in Nat
        BY <3>1 DEF StillCounted, Kept, TypeOK, Evidences
      <4>3. PICK count \in Nat : count = IF n > BurstLimit THEN n ELSE n + 1
        BY <4>2
      <4>4. evidence' \in [Sessions -> Evidences]
        <5>1. [evidence[local[h].session] EXCEPT !.at = now, !.observed = count] \in Evidences
          <6>1. now \in Nat /\ evidence[local[h].session] \in Evidences
            BY <3>1, KeptType DEF TypeOK
          <6> QED
            BY <4>3, <6>1 DEF Evidences
        <5>2. Update(local[h].session, [evidence[local[h].session] EXCEPT
                                          !.at = now, !.observed = count])
          BY <4>1, <4>3
        <5> QED
          BY <5>1, <5>2, UpdateType
      <4>5. local' \in [Handlers -> Locals]
        <5>1. local' = [local EXCEPT ![h].burst = count > BurstLimit]
          BY <4>1, <4>3
        <5>2. (count > BurstLimit) \in BOOLEAN
          OBVIOUS
        <5>3. [local[h] EXCEPT !.burst = count > BurstLimit] \in Locals
          BY <2>0, <5>2 DEF Locals
        <5> QED
          BY <5>1, <5>3 DEF TypeOK
      <4> QED
        BY <2>12, <4>4, <4>5 DEF Observe, TypeOK, PCs
    <3>2. CASE ~Kept(local[h].session)
      BY <2>12, <3>2 DEF Observe, TypeOK, PCs
    <3> QED
      BY <3>1, <3>2
  <2>13. CASE Look(h)
    <3>1. local' \in [Handlers -> Locals]
      BY <2>13, <2>0 DEF Look, TypeOK, Locals, Kept, Evidences
    <3> QED
      BY <2>13, <3>1 DEF Look, TypeOK, PCs
  <2>14. CASE ConfigureVerifier(h)
    BY <2>14 DEF ConfigureVerifier, TypeOK, PCs
  <2>15. CASE Issue(h)
    <3>1. session' \in [Sessions -> Nat]
      BY <2>15, <2>a DEF Issue, TypeOK
    <3>2. local' \in [Handlers -> Locals]
      BY <2>15, <2>0 DEF Issue, TypeOK, Locals
    <3> QED
      BY <2>15, <3>1, <3>2 DEF Issue, TypeOK, PCs
  <2>16. CASE Conclude(h)
    BY <2>16, <2>a DEF Conclude, TypeOK, PCs, Terminal
  <2>17. CASE Configure(h)
    BY <2>17 DEF Configure, TypeOK, PCs
  <2>18. CASE Decide(h)
    BY <2>18, <2>0, DecisionType DEF Decide, TypeOK, PCs, Terminal, Requests
  <2> QED
    BY <1>1, <2>1, <2>2, <2>3, <2>4, <2>5, <2>6, <2>7, <2>8, <2>9, <2>10, <2>11, <2>12,
       <2>13, <2>14, <2>15, <2>16, <2>17, <2>18 DEF Serve
<1>2. ASSUME NEW h \in Handlers, Fail(h) PROVE TypeOK'
  BY <1>2 DEF Fail, Goto, TypeOK, PCs, Terminal
<1>3. ASSUME NEW s \in Sessions, Revoke(s) PROVE TypeOK'
  BY <1>3 DEF Revoke, TypeOK
<1>4. CASE Tick
  BY <1>4 DEF Tick, TypeOK
<1> QED
  BY <1>1, <1>2, <1>3, <1>4 DEF Next

\* The gateway's tables stay well typed, for any set of requests in flight.
THEOREM TypeCorrect == Spec => []TypeOK
  BY InitType, StepType, PTL DEF Spec

-----------------------------------------------------------------------------
(***************************************************************************)
(* The inductive invariant.  The properties speak of sessions and content; *)
(* what makes them hold is where each handler stands, that an attempt on a *)
(* challenge is the only one and succeeded before it went on, and that     *)
(* whatever exists in the session table or was handed out as a token goes  *)
(* back to such an attempt.                                                *)
(***************************************************************************)
Place(h) ==
    /\ KindOf[h] = "issue" =>
           pc[h] \in {"arrive", "mint", "create", "expose", "answered", "failed"}
    /\ KindOf[h] = "trap" => pc[h] \in {"arrive", "identify", "touch", "answered", "failed"}
    /\ KindOf[h] = "verify" =>
           pc[h] \in {"arrive", "submitted", "consume", "failure", "refused", "report",
                      "observe", "look", "configure", "issue", "conclude", "verified", "failed"}
    /\ KindOf[h] = "get" =>
           pc[h] \in {"arrive", "configure", "check", "observe", "look", "proxy", "released",
                      "blocked", "challenged", "failed"}

\* Nothing is minted in the future, and the evidence of a session whose id was
\* told to a browser is not older than its challenge.
Born(s) == challenge[s].born <= now

Minted(s) == s \in Sessions /\ challenge[s].state # "none"

Told(s) == Minted(s) /\ evidence[s].created >= challenge[s].born

Telling(h) ==
    /\ (KindOf[h] = "issue" /\ pc[h] \in {"create", "expose", "answered"}) =>
           Minted(local[h].session)
    /\ (KindOf[h] = "issue" /\ pc[h] \in {"expose", "answered"}) => Told(local[h].session)
    /\ (KindOf[h] = "verify" /\ pc[h] # "arrive") => Told(req[h].target)

\* The verifier is past its challenge.
Winning == {"report", "observe", "look", "configure", "issue", "conclude", "verified"}

\* The attempt with the right nonce and in time on the bound session's challenge.
Won(v) ==
    /\ local[v].taken /\ req[v].nonce
    /\ local[v].takenAt < challenge[req[v].target].born + Lifetime

Attempt(v) ==
    /\ pc[v] \in {"arrive", "submitted", "consume"} => ~local[v].taken
    /\ pc[v] = "consume" => local[v].session = req[v].binding
    /\ local[v].taken =>
           /\ req[v].target \in Sessions
           /\ req[v].binding = req[v].target /\ local[v].session = req[v].target
           /\ challenge[req[v].target].state = "spent"
           /\ local[v].takenAt <= now
    /\ pc[v] \in Winning => Won(v)
    /\ local[v].issued =>
           /\ Won(v) /\ pc[v] \in {"conclude", "verified", "failed"}
           /\ local[v].takenAt <= local[v].issuedAt /\ local[v].issuedAt <= now
    /\ pc[v] \in {"conclude", "verified"} => local[v].issued

\* A challenge is taken by one attempt.
Sole(v, w) ==
    (local[v].taken /\ local[w].taken /\ req[v].target = req[w].target) => v = w

\* Verifier v issued the session s.
Issued(v, s) == local[v].issued /\ req[v].target = s

Fruit(s) ==
    /\ session[s] # 0 =>
           \E v \in Verifiers : Issued(v, s) /\ session[s] = local[v].issuedAt + Lifetime
    /\ token[s] # 0 => \E v \in Verifiers : Issued(v, s)
    /\ revoked[s] => session[s] = 0 /\ \E v \in Verifiers : Issued(v, s)

\* A protected request that found a valid session found one that was issued.
Reader(g) ==
    /\ pc[g] = "arrive" => ~local[g].valid
    /\ Protected(g) => local[g].valid
    /\ local[g].valid =>
           \E v \in Verifiers :
               /\ Issued(v, req[g].token)
               /\ local[v].issuedAt <= local[g].checkedAt
               /\ local[g].checkedAt < local[v].issuedAt + Lifetime

IInv ==
    /\ TypeOK
    /\ \A h \in Handlers : Place(h) /\ Telling(h)
    /\ \A s \in Sessions : Born(s)
    /\ \A v \in Verifiers : Attempt(v)
    /\ \A v, w \in Verifiers : Sole(v, w)
    /\ \A s \in Sessions : Fruit(s)
    /\ \A g \in Getters : Reader(g)

-----------------------------------------------------------------------------
\* A step of one handler leaves the others where they are.
LEMMA Frame ==
    ASSUME TypeOK, NEW h \in Handlers, Serve(h) \/ Fail(h), NEW g \in Handlers, g # h
    PROVE  pc'[g] = pc[g] /\ req'[g] = req[g] /\ local'[g] = local[g]
<1> USE DEF TypeOK, Goto
<1>1. CASE Fail(h)
  BY <1>1 DEF Fail
<1>2. CASE Arrive(h) \/ Mint(h) \/ Create(h) \/ Expose(h)
  BY <1>2 DEF Arrive, Mint, Create, Expose
<1>3. CASE Identify(h) \/ Touch(h) \/ Submitted(h) \/ Consume(h) \/ Reject(h) \/ Report(h)
  BY <1>3 DEF Identify, Touch, Submitted, Consume, Reject, Report
<1>4. CASE Check(h) \/ Observe(h) \/ Look(h)
  BY <1>4 DEF Check, Observe, Look
<1>5. CASE ConfigureVerifier(h) \/ Issue(h) \/ Conclude(h) \/ Configure(h) \/ Decide(h)
  BY <1>5 DEF ConfigureVerifier, Issue, Conclude, Configure, Decide
<1> QED
  BY <1>1, <1>2, <1>3, <1>4, <1>5 DEF Serve

\* Time, challenges and evidence only move forward.
LEMMA Forward ==
    ASSUME TypeOK, \A s \in Sessions : Born(s), Next
    PROVE  /\ now <= now'
           /\ \A s \in Sessions :
                  /\ Born(s)'
                  /\ Minted(s) => Minted(s)' /\ challenge'[s].born = challenge[s].born
                  /\ challenge[s].state = "spent" => challenge'[s].state = "spent"
                  /\ Told(s) => Told(s)'
<1>1. ASSUME challenge' = challenge, evidence' = evidence, now <= now',
             now' \in Nat
      PROVE  \A s \in Sessions :
                  /\ Born(s)'
                  /\ Minted(s) => Minted(s)' /\ challenge'[s].born = challenge[s].born
                  /\ challenge[s].state = "spent" => challenge'[s].state = "spent"
                  /\ Told(s) => Told(s)'
  BY <1>1 DEF Born, Minted, Told, TypeOK
<1>2. ASSUME challenge' = challenge, now' = now,
             \A s \in Sessions : evidence'[s].created \in {evidence[s].created, now}
      PROVE  \A s \in Sessions :
                  /\ Born(s)'
                  /\ Minted(s) => Minted(s)' /\ challenge'[s].born = challenge[s].born
                  /\ challenge[s].state = "spent" => challenge'[s].state = "spent"
                  /\ Told(s) => Told(s)'
  BY <1>2 DEF Born, Minted, Told, TypeOK
<1>3. ASSUME NEW t, NEW r, Update(t, r), Kept(t) => r.created = evidence[t].created
      PROVE  \A s \in Sessions : evidence'[s].created \in {evidence[s].created, now}
  BY <1>3 DEF Update, Kept, TypeOK
<1>4. now \in Nat
  BY DEF TypeOK
<1>5. ASSUME NEW h \in Handlers, Serve(h)
      PROVE  /\ now <= now'
             /\ \A s \in Sessions :
                  /\ Born(s)'
                  /\ Minted(s) => Minted(s)' /\ challenge'[s].born = challenge[s].born
                  /\ challenge[s].state = "spent" => challenge'[s].state = "spent"
                  /\ Told(s) => Told(s)'
  <2>1. CASE Arrive(h) \/ Identify(h) \/ Submitted(h) \/ Reject(h) \/ Check(h) \/ Look(h)
    BY <2>1, <1>1, <1>4 DEF Arrive, Identify, Submitted, Reject, Check, Look
  <2>2. CASE ConfigureVerifier(h) \/ Issue(h) \/ Conclude(h) \/ Configure(h) \/ Decide(h)
    BY <2>2, <1>1, <1>4 DEF ConfigureVerifier, Issue, Conclude, Configure, Decide
  <2>3. CASE Mint(h)
    BY <2>3, <1>4 DEF Mint, Born, Minted, Told, TypeOK
  <2>4. CASE Create(h)
    <3>1. \A s \in Sessions : evidence'[s].created \in {evidence[s].created, now}
      BY <2>4 DEF Create, NoEvidence, TypeOK
    <3> QED
      BY <2>4, <3>1, <1>2, <1>4 DEF Create
  <2>5. CASE Expose(h)
    <3>1. Kept(local[h].session) =>
             [evidence[local[h].session] EXCEPT !.exposed = TRUE].created
               = evidence[local[h].session].created
      BY DEF Kept, TypeOK, Evidences
    <3>2. \A s \in Sessions : evidence'[s].created \in {evidence[s].created, now}
      BY <2>5, <3>1, <1>3 DEF Expose
    <3> QED
      BY <2>5, <3>2, <1>2, <1>4 DEF Expose
  <2>6. CASE Touch(h)
    <3>1. Kept(local[h].session) =>
             [evidence[local[h].session] EXCEPT !.activated = TRUE].created
               = evidence[local[h].session].created
      BY DEF Kept, TypeOK, Evidences
    <3>2. CASE evidence' = evidence
      BY <2>6, <3>2, <1>1, <1>4 DEF Touch
    <3>3. CASE Update(local[h].session, [evidence[local[h].session] EXCEPT !.activated = TRUE])
      <4>1. \A s \in Sessions : evidence'[s].created \in {evidence[s].created, now}
        BY <3>3, <3>1, <1>3
      <4> QED
        BY <2>6, <4>1, <1>2, <1>4 DEF Touch
    <3> QED
      BY <2>6, <3>2, <3>3 DEF Touch
  <2>7. CASE Consume(h)
    <3>1. evidence' = evidence /\ now' = now
      BY <2>7 DEF Consume
    <3>2. \A s \in Sessions :
             /\ challenge'[s].born = challenge[s].born
             /\ challenge'[s].state \in {challenge[s].state, "spent"}
      BY <2>7 DEF Consume, TypeOK
    <3> QED
      BY <3>1, <3>2, <1>4 DEF Born, Minted, Told, TypeOK
  <2>8. CASE Report(h)
    <3>1. Kept(local[h].session) =>
             [evidence[local[h].session] EXCEPT !.webdriver = req[h].webdriver].created
               = evidence[local[h].session].created
      BY DEF Kept, TypeOK, Evidences
    <3>2. \A s \in Sessions : evidence'[s].created \in {evidence[s].created, now}
      BY <2>8, <3>1, <1>3 DEF Report
    <3> QED
      BY <2>8, <3>2, <1>2, <1>4 DEF Report
  <2>9. CASE Observe(h)
    <3>1. ASSUME NEW n
          PROVE  Kept(local[h].session) =>
                   [evidence[local[h].session] EXCEPT !.at = now, !.observed = n].created
                     = evidence[local[h].session].created
      BY DEF Kept, TypeOK, Evidences
    <3>2. evidence' = evidence \/
          \E n : Update(local[h].session,
                        [evidence[local[h].session] EXCEPT !.at = now, !.observed = n])
      BY <2>9 DEF Observe
    <3>3. \A s \in Sessions : evidence'[s].created \in {evidence[s].created, now}
      BY <3>1, <3>2, <1>3
    <3>4. challenge' = challenge /\ now' = now
      BY <2>9 DEF Observe
    <3> QED
      BY <3>3, <3>4, <1>2, <1>4
  <2> QED
    BY <1>5, <2>1, <2>2, <2>3, <2>4, <2>5, <2>6, <2>7, <2>8, <2>9 DEF Serve
<1>6. ASSUME NEW h \in Handlers, Fail(h)
      PROVE  challenge' = challenge /\ evidence' = evidence /\ now' = now
  BY <1>6 DEF Fail
<1>7. ASSUME NEW s \in Sessions, Revoke(s)
      PROVE  challenge' = challenge /\ evidence' = evidence /\ now' = now
  BY <1>7 DEF Revoke
<1>8. ASSUME Tick
      PROVE  challenge' = challenge /\ evidence' = evidence /\ now <= now' /\ now' \in Nat
  BY <1>8, <1>4 DEF Tick
<1> QED
  BY <1>1, <1>4, <1>5, <1>6, <1>7, <1>8 DEF Next

-----------------------------------------------------------------------------
\* Where each action starts and ends.
LEMMA Moves ==
    ASSUME TypeOK, NEW h \in Handlers
    PROVE  /\ Fail(h) => pc[h] \notin Terminal \cup {"arrive"} /\ pc'[h] = "failed"
           /\ Arrive(h) => pc[h] = "arrive" /\ pc'[h] = FirstStep[KindOf[h]]
           /\ Mint(h) => pc[h] = "mint" /\ pc'[h] = "create"
           /\ Create(h) => pc[h] = "create" /\ pc'[h] = "expose"
           /\ Expose(h) => pc[h] = "expose" /\ pc'[h] = "answered"
           /\ Identify(h) => pc[h] = "identify" /\ pc'[h] = "touch"
           /\ Touch(h) => pc[h] = "touch" /\ pc'[h] = "answered"
           /\ Submitted(h) => pc[h] = "submitted" /\ pc'[h] \in {"consume", "failure"}
           /\ Consume(h) => pc[h] = "consume" /\ pc'[h] \in {"report", "failure"}
           /\ Reject(h) => pc[h] = "failure" /\ pc'[h] = "refused"
           /\ Report(h) => pc[h] = "report" /\ pc'[h] = "observe"
           /\ Check(h) => pc[h] = "check" /\ pc'[h] = "observe"
           /\ Observe(h) => pc[h] = "observe" /\ pc'[h] = "look"
           /\ Look(h) => /\ pc[h] = "look"
                         /\ pc'[h] = IF KindOf[h] = "verify" THEN "configure" ELSE "proxy"
           /\ ConfigureVerifier(h) => /\ pc[h] = "configure" /\ KindOf[h] = "verify"
                                      /\ pc'[h] \in {"issue", "failure"}
           /\ Issue(h) => pc[h] = "issue" /\ pc'[h] = "conclude"
           /\ Conclude(h) => pc[h] = "conclude" /\ pc'[h] = "verified"
           /\ Configure(h) => /\ pc[h] = "configure" /\ KindOf[h] = "get"
                              /\ pc'[h] = "check"
           /\ Decide(h) => pc[h] = "proxy" /\ pc'[h] \in {"released", "blocked", "challenged"}
<1>1. pc \in [Handlers -> PCs]
  BY DEF TypeOK
<1>2. Decide(h) => pc[h] = "proxy" /\ pc'[h] \in {"released", "blocked", "challenged"}
  <2>1. req[h].route \in Access!RouteActions
    BY DEF TypeOK, Requests
  <2> QED
    BY <1>1, <2>1, DecisionType DEF Decide, Goto, At
<1>3. Consume(h) => pc[h] = "consume" /\ pc'[h] \in {"report", "failure"}
  BY <1>1 DEF Consume, Goto, At
<1>4. Observe(h) => pc[h] = "observe" /\ pc'[h] = "look"
  BY <1>1 DEF Observe, Goto, At
<1>5. Mint(h) => pc[h] = "mint" /\ pc'[h] = "create"
  BY <1>1 DEF Mint, Goto, At
<1>6. Touch(h) => pc[h] = "touch" /\ pc'[h] = "answered"
  BY <1>1 DEF Touch, Goto, At
<1>7. Arrive(h) => pc[h] = "arrive" /\ pc'[h] = FirstStep[KindOf[h]]
  BY <1>1 DEF Arrive, Goto, At
<1> QED
  BY <1>1, <1>2, <1>3, <1>4, <1>5, <1>6, <1>7
     DEF Fail, Create, Expose, Identify, Submitted, Reject, Report, Check, Look,
         ConfigureVerifier, Issue, Conclude, Configure, Goto, At

LEMMA PlaceStep ==
    ASSUME TypeOK, NEW h \in Handlers, Place(h), Serve(h) \/ Fail(h)
    PROVE  Place(h)'
<1>1. Arrive(h) => Place(h)'
  BY Moves DEF Place, FirstStep
<1> QED
  BY <1>1, Moves DEF Serve, Place, Terminal

\* A request that arrives names only sessions some browser was told.
LEMMA RequestNames ==
    ASSUME \A h \in Handlers : Telling(h), NEW v \in Handlers, KindOf[v] = "verify",
           NEW r \in RequestsOf(KindOf[v])
    PROVE  Told(r.target)
  BY DEF RequestsOf, VerifyRequests, Known, Telling, At

LEMMA TellingStep ==
    ASSUME TypeOK, \A s \in Sessions : Born(s), \A h \in Handlers : Place(h) /\ Telling(h),
           Next, NEW h \in Handlers, Serve(h) \/ Fail(h)
    PROVE  Telling(h)'
<1>1. \A s \in Sessions : (Minted(s) => Minted(s)') /\ (Told(s) => Told(s)')
  BY Forward
<1>2. \A s : (Minted(s) \/ Told(s)) => s \in Sessions
  BY DEF Minted, Told
<1>3. CASE Arrive(h)
  <2>1. PICK r \in RequestsOf(KindOf[h]) : req'[h] = r
    BY <1>3 DEF Arrive, TypeOK
  <2>2. KindOf[h] = "verify" => Told(r.target)
    BY RequestNames
  <2>3. pc'[h] = FirstStep[KindOf[h]] /\ KindOf[h] \in Kinds
    BY <1>3, HandlerAssumption DEF Arrive, Goto, TypeOK
  <2> QED
    BY <2>1, <2>2, <2>3, <1>1, <1>2 DEF Telling, FirstStep, Kinds
<1>4. CASE Mint(h)
  <2>1. PICK s \in Sessions :
           /\ challenge' = [challenge EXCEPT ![s] = [state |-> "open", born |-> now]]
           /\ local' = [local EXCEPT ![h].session = s]
    BY <1>4 DEF Mint
  <2>2. local'[h].session = s
    BY <2>1 DEF TypeOK, Locals
  <2>3. Minted(local[h].session)'
    BY <2>1, <2>2 DEF Minted, TypeOK
  <2>4. KindOf[h] # "verify" /\ pc'[h] = "create"
    BY <1>4, Moves DEF Place
  <2> QED
    BY <2>3, <2>4 DEF Telling
<1>5. CASE Create(h)
  <2>1. KindOf[h] = "issue" /\ Minted(local[h].session)
    BY <1>5, HandlerAssumption DEF Create, At, Telling, Place, Kinds
  <2>2. evidence'[local[h].session].created = now /\ challenge' = challenge
    BY <1>5, <2>1 DEF Create, NoEvidence, Minted, TypeOK
  <2>3. Told(local[h].session)'
    BY <1>5, <2>1, <2>2 DEF Create, Told, Minted, Born, TypeOK
  <2> QED
    BY <1>5, <2>1, <2>3 DEF Create, Telling, Told
<1>6. CASE (Serve(h) /\ ~Arrive(h) /\ ~Mint(h) /\ ~Create(h)) \/ Fail(h)
  <2>1. req'[h] = req[h]
    BY <1>6 DEF Serve, Fail, Expose, Identify, Touch, Submitted, Consume, Reject, Report, Check,
                Observe, Look, ConfigureVerifier, Issue, Conclude, Configure, Decide
  <2>2. KindOf[h] = "verify" => pc[h] # "arrive"
    BY <1>6 DEF Serve, Fail, Expose, Identify, Touch, Submitted, Consume, Reject, Report, Check,
                Observe, Look, ConfigureVerifier, Issue, Conclude, Configure, Decide, At
  <2>3. KindOf[h] = "issue" => Expose(h) \/ Fail(h)
    BY <1>6, Moves DEF Serve, Place
  <2>4. KindOf[h] = "issue" =>
           /\ local'[h] = local[h]
           /\ pc'[h] = "failed" \/ (pc[h] = "expose" /\ pc'[h] = "answered")
    BY <2>3 DEF Expose, Fail, Goto, At, TypeOK
  <2> QED
    BY <2>1, <2>2, <2>4, <1>1, <1>2 DEF Telling
<1> QED
  BY <1>3, <1>4, <1>5, <1>6

\* Which action of a handler writes which part of its history.
LEMMA Calm ==
    ASSUME TypeOK, NEW h \in Handlers, Serve(h) \/ Fail(h)
    PROVE  /\ ~Arrive(h) => req'[h] = req[h]
           /\ ~Consume(h) => /\ local'[h].taken = local[h].taken
                             /\ local'[h].takenAt = local[h].takenAt
           /\ ~Issue(h) => /\ local'[h].issued = local[h].issued
                           /\ local'[h].issuedAt = local[h].issuedAt
           /\ ~Check(h) => /\ local'[h].valid = local[h].valid
                           /\ local'[h].checkedAt = local[h].checkedAt
           /\ ~Mint(h) /\ ~Identify(h) /\ ~Submitted(h) /\ ~Check(h) =>
                  local'[h].session = local[h].session
<1>0. local[h] \in Locals /\ local \in [Handlers -> Locals] /\ req \in [Handlers -> Requests]
  BY DEF TypeOK
<1>1. CASE Arrive(h)
  <2>1. local'[h] = [local[h] EXCEPT !.trapped = Trapped, !.automated = Automated]
    BY <1>0, <1>1 DEF Arrive
  <2> QED
    BY <1>0, <1>1, <2>1 DEF Locals
<1>2. CASE Mint(h)
  <2>1. PICK s \in Sessions : local' = [local EXCEPT ![h].session = s]
    BY <1>2 DEF Mint
  <2>2. local'[h] = [local[h] EXCEPT !.session = s] /\ req' = req
    BY <1>0, <1>2, <2>1 DEF Mint
  <2> QED
    BY <1>0, <1>2, <2>2 DEF Locals
<1>3. CASE Create(h) \/ Expose(h) \/ Touch(h) \/ Reject(h) \/ Report(h) \/ Fail(h)
  BY <1>3 DEF Create, Expose, Touch, Reject, Report, Fail
<1>4. CASE Identify(h) \/ Submitted(h)
  BY <1>0, <1>4 DEF Identify, Submitted, Locals
<1>5. CASE Consume(h)
  <2>1. CASE Spends(h)
    <3>1. /\ local'[h] = [local[h] EXCEPT !.taken = TRUE, !.takenAt = now]
          /\ req' = req
      BY <1>0, <1>5, <2>1 DEF Consume
    <3> QED
      BY <1>0, <1>5, <3>1 DEF Locals
  <2>2. CASE ~Spends(h)
    BY <1>5, <2>2 DEF Consume
  <2> QED
    BY <2>1, <2>2
<1>6. CASE Check(h)
  BY <1>0, <1>6 DEF Check, Locals
<1>7. CASE Observe(h)
  <2>1. local' = local \/ \E b : local' = [local EXCEPT ![h].burst = b]
    BY <1>7 DEF Observe
  <2>2. local'[h] = local[h] \/ \E b : local'[h] = [local[h] EXCEPT !.burst = b]
    BY <1>0, <2>1
  <2>3. req' = req
    BY <1>7 DEF Observe
  <2> QED
    BY <1>0, <1>7, <2>2, <2>3 DEF Locals
<1>8. CASE Look(h)
  BY <1>0, <1>8 DEF Look, Locals
<1>9. CASE ConfigureVerifier(h) \/ Conclude(h) \/ Configure(h) \/ Decide(h)
  BY <1>9 DEF ConfigureVerifier, Conclude, Configure, Decide
<1>10. CASE Issue(h)
  BY <1>0, <1>10 DEF Issue, Locals
<1> QED
  BY <1>1, <1>2, <1>3, <1>4, <1>5, <1>6, <1>7, <1>8, <1>9, <1>10 DEF Serve

\* An attempt is settled by its own handler: nothing others do disturbs it.
LEMMA AttemptKept ==
    ASSUME TypeOK, \A s \in Sessions : Born(s), Next, NEW v \in Verifiers, Attempt(v),
           pc'[v] = pc[v], req'[v] = req[v], local'[v] = local[v]
    PROVE  Attempt(v)'
<1>1. now <= now' /\ now \in Nat /\ now' \in Nat
  <2>1. now' \in Nat
    BY StepType DEF TypeOK
  <2> QED
    BY <2>1, Forward DEF TypeOK
<1>2. local[v] \in Locals
  BY DEF TypeOK, Verifiers
<1>3. local[v].taken => /\ challenge'[req[v].target].born = challenge[req[v].target].born
                        /\ challenge'[req[v].target].state = "spent"
  BY Forward DEF Attempt, Minted
<1> QED
  BY <1>1, <1>2, <1>3 DEF Attempt, Won, Locals

LEMMA AttemptStep ==
    ASSUME TypeOK, \A s \in Sessions : Born(s), Next, NEW v \in Verifiers, Attempt(v),
           Place(v), Telling(v), Serve(v) \/ Fail(v)
    PROVE  Attempt(v)'
<1> USE DEF Verifiers
<1>0. TypeOK' /\ local[v] \in Locals /\ local'[v] \in Locals
  <2>1. TypeOK'
    BY StepType
  <2> QED
    BY <2>1 DEF TypeOK
<1>1. now <= now' /\ now \in Nat /\ now' \in Nat
  BY <1>0, Forward DEF TypeOK
<1>2. local[v].taken => /\ challenge'[req[v].target].born = challenge[req[v].target].born
                        /\ challenge'[req[v].target].state = "spent"
  BY Forward DEF Attempt, Minted
<1>3. CASE Arrive(v)
  <2>1. ~local[v].taken /\ ~local[v].issued
    BY <1>3, Moves DEF Attempt
  <2>2. ~local'[v].taken /\ ~local'[v].issued
    <3>1. ~Consume(v) /\ ~Issue(v)
      BY <1>3, Moves
    <3> QED
      BY <1>3, <2>1, <3>1, Calm
  <2>3. pc'[v] = "submitted"
    BY <1>3, Moves DEF FirstStep
  <2> QED
    BY <2>2, <2>3 DEF Attempt, Winning
<1>4. CASE Submitted(v)
  <2>1. ~local[v].taken /\ ~local[v].issued /\ pc'[v] \in {"consume", "failure"}
    BY <1>4, Moves DEF Attempt
  <2>2. ~Consume(v) /\ ~Issue(v) /\ ~Arrive(v)
    BY <1>4, Moves
  <2>3. ~local'[v].taken /\ ~local'[v].issued /\ req'[v] = req[v]
    BY <1>4, <2>1, <2>2, Calm
  <2>4. local'[v].session = req[v].binding
    BY <1>4 DEF Submitted, TypeOK, Locals
  <2> QED
    BY <2>1, <2>3, <2>4 DEF Attempt, Winning
<1>5. CASE Consume(v)
  <2>1. ~local[v].taken /\ ~local[v].issued /\ local[v].session = req[v].binding
    BY <1>5, Moves DEF Attempt
  <2>2. ~Arrive(v) /\ ~Issue(v) /\ ~Mint(v) /\ ~Identify(v) /\ ~Submitted(v) /\ ~Check(v)
    BY <1>5, Moves
  <2>3. req'[v] = req[v] /\ ~local'[v].issued /\ local'[v].session = local[v].session
    BY <1>5, <2>1, <2>2, Calm
  <2>4. req[v].target \in Sessions /\ now' = now
    BY <1>5, Moves DEF Telling, Told, Minted, Consume
  <2>5. CASE Spends(v)
    <3>0. local'[v] = [local[v] EXCEPT !.taken = TRUE, !.takenAt = now]
      BY <1>5, <2>5 DEF Consume, TypeOK
    <3>1. local'[v].taken /\ local'[v].takenAt = now
      BY <1>0, <3>0 DEF Locals
    <3>2. pc'[v] = IF Passes(v) THEN "report" ELSE "failure"
      BY <1>5, <2>5 DEF Consume, TypeOK, Goto
    <3>3. challenge'[req[v].target].state = "spent"
          /\ challenge'[req[v].target].born = challenge[req[v].target].born
      BY <1>5, <2>4, <2>5 DEF Consume, TypeOK
    <3>4. req[v].target = req[v].binding
      BY <2>5 DEF Spends
    <3> QED
      BY <1>1, <2>1, <2>3, <2>4, <3>1, <3>2, <3>3, <3>4 DEF Attempt, Won, Winning, Passes
  <2>6. CASE ~Spends(v)
    <3>1. local'[v] = local[v] /\ pc'[v] = "failure"
      BY <1>5, <2>6 DEF Consume, TypeOK, Goto
    <3> QED
      BY <2>1, <3>1 DEF Attempt, Winning
  <2> QED
    BY <2>5, <2>6
<1>6. CASE Issue(v)
  <2>1. Won(v) /\ pc'[v] = "conclude"
    BY <1>6, Moves DEF Attempt, Winning
  <2>2. ~Arrive(v) /\ ~Consume(v) /\ ~Mint(v) /\ ~Identify(v) /\ ~Submitted(v) /\ ~Check(v)
    BY <1>6, Moves
  <2>3. /\ req'[v] = req[v] /\ local'[v].session = local[v].session
        /\ local'[v].taken = local[v].taken /\ local'[v].takenAt = local[v].takenAt
    BY <1>6, <2>2, Calm
  <2>4. local'[v].issued /\ local'[v].issuedAt = now /\ now' = now
    BY <1>6 DEF Issue, TypeOK, Locals
  <2> QED
    BY <1>1, <1>2, <2>1, <2>3, <2>4 DEF Attempt, Won, Winning
<1>7. CASE ~Arrive(v) /\ ~Submitted(v) /\ ~Consume(v) /\ ~Issue(v)
  <2>1. ~Mint(v) /\ ~Identify(v) /\ ~Check(v)
    BY Moves DEF Place
  <2>2. /\ req'[v] = req[v] /\ local'[v].session = local[v].session
        /\ local'[v].taken = local[v].taken /\ local'[v].takenAt = local[v].takenAt
        /\ local'[v].issued = local[v].issued /\ local'[v].issuedAt = local[v].issuedAt
    BY <1>7, <2>1, Calm
  <2>3. /\ pc'[v] \in Winning => pc[v] \in Winning
        /\ pc'[v] \notin {"arrive", "submitted", "consume"}
        /\ pc[v] \in {"conclude", "verified", "failed"} =>
               pc'[v] \in {"conclude", "verified", "failed"}
        /\ pc'[v] \in {"conclude", "verified"} => pc[v] \in {"conclude", "verified"}
    BY <1>7, <2>1, Moves DEF Serve, Place, Winning, Terminal
  <2> QED
    BY <1>0, <1>1, <1>2, <2>2, <2>3 DEF Attempt, Won, Locals
<1> QED
  BY <1>3, <1>4, <1>5, <1>6, <1>7

-----------------------------------------------------------------------------
\* An issued session stays on its verifier's account.
LEMMA IssuedKept ==
    ASSUME IInv, Next, NEW v \in Verifiers, NEW s, Issued(v, s)
    PROVE  Issued(v, s)' /\ local'[v].issuedAt = local[v].issuedAt /\ req'[v] = req[v]
<1> USE DEF Verifiers, Issued
<1>1. TypeOK /\ Attempt(v) /\ Place(v)
  BY DEF IInv
<1>2. ASSUME NEW h \in Handlers, Serve(h) \/ Fail(h)
      PROVE  Issued(v, s)' /\ local'[v].issuedAt = local[v].issuedAt /\ req'[v] = req[v]
  <2>1. CASE h # v
    BY <1>1, <1>2, <2>1, Frame
  <2>2. CASE h = v
    <3>1. pc[v] \in {"conclude", "verified", "failed"}
      BY <1>1 DEF Attempt
    <3>2. ~Arrive(v) /\ ~Issue(v)
      BY <1>1, <3>1, Moves
    <3> QED
      BY <1>1, <1>2, <2>2, <3>2, Calm
  <2> QED
    BY <2>1, <2>2
<1>3. ASSUME NEW t \in Sessions, Revoke(t)
      PROVE  local' = local /\ req' = req
  BY <1>3 DEF Revoke
<1>4. CASE Tick
  BY <1>4 DEF Tick
<1> QED
  BY <1>2, <1>3, <1>4 DEF Next

\* A challenge that was taken is spent, so nobody takes it again.
LEMMA SoleStep ==
    ASSUME IInv, Next, NEW h \in Handlers, Serve(h) \/ Fail(h)
    PROVE  \A v, w \in Verifiers : Sole(v, w)'
<1> USE DEF Verifiers
<1>1. TypeOK /\ (\A v \in Verifiers : Attempt(v)) /\ (\A v, w \in Verifiers : Sole(v, w))
  BY DEF IInv
<1>2. ASSUME NEW v \in Verifiers, local'[v].taken
      PROVE  \/ local[v].taken /\ req'[v] = req[v]
             \/ /\ v = h /\ Consume(v) /\ Spends(v) /\ req'[v] = req[v]
  <2>1. CASE v # h
    BY <1>1, <1>2, <2>1, Frame
  <2>2. CASE v = h /\ Consume(v)
    <3>1. req'[v] = req[v]
      BY <2>2 DEF Consume
    <3>2. ~Spends(v) => local' = local
      BY <2>2 DEF Consume
    <3> QED
      BY <1>2, <2>2, <3>1, <3>2
  <2>3. CASE v = h /\ ~Consume(v)
    <3>1. local[v].taken
      BY <1>1, <1>2, <2>3, Calm
    <3>2. ~Arrive(v)
      BY <1>1, <3>1, Moves DEF Attempt
    <3> QED
      BY <1>1, <2>3, <3>1, <3>2, Calm
  <2> QED
    BY <2>1, <2>2, <2>3
<1>3. ASSUME NEW v \in Verifiers, Spends(v), NEW w \in Verifiers, local[w].taken
      PROVE  req[v].target # req[w].target
  BY <1>1, <1>3 DEF Spends, Attempt
<1>4. SUFFICES ASSUME NEW v \in Verifiers, NEW w \in Verifiers,
                      local'[v].taken, local'[w].taken, req'[v].target = req'[w].target
               PROVE  v = w
  BY DEF Sole
<1>5. CASE local[v].taken /\ local[w].taken /\ req'[v] = req[v] /\ req'[w] = req[w]
  BY <1>1, <1>4, <1>5 DEF Sole
<1> QED
  BY <1>2, <1>3, <1>4, <1>5

\* Who issues has no session of that id before, nor had anybody one.
LEMMA FirstIssue ==
    ASSUME IInv, NEW v \in Verifiers, pc[v] = "issue"
    PROVE  LET s == local[v].session IN
           s \in Sessions /\ s = req[v].target /\ session[s] = 0 /\ ~revoked[s]
<1> USE DEF Verifiers
<1>1. local[v].taken /\ ~local[v].issued /\ local[v].session = req[v].target
      /\ req[v].target \in Sessions
  BY DEF IInv, Attempt, Winning, Won
<1>2. ASSUME NEW w \in Verifiers, Issued(w, req[v].target)
      PROVE  FALSE
  <2>1. local[w].taken /\ req[w].target = req[v].target /\ local[w].issued
    BY <1>2 DEF IInv, Attempt, Won, Issued
  <2>2. v = w
    BY <1>1, <2>1 DEF IInv, Sole
  <2> QED
    BY <1>1, <2>1, <2>2
<1>3. Fruit(req[v].target)
  BY <1>1 DEF IInv
<1> QED
  BY <1>1, <1>2, <1>3 DEF Fruit

LEMMA FruitStep ==
    ASSUME IInv, Next, NEW s \in Sessions
    PROVE  Fruit(s)'
<1> USE DEF Verifiers
<1>1. TypeOK /\ Fruit(s)
  BY DEF IInv
<1>2. (\E v \in Verifiers : Issued(v, s)) => (\E v \in Verifiers : Issued(v, s)')
  BY IssuedKept
<1>3. (\E v \in Verifiers : Issued(v, s) /\ session[s] = local[v].issuedAt + Lifetime) =>
      (\E v \in Verifiers : Issued(v, s)' /\ session[s] = local'[v].issuedAt + Lifetime)
  BY IssuedKept
<1>4. CASE session'[s] = session[s] /\ token'[s] = token[s] /\ revoked'[s] = revoked[s]
  BY <1>1, <1>2, <1>3, <1>4 DEF Fruit
<1>5. ASSUME NEW v \in Verifiers, Issue(v) PROVE Fruit(s)'
  <2>1. pc[v] = "issue" /\ token' = token /\ revoked' = revoked
    BY <1>1, <1>5, Moves DEF Issue
  <2>2. CASE s # local[v].session
    <3>1. session'[s] = session[s]
      BY <1>1, <1>5, <2>2 DEF Issue, TypeOK
    <3> QED
      BY <1>4, <2>1, <3>1
  <2>3. CASE s = local[v].session
    <3>1. ~revoked[s] /\ s = req[v].target
      BY <2>1, <2>3, FirstIssue
    <3>2. local'[v].issued /\ local'[v].issuedAt = now /\ req'[v] = req[v]
      BY <1>1, <1>5 DEF Issue, TypeOK, Locals
    <3>3. session'[s] = now + Lifetime
      BY <1>1, <1>5, <2>3 DEF Issue, TypeOK
    <3>4. Issued(v, s)' /\ session'[s] = local'[v].issuedAt + Lifetime
      BY <3>1, <3>2, <3>3 DEF Issued
    <3> QED
      BY <2>1, <3>1, <3>4 DEF Fruit
  <2> QED
    BY <2>2, <2>3
<1>6. ASSUME NEW v \in Verifiers, Conclude(v) PROVE Fruit(s)'
  <2>1. session' = session /\ revoked' = revoked /\ pc[v] = "conclude"
    BY <1>1, <1>6, Moves DEF Conclude
  <2>2. local[v].issued /\ local[v].session = req[v].target
    BY <2>1 DEF IInv, Attempt, Won
  <2>3. CASE s # local[v].session
    <3>1. token'[s] = token[s]
      BY <1>1, <1>6, <2>3 DEF Conclude, TypeOK
    <3> QED
      BY <1>4, <2>1, <3>1
  <2>4. CASE s = local[v].session
    <3>1. Issued(v, s)
      BY <2>2, <2>4 DEF Issued
    <3> QED
      BY <1>1, <1>2, <1>3, <2>1, <3>1 DEF Fruit
  <2> QED
    BY <2>3, <2>4
<1>7. ASSUME NEW t \in Sessions, Revoke(t) PROVE Fruit(s)'
  <2>1. token' = token /\ session[t] # 0
    BY <1>7 DEF Revoke
  <2>2. CASE s # t
    <3>1. session'[s] = session[s] /\ revoked'[s] = revoked[s]
      BY <1>1, <1>7, <2>2 DEF Revoke, TypeOK
    <3> QED
      BY <1>4, <2>1, <3>1
  <2>3. CASE s = t
    <3>1. session'[s] = 0
      BY <1>1, <1>7, <2>3 DEF Revoke, TypeOK
    <3>2. \E v \in Verifiers : Issued(v, s)
      BY <1>1, <2>1, <2>3 DEF Fruit
    <3> QED
      BY <1>2, <2>1, <3>1, <3>2 DEF Fruit
  <2> QED
    BY <2>2, <2>3
<1>8. CASE Tick
  BY <1>4, <1>8 DEF Tick
<1>9. ASSUME NEW h \in Handlers, Serve(h) \/ Fail(h), ~Issue(h), ~Conclude(h)
      PROVE  Fruit(s)'
  <2>1. session' = session /\ token' = token /\ revoked' = revoked
    BY <1>9 DEF Serve, Fail, Arrive, Mint, Create, Expose, Identify, Touch, Submitted, Consume,
                Reject, Report, Check, Observe, Look, ConfigureVerifier, Configure, Decide
  <2> QED
    BY <1>4, <2>1
<1>10. ASSUME NEW h \in Handlers, Issue(h) \/ Conclude(h) PROVE KindOf[h] = "verify"
  BY <1>1, <1>10, Moves, HandlerAssumption DEF IInv, Place, Kinds
<1> QED
  BY <1>5, <1>6, <1>7, <1>8, <1>9, <1>10 DEF Next

LEMMA ReaderStep ==
    ASSUME IInv, Next, NEW g \in Getters
    PROVE  Reader(g)'
<1> USE DEF Getters
<1>1. TypeOK /\ Reader(g) /\ Place(g) /\ local[g] \in Locals /\ req[g] \in Requests
  BY DEF IInv, TypeOK
<1>2. ASSUME req'[g] = req[g], local'[g].valid = local[g].valid,
             local'[g].checkedAt = local[g].checkedAt, local[g].valid
      PROVE  \E v \in Verifiers :
               /\ Issued(v, req[g].token)'
               /\ local'[v].issuedAt <= local'[g].checkedAt
               /\ local'[g].checkedAt < local'[v].issuedAt + Lifetime
  <2>1. PICK v \in Verifiers :
               /\ Issued(v, req[g].token)
               /\ local[v].issuedAt <= local[g].checkedAt
               /\ local[g].checkedAt < local[v].issuedAt + Lifetime
    BY <1>1, <1>2 DEF Reader
  <2>2. Issued(v, req[g].token)' /\ local'[v].issuedAt = local[v].issuedAt
    <3>1. /\ local'[v].issued /\ req'[v].target = req[g].token
          /\ local'[v].issuedAt = local[v].issuedAt
      BY <2>1, IssuedKept DEF Issued
    <3> QED
      BY <1>2, <3>1 DEF Issued
  <2> QED
    BY <1>2, <2>1, <2>2
<1>3. CASE pc'[g] = pc[g] /\ req'[g] = req[g] /\ local'[g] = local[g]
  BY <1>1, <1>2, <1>3 DEF Reader, Protected, At
<1>4. CASE Check(g)
  <2>1. /\ req' = req /\ pc'[g] = "observe"
        /\ local'[g].valid = SessionLive(Verified(g)) /\ local'[g].checkedAt = now
    BY <1>1, <1>4 DEF Check, Goto, TypeOK, Locals
  <2>2. ASSUME SessionLive(Verified(g))
        PROVE  \E v \in Verifiers :
                 /\ Issued(v, req[g].token)'
                 /\ local'[v].issuedAt <= now /\ now < local'[v].issuedAt + Lifetime
    <3>1. req[g].token \in Sessions /\ now < session[req[g].token]
      BY <2>2, HandlerAssumption DEF SessionLive, Verified
    <3>2. session[req[g].token] # 0
      BY <1>1, <3>1 DEF TypeOK
    <3>3. PICK v \in Verifiers :
               /\ Issued(v, req[g].token)
               /\ session[req[g].token] = local[v].issuedAt + Lifetime
      BY <3>1, <3>2 DEF IInv, Fruit
    <3>4. local[v].issuedAt <= now
      BY <3>3 DEF IInv, Attempt, Issued
    <3>5. /\ local'[v].issued /\ req'[v].target = req[g].token
          /\ local'[v].issuedAt = local[v].issuedAt
      BY <3>3, IssuedKept DEF Issued
    <3> QED
      BY <2>1, <3>1, <3>3, <3>4, <3>5 DEF Issued
  <2> QED
    BY <2>1, <2>2 DEF Reader, Protected, At
<1>5. CASE Decide(g)
  <2>1. pc[g] = "proxy" /\ pc'[g] \in {"released", "blocked", "challenged"}
    BY <1>1, <1>5, Moves
  <2>2. req'[g] = req[g] /\ local'[g] = local[g]
    BY <1>5 DEF Decide
  <2>3. pc'[g] = "released" => GatewayDecision(g) = "ALLOW"
    <3>1. GatewayDecision(g) \in {"ALLOW", "BLOCK", "CHALLENGE"}
      BY <1>1, DecisionType DEF Requests
    <3>2. GatewayDecision(g) # "ALLOW" => pc'[g] \in {"blocked", "challenged"}
      BY <1>1, <1>5, <3>1 DEF Decide, Goto, TypeOK
    <3> QED
      BY <3>2
  <2>4. (pc'[g] = "released" /\ req[g].route # "public") => local[g].valid
    BY <1>1, <2>3, AllowNeedsValid DEF Locals, Requests
  <2> QED
    BY <1>1, <1>2, <2>1, <2>2, <2>4 DEF Reader, Protected, At
<1>6. CASE (Serve(g) \/ Fail(g)) /\ ~Check(g) /\ ~Decide(g)
  <2>1. pc'[g] \notin {"arrive", "released"}
    <3>1. Arrive(g) => pc'[g] = "configure"
      BY <1>1, Moves DEF FirstStep
    <3> QED
      BY <1>1, <1>6, <3>1, Moves DEF Serve, Place
  <2>2. local'[g].valid = local[g].valid /\ local'[g].checkedAt = local[g].checkedAt
    BY <1>1, <1>6, Calm
  <2>3. local[g].valid => req'[g] = req[g]
    BY <1>1, <1>6, Calm, Moves DEF Reader
  <2> QED
    BY <1>2, <2>1, <2>2, <2>3 DEF Reader, Protected, At
<1>7. ASSUME NEW h \in Handlers, h # g, Serve(h) \/ Fail(h)
      PROVE  pc'[g] = pc[g] /\ req'[g] = req[g] /\ local'[g] = local[g]
  BY <1>1, <1>7, Frame
<1>8. ASSUME NEW t \in Sessions, Revoke(t)
      PROVE  pc'[g] = pc[g] /\ req'[g] = req[g] /\ local'[g] = local[g]
  BY <1>8 DEF Revoke
<1>9. Tick => pc'[g] = pc[g] /\ req'[g] = req[g] /\ local'[g] = local[g]
  BY DEF Tick
<1> QED
  BY <1>3, <1>4, <1>5, <1>6, <1>7, <1>8, <1>9 DEF Next

LEMMA TellingKept ==
    ASSUME TypeOK, \A s \in Sessions : Born(s), Next, NEW h \in Handlers, Telling(h),
           pc'[h] = pc[h], req'[h] = req[h], local'[h] = local[h]
    PROVE  Telling(h)'
<1>1. \A s \in Sessions : (Minted(s) => Minted(s)') /\ (Told(s) => Told(s)')
  BY Forward
<1>2. \A s : (Minted(s) \/ Told(s)) => s \in Sessions
  BY DEF Minted, Told
<1> QED
  BY <1>1, <1>2 DEF Telling

-----------------------------------------------------------------------------
LEMMA InitInductive == Init => IInv
<1> SUFFICES ASSUME Init PROVE IInv
  OBVIOUS
<1>1. TypeOK
  BY InitType
<1> QED
  BY <1>1, HandlerAssumption
     DEF Init, IInv, Place, Telling, Born, Attempt, Won, Winning, Sole, Fruit, Issued, Reader,
         Protected, At, NoChallenge, NoLocal, NoRequest, Verifiers, Getters

LEMMA StepInductive == IInv /\ [Next]_vars => IInv'
<1>1. ASSUME IInv, Next PROVE IInv'
  <2>1. TypeOK /\ TypeOK'
    BY <1>1, StepType DEF IInv
  <2>2. \A s \in Sessions : Born(s)'
    BY <1>1, Forward DEF IInv
  <2>3. ASSUME NEW h \in Handlers,
               pc'[h] = pc[h], req'[h] = req[h], local'[h] = local[h]
        PROVE  /\ Place(h)' /\ Telling(h)'
               /\ h \in Verifiers => Attempt(h)'
    <3>1. Place(h)'
      BY <1>1, <2>3 DEF IInv, Place
    <3>2. Telling(h)'
      BY <1>1, <2>3, TellingKept DEF IInv
    <3>3. h \in Verifiers => Attempt(h)'
      BY <1>1, <2>3, AttemptKept DEF IInv
    <3> QED
      BY <3>1, <3>2, <3>3
  <2>4. ASSUME NEW h \in Handlers, Serve(h) \/ Fail(h)
        PROVE  /\ Place(h)' /\ Telling(h)'
               /\ h \in Verifiers => Attempt(h)'
    <3>1. Place(h)'
      BY <1>1, <2>4, PlaceStep DEF IInv
    <3>2. Telling(h)'
      BY <1>1, <2>4, TellingStep DEF IInv
    <3>3. h \in Verifiers => Attempt(h)'
      BY <1>1, <2>4, AttemptStep DEF IInv, Verifiers
    <3> QED
      BY <3>1, <3>2, <3>3
  <2>5. /\ \A h \in Handlers : Place(h)' /\ Telling(h)'
        /\ \A v \in Verifiers : Attempt(v)'
        /\ \A v, w \in Verifiers : Sole(v, w)'
    <3>1. ASSUME NEW h \in Handlers, Serve(h) \/ Fail(h)
          PROVE  /\ \A i \in Handlers : /\ Place(i)' /\ Telling(i)'
                                        /\ i \in Verifiers => Attempt(i)'
                 /\ \A v, w \in Verifiers : Sole(v, w)'
      BY <1>1, <2>1, <2>3, <2>4, <3>1, Frame, SoleStep
    <3>2. ASSUME pc' = pc, req' = req, local' = local
          PROVE  /\ \A i \in Handlers : /\ Place(i)' /\ Telling(i)'
                                        /\ i \in Verifiers => Attempt(i)'
                 /\ \A v, w \in Verifiers : Sole(v, w)'
      BY <1>1, <2>3, <3>2 DEF IInv, Sole
    <3>3. ASSUME NEW s \in Sessions, Revoke(s) PROVE pc' = pc /\ req' = req /\ local' = local
      BY <3>3 DEF Revoke
    <3>4. Tick => pc' = pc /\ req' = req /\ local' = local
      BY DEF Tick
    <3> QED
      BY <1>1, <3>1, <3>2, <3>3, <3>4 DEF Next, Verifiers
  <2>6. \A s \in Sessions : Fruit(s)'
    BY <1>1, FruitStep
  <2>7. \A g \in Getters : Reader(g)'
    BY <1>1, ReaderStep
  <2> QED
    BY <2>1, <2>2, <2>5, <2>6, <2>7 DEF IInv, Verifiers, Getters
<1>2. ASSUME IInv, UNCHANGED vars PROVE IInv'
  BY <1>2 DEF IInv, vars, TypeOK, Place, Telling, Told, Minted, Born, Attempt, Won, Sole, Fruit,
              Issued, Reader, Protected, At, Verifiers, Getters
<1> QED
  BY <1>1, <1>2

\* The inductive invariant holds in every state the gateway can reach.
THEOREM Inductive == Spec => []IInv
  BY InitInductive, StepInductive, PTL DEF Spec

-----------------------------------------------------------------------------
LEMMA VerdictFollows == IInv => VerdictIsFinal
<1> SUFFICES ASSUME IInv, NEW v \in Verifiers, local[v].taken, ~local[v].issued
             PROVE  session[req[v].target] = 0 /\ token[req[v].target] = 0
  BY DEF VerdictIsFinal
<1>1. req[v].target \in Sessions
  BY DEF IInv, Attempt
<1>2. ASSUME NEW w \in Verifiers, Issued(w, req[v].target) PROVE FALSE
  <2>1. local[w].taken /\ req[w].target = req[v].target /\ local[w].issued
    BY <1>2 DEF IInv, Attempt, Won, Issued
  <2>2. v = w
    BY <2>1 DEF IInv, Sole
  <2> QED
    BY <2>1, <2>2
<1>3. Fruit(req[v].target)
  BY <1>1 DEF IInv
<1> QED
  BY <1>2, <1>3 DEF Fruit

LEMMA AccessFollows == IInv => AccessIsEarned /\ AccessWindow
<1> SUFFICES ASSUME IInv, NEW g \in Getters, Protected(g)
             PROVE  \E v \in Verifiers :
                      /\ Earned(g, v) /\ req[v].nonce
                      /\ challenge[req[g].token].state = "spent"
                      /\ local[v].issuedAt <= local[g].checkedAt
                      /\ local[g].checkedAt < local[v].issuedAt + Lifetime
                      /\ local[g].checkedAt < challenge[req[g].token].born + 2 * Lifetime
                                                + (local[v].issuedAt - local[v].takenAt)
  BY DEF AccessIsEarned, AccessWindow
<1>1. PICK v \in Verifiers :
         /\ Issued(v, req[g].token)
         /\ local[v].issuedAt <= local[g].checkedAt
         /\ local[g].checkedAt < local[v].issuedAt + Lifetime
  BY DEF IInv, Reader
<1>2. /\ local[v].issued /\ req[v].target = req[g].token /\ Won(v) /\ local[v].taken
      /\ req[v].binding = req[v].target /\ req[v].target \in Sessions
      /\ challenge[req[v].target].state = "spent"
  BY <1>1 DEF IInv, Attempt, Won, Issued
<1>3. /\ local[v].issuedAt \in Nat /\ local[v].takenAt \in Nat /\ local[g].checkedAt \in Nat
      /\ challenge[req[v].target].born \in Nat /\ Lifetime \in Nat
  BY <1>2, TimeAssumption DEF IInv, TypeOK, Locals, Verifiers, Getters
<1>4. local[g].checkedAt < challenge[req[g].token].born + 2 * Lifetime
                             + (local[v].issuedAt - local[v].takenAt)
  BY <1>1, <1>2, <1>3 DEF Won
<1> QED
  BY <1>1, <1>2, <1>4 DEF Earned, Won

LEMMA CoverFollows == IInv => EvidenceCoversSession
<1> SUFFICES ASSUME IInv, NEW v \in Verifiers, local[v].issued
             PROVE  session[req[v].binding] <=
                      evidence[req[v].binding].created + EvidenceTtl
                        + (local[v].issuedAt - local[v].takenAt)
  BY DEF EvidenceCoversSession
<1> DEFINE s == req[v].target
<1>1. /\ Won(v) /\ local[v].taken /\ req[v].binding = s /\ s \in Sessions
      /\ pc[v] # "arrive" /\ local[v].takenAt <= local[v].issuedAt
  BY DEF IInv, Attempt, Won
<1>2. evidence[s].created >= challenge[s].born
  BY <1>1 DEF IInv, Telling, Told, Verifiers
<1>3. session[s] = 0 \/ session[s] = local[v].issuedAt + Lifetime
  <2>1. ASSUME NEW w \in Verifiers, Issued(w, s) PROVE w = v
    <3>1. local[w].taken /\ req[w].target = s
      BY <2>1 DEF IInv, Attempt, Won, Issued
    <3> QED
      BY <1>1, <3>1 DEF IInv, Sole
  <2>2. Fruit(s)
    BY <1>1 DEF IInv
  <2> QED
    BY <2>1, <2>2 DEF Fruit
<1>4. /\ local[v].issuedAt \in Nat /\ local[v].takenAt \in Nat /\ challenge[s].born \in Nat
      /\ evidence[s].created \in Nat /\ Lifetime \in Nat /\ EvidenceTtl \in Nat
      /\ EvidenceTtl >= 2 * Lifetime
  BY <1>1, TimeAssumption DEF IInv, TypeOK, Locals, Evidences, Verifiers
<1>5. local[v].takenAt < challenge[s].born + Lifetime
  BY <1>1 DEF Won
<1>6. session[s] <= evidence[s].created + EvidenceTtl + (local[v].issuedAt - local[v].takenAt)
  <2> HIDE DEF s
  <2> QED
    BY <1>1, <1>2, <1>3, <1>4, <1>5
<1> QED
  BY <1>1, <1>6

\* A session is written when it is issued, for the first time, and when it is revoked.
LEMMA SessionStep ==
    ASSUME IInv, [Next]_vars, NEW s \in Sessions, session[s] # 0
    PROVE  session'[s] \in {0, session[s]}
<1>1. TypeOK
  BY DEF IInv
<1>2. ASSUME NEW v \in Handlers, Issue(v) PROVE session'[s] = session[s]
  <2>1. v \in Verifiers /\ pc[v] = "issue"
    BY <1>1, <1>2, Moves, HandlerAssumption DEF IInv, Place, Kinds, Verifiers
  <2>2. session[local[v].session] = 0
    BY <2>1, FirstIssue
  <2> QED
    BY <1>1, <1>2, <2>2 DEF Issue, TypeOK
<1>3. ASSUME NEW t \in Sessions, Revoke(t) PROVE session'[s] \in {0, session[s]}
  BY <1>1, <1>3 DEF Revoke, TypeOK
<1>4. ASSUME NEW h \in Handlers, Serve(h) \/ Fail(h), ~Issue(h) PROVE session' = session
  BY <1>4 DEF Serve, Fail, Arrive, Mint, Create, Expose, Identify, Touch, Submitted, Consume,
              Reject, Report, Check, Observe, Look, ConfigureVerifier, Conclude, Configure, Decide
<1>5. Tick => session' = session
  BY DEF Tick
<1> QED
  BY <1>2, <1>3, <1>4, <1>5 DEF Next, vars

-----------------------------------------------------------------------------
\* Protected content is released only on a session that a timely verification
\* with the right nonce earned, however many browsers, verifiers and requests
\* run at once (gateway/app.py, collect_signals and verify).
THEOREM AccessEarned == Spec => []AccessIsEarned
  BY Inductive, AccessFollows, PTL

\* The time one challenge buys is bounded, whatever the lifetimes.
THEOREM AccessBounded == Spec => []AccessWindow
  BY Inductive, AccessFollows, PTL

\* A challenge that was spent without a session being issued never yields one.
THEOREM VerdictStands == Spec => []VerdictIsFinal
  BY Inductive, VerdictFollows, PTL

\* No verification in flight brings a revoked session back.
THEOREM RevocationStands == Spec => []RevocationIsFinal
<1>1. IInv => RevocationIsFinal
  BY DEF IInv, Fruit, RevocationIsFinal
<1> QED
  BY <1>1, Inductive, PTL

\* No step makes the life of a session longer.
THEOREM SessionsAreNotExtended == Spec => NoSessionIsExtended
<1>1. IInv /\ [Next]_vars => (\A s \in Sessions : session[s] # 0 => session'[s] \in {0, session[s]})
  BY SessionStep
<1> QED
  BY <1>1, Inductive, PTL DEF Spec, NoSessionIsExtended

\* The evidence kept for a session outlives it, up to the verifier's own delay.
THEOREM EvidenceCovers == Spec => []EvidenceCoversSession
  BY Inductive, CoverFollows, PTL

-----------------------------------------------------------------------------
(***************************************************************************)
(* Taint.  A second inductive invariant, over the first: the record of a   *)
(* session is created once, so what it holds against the session stays,    *)
(* and the one verification that may report is the one that took the       *)
(* challenge, so no later report takes an automated browser's word back.   *)
(***************************************************************************)
Issuers == {h \in Handlers : KindOf[h] = "issue"}

\* A record exists only of a minted session, and what it says of the browser was
\* said by the verification that took the challenge, after its report.
Reported(v, s) == local[v].taken /\ req[v].target = s /\ pc[v] # "report"

Sourced(s) ==
    /\ evidence[s].kept => Minted(s)
    /\ evidence[s].webdriver => \E v \in Verifiers : Reported(v, s)

\* The session whose record is about to be created has none, and one creator.
Creating(h) == pc[h] = "create" => ~evidence[local[h].session].kept

SoleCreator(h, i) ==
    (pc[h] = "create" /\ pc[i] = "create" /\ local[h].session = local[i].session) => h = i

\* What was held against a session when a request arrived is still on record.
OnRecord(h) ==
    /\ \A s \in local[h].trapped : evidence[s].kept /\ evidence[s].activated
    /\ \A s \in local[h].automated : evidence[s].kept /\ evidence[s].webdriver

\* The request is of a session trapped before it arrived, and automated: by what
\* the verification reports itself, or by what the session had reported.
Tainted(h) ==
    /\ local[h].session \in local[h].trapped
    /\ IF KindOf[h] = "verify" THEN req[h].webdriver
       ELSE local[h].session \in local[h].automated

Lapsed(s) == evidence[s].created + EvidenceTtl <= now

\* From the report to the decision, the taint is on record, then read, then acted on.
Heeded(h) ==
    /\ (KindOf[h] = "verify" /\ pc[h] \in {"observe", "look"} /\ Tainted(h)) =>
           evidence[local[h].session].webdriver \/ Lapsed(local[h].session)
    /\ (/\ pc[h] = "proxy" \/ (KindOf[h] = "verify" /\ pc[h] = "configure")
        /\ local[h].watched /\ Tainted(h)) =>
           local[h].activated /\ local[h].webdriver
    /\ (KindOf[h] = "get" /\ pc[h] = "released" /\ req[h].route = "default"
          /\ local[h].watched) => ~Tainted(h)
    /\ (KindOf[h] = "verify" /\ (pc[h] = "issue" \/ local[h].issued) /\ local[h].watched) =>
           ~Tainted(h)

TInv ==
    /\ \A s \in Sessions : Sourced(s)
    /\ \A h \in Issuers : Creating(h)
    /\ \A h, i \in Issuers : SoleCreator(h, i)
    /\ \A h \in Handlers : OnRecord(h) /\ Heeded(h)

-----------------------------------------------------------------------------
\* Two groups of evidence against a request are one too many.
LEMMA TwoGroupsBlock ==
    ASSUME NEW s \in Access!Signals, s.activated, s.webdriver
    PROVE  Access!TwoGroups(s)
<1>1. s["activated"] /\ s["webdriver"]
  OBVIOUS
<1>2. "activated" \in Access!Groups(s) /\ "webdriver" \in Access!Groups(s)
  BY <1>1 DEF Access!Groups, Access!SignalGroups
<1> QED
  BY <1>2 DEF Access!TwoGroups

LEMMA SignalsType ==
    ASSUME TypeOK, NEW h \in Handlers
    PROVE  SignalsOf(h) \in Access!Signals
<1>1. local[h] \in Locals /\ req[h] \in Requests
  BY DEF TypeOK
<1> QED
  BY <1>1 DEF SignalsOf, Access!Signals, Access!Crawlers, Access!Phases, Locals, Requests

LEMMA TaintedIsNotAllowed ==
    ASSUME TypeOK, NEW h \in Handlers, local[h].activated, local[h].webdriver
    PROVE  /\ ~VerifierAllows(h)
           /\ req[h].route = "default" => GatewayDecision(h) # "ALLOW"
<1>1. SignalsOf(h) \in Access!Signals /\ Access!VerifiedSignals(SignalsOf(h)) \in Access!Signals
  BY SignalsType DEF Access!VerifiedSignals, Access!Signals
<1>2. /\ SignalsOf(h).activated /\ SignalsOf(h).webdriver
      /\ ~SignalsOf(h).development /\ SignalsOf(h).crawler = "unknown"
  BY DEF SignalsOf
<1>3. /\ Access!VerifiedSignals(SignalsOf(h)).activated
      /\ Access!VerifiedSignals(SignalsOf(h)).webdriver
      /\ ~Access!VerifiedSignals(SignalsOf(h)).development
      /\ Access!VerifiedSignals(SignalsOf(h)).crawler = "unknown"
  BY <1>1, <1>2 DEF Access!VerifiedSignals, Access!Signals
<1>4. ASSUME NEW s \in Access!Signals, s.activated, s.webdriver, ~s.development,
             s.crawler = "unknown"
      PROVE  Access!RoutedDecision(s, "default", "balanced") = "BLOCK"
  <2>1. Access!EvaluateSignals(s).decision = "BLOCK"
    BY <1>4, TwoGroupsBlock DEF Access!EvaluateSignals, Access!Verdict
  <2> QED
    BY <2>1 DEF Access!RoutedDecision, Access!StrictDecision
<1> QED
  BY <1>1, <1>2, <1>3, <1>4 DEF VerifierAllows, GatewayDecision

-----------------------------------------------------------------------------
\* What a step does to a record: nothing it says against the session is lost, it
\* comes into being by its creation and is held against by its verification.
RecordGrows(s) ==
    /\ evidence[s].kept =>
           /\ evidence'[s].kept /\ evidence'[s].created = evidence[s].created
           /\ evidence[s].activated => evidence'[s].activated
           /\ evidence[s].webdriver => evidence'[s].webdriver
    /\ evidence'[s].kept =>
           evidence[s].kept \/ \E h \in Issuers : Create(h) /\ local[h].session = s
    /\ evidence'[s].webdriver =>
           evidence[s].webdriver \/ \E v \in Verifiers : Report(v) /\ req[v].target = s

\* A verifier that reports took the challenge of the session it reports on.
LEMMA ReporterTook ==
    ASSUME IInv, NEW v \in Handlers, pc[v] \in {"report"}
    PROVE  /\ v \in Verifiers /\ local[v].taken
           /\ req[v].target \in Sessions /\ local[v].session = req[v].target
<1>1. v \in Verifiers
  BY HandlerAssumption DEF IInv, Place, Verifiers, Kinds
<1> QED
  BY <1>1 DEF IInv, Attempt, Won, Winning

LEMMA NoSecondReport ==
    ASSUME IInv, NEW v \in Handlers, Report(v), Sourced(req[v].target)
    PROVE  ~evidence[req[v].target].webdriver
<1>1. pc[v] = "report"
  BY DEF Report, At
<1>2. v \in Verifiers /\ local[v].taken
  BY <1>1, ReporterTook
<1>3. ASSUME NEW w \in Verifiers, Reported(w, req[v].target) PROVE FALSE
  <2>1. w = v
    BY <1>2, <1>3 DEF Reported, IInv, Sole
  <2> QED
    BY <1>1, <1>3, <2>1 DEF Reported
<1> QED
  BY <1>3 DEF Sourced

LEMMA CreatorIsIssuer ==
    ASSUME IInv, NEW h \in Handlers, pc[h] \in {"create", "expose"}
    PROVE  h \in Issuers /\ local[h].session \in Sessions
<1>1. h \in Issuers
  BY HandlerAssumption DEF IInv, Place, Issuers, Kinds
<1> QED
  BY <1>1 DEF IInv, Telling, Minted, Told, Issuers

LEMMA RecordStep ==
    ASSUME IInv, TInv, Next, NEW s \in Sessions
    PROVE  RecordGrows(s)
<1>0. TypeOK /\ evidence[s] \in Evidences
  BY DEF IInv, TypeOK
<1>1. evidence' = evidence => RecordGrows(s)
  BY DEF RecordGrows
<1>2. ASSUME NEW h \in Handlers, Create(h) PROVE RecordGrows(s)
  <2>1. h \in Issuers /\ local[h].session \in Sessions /\ pc[h] = "create"
    BY <1>2, CreatorIsIssuer DEF Create, At
  <2>2. ~evidence[local[h].session].kept
    BY <2>1 DEF TInv, Creating
  <2>3. CASE local[h].session = s
    <3>1. ~evidence'[s].webdriver
      BY <1>0, <1>2, <2>3 DEF Create, NoEvidence, TypeOK
    <3> QED
      BY <1>2, <2>1, <2>2, <2>3, <3>1 DEF RecordGrows
  <2>4. CASE local[h].session # s
    <3>1. evidence'[s] = evidence[s]
      BY <1>0, <1>2, <2>1, <2>4 DEF Create, TypeOK
    <3> QED
      BY <3>1 DEF RecordGrows
  <2> QED
    BY <2>3, <2>4
<1>3. ASSUME NEW t, NEW r, Update(t, r),
             Kept(t) => /\ r.kept = evidence[t].kept /\ r.created = evidence[t].created
                        /\ evidence[t].activated => r.activated
                        /\ r.webdriver = evidence[t].webdriver
      PROVE  RecordGrows(s)
  <2>1. CASE Kept(t) /\ t = s
    <3>1. evidence'[s] = r
      BY <1>0, <1>3, <2>1 DEF Update, TypeOK
    <3> QED
      BY <1>3, <2>1, <3>1 DEF RecordGrows
  <2>2. CASE ~(Kept(t) /\ t = s)
    <3>1. evidence'[s] = evidence[s]
      BY <1>0, <1>3, <2>2 DEF Update, Kept, TypeOK
    <3> QED
      BY <3>1 DEF RecordGrows
  <2> QED
    BY <2>1, <2>2
<1>4. ASSUME NEW h \in Handlers, Expose(h) PROVE RecordGrows(s)
  <2> DEFINE t == local[h].session
             r == [evidence[t] EXCEPT !.exposed = TRUE]
  <2>1. Update(t, r)
    BY <1>4 DEF Expose
  <2>2. Kept(t) => /\ r.kept = evidence[t].kept /\ r.created = evidence[t].created
                   /\ evidence[t].activated => r.activated
                   /\ r.webdriver = evidence[t].webdriver
    BY <1>0, KeptType DEF Evidences
  <2> QED
    BY <1>3, <2>1, <2>2
<1>5. ASSUME NEW h \in Handlers, Touch(h) PROVE RecordGrows(s)
  <2> DEFINE t == local[h].session
             r == [evidence[t] EXCEPT !.activated = TRUE]
  <2>1. Update(t, r) \/ evidence' = evidence
    BY <1>5 DEF Touch
  <2>2. Kept(t) => /\ r.kept = evidence[t].kept /\ r.created = evidence[t].created
                   /\ evidence[t].activated => r.activated
                   /\ r.webdriver = evidence[t].webdriver
    BY <1>0, KeptType DEF Evidences
  <2> QED
    BY <1>1, <1>3, <2>1, <2>2
<1>6. ASSUME NEW h \in Handlers, Observe(h) PROVE RecordGrows(s)
  <2> DEFINE t == local[h].session
  <2>1. evidence' = evidence \/
        \E n : Update(t, [evidence[t] EXCEPT !.at = now, !.observed = n])
    BY <1>6 DEF Observe
  <2>2. ASSUME NEW n
        PROVE  LET r == [evidence[t] EXCEPT !.at = now, !.observed = n] IN
               Kept(t) => /\ r.kept = evidence[t].kept /\ r.created = evidence[t].created
                          /\ evidence[t].activated => r.activated
                          /\ r.webdriver = evidence[t].webdriver
    BY <1>0, KeptType DEF Evidences
  <2> HIDE DEF t
  <2> QED
    BY <1>1, <1>3, <2>1, <2>2
<1>7. ASSUME NEW v \in Handlers, Report(v) PROVE RecordGrows(s)
  <2>1. /\ v \in Verifiers /\ local[v].session = req[v].target /\ req[v].target \in Sessions
        /\ Update(req[v].target,
                  [evidence[req[v].target] EXCEPT !.webdriver = req[v].webdriver])
    BY <1>7, ReporterTook DEF Report, At
  <2>2. ~evidence[req[v].target].webdriver
    BY <1>7, <2>1, NoSecondReport DEF TInv
  <2>3. CASE Kept(s) /\ req[v].target = s
    <3>1. evidence'[s] = [evidence[s] EXCEPT !.webdriver = req[v].webdriver]
      BY <1>0, <2>1, <2>3 DEF Update, TypeOK
    <3> QED
      BY <1>0, <1>7, <2>1, <2>2, <2>3, <3>1 DEF RecordGrows, Evidences
  <2>4. CASE ~(Kept(s) /\ req[v].target = s)
    <3>1. evidence'[s] = evidence[s]
      BY <1>0, <2>1, <2>4 DEF Update, Kept, TypeOK
    <3> QED
      BY <3>1 DEF RecordGrows
  <2> QED
    BY <2>3, <2>4
<1>8. ASSUME NEW h \in Handlers, Serve(h) \/ Fail(h),
             ~Create(h), ~Expose(h), ~Touch(h), ~Observe(h), ~Report(h)
      PROVE  evidence' = evidence
  BY <1>8 DEF Serve, Fail, Arrive, Mint, Identify, Submitted, Consume, Reject, Check, Look,
              ConfigureVerifier, Issue, Conclude, Configure, Decide
<1>9. ASSUME NEW t \in Sessions, Revoke(t) PROVE evidence' = evidence
  BY <1>9 DEF Revoke
<1>10. Tick => evidence' = evidence
  BY DEF Tick
<1> QED
  BY <1>1, <1>2, <1>4, <1>5, <1>6, <1>7, <1>8, <1>9, <1>10 DEF Next

-----------------------------------------------------------------------------
\* A handler steps or stays as it is.
LEMMA StepsOrStays ==
    ASSUME TypeOK, Next, NEW h \in Handlers
    PROVE  \/ Serve(h) \/ Fail(h)
           \/ pc'[h] = pc[h] /\ req'[h] = req[h] /\ local'[h] = local[h]
<1>1. ASSUME NEW i \in Handlers, Serve(i) \/ Fail(i), i # h
      PROVE  pc'[h] = pc[h] /\ req'[h] = req[h] /\ local'[h] = local[h]
  BY <1>1, Frame
<1>2. ASSUME NEW s \in Sessions, Revoke(s)
      PROVE  pc'[h] = pc[h] /\ req'[h] = req[h] /\ local'[h] = local[h]
  BY <1>2 DEF Revoke
<1>3. Tick => pc'[h] = pc[h] /\ req'[h] = req[h] /\ local'[h] = local[h]
  BY DEF Tick
<1> QED
  BY <1>1, <1>2, <1>3 DEF Next

\* Which action of a handler writes what it has read and what was held against whom.
LEMMA CalmFlags ==
    ASSUME TypeOK, NEW h \in Handlers, Serve(h) \/ Fail(h)
    PROVE  /\ ~Arrive(h) => /\ local'[h].trapped = local[h].trapped
                            /\ local'[h].automated = local[h].automated
           /\ ~Look(h) => /\ local'[h].watched = local[h].watched
                          /\ local'[h].activated = local[h].activated
                          /\ local'[h].webdriver = local[h].webdriver
<1>0. local[h] \in Locals /\ local \in [Handlers -> Locals]
  BY DEF TypeOK
<1>1. CASE Arrive(h)
  <2>1. local'[h] = [local[h] EXCEPT !.trapped = Trapped, !.automated = Automated]
    BY <1>0, <1>1 DEF Arrive
  <2> QED
    BY <1>0, <1>1, <2>1 DEF Locals
<1>2. CASE Mint(h)
  <2>1. PICK s \in Sessions : local' = [local EXCEPT ![h].session = s]
    BY <1>2 DEF Mint
  <2> QED
    BY <1>0, <2>1 DEF Locals
<1>3. CASE Create(h) \/ Expose(h) \/ Touch(h) \/ Reject(h) \/ Report(h) \/ Fail(h)
  BY <1>3 DEF Create, Expose, Touch, Reject, Report, Fail
<1>4. CASE Identify(h) \/ Submitted(h)
  BY <1>0, <1>4 DEF Identify, Submitted, Locals
<1>5. CASE Consume(h)
  <2>1. local' = local \/ local'[h] = [local[h] EXCEPT !.taken = TRUE, !.takenAt = now]
    BY <1>0, <1>5 DEF Consume
  <2> QED
    BY <1>0, <2>1 DEF Locals
<1>6. CASE Check(h)
  BY <1>0, <1>6 DEF Check, Locals
<1>7. CASE Observe(h)
  <2>1. local' = local \/ \E b : local' = [local EXCEPT ![h].burst = b]
    BY <1>7 DEF Observe
  <2>2. local'[h] = local[h] \/ \E b : local'[h] = [local[h] EXCEPT !.burst = b]
    BY <1>0, <2>1
  <2> QED
    BY <1>0, <2>2 DEF Locals
<1>8. CASE Look(h)
  BY <1>0, <1>8 DEF Look, Locals
<1>9. CASE ConfigureVerifier(h) \/ Conclude(h) \/ Configure(h) \/ Decide(h)
  BY <1>9 DEF ConfigureVerifier, Conclude, Configure, Decide
<1>10. CASE Issue(h)
  BY <1>0, <1>10 DEF Issue, Locals
<1> QED
  BY <1>1, <1>2, <1>3, <1>4, <1>5, <1>6, <1>7, <1>8, <1>9, <1>10 DEF Serve

LEMMA ReportedKept ==
    ASSUME IInv, Next, NEW s, NEW v \in Verifiers, Reported(v, s)
    PROVE  Reported(v, s)'
<1>1. TypeOK /\ v \in Handlers /\ pc[v] \notin {"arrive", "submitted", "consume"}
  BY DEF IInv, Attempt, Reported, Verifiers
<1>2. CASE pc'[v] = pc[v] /\ req'[v] = req[v] /\ local'[v] = local[v]
  BY <1>2 DEF Reported
<1>3. CASE Serve(v) \/ Fail(v)
  <2>1. ~Arrive(v) /\ ~Consume(v)
    BY <1>1, Moves
  <2>2. req'[v] = req[v] /\ local'[v].taken = local[v].taken
    BY <1>1, <1>3, <2>1, Calm
  <2>3. pc'[v] # "report"
    BY <1>1, <1>3, <2>1, Moves DEF Serve
  <2> QED
    BY <2>2, <2>3 DEF Reported
<1> QED
  BY <1>1, <1>2, <1>3, StepsOrStays

LEMMA SourcedStep ==
    ASSUME IInv, TInv, Next, NEW s \in Sessions
    PROVE  Sourced(s)'
<1>1. TypeOK /\ RecordGrows(s) /\ Sourced(s) /\ (Minted(s) => Minted(s)')
  BY RecordStep, Forward DEF IInv, TInv
<1>2. ASSUME evidence'[s].kept PROVE Minted(s)'
  <2>1. ASSUME NEW h \in Issuers, Create(h), local[h].session = s PROVE Minted(s)
    BY <2>1 DEF IInv, Telling, Issuers, Create, At
  <2> QED
    BY <1>1, <1>2, <2>1 DEF RecordGrows, Sourced
<1>3. ASSUME evidence'[s].webdriver PROVE \E v \in Verifiers : Reported(v, s)'
  <2>1. CASE evidence[s].webdriver
    BY <1>1, <2>1, ReportedKept DEF Sourced
  <2>2. CASE \E v \in Verifiers : Report(v) /\ req[v].target = s
    <3>1. PICK v \in Verifiers : Report(v) /\ req[v].target = s
      BY <2>2
    <3>2. local[v].taken /\ pc'[v] = "observe" /\ req' = req /\ local' = local
      BY <1>1, <3>1, ReporterTook, Moves DEF Report, At, Verifiers
    <3> QED
      BY <3>1, <3>2 DEF Reported
  <2> QED
    BY <1>1, <1>3, <2>1, <2>2 DEF RecordGrows
<1> QED
  BY <1>2, <1>3 DEF Sourced

\* An issuer comes to create the record of a session it has just minted.
LEMMA ComesToCreate ==
    ASSUME IInv, NEW h \in Issuers, Serve(h) \/ Fail(h), pc'[h] = "create"
    PROVE  /\ evidence' = evidence
           /\ \E s \in Sessions : challenge[s].state = "none" /\ local'[h].session = s
<1>1. TypeOK /\ h \in Handlers /\ KindOf[h] = "issue"
  BY DEF IInv, Issuers
<1>2. Mint(h)
  <2>1. Arrive(h) => pc'[h] = "mint"
    BY <1>1, Moves DEF FirstStep
  <2> QED
    BY <1>1, <2>1, Moves DEF Serve
<1>3. PICK s \in Sessions :
         challenge[s].state = "none" /\ local' = [local EXCEPT ![h].session = s]
  BY <1>2 DEF Mint
<1>4. local'[h].session = s /\ evidence' = evidence
  BY <1>1, <1>2, <1>3 DEF Mint, TypeOK, Locals
<1> QED
  BY <1>3, <1>4

LEMMA CreatingStep ==
    ASSUME IInv, TInv, Next, NEW h \in Issuers
    PROVE  Creating(h)'
<1>1. TypeOK /\ h \in Handlers
  BY DEF IInv, Issuers
<1> SUFFICES ASSUME pc'[h] = "create" PROVE ~evidence'[local'[h].session].kept
  BY DEF Creating
<1>2. CASE pc'[h] = pc[h] /\ req'[h] = req[h] /\ local'[h] = local[h]
  <2> DEFINE s == local[h].session
  <2>1. s \in Sessions /\ ~evidence[s].kept
    BY <1>1, <1>2, CreatorIsIssuer DEF TInv, Creating
  <2>2. ASSUME NEW i \in Issuers, Create(i), local[i].session = s PROVE FALSE
    <3>1. i = h
      BY <1>2, <2>2 DEF TInv, SoleCreator, Create, At
    <3> QED
      BY <1>1, <1>2, <2>2, <3>1, Moves
  <2>3. RecordGrows(s)
    BY <2>1, RecordStep
  <2> HIDE DEF s
  <2>4. ~evidence'[s].kept
    BY <2>1, <2>2, <2>3 DEF RecordGrows
  <2> QED
    BY <1>2, <2>4 DEF s
<1>3. CASE Serve(h) \/ Fail(h)
  <2>1. PICK s \in Sessions : challenge[s].state = "none" /\ local'[h].session = s
    BY <1>3, ComesToCreate
  <2>2. ~evidence[s].kept /\ evidence' = evidence
    BY <1>3, <2>1, ComesToCreate DEF TInv, Sourced, Minted
  <2> QED
    BY <2>1, <2>2
<1> QED
  BY <1>1, <1>2, <1>3, StepsOrStays

LEMMA SoleCreatorStep ==
    ASSUME IInv, TInv, Next, NEW h \in Issuers, NEW i \in Issuers
    PROVE  SoleCreator(h, i)'
<1>1. TypeOK /\ h \in Handlers /\ i \in Handlers
  BY DEF IInv, Issuers
<1>2. ASSUME NEW j \in Issuers, NEW k \in Issuers, j # k, Serve(j) \/ Fail(j),
             pc'[j] = "create", pc'[k] = "create"
      PROVE  local'[j].session # local'[k].session
  <2>1. PICK s \in Sessions : challenge[s].state = "none" /\ local'[j].session = s
    BY <1>2, ComesToCreate
  <2>2. pc'[k] = pc[k] /\ local'[k] = local[k]
    BY <1>1, <1>2, Frame DEF Issuers
  <2>3. Minted(local[k].session)
    BY <1>2, <2>2 DEF IInv, Telling, Issuers
  <2> QED
    BY <2>1, <2>2, <2>3 DEF Minted
<1>3. CASE Serve(h) \/ Fail(h)
  BY <1>2, <1>3 DEF SoleCreator
<1>4. CASE Serve(i) \/ Fail(i)
  BY <1>2, <1>4 DEF SoleCreator
<1>5. CASE /\ pc'[h] = pc[h] /\ local'[h] = local[h]
           /\ pc'[i] = pc[i] /\ local'[i] = local[i]
  BY <1>5 DEF TInv, SoleCreator
<1> QED
  BY <1>1, <1>3, <1>4, <1>5, StepsOrStays

LEMMA OnRecordStep ==
    ASSUME IInv, TInv, Next, NEW h \in Handlers
    PROVE  OnRecord(h)'
<1>1. TypeOK /\ local[h] \in Locals /\ OnRecord(h) /\ \A s \in Sessions : RecordGrows(s)
  BY RecordStep DEF IInv, TInv, TypeOK
<1>2. CASE local'[h].trapped = local[h].trapped /\ local'[h].automated = local[h].automated
  BY <1>1, <1>2 DEF OnRecord, RecordGrows, Locals
<1>3. CASE Arrive(h)
  <2>1. local'[h].trapped = Trapped /\ local'[h].automated = Automated /\ evidence' = evidence
    BY <1>1, <1>3 DEF Arrive, TypeOK, Locals
  <2> QED
    BY <2>1 DEF OnRecord, Trapped, Automated, Kept
<1> QED
  BY <1>1, <1>2, <1>3, StepsOrStays, CalmFlags

\* A taint is a matter of what a request was when it arrived and of whose it is.
LEMMA TaintedSame ==
    ASSUME NEW h, req'[h].webdriver = req[h].webdriver, local'[h].session = local[h].session,
           local'[h].trapped = local[h].trapped, local'[h].automated = local[h].automated
    PROVE  Tainted(h)' <=> Tainted(h)
  BY DEF Tainted

\* The record of a tainted request keeps what it holds against it, or has lapsed.
LEMMA TaintStays ==
    ASSUME IInv, TInv, Next, NEW h \in Handlers, Tainted(h), NEW s, local[h].session = s,
           evidence[s].webdriver \/ Lapsed(s)
    PROVE  (evidence[s].webdriver \/ Lapsed(s))'
<1>1. TypeOK /\ TypeOK' /\ s \in Sessions /\ evidence[s].kept
  <2>1. TypeOK /\ TypeOK'
    BY StepType DEF IInv
  <2>2. s \in local[h].trapped /\ local[h].trapped \subseteq Sessions
    BY <2>1 DEF Tainted, TypeOK, Locals
  <2> QED
    BY <2>1, <2>2 DEF TInv, OnRecord
<1>2. RecordGrows(s)
  BY <1>1, RecordStep
<1>3. now <= now' /\ now \in Nat /\ now' \in Nat /\ evidence[s].created \in Nat
      /\ EvidenceTtl \in Nat
  BY <1>1, Forward, TimeAssumption DEF IInv, TypeOK, Evidences
<1>4. evidence'[s].created = evidence[s].created
      /\ (evidence[s].webdriver => evidence'[s].webdriver)
  BY <1>1, <1>2 DEF RecordGrows
<1> QED
  BY <1>3, <1>4 DEF Lapsed

LEMMA HeededStep ==
    ASSUME IInv, TInv, Next, NEW h \in Handlers
    PROVE  Heeded(h)'
<1> PICK s : s = local[h].session
  OBVIOUS
<1>1. /\ TypeOK /\ Place(h) /\ local[h] \in Locals /\ req[h] \in Requests
      /\ KindOf[h] \in Kinds
  BY HandlerAssumption DEF IInv, TypeOK
<1>2. OnRecord(h) /\ Heeded(h)
  BY DEF TInv
<1>3. (KindOf[h] = "verify" /\ local[h].issued) => pc[h] \in {"conclude", "verified", "failed"}
  BY DEF IInv, Attempt, Verifiers
<1>4. CASE pc'[h] = pc[h] /\ req'[h] = req[h] /\ local'[h] = local[h]
  <2>1. Tainted(h)' <=> Tainted(h)
    BY <1>4 DEF Tainted
  <2> QED
    BY <1>2, <1>4, <2>1, TaintStays DEF Heeded
<1>5. CASE Arrive(h)
  <2>1. pc[h] = "arrive" /\ pc'[h] = FirstStep[KindOf[h]]
    BY <1>1, <1>5, Moves
  <2>2. pc'[h] \in {"mint", "submitted", "identify", "configure"}
        /\ (KindOf[h] = "verify" => pc'[h] = "submitted")
    BY <1>1, <2>1 DEF FirstStep, Kinds
  <2>3. KindOf[h] = "verify" => ~local[h].issued /\ ~local'[h].issued
    BY <1>1, <1>3, <1>5, <2>1, Calm, Moves DEF Serve
  <2> QED
    BY <2>2, <2>3 DEF Heeded
<1>6. CASE Report(h)
  <2>1. /\ pc[h] = "report" /\ pc'[h] = "observe" /\ req' = req /\ local' = local /\ now' = now
        /\ Update(s, [evidence[s] EXCEPT !.webdriver = req[h].webdriver])
    BY <1>1, <1>6, Moves DEF Report
  <2>2. KindOf[h] = "verify" /\ s \in Sessions
    BY <2>1, ReporterTook DEF Verifiers
  <2>3. ASSUME Tainted(h), ~Lapsed(s) PROVE evidence'[s].webdriver
    <3>1. evidence[s].kept /\ req[h].webdriver
      BY <1>2, <2>2, <2>3 DEF Tainted, OnRecord
    <3>2. Kept(s)
      BY <1>1, <2>2, <2>3, <3>1, TimeAssumption DEF Kept, Lapsed, TypeOK, Evidences
    <3> QED
      BY <1>1, <2>1, <2>2, <3>1, <3>2 DEF Update, TypeOK, Evidences
  <2>4. Lapsed(s) => Lapsed(s)'
    BY <1>1, <2>1, <2>2 DEF Lapsed, Update, TypeOK, Evidences
  <2>5. (Tainted(h)' <=> Tainted(h)) /\ local'[h].session = s
    BY <2>1 DEF Tainted
  <2>6. ~local'[h].issued
    BY <1>3, <2>1, <2>2
  <2> QED
    BY <2>1, <2>2, <2>3, <2>4, <2>5, <2>6 DEF Heeded, Lapsed
<1>7. CASE Look(h)
  <2>1. pc[h] = "look" /\ pc'[h] = IF KindOf[h] = "verify" THEN "configure" ELSE "proxy"
    BY <1>1, <1>7, Moves
  <2>2. /\ local'[h] = [local[h] EXCEPT
                !.watched = Kept(s),
                !.activated = Kept(s) /\ evidence[s].activated,
                !.webdriver = Kept(s) /\ evidence[s].webdriver]
        /\ req' = req
    BY <1>1, <1>7 DEF Look, TypeOK
  <2>3. /\ local'[h].watched = Kept(s)
        /\ local'[h].activated = (Kept(s) /\ evidence[s].activated)
        /\ local'[h].webdriver = (Kept(s) /\ evidence[s].webdriver)
        /\ local'[h].session = s
        /\ local'[h].trapped = local[h].trapped /\ local'[h].automated = local[h].automated
        /\ local'[h].issued = local[h].issued
    BY <1>1, <2>2 DEF Locals
  <2>4. Tainted(h)' <=> Tainted(h)
    BY <2>2, <2>3, TaintedSame
  <2>5. ASSUME Tainted(h), Kept(s) PROVE local'[h].activated /\ local'[h].webdriver
    <3>1. s \in local[h].trapped /\ evidence[s].activated
      BY <1>2, <2>5 DEF Tainted, OnRecord
    <3>2. ~Lapsed(s)
      BY <1>1, <2>5, TimeAssumption DEF Kept, Lapsed, TypeOK, Evidences
    <3>3. KindOf[h] = "verify" => evidence[s].webdriver
      BY <1>2, <2>1, <2>5, <3>2 DEF Heeded
    <3>4. KindOf[h] # "verify" => evidence[s].webdriver
      BY <1>2, <2>5 DEF Tainted, OnRecord
    <3> QED
      BY <2>3, <2>5, <3>1, <3>3, <3>4
  <2>6. ~(KindOf[h] = "verify" /\ local'[h].issued)
    BY <1>3, <2>1, <2>3
  <2> QED
    BY <2>1, <2>3, <2>4, <2>5, <2>6 DEF Heeded
<1>8. CASE ConfigureVerifier(h)
  <2>1. /\ pc[h] = "configure" /\ KindOf[h] = "verify" /\ req' = req /\ local' = local
        /\ pc'[h] = IF VerifierAllows(h) THEN "issue" ELSE "failure"
    BY <1>1, <1>8 DEF ConfigureVerifier, Goto, At, TypeOK
  <2>2. (local[h].watched /\ Tainted(h)) => ~VerifierAllows(h)
    BY <1>1, <1>2, <2>1, TaintedIsNotAllowed DEF Heeded
  <2>3. Tainted(h)' <=> Tainted(h)
    BY <2>1 DEF Tainted
  <2>4. ~local'[h].issued
    BY <1>3, <2>1
  <2> QED
    BY <2>1, <2>2, <2>3, <2>4 DEF Heeded
<1>9. CASE Decide(h)
  <2>1. pc[h] = "proxy" /\ req' = req /\ local' = local
    BY <1>9 DEF Decide, At
  <2>2. KindOf[h] = "get"
    BY <1>1, <2>1 DEF Place, Kinds
  <2>3. pc'[h] \in {"released", "blocked", "challenged"}
    BY <1>1, <1>9, Moves
  <2>4. pc'[h] = "released" => GatewayDecision(h) = "ALLOW"
    <3>1. GatewayDecision(h) \in {"ALLOW", "BLOCK", "CHALLENGE"}
      BY <1>1, DecisionType DEF Requests
    <3>2. GatewayDecision(h) # "ALLOW" => pc'[h] \in {"blocked", "challenged"}
      BY <1>1, <1>9, <3>1 DEF Decide, Goto, TypeOK
    <3> QED
      BY <3>2
  <2>5. (local[h].watched /\ Tainted(h) /\ req[h].route = "default") =>
            GatewayDecision(h) # "ALLOW"
    BY <1>1, <1>2, <2>1, TaintedIsNotAllowed DEF Heeded
  <2>6. Tainted(h)' <=> Tainted(h)
    BY <2>1 DEF Tainted
  <2> QED
    BY <2>1, <2>2, <2>3, <2>4, <2>5, <2>6 DEF Heeded
<1>10. CASE Observe(h) \/ Issue(h) \/ Conclude(h) \/ Fail(h)
  <2>1. /\ ~Arrive(h) /\ ~Mint(h) /\ ~Identify(h) /\ ~Submitted(h) /\ ~Check(h) /\ ~Look(h)
        /\ Serve(h) \/ Fail(h)
    BY <1>1, <1>10, Moves DEF Serve, Terminal
  <2>2. /\ req'[h] = req[h] /\ local'[h].session = s
        /\ local'[h].trapped = local[h].trapped /\ local'[h].automated = local[h].automated
        /\ local'[h].watched = local[h].watched
    BY <1>1, <2>1, Calm, CalmFlags
  <2>3. Tainted(h)' <=> Tainted(h)
    BY <2>2, TaintedSame
  <2>4. \/ pc[h] = "observe" /\ pc'[h] = "look"
        \/ pc[h] = "issue" /\ pc'[h] = "conclude"
        \/ pc[h] = "conclude" /\ pc'[h] = "verified"
        \/ pc'[h] = "failed"
    BY <1>1, <1>10, Moves
  <2>5. local'[h].issued => local[h].issued \/ pc[h] = "issue"
    BY <1>1, <2>1, Calm, Moves
  <2>6. (KindOf[h] = "verify" /\ pc'[h] = "look" /\ Tainted(h)) =>
            (evidence[s].webdriver \/ Lapsed(s))'
    BY <1>2, <2>2, <2>4, TaintStays DEF Heeded
  <2>7. (KindOf[h] = "verify" /\ (pc'[h] = "issue" \/ local'[h].issued) /\ local[h].watched) =>
            ~Tainted(h)
    BY <1>2, <2>4, <2>5 DEF Heeded
  <2> QED
    BY <2>2, <2>3, <2>4, <2>6, <2>7 DEF Heeded
<1>11. CASE /\ Serve(h)
            /\ ~Arrive(h) /\ ~Report(h) /\ ~Look(h) /\ ~ConfigureVerifier(h) /\ ~Decide(h)
            /\ ~Observe(h) /\ ~Issue(h) /\ ~Conclude(h)
  <2>1. /\ pc'[h] \notin {"look", "proxy", "released", "issue", "configure"}
        /\ pc'[h] = "observe" => KindOf[h] # "verify"
        /\ pc[h] \notin {"conclude", "verified", "failed"}
    BY <1>1, <1>11, Moves DEF Serve, Place
  <2>2. (KindOf[h] = "verify") => ~local'[h].issued
    BY <1>1, <1>3, <1>11, <2>1, Calm
  <2> QED
    BY <2>1, <2>2 DEF Heeded
<1> QED
  BY <1>1, <1>4, <1>5, <1>6, <1>7, <1>8, <1>9, <1>10, <1>11, StepsOrStays

-----------------------------------------------------------------------------
LEMMA InitTaint == Init => TInv
<1> SUFFICES ASSUME Init PROVE TInv
  OBVIOUS
<1>1. ASSUME NEW h \in Handlers PROVE OnRecord(h) /\ Heeded(h)
  BY <1>1 DEF Init, OnRecord, Heeded, Tainted, NoLocal
<1>2. \A s \in Sessions : Sourced(s)
  BY DEF Init, Sourced, NoEvidence
<1>3. \A h, i \in Issuers : Creating(h) /\ SoleCreator(h, i)
  BY DEF Init, Issuers, Creating, SoleCreator
<1> QED
  BY <1>1, <1>2, <1>3 DEF TInv

LEMMA StepTaint == IInv /\ TInv /\ [Next]_vars => TInv'
<1>1. ASSUME IInv, TInv, Next PROVE TInv'
  <2>1. \A s \in Sessions : Sourced(s)'
    BY <1>1, SourcedStep
  <2>2. \A h, i \in Issuers : Creating(h)' /\ SoleCreator(h, i)'
    BY <1>1, CreatingStep, SoleCreatorStep
  <2>3. \A h \in Handlers : OnRecord(h)' /\ Heeded(h)'
    BY <1>1, OnRecordStep, HeededStep
  <2> QED
    BY <2>1, <2>2, <2>3 DEF TInv, Issuers
<1>2. ASSUME TInv, UNCHANGED vars PROVE TInv'
  BY <1>2 DEF vars, TInv, Sourced, Reported, Minted, Creating, SoleCreator, OnRecord, Heeded,
              Tainted, Lapsed, Issuers
<1> QED
  BY <1>1, <1>2

\* The taint invariant holds in every reachable state.
THEOREM TaintInductive == Spec => []TInv
  BY Inductive, InitTaint, StepTaint, PTL DEF Spec

\* A protected request of a session that was trapped and automated when it arrived
\* is not released on a default route, as long as its record was read, whatever ran
\* at the same time (gateway/app.py, collect_signals and the catch-all route).
THEOREM TaintHolds == Spec => []TaintIsNeverReleased
<1>1. TInv => TaintIsNeverReleased
  BY DEF TInv, Heeded, Tainted, TaintIsNeverReleased, Getters, At
<1> QED
  BY <1>1, TaintInductive, PTL

\* A verification that reports automation, of a session trapped before it was sent,
\* issues no session, whatever ran at the same time (gateway/app.py, verify).
THEOREM TaintDenies == Spec => []TaintedVerificationIsDenied
<1>1. ASSUME IInv, TInv, NEW v \in Verifiers, local[v].issued, local[v].watched,
             req[v].webdriver
      PROVE  req[v].binding \notin local[v].trapped
  <2>1. local[v].session = req[v].binding
    BY <1>1 DEF IInv, Attempt, Won
  <2>2. ~Tainted(v) /\ KindOf[v] = "verify"
    BY <1>1 DEF TInv, Heeded, Verifiers
  <2> QED
    BY <1>1, <2>1, <2>2 DEF Tainted
<1>2. IInv /\ TInv => TaintedVerificationIsDenied
  BY <1>1 DEF TaintedVerificationIsDenied
<1> QED
  BY <1>2, Inductive, TaintInductive, PTL
=============================================================================
