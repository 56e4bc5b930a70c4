------------------------------ MODULE Gateway ------------------------------
(***************************************************************************)
(* The gateway of app.py over its Redis state, as several workers serve    *)
(* it: challenge issuance, traps, verification and protected requests run  *)
(* concurrently, one action per call to shared state.  RedisChallenges and *)
(* RedisEvidence show that consuming a challenge and updating a record are *)
(* atomic, so they are single steps here.  A session id names its          *)
(* challenge too: POST /challenge creates the two together.                *)
(***************************************************************************)
EXTENDS Integers, FiniteSets

CONSTANTS
    Sessions,       \* session ids that can be drawn
    NoSession,      \* an absent cookie, and the credential that never verifies
    Handlers,       \* requests in flight, each served once
    KindOf,         \* KindOf[h] \in {"issue", "verify", "trap", "get"}
    Routes,         \* route actions protected paths can have
    Facts,          \* which optional facts about a request clients vary
    Lifetime,       \* LIFETIME of challenges, sessions and tokens (300)
    EvidenceTtl,    \* lifetime of evidence (600)
    TrapTtl,        \* lifetime of traps (300)
    BurstLimit,     \* observed requests per horizon that are no burst (30)
    MaxTime         \* bound on the time a run explores

Kinds == {"issue", "verify", "trap", "get"}

Access == INSTANCE AccessPolicy WITH Paths <- {}

ASSUME TimeAssumption ==
    /\ Lifetime \in Nat /\ TrapTtl \in Nat /\ BurstLimit \in Nat /\ MaxTime \in Nat
    /\ EvidenceTtl \in Nat /\ EvidenceTtl >= 2 * Lifetime
ASSUME HandlerAssumption ==
    /\ KindOf \in [Handlers -> Kinds]
    /\ NoSession \notin Sessions
    /\ Routes \subseteq Access!RouteActions

VARIABLES
    now,        \* time, in units no shorter than the burst horizon
    challenge,  \* challenge[s]: its state in Redis and when it was minted
    evidence,   \* evidence[s]: what the policy reads of the evidence record
    session,    \* session[s]: when the Redis session key lapses, 0 if absent
    token,      \* token[s]: expiry of the signed token handed out, 0 if none
    revoked,    \* revoked[s]: an operator deleted the issued session (history)
    pc,         \* pc[h]: the next step of request h
    req,        \* req[h]: what the client sent
    local       \* local[h]: what the handler has read, and history

vars == <<now, challenge, evidence, session, token, revoked, pc, req, local>>

NoChallenge == [state |-> "none", born |-> 0]
NoEvidence == [kept |-> FALSE, created |-> 0, exposed |-> FALSE, activated |-> FALSE,
               webdriver |-> FALSE, observed |-> 0, at |-> 0]
NoRequest == [binding |-> NoSession, body |-> NoSession, target |-> NoSession,
              token |-> NoSession, bad |-> FALSE, nonce |-> FALSE, webdriver |-> FALSE,
              header |-> FALSE, navigation |-> FALSE, route |-> "default"]
NoLocal == [session |-> NoSession, valid |-> FALSE, watched |-> FALSE,
            activated |-> FALSE, webdriver |-> FALSE, burst |-> FALSE,
            trapped |-> {}, automated |-> {}, taken |-> FALSE, issued |-> FALSE,
            takenAt |-> 0, issuedAt |-> 0, checkedAt |-> 0]

AnySession == Sessions \cup {NoSession}

Terminal == {"answered", "verified", "refused", "released", "blocked", "challenged", "failed"}
PCs == Terminal \cup
       {"arrive", "mint", "create", "expose", "identify", "touch", "submitted", "consume",
        "failure", "report", "observe", "look", "configure", "issue", "conclude", "check",
        "proxy"}

Init ==
    /\ now = 0
    /\ challenge = [s \in Sessions |-> NoChallenge]
    /\ evidence = [s \in Sessions |-> NoEvidence]
    /\ session = [s \in Sessions |-> 0]
    /\ token = [s \in Sessions |-> 0]
    /\ revoked = [s \in Sessions |-> FALSE]
    /\ pc = [h \in Handlers |-> "arrive"]
    /\ req = [h \in Handlers |-> NoRequest]
    /\ local = [h \in Handlers |-> NoLocal]

-----------------------------------------------------------------------------
\* Step of handler h from pc "from" to pc "to".
At(h, from) == pc[h] = from
Goto(h, to) == pc' = [pc EXCEPT ![h] = to]

\* The evidence of s is still in Redis; an update of a lapsed record is void.
Kept(s) == s \in Sessions /\ evidence[s].kept /\ now < evidence[s].created + EvidenceTtl

Update(s, record) ==
    evidence' = IF Kept(s) THEN [evidence EXCEPT ![s] = record] ELSE evidence

\* Slip: a key set without expiry.
SessionSet(s) == s \in Sessions /\ session[s] # 0

SessionLive(s) == s \in Sessions /\ now < session[s]

\* verify_access_token: the session a presented token names, if it is ours and
\* within its lifetime.
Verified(h) ==
    IF req[h].token \in Sessions /\ now < token[req[h].token]
    THEN req[h].token ELSE NoSession

\* Session ids some browser was told.
Known == {local[h].session : h \in {i \in Handlers : KindOf[i] = "issue" /\ At(i, "answered")}}

Trapped == {s \in Sessions : Kept(s) /\ evidence[s].activated}
Automated == {s \in Sessions : Kept(s) /\ evidence[s].webdriver}

\* What a request of each kind can carry: any cookies and ids of known sessions,
\* whoever they were given to, and the facts that clients vary.
Maybe(fact, default) == IF fact \in Facts THEN BOOLEAN ELSE {default}

Cookie == Known \cup {NoSession}

TokenCookie == {s \in Sessions : token[s] # 0} \cup {NoSession}

VerifyRequests ==
    [binding : Cookie, body : Cookie, target : Known, token : {NoSession}, bad : {FALSE},
     nonce : Maybe("nonce", TRUE), webdriver : Maybe("webdriver", FALSE),
     header : Maybe("header", FALSE), navigation : {FALSE}, route : {"default"}]

TrapRequests ==
    [binding : Cookie, body : {NoSession}, target : Known, token : TokenCookie, bad : {FALSE},
     nonce : {FALSE}, webdriver : {FALSE}, header : {FALSE}, navigation : {FALSE},
     route : {"default"}]

GetRequests ==
    [binding : Cookie, body : {NoSession}, target : {NoSession}, token : TokenCookie,
     bad : Maybe("bad", FALSE), nonce : {FALSE}, webdriver : {FALSE},
     header : Maybe("header", FALSE), navigation : Maybe("navigation", TRUE), route : Routes]

FirstStep == [issue |-> "mint", verify |-> "submitted", trap |-> "identify", get |-> "configure"]

RequestsOf(kind) ==
    CASE kind = "issue" -> {NoRequest}
      [] kind = "verify" -> VerifyRequests
      [] kind = "trap" -> TrapRequests
      [] kind = "get" -> GetRequests

Arrive(h) ==
    /\ At(h, "arrive")
    /\ \E r \in RequestsOf(KindOf[h]) : req' = [req EXCEPT ![h] = r]
    /\ local' = [local EXCEPT ![h] = [@ EXCEPT !.trapped = Trapped, !.automated = Automated]]
    /\ Goto(h, FirstStep[KindOf[h]])
    /\ UNCHANGED <<now, challenge, evidence, session, token, revoked>>

-----------------------------------------------------------------------------
\* POST /challenge: a fresh session id and its challenge, then its evidence,
\* then the traps; only then does the browser learn the session id.
Mint(h) ==
    /\ At(h, "mint")
    /\ \E s \in Sessions :
           /\ challenge[s].state = "none"
           /\ challenge' = [challenge EXCEPT ![s] = [state |-> "open", born |-> now]]
           /\ local' = [local EXCEPT ![h].session = s]
    /\ Goto(h, "create")
    /\ UNCHANGED <<now, evidence, session, token, revoked, req>>

Create(h) ==
    /\ At(h, "create")
    /\ evidence' = [evidence EXCEPT ![local[h].session] =
           [NoEvidence EXCEPT !.kept = TRUE, !.created = now]]
    /\ Goto(h, "expose")
    /\ UNCHANGED <<now, challenge, session, token, revoked, req, local>>

Expose(h) ==
    LET s == local[h].session IN
    /\ At(h, "expose")
    /\ Update(s, [evidence[s] EXCEPT !.exposed = TRUE])
    /\ Goto(h, "answered")
    /\ UNCHANGED <<now, challenge, session, token, revoked, req, local>>

-----------------------------------------------------------------------------
\* Trap endpoints: interaction_session prefers the challenge cookie, else takes
\* a verified token whose session is live ...
Identify(h) ==
    /\ At(h, "identify")
    /\ local' = [local EXCEPT ![h].session =
           IF req[h].binding # NoSession THEN req[h].binding
           ELSE IF SessionLive(Verified(h)) THEN Verified(h) ELSE NoSession]
    /\ Goto(h, "touch")
    /\ UNCHANGED <<now, challenge, evidence, session, token, revoked, req>>

\* ... and activate_experiment touches the record of that session only.
Touch(h) ==
    LET s == local[h].session IN
    /\ At(h, "touch")
    /\ IF /\ s = req[h].target /\ Kept(s) /\ evidence[s].exposed
          /\ now < evidence[s].created + TrapTtl
       THEN Update(s, [evidence[s] EXCEPT !.activated = TRUE])
       ELSE UNCHANGED evidence
    /\ Goto(h, "answered")
    /\ UNCHANGED <<now, challenge, session, token, revoked, req, local>>

-----------------------------------------------------------------------------
\* POST /challenge/verify: a body that does not match the cookie is rejected
\* without a look at the challenge.
Submitted(h) ==
    /\ At(h, "submitted")
    /\ Goto(h, IF req[h].binding = req[h].body THEN "consume" ELSE "failure")
    /\ local' = [local EXCEPT ![h].session = req[h].binding]
    /\ UNCHANGED <<now, challenge, evidence, session, token, revoked, req>>

\* Slips: the challenge is not spent, it never lapses.
SpendsAgain(h) ==
    req[h].target = req[h].binding /\ challenge[req[h].target].state # "none"
PassesLate(h) == req[h].nonce

\* The bound session's attempt spends an open challenge, right or wrong.
Spends(h) == req[h].target = req[h].binding /\ challenge[req[h].target].state = "open"

Passes(h) == req[h].nonce /\ now < challenge[req[h].target].born + Lifetime

Consume(h) ==
    LET c == req[h].target IN
    /\ At(h, "consume")
    /\ IF Spends(h)
       THEN /\ challenge' = [challenge EXCEPT ![c].state = "spent"]
            /\ Goto(h, IF Passes(h) THEN "report" ELSE "failure")
            /\ local' = [local EXCEPT ![h] = [@ EXCEPT !.taken = TRUE, !.takenAt = now]]
       ELSE /\ Goto(h, "failure")
            /\ UNCHANGED <<challenge, local>>
    /\ UNCHANGED <<now, evidence, session, token, revoked, req>>

\* failure() and the rejected event, neither of which the policy reads: 403.
Reject(h) ==
    /\ At(h, "failure")
    /\ Goto(h, "refused")
    /\ UNCHANGED <<now, challenge, evidence, session, token, revoked, req, local>>

\* Slip: the report starts a new record.
FreshReport(h) ==
    LET s == local[h].session IN
    /\ At(h, "report")
    /\ Update(s, [NoEvidence EXCEPT !.kept = TRUE, !.created = evidence[s].created,
                                    !.webdriver = req[h].webdriver])
    /\ Goto(h, "observe")
    /\ UNCHANGED <<now, challenge, session, token, revoked, req, local>>

\* report() replaces what the browser said of itself.
Report(h) ==
    LET s == local[h].session IN
    /\ At(h, "report")
    /\ Update(s, [evidence[s] EXCEPT !.webdriver = req[h].webdriver])
    /\ Goto(h, "observe")
    /\ UNCHANGED <<now, challenge, session, token, revoked, req, local>>

-----------------------------------------------------------------------------
\* collect_signals, the part on sessions: the evidence read is that of the
\* token's session, live or not, else that of the challenge cookie.
Check(h) ==
    LET s == Verified(h) IN
    /\ At(h, "check")
    /\ local' = [local EXCEPT ![h] =
           [@ EXCEPT !.valid = SessionLive(s), !.checkedAt = now,
                     !.session = IF s # NoSession THEN s ELSE req[h].binding]]
    /\ Goto(h, "observe")
    /\ UNCHANGED <<now, challenge, evidence, session, token, revoked, req>>

\* Requests of the last unit of time may be within the horizon or not.
StillCounted(s) ==
    IF now = evidence[s].at THEN {evidence[s].observed}
    ELSE IF now = evidence[s].at + 1 THEN 0..evidence[s].observed ELSE {0}

\* observe: this request counts towards the rate of its session, and learns the
\* count, which needs to be known only up to the first one that is a burst.
Observe(h) ==
    LET s == local[h].session IN
    /\ At(h, "observe")
    /\ IF Kept(s)
       THEN \E n \in StillCounted(s) :
                LET count == IF n > BurstLimit THEN n ELSE n + 1 IN
                /\ Update(s, [evidence[s] EXCEPT !.at = now, !.observed = count])
                /\ local' = [local EXCEPT ![h].burst = count > BurstLimit]
       ELSE UNCHANGED <<evidence, local>>
    /\ Goto(h, "look")
    /\ UNCHANGED <<now, challenge, session, token, revoked, req>>

\* The last read of the record: what the decision will be based on.
Look(h) ==
    LET s == local[h].session IN
    /\ At(h, "look")
    /\ local' = [local EXCEPT ![h] =
           [@ EXCEPT !.watched = Kept(s),
                     !.activated = Kept(s) /\ evidence[s].activated,
                     !.webdriver = Kept(s) /\ evidence[s].webdriver]]
    /\ Goto(h, IF KindOf[h] = "verify" THEN "configure" ELSE "proxy")
    /\ UNCHANGED <<now, challenge, evidence, session, token, revoked, req>>

SignalsOf(h) ==
    [invalid_token |-> (req[h].token # NoSession \/ req[h].bad) /\ ~local[h].valid,
     development |-> FALSE, valid |-> local[h].valid, crawler |-> "unknown",
     activated |-> local[h].activated, phase |-> "none", replays |-> 0, families |-> 0,
     burst |-> local[h].burst, header_inconsistent |-> req[h].header,
     webdriver |-> local[h].webdriver, browser_navigation |-> req[h].navigation]

VerifierAllows(h) ==
    Access!RoutedDecision(Access!VerifiedSignals(SignalsOf(h)), "default", "balanced") = "ALLOW"

GatewayDecision(h) == Access!RoutedDecision(SignalsOf(h), req[h].route, "balanced")

-----------------------------------------------------------------------------
\* The verifier reads the dashboard configuration, for its strictness, after it
\* has collected the signals; a denial is recorded and answered 403.
ConfigureVerifier(h) ==
    /\ At(h, "configure") /\ KindOf[h] = "verify"
    /\ Goto(h, IF VerifierAllows(h) THEN "issue" ELSE "failure")
    /\ UNCHANGED <<now, challenge, evidence, session, token, revoked, req, local>>

Issue(h) ==
    LET s == local[h].session IN
    /\ At(h, "issue")
    /\ session' = [session EXCEPT ![s] = now + Lifetime]
    /\ local' = [local EXCEPT ![h] = [@ EXCEPT !.issued = TRUE, !.issuedAt = now]]
    /\ Goto(h, "conclude")
    /\ UNCHANGED <<now, challenge, evidence, token, revoked, req>>

\* The issued event, then the token of the response.
Conclude(h) ==
    /\ At(h, "conclude")
    /\ token' = [token EXCEPT ![local[h].session] = now + Lifetime]
    /\ Goto(h, "verified")
    /\ UNCHANGED <<now, challenge, evidence, session, revoked, req, local>>

-----------------------------------------------------------------------------
\* A protected request reads the dashboard configuration first.
Configure(h) ==
    /\ At(h, "configure") /\ KindOf[h] = "get"
    /\ Goto(h, "check")
    /\ UNCHANGED <<now, challenge, evidence, session, token, revoked, req, local>>

\* The decision is final: the answer of the origin is released as it comes back.
Decide(h) ==
    /\ At(h, "proxy")
    /\ Goto(h, CASE GatewayDecision(h) = "ALLOW" -> "released"
                 [] GatewayDecision(h) = "BLOCK" -> "blocked"
                 [] GatewayDecision(h) = "CHALLENGE" -> "challenged")
    /\ UNCHANGED <<now, challenge, evidence, session, token, revoked, req, local>>

-----------------------------------------------------------------------------
\* A Redis or configuration error (503), an origin error (502), a client that
\* left or a worker that died: the request ends where it is.
Fail(h) ==
    /\ pc[h] \notin Terminal \cup {"arrive"}
    /\ Goto(h, "failed")
    /\ UNCHANGED <<now, challenge, evidence, session, token, revoked, req, local>>

\* An operator revokes a session.
Revoke(s) ==
    /\ session[s] # 0
    /\ session' = [session EXCEPT ![s] = 0]
    /\ revoked' = [revoked EXCEPT ![s] = TRUE]
    /\ UNCHANGED <<now, challenge, evidence, token, pc, req, local>>

Tick ==
    /\ now < MaxTime
    /\ now' = now + 1
    /\ UNCHANGED <<challenge, evidence, session, token, revoked, pc, req, local>>

Serve(h) ==
    \/ Arrive(h)
    \/ Mint(h) \/ Create(h) \/ Expose(h)
    \/ Identify(h) \/ Touch(h)
    \/ Submitted(h) \/ Consume(h) \/ Reject(h) \/ Report(h)
    \/ Check(h) \/ Observe(h) \/ Look(h)
    \/ ConfigureVerifier(h) \/ Issue(h) \/ Conclude(h)
    \/ Configure(h) \/ Decide(h)

Next ==
    \/ \E h \in Handlers : Serve(h) \/ Fail(h)
    \/ \E s \in Sessions : Revoke(s)
    \/ Tick

Spec == Init /\ [][Next]_vars

-----------------------------------------------------------------------------
Requests ==
    [binding : AnySession, body : AnySession, target : AnySession, token : AnySession,
     bad : BOOLEAN, nonce : BOOLEAN, webdriver : BOOLEAN, header : BOOLEAN,
     navigation : BOOLEAN, route : Access!RouteActions]

Locals ==
    [session : AnySession, valid : BOOLEAN, watched : BOOLEAN, activated : BOOLEAN,
     webdriver : BOOLEAN, burst : BOOLEAN, trapped : SUBSET Sessions,
     automated : SUBSET Sessions, taken : BOOLEAN, issued : BOOLEAN,
     takenAt : Nat, issuedAt : Nat, checkedAt : Nat]

Evidences ==
    [kept : BOOLEAN, created : Nat, exposed : BOOLEAN, activated : BOOLEAN,
     webdriver : BOOLEAN, observed : Nat, at : Nat]

TypeOK ==
    /\ now \in Nat
    /\ challenge \in [Sessions -> [state : {"none", "open", "spent"}, born : Nat]]
    /\ evidence \in [Sessions -> Evidences]
    /\ session \in [Sessions -> Nat]
    /\ token \in [Sessions -> Nat]
    /\ revoked \in [Sessions -> BOOLEAN]
    /\ pc \in [Handlers -> PCs]
    /\ req \in [Handlers -> Requests]
    /\ local \in [Handlers -> Locals]

Verifiers == {h \in Handlers : KindOf[h] = "verify"}
Getters == {h \in Handlers : KindOf[h] = "get"}

\* Verifier v issued the session that the token of request g names.
Earned(g, v) == local[v].issued /\ req[v].binding = req[g].token

Protected(g) == At(g, "released") /\ req[g].route # "public"

\* Content that no rule makes public is released only on the token of a session
\* that a verification with the right nonce issued, for the session's own, spent
\* challenge, not longer than a session's lifetime before the gateway looked at
\* it; no interleaving of issuing, verifying, revoking and requesting, and no mix
\* of several browsers' cookies gets around the challenge.
AccessIsEarned ==
    \A g \in Getters : Protected(g) =>
        \E v \in Verifiers :
            /\ Earned(g, v) /\ req[v].nonce
            /\ challenge[req[g].token].state = "spent"
            /\ local[v].issuedAt <= local[g].checkedAt
            /\ local[g].checkedAt < local[v].issuedAt + Lifetime

\* One challenge buys a bounded time of access: its own lifetime, that of the
\* session, and however long the verifier took from consuming to issuing.
AccessWindow ==
    \A g \in Getters : Protected(g) =>
        \E v \in Verifiers :
            /\ Earned(g, v)
            /\ local[g].checkedAt < challenge[req[g].token].born + 2 * Lifetime
                                     + (local[v].issuedAt - local[v].takenAt)

\* The attempt that takes a challenge settles it: if that attempt was refused,
\* denied or cut short, nobody ever gets a session or a token out of it.
VerdictIsFinal ==
    \A v \in Verifiers :
        (local[v].taken /\ ~local[v].issued) =>
            session[req[v].target] = 0 /\ token[req[v].target] = 0

\* A revoked session stays revoked: no verification still in flight reissues it.
RevocationIsFinal == \A s \in Sessions : revoked[s] => session[s] = 0

\* Nothing prolongs a session once it was issued; it can only be cut short.
NoSessionIsExtended ==
    [][\A s \in Sessions : session[s] # 0 => session'[s] \in {0, session[s]}]_vars

\* The evidence outlives the session issued on it, so that a live session is
\* always watched, except for the time the verifier took to issue it.
EvidenceCoversSession ==
    \A v \in Verifiers : local[v].issued =>
        LET s == req[v].binding IN
            session[s] <= evidence[s].created + EvidenceTtl
                          + (local[v].issuedAt - local[v].takenAt)

\* A session whose trap had been activated, by a browser that reported to be
\* automated, when the request arrived is not served on a default route, however
\* the request interleaves with others of the same session.
TaintIsNeverReleased ==
    \A g \in Getters :
        (At(g, "released") /\ req[g].route = "default" /\ local[g].watched) =>
            local[g].session \notin local[g].trapped \cap local[g].automated

\* A verification that reports automation, for a session whose trap had been
\* activated before it was sent, earns no session.
TaintedVerificationIsDenied ==
    \A v \in Verifiers :
        (local[v].issued /\ local[v].watched /\ req[v].webdriver) =>
            req[v].binding \notin local[v].trapped
=============================================================================
