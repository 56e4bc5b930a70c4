-------------------------- MODULE PreApplicationLab --------------------------
(***************************************************************************)
(* The isolated lab of pre_application.py: one event loop, so a handler    *)
(* runs without interruption up to the await of the origin's answer and    *)
(* again after it.  A session stands for its cookie, its capability and    *)
(* its optional route.  Requests are numbered in the order they arrive.    *)
(***************************************************************************)
EXTENDS Integers, Sequences, FiniteSets

CONSTANTS
    Sessions,       \* session cookies that can be drawn
    NoSession,      \* no cookie, or one the lab does not know
    MaxRequests,    \* bound on the requests explored
    MaxSessions,    \* sessions the lab holds (500)
    Ttl,            \* lifetime of a session, authorization included (90)
    MaxTime         \* bound on the time explored

ASSUME LabAssumption ==
    /\ MaxRequests \in Nat /\ MaxSessions \in Nat /\ Ttl \in Nat \ {0} /\ MaxTime \in Nat
    /\ IsFiniteSet(Sessions) /\ NoSession \notin Sessions

VARIABLES
    now,        \* the lab's clock
    session,    \* session[s]: the flags of a session
    events,     \* the recorded events that matter, of all sessions, in order
    pc,         \* pc[h]: how far request h has come
    req         \* req[h]: what the client of a request the origin works on sent

labvars == <<now, session, events, pc, req>>

Requests == 1..MaxRequests

Unissued == [issued |-> FALSE, expires |-> 0, tainted |-> FALSE, consumed |-> FALSE,
             granted |-> FALSE]

SessionStates == [issued : BOOLEAN, expires : Nat, tainted : BOOLEAN, consumed : BOOLEAN,
                  granted : BOOLEAN]

\* The routes, by the method they answer to and with the capability of the
\* cookie's own session where they carry one (the optional route takes any
\* method); all else is "other".  "entry" is the harness's.
Routes == {"entry", "start", "report", "script", "optional", "complete", "private", "asset",
           "other"}

RequestStates == [route : Routes, cookie : Sessions \cup {NoSession}]

NoRequest == [route |-> "other", cookie |-> NoSession]

\* The events that grants, explorations and releases leave; a release is the
\* response that carries protected bytes, of a page or API or of the script asset.
\* Requests that come to nothing are recorded too, but nothing is made of them.
Released == {"released", "asset_released"}
Kinds == {"optional_followed", "authorized", "origin_dispatch"} \cup Released

LabTypeOK ==
    /\ now \in 0..MaxTime
    /\ session \in [Sessions -> SessionStates]
    /\ events \in Seq([event : Kinds, run : Sessions])
    /\ pc \in [Requests -> {"idle", "waiting", "awaiting", "answered"}]
    /\ req \in [Requests -> RequestStates]

LabInit ==
    /\ now = 0
    /\ session = [s \in Sessions |-> Unissued]
    /\ events = << >>
    /\ pc = [h \in Requests |-> "idle"]
    /\ req = [h \in Requests |-> NoRequest]

-----------------------------------------------------------------------------
Issued == {s \in Sessions : session[s].issued}

\* A client has the cookies of sessions the lab issued.
ClientRequests == [route : Routes, cookie : Issued \cup {NoSession}]

Alive(s) == s # NoSession /\ now < session[s].expires

\* The handler ran to its end.
Answer(h) ==
    /\ pc' = [pc EXCEPT ![h] = "answered"]
    /\ req' = [req EXCEPT ![h] = NoRequest]

Record(kind, s) == events' = Append(events, [event |-> kind, run |-> s])

\* A request arrives after all with smaller numbers.  Waiting requests are alike:
\* what a client sent is drawn when the request is handled.
Arrive(h) ==
    /\ pc[h] = "idle" /\ \A g \in 1..(h - 1) : pc[g] # "idle"
    /\ pc' = [pc EXCEPT ![h] = "waiting"]
    /\ UNCHANGED <<now, session, events, req>>

\* Answered without any effect: an empty 403, the report, the script.
NoEffect(h) == Answer(h) /\ UNCHANGED <<now, session, events>>

\* The boundary answers 403 to anyone but a loopback client, before any handler.
Foreign(h) == NoEffect(h)

\* GET /report copies the events and flags, whoever asks.
Report(h, q) ==
    /\ q.route = "report"
    /\ NoEffect(h)

\* GET /start, or /, issues a fresh session ...
Start(h, q) ==
    /\ q.route = "start"
    /\ Cardinality(Issued) < MaxSessions
    /\ \E s \in Sessions \ Issued :
           session' = [session EXCEPT ![s] =
               [Unissued EXCEPT !.issued = TRUE, !.expires = now + Ttl]]
    /\ Answer(h)
    /\ UNCHANGED <<now, events>>

\* ... or none: the client asked for an unknown variant (400), or the lab is full
\* of sessions or events (503).
NoStart(h, q) == q.route = "start" /\ NoEffect(h)

-----------------------------------------------------------------------------
\* The request is none of the two above, and its session is alive or not.
Dispatched(q) == q.route \notin {"report", "start"}

Admitted(q) == Dispatched(q) /\ Alive(q.cookie)

Unadmitted(h, q) == Dispatched(q) /\ ~Alive(q.cookie) /\ NoEffect(h)

\* Following the optional route taints the session and takes its grant back.
Taint(s) == [session EXCEPT ![s] = [@ EXCEPT !.tainted = TRUE, !.granted = FALSE]]

Explores(q) == q.route = "optional"

\* The optional route answers 403 to every method; only the bound one counts.
FollowOptional(h, q) ==
    /\ Admitted(q) /\ Explores(q)
    /\ session' = Taint(q.cookie)
    /\ Record("optional_followed", q.cookie)
    /\ Answer(h)
    /\ UNCHANGED now

\* Slip: only a replay is refused.
UnlessConsumed(s) == ~session[s].consumed

\* Completion is refused to a session that explored or completed before.
Completable(s) == ~session[s].tainted /\ ~session[s].consumed

Completes(q) == q.route = "complete" /\ Completable(q.cookie)

Complete(h, q) ==
    /\ Admitted(q) /\ Completes(q)
    /\ session' = [session EXCEPT ![q.cookie] =
           [@ EXCEPT !.consumed = TRUE, !.granted = TRUE]]
    /\ Record("authorized", q.cookie)
    /\ Answer(h)
    /\ UNCHANGED now

\* Slip: what was granted once stays granted.
FetchesConsumed(q) == q.route \in {"private", "asset"} /\ session[q.cookie].consumed

Fetches(q) == q.route \in {"private", "asset"} /\ session[q.cookie].granted

\* A granted session's request goes to the origin, and the handler waits.
OriginDispatch(h, q) ==
    /\ Admitted(q) /\ Fetches(q)
    /\ pc' = [pc EXCEPT ![h] = "awaiting"]
    /\ req' = [req EXCEPT ![h] = q]
    /\ Record("origin_dispatch", q.cookie)
    /\ UNCHANGED <<now, session>>

\* The origin answered; the bytes are released, whatever happened meanwhile.
OriginAnswer(h) ==
    /\ pc[h] = "awaiting"
    /\ Record(IF req[h].route = "private" THEN "released" ELSE "asset_released", req[h].cookie)
    /\ Answer(h)
    /\ UNCHANGED <<now, session>>

\* The origin's client raised: a 500 that leaves no event.
OriginFails(h) == pc[h] = "awaiting" /\ NoEffect(h)

\* Anything else: the script, an unknown route, a foreign capability, a wrong
\* method, a replay, no grant.
Fruitless(h, q) ==
    /\ Admitted(q)
    /\ ~Explores(q) /\ ~Completes(q) /\ ~Fetches(q)
    /\ NoEffect(h)

\* What the lab does at once with a loopback client's request.
Dispatch(h, q) ==
    \/ Report(h, q) \/ Start(h, q) \/ NoStart(h, q)
    \/ Unadmitted(h, q) \/ FollowOptional(h, q) \/ Complete(h, q)
    \/ OriginDispatch(h, q) \/ Fruitless(h, q)

Tick == now < MaxTime /\ now' = now + 1 /\ UNCHANGED <<session, events, pc, req>>
=============================================================================
