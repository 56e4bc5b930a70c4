-------------------------- MODULE RequestControls --------------------------
(***************************************************************************)
(* hardening.py over Redis: the boundary every request passes, with fixed  *)
(* windows that limit each address, counted in Redis for all workers, and  *)
(* the shared counters of answered requests.  One action per call to       *)
(* Redis; what lies between two calls is the request's own business.       *)
(***************************************************************************)
EXTENDS Integers, FiniteSets

CONSTANTS
    Clients,        \* peer addresses
    NoClient,       \* an address the trusted proxy did not name
    Requests,       \* requests in flight, each served once
    Traffic,        \* the requests that come in: their kinds and addresses
    Limit,          \* Limit[k]: requests that a window of key k admits
    Window,         \* length of a window (60)
    Answers,        \* classes of the answers the application gives
    MaxTime         \* bound on the time a run explores

\* The two rate limits, and what a request may be: POST /challenge, a probe
\* (/health, /ready, /metrics), which is not controlled, or anything else.
Keys == {"rate", "challenge"}
Kinds == {"challenge", "probe", "plain"}
Labels == {"2xx", "3xx", "4xx", "5xx"}

ASSUME ControlsAssumption ==
    /\ Limit \in [Keys -> Nat \ {0}] /\ Window \in Nat \ {0} /\ MaxTime \in Nat
    /\ NoClient \notin Clients /\ Answers \subseteq Labels
    /\ Traffic \subseteq [kind : Kinds, client : Clients \cup {NoClient}]

VARIABLES
    now,        \* Redis' time
    bucket,     \* bucket[k][c]: the counter of key k for address c
    metrics,    \* metrics[l]: the counter of label l
    request     \* request[r]: progress of a request

vars == <<now, bucket, metrics, request>>

\* No window is open, as if one had always been expired.
NoBucket == [count |-> 0, expires |-> 0]

\* status: the class the worker will count, 5xx until it knows better; and as
\* history, sent: the class the client was answered, charged: when the request
\* was counted against which key, passed: which keys admitted it, refused: which one
\* refused it.  Retry-After, the TTL in whole seconds, decides nothing here.
Uncharged == 0 - 1

NewRequest == [pc |-> "arrive", kind |-> "plain", client |-> NoClient, status |-> "5xx",
               sent |-> "none", charged |-> [k \in Keys |-> Uncharged],
               passed |-> {}, refused |-> {}]

Init ==
    /\ now = 0
    /\ bucket = [k \in Keys |-> [c \in Clients |-> NoBucket]]
    /\ metrics = [l \in Labels |-> 0]
    /\ request = [r \in Requests |-> NewRequest]

-----------------------------------------------------------------------------
\* Request r becomes q.
Becomes(r, q) == request' = [request EXCEPT ![r] = q]

\* q was answered with a status of class l.
Answered(q, l) == [q EXCEPT !.status = l, !.sent = l, !.pc = "observe"]

\* A request comes in; probes skip the limits, and behind the trusted proxy an
\* address that does not parse is refused with 400.
Arrive(r) ==
    /\ request[r].pc = "arrive"
    /\ \E t \in Traffic :
           LET q == [request[r] EXCEPT !.kind = t.kind, !.client = t.client] IN
           Becomes(r, IF t.kind = "probe" THEN [q EXCEPT !.pc = "serve"]
                      ELSE IF t.client = NoClient THEN Answered(q, "4xx")
                      ELSE [q EXCEPT !.pc = "rate"])
    /\ UNCHANGED <<now, bucket, metrics>>

\* Slips: every request extends the window, or the window is a second too long.
Sliding(k, c) ==
    IF now < bucket[k][c].expires
    THEN [count |-> bucket[k][c].count + 1, expires |-> now + Window]
    ELSE [count |-> 1, expires |-> now + Window]
TooLong(k, c) ==
    IF now < bucket[k][c].expires
    THEN [bucket[k][c] EXCEPT !.count = @ + 1]
    ELSE [count |-> 1, expires |-> now + Window + 1]

\* The INCREMENT script, atomic in Redis: the first count opens the window.
Incremented(k, c) ==
    IF now < bucket[k][c].expires
    THEN [bucket[k][c] EXCEPT !.count = @ + 1]
    ELSE [count |-> 1, expires |-> now + Window]

\* Slip: one more than the limit.
AdmitsOneMore(k, counter) == counter.count <= Limit[k] + 1

Admits(k, counter) == counter.count <= Limit[k]

\* Where an admitted request goes: POST /challenge has a second, lower limit.
After(r, k) == IF k = "rate" /\ request[r].kind = "challenge" THEN "challenge" ELSE "serve"

\* allow(): charge the address, and refuse with 429 above the limit.
Charge(r, k) ==
    LET c == request[r].client
        counter == Incremented(k, c)
        q == [request[r] EXCEPT !.charged[k] = now] IN
    /\ request[r].pc = k
    /\ bucket' = [bucket EXCEPT ![k][c] = counter]
    /\ Becomes(r, IF Admits(k, counter)
                  THEN [q EXCEPT !.passed = @ \cup {k}, !.pc = After(r, k)]
                  ELSE [Answered(q, "4xx") EXCEPT !.refused = {k}])
    /\ UNCHANGED <<now, metrics>>

\* Redis fails: 503.  The script may have run before its answer was lost.
ChargeFails(r, k) ==
    LET c == request[r].client IN
    /\ request[r].pc = k
    /\ \/ UNCHANGED bucket /\ Becomes(r, Answered(request[r], "5xx"))
       \/ /\ bucket' = [bucket EXCEPT ![k][c] = Incremented(k, c)]
          /\ Becomes(r, Answered([request[r] EXCEPT !.charged[k] = now], "5xx"))
    /\ UNCHANGED <<now, metrics>>

\* The body is too long (413), or the application answers, fails (500) or loses
\* its Redis (503).
Serve(r) ==
    /\ request[r].pc = "serve"
    /\ \E l \in Answers \cup {"4xx", "5xx"} : Becomes(r, Answered(request[r], l))
    /\ UNCHANGED <<now, bucket, metrics>>

\* The client left before the end of its body: there is nobody to answer.
Disconnect(r) ==
    /\ request[r].pc = "serve"
    /\ Becomes(r, [request[r] EXCEPT !.pc = "observe"])
    /\ UNCHANGED <<now, bucket, metrics>>

\* Slip: the probes are counted, too.
CountsAll(r) == TRUE

\* Probes are not counted.
Counts(r) == request[r].kind # "probe"

\* finally: the answer is counted under its class; a failing metrics backend
\* changes nothing else.
Observe(r) ==
    /\ request[r].pc = "observe"
    /\ \/ Counts(r) /\ metrics' = [metrics EXCEPT ![request[r].status] = @ + 1]
       \/ UNCHANGED metrics
    /\ Becomes(r, [request[r] EXCEPT !.pc = "done"])
    /\ UNCHANGED <<now, bucket>>

Tick ==
    /\ now < MaxTime
    /\ now' = now + 1
    /\ UNCHANGED <<bucket, metrics, request>>

Next ==
    \/ \E r \in Requests :
           \/ Arrive(r)
           \/ \E k \in Keys : Charge(r, k) \/ ChargeFails(r, k)
           \/ Serve(r) \/ Disconnect(r) \/ Observe(r)
    \/ Tick

Spec == Init /\ [][Next]_vars

-----------------------------------------------------------------------------
PCs == {"arrive", "rate", "challenge", "serve", "observe", "done"}

RequestStates ==
    [pc : PCs, kind : Kinds, client : Clients \cup {NoClient}, status : Labels,
     sent : Labels \cup {"none"}, charged : [Keys -> Nat \cup {Uncharged}],
     passed : SUBSET Keys, refused : SUBSET Keys]

TypeOK ==
    /\ now \in Nat
    /\ bucket \in [Keys -> [Clients -> [count : Nat, expires : 0..(now + Window)]]]
    /\ metrics \in [Labels -> Nat]
    /\ request \in [Requests -> RequestStates]

ChargedIn(k, c, times) ==
    {r \in Requests : request[r].client = c /\ request[r].charged[k] \in times \cap Nat}

\* In any stretch of time as long as a window, an address gets less than twice
\* the limit through: a stretch meets at most two windows, and not the opening of
\* both, whatever fails and however requests interleave.
WindowLimit ==
    \A k \in Keys, c \in Clients, t \in 0..MaxTime :
        Cardinality({r \in ChargedIn(k, c, t..(t + Window - 1)) : k \in request[r].passed})
            < 2 * Limit[k]

\* A refusal is earned: within the length of a window before it, its address used
\* up the limit with requests that were not refused themselves.  A client that is
\* refused and insists does not keep its window closed.
RefusalIsEarned ==
    \A k \in Keys, r \in Requests :
        k \in request[r].refused =>
            LET t == request[r].charged[k]
                spent == {p \in ChargedIn(k, request[r].client, (t - Window + 1)..t) :
                              k \notin request[p].refused} IN
            Cardinality(spent) >= Limit[k]

\* The counters never overstate what was answered: each class counts, once, only
\* requests that were not probes and were answered in it, and as 5xx those whose
\* client left unanswered.
MetricsReflectAnswers ==
    \A l \in Labels :
        metrics[l] <= Cardinality({r \in Requests :
            /\ request[r].pc = "done" /\ request[r].kind # "probe"
            /\ request[r].sent = l \/ (l = "5xx" /\ request[r].sent = "none")})
=============================================================================
