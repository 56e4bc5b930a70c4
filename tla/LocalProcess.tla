---------------------------- MODULE LocalProcess ----------------------------
(***************************************************************************)
(* The gateway as one process without Redis, with the recorder of          *)
(* measurement.py on.  Its endpoints run in threads that may be switched   *)
(* between any two steps here: the in-memory challenge store takes no      *)
(* lock, the in-memory evidence store takes one to change a record, but    *)
(* not to read the signals of a decision.  One browser session is          *)
(* followed: its challenge, its evidence and the runs of its browser.      *)
(***************************************************************************)
EXTENDS Measurement, FiniteSetsExt

CONSTANTS
    Requests,       \* the requests explored
    MaxInFlight,    \* bound on the requests in flight
    Window,         \* events an evidence record retains (64)
    Opening,        \* events of its issue: one, and one per experiment
    ChallengeTtl,   \* lifetime of the challenge (300)
    SessionTtl      \* lifetime of the access session (300)

ASSUME LocalAssumption ==
    /\ IsFiniteSet(Requests) /\ MaxInFlight \in Nat
    /\ Window \in Nat \ {0} /\ Opening \in Nat \ {0}
    /\ ChallengeTtl \in Nat /\ SessionTtl \in Nat

VARIABLES
    challenge,  \* the record of the challenge
    events,     \* the number of events its evidence has had
    session,    \* when the access session ends, 0 if there is none
    pc,         \* pc[r]: the next step of request r
    job         \* job[r]: what its thread holds

vars == <<now, runs, challenge, events, session, pc, job>>

Kinds == {"verify", "forge", "trap", "page"}

Steps == {"idle", "submit", "check", "mark", "reject", "consumed", "copy", "trap",
          "visit", "read", "walk", "decide", "ingest", "answered"}

\* kind: the endpoint, "forge" being a verification with a wrong nonce, challenge or
\* session; run: the run it is noted in, 0 for none; token: it has the token of a valid session;
\* verdict: what became of its challenge, none if it was refused; snapshot: the orders of events it read;
\* at: the count of events when it began to read.  Histories: late, that the
\* challenge was settled when it arrived; wrote, its last event's order.
NoJob == [kind |-> "page", run |-> 0, token |-> FALSE, verdict |-> "none",
          snapshot |-> {}, at |-> 0, late |-> FALSE, wrote |-> 0]

Verdicts == {"none", "failed", "accepted", "allowed", "denied"}

TypeOK ==
    /\ now \in 0..MaxTime
    /\ Len(runs) <= MaxRuns /\ \A k \in DOMAIN runs :
          runs[k] \in RunStates /\ Len(runs[k].copied) <= Room
    /\ challenge.status \in {"NEW", "ISSUED", "CONSUMED", "FAILED", "EXPIRED"}
    /\ pc \in [Requests -> Steps]
    /\ \A r \in Requests :
          /\ job[r].kind \in Kinds /\ job[r].verdict \in Verdicts
          /\ job[r].run \in 0..Len(runs)
          /\ job[r].snapshot \subseteq 1..events
          /\ job[r].wrote \in 0..events

Init ==
    /\ now = 0 /\ runs = << >>
    /\ challenge = [status |-> "NEW", expires |-> 0]
    /\ events = 0
    /\ session = 0
    /\ pc = [r \in Requests |-> "idle"]
    /\ job = [r \in Requests |-> NoJob]

-----------------------------------------------------------------------------
\* Slip: a snapshot taken before the last event is appended.
WindowBefore(count) == {o \in 1..(count - 1) : o >= count - Window}

\* The orders of the events a record of count events retains.
WindowOf(count) == {o \in 1..count : o > count - Window}

\* POST /challenge: the session's challenge and evidence.  It is one step, from the
\* start of the request to its completion: only its answer lets others join.
Issue ==
    /\ challenge.status = "NEW"
    /\ challenge' = [status |-> "ISSUED", expires |-> now + ChallengeTtl]
    /\ events' = Opening
    /\ Ingest(Current, WindowOf(Opening))
    /\ UNCHANGED <<now, session, pc, job>>

-----------------------------------------------------------------------------
Taken == {"accepted", "allowed", "denied"}

Settled == \E q \in Requests : job[q].verdict \in Taken \cup {"failed"}

HasToken == \E q \in Requests : pc[q] = "answered" /\ job[q].verdict = "allowed"

Entry(kind) ==
    CASE kind \in {"verify", "forge"} -> "submit"
      [] kind = "trap" -> "trap"
      [] kind = "page" -> "visit"

\* The event loop counts a request in the browser's run, notes its start and
\* hands it to a thread, with what its endpoint will ask of it.
Arrive(r, kind) ==
    /\ pc[r] = "idle"
    /\ challenge.status # "NEW"
    /\ Cardinality({q \in Requests : pc[q] \notin {"idle", "answered"}}) < MaxInFlight
    /\ pc' = [pc EXCEPT ![r] = Entry(kind)]
    /\ job' = [job EXCEPT ![r] = [@ EXCEPT
           !.kind = kind, !.run = IF Open(Current) THEN Current ELSE 0,
           !.token = kind = "page" /\ HasToken,
           !.late = kind = "verify" /\ Settled]]
    /\ Count
    /\ UNCHANGED <<now, challenge, events, session>>

-----------------------------------------------------------------------------
\* lifecycle() or activate_experiment(), under the lock: one more event, and the
\* window with it.  The evidence outlives the requests explored.
AppendEvent(r, next) ==
    /\ events' = events + 1
    /\ job' = [job EXCEPT ![r] =
           [next EXCEPT !.snapshot = WindowOf(events + 1), !.wrote = events + 1]]

\* What matters of an answered request is its verdict.
Finish(r) ==
    /\ pc' = [pc EXCEPT ![r] = "answered"]
    /\ job' = [job EXCEPT ![r] = [NoJob EXCEPT
           !.verdict = job[r].verdict, !.late = job[r].late /\ job[r].verdict \in Taken]]

\* The other steps change nothing but the request's own state.
Goto(r, step) == pc' = [pc EXCEPT ![r] = step]

\* POST /challenge/verify, first: the submission is noted and recorded.
Submit(r) ==
    /\ pc[r] = "submit"
    /\ events' = events + 1
    /\ Goto(r, "check")
    /\ UNCHANGED <<now, runs, challenge, session, job>>

\* A forged one may be refused without a look at the challenge: its session is not
\* its cookie's, and nothing is submitted, or its challenge is unknown or another's.
Refuse(r) ==
    /\ pc[r] \in {"submit", "check"} /\ job[r].kind = "forge"
    /\ Goto(r, "reject")
    /\ UNCHANGED <<now, runs, challenge, events, session, job>>

\* Slip: only a failed or expired challenge is refused.
UnlessFailed == challenge.status \in {"ISSUED", "CONSUMED"}

Unspent == challenge.status = "ISSUED"

Lapsed == challenge.expires <= now

\* The checks of the in-memory verify ...
Check(r) ==
    /\ pc[r] = "check"
    /\ challenge' = IF Lapsed THEN [challenge EXCEPT !.status = "EXPIRED"] ELSE challenge
    /\ Goto(r, IF ~Lapsed /\ Unspent THEN "mark" ELSE "reject")
    /\ UNCHANGED <<now, runs, events, session, job>>

\* ... and its mark, which overwrites whatever happened since.
Mark(r) ==
    /\ pc[r] = "mark"
    /\ IF job[r].kind = "verify"
       THEN /\ challenge' = [challenge EXCEPT !.status = "CONSUMED"]
            /\ job' = [job EXCEPT ![r].verdict = "accepted"]
            /\ Goto(r, "consumed")
       ELSE /\ challenge' = [challenge EXCEPT !.status = "FAILED"]
            /\ job' = [job EXCEPT ![r].verdict = "failed"]
            /\ Goto(r, "reject")
    /\ UNCHANGED <<now, runs, events, session>>

Reject(r) ==
    /\ pc[r] = "reject"
    /\ AppendEvent(r, job[r])
    /\ Goto(r, "ingest")
    /\ UNCHANGED <<now, runs, challenge, session>>

Consumed(r) ==
    /\ pc[r] = "consumed"
    /\ AppendEvent(r, job[r])
    /\ Goto(r, "copy")
    /\ UNCHANGED <<now, runs, challenge, session>>

\* The consumption is copied before the decision.
Copy(r) ==
    /\ pc[r] = "copy"
    /\ Ingest(job[r].run, job[r].snapshot)
    /\ job' = [job EXCEPT ![r] = [@ EXCEPT !.snapshot = {}, !.wrote = 0]]
    /\ Goto(r, "decide")
    /\ UNCHANGED <<now, challenge, events, session>>

\* An experiment's resource: an event if the trap answers 204 or 410.
Trap(r) ==
    /\ pc[r] = "trap"
    /\ \/ AppendEvent(r, job[r]) /\ Goto(r, "ingest")
       \/ Finish(r) /\ UNCHANGED events
    /\ UNCHANGED <<now, runs, challenge, session>>

\* A protected request without a valid session: it is recorded, but nothing of it
\* is copied.
VisitUnknown(r) ==
    /\ pc[r] = "visit" /\ ~(job[r].token /\ now < session)
    /\ events' = events + 1
    /\ Finish(r)
    /\ UNCHANGED <<now, runs, challenge, session>>

\* With one, the signals name the session.
Visit(r) ==
    /\ pc[r] = "visit" /\ job[r].token /\ now < session
    /\ events' = events + 1
    /\ job' = [job EXCEPT ![r].wrote = events + 1]
    /\ Goto(r, "read")
    /\ UNCHANGED <<now, runs, challenge, session>>

\* interaction_signals without the lock walks the list of events by position: for
\* every event that leaves the window meanwhile, it skips one it had yet to read.
Read(r) ==
    /\ pc[r] = "read"
    /\ job' = [job EXCEPT ![r].at = events]
    /\ Goto(r, "walk")
    /\ UNCHANGED <<now, runs, challenge, events, session>>

Walk(r) ==
    LET met == {o \in 1..events : o > job[r].at - Window}
        lost == {o \in met : o <= events - Window}
    IN
    /\ pc[r] = "walk"
    /\ \E skipped \in kSubset(Cardinality(lost), met) :
           job' = [job EXCEPT ![r] = [@ EXCEPT !.snapshot = met \ skipped, !.at = 0]]
    /\ Goto(r, "ingest")
    /\ UNCHANGED <<now, runs, challenge, events, session>>

\* The verifier's decision: a session or none, recorded.  The signals decided on
\* were read without the lock, but those copied come from this event.
Decide(r) ==
    /\ pc[r] = "decide"
    /\ \/ /\ session' = now + SessionTtl
          /\ AppendEvent(r, [job[r] EXCEPT !.verdict = "allowed"])
       \/ /\ session' = session
          /\ AppendEvent(r, [job[r] EXCEPT !.verdict = "denied"])
    /\ Goto(r, "ingest")
    /\ UNCHANGED <<now, runs, challenge>>

\* The configuration cannot be read: a 503 without an event, the challenge spent.
DecideFails(r) ==
    /\ pc[r] = "decide"
    /\ Finish(r)
    /\ UNCHANGED <<now, runs, challenge, events, session>>

\* record_event: what was read is copied, and the request answered.
Record(r) ==
    /\ pc[r] = "ingest"
    /\ Ingest(job[r].run, job[r].snapshot)
    /\ Finish(r)
    /\ UNCHANGED <<now, challenge, events, session>>

-----------------------------------------------------------------------------
local == <<challenge, events, session, pc, job>>

Operator == (StartRun \/ FinishRun) /\ UNCHANGED local

Tick == now < MaxTime /\ now' = now + 1 /\ UNCHANGED <<runs, local>>

Next ==
    \/ \E r \in Requests :
          \/ \E kind \in Kinds : Arrive(r, kind)
          \/ Submit(r) \/ Refuse(r) \/ Check(r) \/ Mark(r) \/ Reject(r) \/ Consumed(r)
          \/ Copy(r) \/ Decide(r) \/ DecideFails(r) \/ Record(r)
          \/ Trap(r) \/ Visit(r) \/ VisitUnknown(r) \/ Read(r) \/ Walk(r)
    \/ Issue \/ Operator \/ Tick

Spec == Init /\ [][Next]_vars

-----------------------------------------------------------------------------
\* Without a lock, verifications that overlap may all pass; one that arrives after
\* another was accepted or failed never does, whoever overwrites whose mark.
LateAttemptsAreRefused ==
    \A r \in Requests : job[r].verdict \in Taken => ~job[r].late

\* A run copies each event of the session once and in order, although snapshots
\* overlap and arrive late, in the wrong order and with gaps.
CopiedOnceInOrder ==
    \A k \in DOMAIN runs : \A i, j \in DOMAIN runs[k].copied :
        i < j => runs[k].copied[i] < runs[k].copied[j]

\* Nothing is missing from an open run: when a request that names the session is
\* about to be answered, all it appended is copied and all before it, as long as the
\* run is not full and no event had to leave the window.
NothingIsMissing ==
    [][\A r \in Requests :
          LET k == job[r].run IN
          (/\ pc[r] = "ingest" /\ pc'[r] = "answered"
           /\ Open(k) /\ ~runs'[k].truncated /\ events <= Window)
          => /\ job[r].wrote <= runs'[k].seen
             /\ ToSet(runs'[k].copied) = 1..runs'[k].seen]_vars

\* A completed run is immutable, also for the requests it was completed under.
CompletedRunIsFrozen ==
    [][\A k \in DOMAIN runs : runs[k].completed => runs'[k] = runs[k]]_vars

-----------------------------------------------------------------------------
\* tests/adversarial/test_agents.py: of concurrent verifications with one captured
\* challenge exactly one is answered 200.  The checks of the in-memory store and
\* its mark are separate steps of threads.
ConcurrentVerificationIssuesOnce ==
    Cardinality({r \in Requests : job[r].verdict = "allowed"}) <= 1
=============================================================================
