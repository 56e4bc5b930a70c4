--------------------------- MODULE EvidenceRecord ---------------------------
(***************************************************************************)
(* The evidence record of one session and the operations of EvidenceStore  *)
(* on it, as pure operators: what each operation makes of a record and     *)
(* what it answers.  Both stores, in memory and in Redis, apply these.     *)
(***************************************************************************)
EXTENDS Integers, Sequences, FiniteSets

CONSTANTS
    Families,       \* experiment families, each one trap of the session
    MethodOf,       \* the HTTP method that activates each family
    Window,         \* events a record retains (64)
    Cap,            \* where replay and failure counts saturate (100)
    Horizon,        \* seconds a request counts towards the rate (10)
    MaxRequests,    \* requests a record remembers (101)
    Ttl,            \* lifetime of a record (600)
    TrapTtl         \* lifetime of its traps (300)

ASSUME RecordAssumption ==
    /\ Window \in Nat \ {0} /\ Cap \in Nat \ {0} /\ MaxRequests \in Nat \ {0}
    /\ Horizon \in Nat /\ Ttl \in Nat \ {0} /\ TrapTtl \in 0..Ttl
    /\ IsFiniteSet(Families)

NoFamily == "none"
Phases == {"none", "before_verification", "after_verification_started"}
Untouched == [activated |-> FALSE, order |-> 0, phase |-> "none", replays |-> 0]

\* The last n elements of a sequence.
Newest(s, n) == IF Len(s) <= n THEN s ELSE SubSeq(s, Len(s) - n + 1, Len(s))

AtMost(n, bound) == IF n > bound THEN bound ELSE n

-----------------------------------------------------------------------------
\* append_event: the next order number, and only the last Window events kept.
AppendEvent(r, kind, family) ==
    LET order == r.count + 1 IN
    [r EXCEPT !.count = order,
              !.events = Newest(Append(@, [order |-> order, event |-> kind,
                                           family |-> family]), Window)]

\* create: a fresh record, with its first event.
NewRecord(now) ==
    AppendEvent([created |-> now, exposed |-> FALSE, started |-> FALSE,
                 hits |-> 0, phase |-> "none", replays |-> 0, failures |-> 0,
                 report |-> "none", category |-> "none", requests |-> << >>,
                 traps |-> [f \in Families |-> Untouched],
                 count |-> 0, events |-> << >>],
                "challenge_issued", NoFamily)

\* lifecycle: a submitted verification is remembered beside its event.
Lifecycle(r, kind) ==
    AppendEvent([r EXCEPT !.started = @ \/ kind = "verification_submitted"],
                kind, NoFamily)

\* expose_experiments: once, one event per family, in the shuffled order given.  To
\* append them one by one keeps the same window.
ExposeInOrder(r, families) ==
    LET n == Len(families)
        entries == [i \in 1..n |-> [order |-> r.count + i, event |-> "experiment_exposed",
                                    family |-> families[i]]]
    IN  [r EXCEPT !.exposed = TRUE, !.count = @ + n,
                  !.events = Newest(@ \o entries, Window)]

Expose(r, families) == IF r.exposed THEN r ELSE ExposeInOrder(r, families)

PhaseNow(r) ==
    IF r.started THEN "after_verification_started" ELSE "before_verification"

\* The traps answer until their own deadline, earlier than the record's.
TrapAlive(r, clock) == r.exposed /\ clock < r.created + TrapTtl

\* activate_experiment on a trap already activated.
Replayed(r, f) ==
    AppendEvent([r EXCEPT !.traps[f].replays = AtMost(@ + 1, Cap),
                          !.replays = AtMost(@ + 1, Cap)],
                "experiment_replay", f)

\* Slip: the trap takes its order before its event is appended.
OrderBeforeEvent(r, f) ==
    [AppendEvent(r, "experiment_activated", f) EXCEPT
        !.traps[f] = [@ EXCEPT !.activated = TRUE, !.phase = PhaseNow(r),
                               !.order = r.count],
        !.hits = @ + 1,
        !.phase = IF @ = "none" THEN PhaseNow(r) ELSE @]

\* activate_experiment on a trap for the first time.
Activated(r, f) ==
    LET logged == AppendEvent(r, "experiment_activated", f) IN
    [logged EXCEPT
        !.traps[f] = [@ EXCEPT !.activated = TRUE, !.phase = PhaseNow(r),
                               !.order = logged.count],
        !.hits = @ + 1,
        !.phase = IF @ = "none" THEN PhaseNow(r) ELSE @]

\* failure, saturating.
Failed(r) == [r EXCEPT !.failures = AtMost(@ + 1, Cap)]

\* report: the browser's optional account of itself.
Reported(r, supplied) == [r EXCEPT !.report = IF supplied THEN "supplied" ELSE "omitted"]

\* observe: drop what is older than the horizon, up to the first time that is not
\* (workers' clocks differ, so an older one may stand behind it), then count this
\* request.
Observed(r, category, clock) ==
    LET times == r.requests
        Old(i) == i \in DOMAIN times /\ times[i] <= clock - Horizon
        first == CHOOSE i \in 1..(Len(times) + 1) : ~Old(i) /\ \A j \in 1..(i - 1) : Old(j)
    IN  [r EXCEPT !.requests = Newest(Append(SubSeq(times, first, Len(times)), clock),
                                      MaxRequests),
                  !.category = category]

-----------------------------------------------------------------------------
\* The operations callers make, and what each answers.
Operations ==
    [kind : {"lifecycle"},
     event : {"verification_submitted", "verification_rejected", "challenge_consumed",
              "session_issued", "verification_denied", "protected_page_requested"}]
    \cup [kind : {"activate"}, family : Families, method : {"GET", "POST"}]
    \cup [kind : {"report"}, supplied : BOOLEAN]
    \cup [kind : {"observe"}, category : {"page", "api"}]
    \cup [kind : {"failure"}]

\* The status activate_experiment answers with; other operations are "done".
Status(r, op, clock) ==
    IF op.kind # "activate" THEN "done"
    ELSE IF ~TrapAlive(r, clock) THEN "404"
    ELSE IF op.method # MethodOf[op.family] THEN "405"
    ELSE IF r.traps[op.family].activated THEN "410"
    ELSE "204"

Apply(r, op, clock) ==
    CASE op.kind = "lifecycle" -> Lifecycle(r, op.event)
      [] op.kind = "report" -> Reported(r, op.supplied)
      [] op.kind = "observe" -> Observed(r, op.category, clock)
      [] op.kind = "failure" -> Failed(r)
      [] op.kind = "activate" ->
            CASE Status(r, op, clock) = "204" -> Activated(r, op.family)
              [] Status(r, op, clock) = "410" -> Replayed(r, op.family)
              [] OTHER -> r

-----------------------------------------------------------------------------
ActivatedFamilies(r) == {f \in Families : r.traps[f].activated}

\* What interaction_signals reports is one consistent story: the number of hits
\* is the number of traps activated, the first activation gives the record its
\* phase, and activations have different places in the order of events.
TrapsConsistent(r) ==
    /\ r.hits = Cardinality(ActivatedFamilies(r))
    /\ (r.phase = "none") <=> (ActivatedFamilies(r) = {})
    /\ \A f, g \in ActivatedFamilies(r) :
          /\ f # g => r.traps[f].order # r.traps[g].order
          /\ r.traps[f].order \in 1..r.count
          /\ (\A h \in ActivatedFamilies(r) : r.traps[f].order <= r.traps[h].order)
                => r.traps[f].phase = r.phase
    /\ \A f \in Families : r.traps[f].replays > 0 => r.traps[f].activated

\* The window of events is the tail of the record's history, without a gap, and
\* an activation still in it is the event its trap remembers.
EventsConsistent(r) ==
    /\ Len(r.events) = AtMost(r.count, Window)
    /\ \A i \in DOMAIN r.events :
          LET e == r.events[i] IN
          /\ e.order = r.count - Len(r.events) + i
          /\ e.event = "experiment_activated" => r.traps[e.family].order = e.order

\* A trap is marked "before_verification" exactly when its activation precedes
\* the submission of the verification in the order of events.
PhasesFollowOrder(r) ==
    \A i, j \in DOMAIN r.events :
        (/\ r.events[i].event = "experiment_activated"
         /\ r.events[j].event = "verification_submitted"
         /\ \A k \in 1..(j - 1) : r.events[k].event # "verification_submitted"
         /\ Len(r.events) = r.count)
        => (r.traps[r.events[i].family].phase = "before_verification" <=> i < j)
=============================================================================
