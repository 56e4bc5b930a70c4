----------------------------- MODULE Measurement -----------------------------
(***************************************************************************)
(* The recorder of measurement.py.  An operator opens runs one after       *)
(* another; a run notes events of the requests that carry its cookie, and  *)
(* copies the evidence of the browser's session by the order of its        *)
(* events.  Every method holds the recorder's lock.  The events it notes   *)
(* of the requests themselves only take room; labels, cohorts and the      *)
(* export are left out.                                                    *)
(***************************************************************************)
EXTENDS Integers, Sequences, FiniteSets, SequencesExt

CONSTANTS
    MaxRuns,    \* bound on the runs explored
    Capacity,   \* runs the recorder keeps (200)
    Room,       \* evidence events a run has room for (2000, less its requests' events)
    RunTtl,     \* lifetime of a run (7200)
    MaxTime     \* bound on the time explored

ASSUME MeasurementAssumption ==
    /\ MaxRuns \in Nat /\ MaxTime \in Nat
    /\ Capacity \in Nat \ {0} /\ Room \in Nat /\ RunTtl \in Nat \ {0}

VARIABLES
    now,    \* the process's clock
    runs    \* the runs started so far; the last one's cookie is the browser's

\* used: it has a request; copied: the orders of the evidence it kept; seen: the
\* last order of the session's evidence that was looked at.
NewRun(time) ==
    [start |-> time, completed |-> FALSE, used |-> FALSE, truncated |-> FALSE,
     copied |-> << >>, seen |-> 0]

RunStates ==
    [start : 0..MaxTime, completed : BOOLEAN, used : BOOLEAN, truncated : BOOLEAN,
     copied : Seq(Nat), seen : Nat]

Current == Len(runs)

\* get: a run that neither lapsed nor was evicted by younger ones.
Usable(k) ==
    /\ k \in DOMAIN runs /\ k > Len(runs) - Capacity
    /\ now < runs[k].start + RunTtl

\* Slip: a completed run goes on.
StillOpen(k) == Usable(k)

Open(k) == Usable(k) /\ ~runs[k].completed

\* Slip: the last order looked at is forgotten when older evidence comes in.
SeenGoesBack(r, newer) == IF newer = << >> THEN 0 ELSE Last(newer)

\* The last order looked at, once some newer ones were.
SeenNow(r, newer) == IF newer = << >> THEN r.seen ELSE Last(newer)

\* Slip: one event too many is kept.
RoomForOneMore(r, newer) ==
    IF Len(newer) <= Room - Len(r.copied) + 1 THEN newer
    ELSE SubSeq(newer, 1, Room - Len(r.copied) + 1)

\* What a run keeps of newer events: as many as it has room for.
Kept(r, newer) ==
    IF Len(newer) <= Room - Len(r.copied) THEN newer
    ELSE SubSeq(newer, 1, Room - Len(r.copied))

\* A set of orders as a sequence: the i-th has i orders up to it.
InOrder(S) ==
    [i \in 1..Cardinality(S) |-> CHOOSE o \in S : Cardinality({p \in S : p <= o}) = i]

\* The orders of a snapshot that a run has not looked at yet, in order.
Newer(r, snapshot) == InOrder({o \in snapshot : o > r.seen})

\* The run with newer events copied, until it is full.
Copied(r, newer) ==
    [r EXCEPT !.used = TRUE,
              !.copied = r.copied \o Kept(r, newer),
              !.truncated = r.truncated \/ Len(r.copied) + Len(newer) > Room,
              !.seen = SeenNow(r, newer)]

\* evidence(): of a snapshot of the session's events, run k copies those newer than
\* the last one it looked at; nothing if it is not open.  A run that evidence
\* reaches has a request to itself: used.
Ingest(k, snapshot) ==
    runs' = IF Open(k)
            THEN [runs EXCEPT ![k] = Copied(runs[k], Newer(runs[k], snapshot))]
            ELSE runs

\* The middleware counts a request in the browser's run, if that is open.
Count == runs' = IF Open(Current) THEN [runs EXCEPT ![Current].used = TRUE] ELSE runs

\* POST start: a fresh run, unless the browser's is still open (409).
StartRun ==
    /\ Len(runs) < MaxRuns /\ ~Open(Current)
    /\ runs' = Append(runs, NewRun(now))
    /\ UNCHANGED now

\* POST finish: a run with requests is completed (409 otherwise).
FinishRun ==
    /\ Usable(Current) /\ runs[Current].used
    /\ runs' = [runs EXCEPT ![Current].completed = TRUE]
    /\ UNCHANGED now
=============================================================================
