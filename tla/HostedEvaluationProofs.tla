----------------------- MODULE HostedEvaluationProofs -----------------------
(***************************************************************************)
(* Proofs about HostedEvaluation, for any runs, capacity and lifetime.     *)
(* The properties read the history of a run, the handlers read its flags;  *)
(* the inductive invariant ties the two together.                          *)
(***************************************************************************)
EXTENDS HostedEvaluation, TLAPS

\* The flags of a run remember its history: it is tainted once it explored and
\* consumed once it was authorized, and a grant lasts from there to the taint.
FlagsFollowHistory(r) ==
    /\ run[r].tainted <=> Has(r, "optional_followed")
    /\ run[r].consumed <=> Has(r, "authorized")
    /\ run[r].granted => run[r].consumed /\ ~run[r].tainted

\* A run is authorized once at most, and never after it explored.
AuthorizedOnce(r) ==
    \A i, j \in DOMAIN events[r] :
        (At(r, i, "authorized") /\ At(r, j, "authorized")) => i = j

NoneExploredBefore(r, i) == \A k \in 1..(i - 1) : ~At(r, k, "optional_followed")

AuthorizedUnexplored(r) ==
    \A i \in DOMAIN events[r] : At(r, i, "authorized") => NoneExploredBefore(r, i)

\* What is released follows an authorization and no exploration.
ReleasedUnderGrant(r) ==
    \A i \in DOMAIN events[r] : At(r, i, "origin_dispatch") =>
        /\ \E j \in 1..(i - 1) : At(r, j, "authorized")
        /\ NoneExploredBefore(r, i)

\* A run has a history once it was entered, one entry starts its clock, and
\* nothing is released after Ttl.
ClockedByEntry(r) ==
    /\ DOMAIN events[r] = {} \/ run[r].opened
    /\ \A i \in DOMAIN events[r] :
          /\ At(r, i, "issued") => events[r][i].at = run[r].openedAt
          /\ At(r, i, "origin_dispatch") => events[r][i].at < run[r].openedAt + Ttl

RunInv(r) ==
    FlagsFollowHistory(r) /\ AuthorizedOnce(r)
    /\ AuthorizedUnexplored(r) /\ ReleasedUnderGrant(r) /\ ClockedByEntry(r)

IInv == TypeOK /\ \A r \in Runs : RunInv(r)

-----------------------------------------------------------------------------
\* What Append keeps and adds.
LEMMA Appending ==
    ASSUME NEW S, NEW s \in Seq(S), NEW e \in S
    PROVE  /\ DOMAIN s = 1..Len(s) /\ Len(s) \in Nat
           /\ DOMAIN Append(s, e) = 1..(Len(s) + 1)
           /\ \A i \in 1..Len(s) : Append(s, e)[i] = s[i]
           /\ Append(s, e)[Len(s) + 1] = e
  OBVIOUS

\* Record adds one event of the kind named to the history of one run and leaves
\* what was there.
LEMMA Recorded ==
    ASSUME TypeOK, NEW r \in Runs, NEW kind \in Kinds, Record(r, kind)
    PROVE  /\ events' \in [Runs -> Events]
           /\ \A s \in Runs \ {r} : events'[s] = events[s]
           /\ DOMAIN events[r] = 1..Len(events[r]) /\ Len(events[r]) \in Nat
           /\ DOMAIN events'[r] = 1..(Len(events[r]) + 1)
           /\ \A i \in 1..Len(events[r]) : events'[r][i] = events[r][i]
           /\ events'[r][Len(events[r]) + 1].kind = kind
           /\ events'[r][Len(events[r]) + 1].at = now
<1> DEFINE e == [kind |-> kind, at |-> now]
<1>1. e \in [kind : Kinds, at : Nat]
  BY DEF TypeOK
<1>2. events[r] \in Events
  BY DEF TypeOK
<1>3. events' = [events EXCEPT ![r] = Append(@, e)]
  BY DEF Record
<1>4. events'[r] = Append(events[r], e) /\ \A s \in Runs \ {r} : events'[s] = events[s]
  BY <1>3 DEF TypeOK
<1>5. Append(events[r], e) \in Events
  BY <1>1, <1>2 DEF Events
<1>6. events' \in [Runs -> Events]
  BY <1>3, <1>5 DEF TypeOK
<1>7. e.kind = kind /\ e.at = now
  OBVIOUS
<1>8. events[r] \in Seq([kind : Kinds, at : Nat])
  BY <1>2 DEF Events
<1> HIDE DEF e
<1>9. /\ DOMAIN events[r] = 1..Len(events[r]) /\ Len(events[r]) \in Nat
      /\ DOMAIN Append(events[r], e) = 1..(Len(events[r]) + 1)
      /\ \A i \in 1..Len(events[r]) : Append(events[r], e)[i] = events[r][i]
      /\ Append(events[r], e)[Len(events[r]) + 1] = e
  BY <1>1, <1>8, Appending
<1> QED
  BY <1>4, <1>6, <1>7, <1>9

\* The step of a run that records an event of some kind keeps its invariant, if
\* the flags follow and the event is allowed by the flags.
LEMMA RecordingStep ==
    ASSUME TypeOK, NEW r \in Runs, NEW kind \in Kinds, Record(r, kind), RunInv(r),
           kind = "authorized" => Completable(r),
           kind = "origin_dispatch" => run[r].granted /\ ~Expired(r),
           IF kind = "issued" THEN ~run[r].opened /\ run'[r].openedAt = now
           ELSE run[r].opened /\ run'[r].openedAt = run[r].openedAt,
           run'[r].opened,
           run'[r].tainted <=> run[r].tainted \/ kind = "optional_followed",
           run'[r].consumed <=> run[r].consumed \/ kind = "authorized",
           run'[r].granted =>
               \/ kind = "authorized"
               \/ run[r].granted /\ kind # "optional_followed"
    PROVE  RunInv(r)'
<1> DEFINE n == Len(events[r])
<1>1. /\ DOMAIN events[r] = 1..n /\ n \in Nat /\ DOMAIN events'[r] = 1..(n + 1)
      /\ \A i \in 1..n : events'[r][i] = events[r][i]
      /\ events'[r][n + 1].kind = kind /\ events'[r][n + 1].at = now
  BY Recorded
<1> HIDE DEF n
<1>2. \A k \in Kinds : \A i \in 1..(n + 1) :
          At(r, i, k)' <=> IF i = n + 1 THEN k = kind ELSE At(r, i, k)
  BY <1>1 DEF At
<1>3. \A k \in Kinds : Has(r, k)' <=> Has(r, k) \/ k = kind
  <2> SUFFICES ASSUME NEW k \in Kinds PROVE Has(r, k)' <=> Has(r, k) \/ k = kind
    OBVIOUS
  <2>1. Has(r, k)' <=> \E i \in 1..(n + 1) : At(r, i, k)'
    BY <1>1 DEF Has, At
  <2>2. Has(r, k) <=> \E i \in 1..n : At(r, i, k)
    BY <1>1 DEF Has, At
  <2> QED
    BY <1>1, <1>2, <2>1, <2>2
<1>4. \A k \in Kinds : \A i : At(r, i, k) => Has(r, k)
  BY DEF At, Has
<1> USE DEF Kinds
<1>5. FlagsFollowHistory(r)'
  BY <1>3 DEF RunInv, FlagsFollowHistory, Completable
<1>6. AuthorizedOnce(r)'
  BY <1>1, <1>2, <1>4 DEF RunInv, FlagsFollowHistory, AuthorizedOnce, Completable
<1>7. \A i \in 1..(n + 1) : NoneExploredBefore(r, i) => NoneExploredBefore(r, i)'
  <2> SUFFICES ASSUME NEW i \in 1..(n + 1), NoneExploredBefore(r, i),
                      NEW k \in 1..(i - 1)
               PROVE  ~At(r, k, "optional_followed")'
    BY DEF NoneExploredBefore
  <2> QED
    BY <1>1, <1>2 DEF NoneExploredBefore
<1>8. ~run[r].tainted => NoneExploredBefore(r, n + 1)
  BY <1>1, <1>4 DEF RunInv, FlagsFollowHistory, NoneExploredBefore
<1>9. AuthorizedUnexplored(r)'
  BY <1>1, <1>2, <1>7, <1>8 DEF RunInv, AuthorizedUnexplored, Completable
<1>10. ReleasedUnderGrant(r)'
  <2> SUFFICES ASSUME NEW i \in 1..(n + 1), At(r, i, "origin_dispatch")'
               PROVE  /\ \E j \in 1..(i - 1) : At(r, j, "authorized")'
                      /\ NoneExploredBefore(r, i)'
    BY <1>1 DEF ReleasedUnderGrant
  <2>1. \E j \in 1..(i - 1) : At(r, j, "authorized")
    <3>1. CASE i # n + 1
      BY <1>1, <1>2, <3>1 DEF RunInv, ReleasedUnderGrant
    <3>2. CASE i = n + 1
      <4>1. run[r].granted
        BY <1>2, <3>2
      <4>2. Has(r, "authorized")
        BY <4>1 DEF RunInv, FlagsFollowHistory
      <4> QED
        BY <1>1, <3>2, <4>2 DEF Has, At
    <3> QED
      BY <3>1, <3>2
  <2>2. NoneExploredBefore(r, i)
    <3>1. CASE i # n + 1
      BY <1>1, <1>2, <3>1 DEF RunInv, ReleasedUnderGrant
    <3>2. CASE i = n + 1
      BY <1>2, <1>8, <3>2 DEF RunInv, FlagsFollowHistory
    <3> QED
      BY <3>1, <3>2
  <2>3. \A j \in 1..(i - 1) : At(r, j, "authorized") => At(r, j, "authorized")'
    BY <1>1, <1>2
  <2> QED
    BY <1>7, <2>1, <2>2, <2>3
<1>11. ClockedByEntry(r)'
  <2>1. now \in Nat /\ run[r].openedAt \in Nat /\ Ttl \in Nat
    BY HostedAssumption DEF TypeOK, RunStates
  <2>2. kind = "issued" => n = 0
    BY <1>1 DEF RunInv, ClockedByEntry
  <2>3. kind = "origin_dispatch" => now < run'[r].openedAt + Ttl
    BY <2>1 DEF Expired
  <2> SUFFICES ASSUME NEW i \in 1..(n + 1)
               PROVE  /\ At(r, i, "issued")' => events'[r][i].at = run'[r].openedAt
                      /\ At(r, i, "origin_dispatch")' =>
                            events'[r][i].at < run'[r].openedAt + Ttl
    BY <1>1 DEF ClockedByEntry
  <2>4. CASE i = n + 1
    BY <1>1, <1>2, <2>3, <2>4
  <2>5. CASE i # n + 1
    <3>1. i \in 1..n /\ events'[r][i] = events[r][i]
      BY <1>1, <2>5
    <3>2. run'[r].openedAt = run[r].openedAt
      BY <1>1, <2>2, <3>1
    <3> QED
      BY <1>1, <1>2, <2>5, <3>1, <3>2 DEF RunInv, ClockedByEntry
  <2> QED
    BY <2>4, <2>5
<1> QED
  BY <1>5, <1>6, <1>9, <1>10, <1>11 DEF RunInv

\* A run whose history, whose clock and whose three flags stay keeps its invariant.
LEMMA UntouchedRun ==
    ASSUME NEW r \in Runs, RunInv(r), events'[r] = events[r],
           run'[r].opened = run[r].opened, run'[r].openedAt = run[r].openedAt,
           run'[r].tainted = run[r].tainted, run'[r].consumed = run[r].consumed,
           run'[r].granted = run[r].granted
    PROVE  RunInv(r)'
<1>1. \A i, k : At(r, i, k)' <=> At(r, i, k)
  BY DEF At
<1>2. \A k : Has(r, k)' <=> Has(r, k)
  BY DEF Has
<1>3. \A i : NoneExploredBefore(r, i)' <=> NoneExploredBefore(r, i)
  BY <1>1 DEF NoneExploredBefore
<1>4. FlagsFollowHistory(r)' /\ AuthorizedOnce(r)'
  BY <1>1, <1>2 DEF RunInv, FlagsFollowHistory, AuthorizedOnce
<1>5. AuthorizedUnexplored(r)' /\ ReleasedUnderGrant(r)'
  BY <1>1, <1>3 DEF RunInv, AuthorizedUnexplored, ReleasedUnderGrant
<1>6. ClockedByEntry(r)'
  BY <1>1 DEF RunInv, ClockedByEntry
<1> QED
  BY <1>4, <1>5, <1>6 DEF RunInv

-----------------------------------------------------------------------------
\* A handler that records one event of run r and leaves r in state v.
LEMMA HandlerStep ==
    ASSUME IInv, NEW r \in Runs, NEW v \in RunStates, NEW kind \in Kinds,
           now' \in Nat, run' = [run EXCEPT ![r] = v], Record(r, kind),
           kind = "authorized" => Completable(r),
           kind = "origin_dispatch" => run[r].granted /\ ~Expired(r),
           IF kind = "issued" THEN ~run[r].opened /\ v.openedAt = now
           ELSE run[r].opened /\ v.openedAt = run[r].openedAt,
           v.opened,
           v.tainted <=> run[r].tainted \/ kind = "optional_followed",
           v.consumed <=> run[r].consumed \/ kind = "authorized",
           v.granted => \/ kind = "authorized"
                        \/ run[r].granted /\ kind # "optional_followed"
    PROVE  IInv'
<1>1. TypeOK /\ RunInv(r)
  BY DEF IInv
<1>2. /\ run' \in [Runs -> RunStates] /\ run'[r] = v
      /\ \A s \in Runs \ {r} : run'[s] = run[s]
  BY <1>1 DEF TypeOK
<1>3. events' \in [Runs -> Events] /\ \A s \in Runs \ {r} : events'[s] = events[s]
  BY <1>1, Recorded
<1>4. TypeOK'
  BY <1>2, <1>3 DEF TypeOK
<1>5. RunInv(r)'
  BY <1>1, <1>2, RecordingStep
<1>6. \A s \in Runs \ {r} : RunInv(s)'
  BY <1>2, <1>3, UntouchedRun DEF IInv
<1> QED
  BY <1>4, <1>5, <1>6 DEF IInv

\* A handler that records nothing and leaves the clock and the three flags of run r.
LEMMA QuietStep ==
    ASSUME IInv, NEW r \in Runs, NEW v \in RunStates,
           now' \in Nat, run' = [run EXCEPT ![r] = v], UNCHANGED events,
           v.opened = run[r].opened, v.openedAt = run[r].openedAt,
           v.tainted = run[r].tainted, v.consumed = run[r].consumed,
           v.granted = run[r].granted
    PROVE  IInv'
<1>1. /\ run' \in [Runs -> RunStates] /\ run'[r] = v
      /\ \A s \in Runs \ {r} : run'[s] = run[s]
  BY DEF IInv, TypeOK
<1>2. TypeOK'
  BY <1>1 DEF IInv, TypeOK
<1>3. \A s \in Runs : RunInv(s)'
  BY <1>1, UntouchedRun DEF IInv
<1> QED
  BY <1>2, <1>3 DEF IInv

LEMMA InitInv == Init => IInv
<1> SUFFICES ASSUME Init PROVE IInv
  OBVIOUS
<1>1. \A r \in Runs : run[r] = Uncreated /\ events[r] = << >>
  BY DEF Init
<1>2. Uncreated \in RunStates
  BY DEF Uncreated, RunStates
<1>3. << >> \in Events
  BY DEF Events
<1>4. TypeOK
  BY <1>2, <1>3 DEF Init, TypeOK
<1>5. \A r \in Runs : RunInv(r)
  BY <1>1 DEF RunInv, FlagsFollowHistory, AuthorizedOnce, AuthorizedUnexplored,
              ReleasedUnderGrant, ClockedByEntry, Has, Uncreated
<1> QED
  BY <1>4, <1>5 DEF IInv

\* Every request of an agent keeps the invariant.
LEMMA DispatchInv ==
    ASSUME IInv, NEW q \in AgentRequests, Dispatch(q)
    PROVE  IInv'
<1> DEFINE r == q.cookie
<1>1. r \in Runs /\ run[r].opened
  BY DEF AgentRequests
<1>2. run[r] \in RunStates /\ now \in Nat /\ run \in [Runs -> RunStates]
  BY <1>1 DEF IInv, TypeOK
<1>3. run = [run EXCEPT ![r] = run[r]]
  BY <1>1, <1>2
<1> HIDE DEF r
<1>4. CASE Lapsed(q)
  BY <1>1, <1>2, <1>3, <1>4, HandlerStep DEF Lapsed, r, Kinds
<1>5. CASE FollowOptional(q)
  <2> DEFINE v == [run[r] EXCEPT !.tainted = TRUE, !.granted = FALSE]
  <2>1. /\ v \in RunStates /\ v.tainted /\ v.consumed = run[r].consumed /\ ~v.granted
        /\ v.opened = run[r].opened /\ v.openedAt = run[r].openedAt
    BY <1>2 DEF RunStates
  <2>2. run' = [run EXCEPT ![r] = v]
    BY <1>5 DEF FollowOptional, r
  <2> HIDE DEF v
  <2> QED
    BY <1>1, <1>2, <1>5, <2>1, <2>2, HandlerStep DEF FollowOptional, r, Kinds
<1>6. CASE FetchScript(q)
  BY <1>1, <1>2, <1>3, <1>6, HandlerStep DEF FetchScript, r, Kinds
<1>7. CASE Complete(q)
  <2>1. CASE Completable(r)
    <3> DEFINE v == [run[r] EXCEPT !.consumed = TRUE, !.granted = TRUE]
    <3>1. /\ v \in RunStates /\ v.tainted = run[r].tainted /\ v.consumed
          /\ v.opened = run[r].opened /\ v.openedAt = run[r].openedAt
      BY <1>2 DEF RunStates
    <3>2. run' = [run EXCEPT ![r] = v] /\ Record(r, "authorized") /\ now' = now
      BY <1>7, <2>1 DEF Complete, r
    <3> HIDE DEF v
    <3> QED
      BY <1>1, <1>2, <2>1, <3>1, <3>2, HandlerStep DEF Kinds
  <2>2. CASE ~Completable(r)
    BY <1>1, <1>2, <1>3, <1>7, <2>2, HandlerStep DEF Complete, r, Kinds
  <2> QED
    BY <2>1, <2>2
<1>8. CASE Release(q)
  BY <1>1, <1>2, <1>3, <1>8, HandlerStep DEF Release, Releases, r, Kinds
<1>9. CASE Deny(q)
  BY <1>1, <1>2, <1>3, <1>9, HandlerStep DEF Deny, r, Kinds
<1> QED
  BY <1>4, <1>5, <1>6, <1>7, <1>8, <1>9 DEF Dispatch

\* Every step keeps the invariant.
LEMMA NextInv == IInv /\ [Next]_vars => IInv'
<1> SUFFICES ASSUME IInv, [Next]_vars PROVE IInv'
  OBVIOUS
<1>1. TypeOK
  BY DEF IInv
<1>2. ASSUME NEW r \in Runs, CreateRun(r) PROVE IInv'
  <2> DEFINE v == [run[r] EXCEPT !.created = TRUE]
  <2>1. /\ v \in RunStates /\ v.tainted = run[r].tainted
        /\ v.consumed = run[r].consumed /\ v.granted = run[r].granted
        /\ v.opened = run[r].opened /\ v.openedAt = run[r].openedAt
    BY <1>1 DEF TypeOK, RunStates
  <2>2. run' = [run EXCEPT ![r] = v]
    BY <1>1, <1>2 DEF CreateRun, TypeOK
  <2> HIDE DEF v
  <2> QED
    BY <1>1, <1>2, <2>1, <2>2, QuietStep DEF CreateRun, TypeOK
<1>3. ASSUME NEW r \in Runs, Enter(r) PROVE IInv'
  <2> DEFINE v == [run[r] EXCEPT !.opened = TRUE, !.openedAt = now]
  <2>1. /\ v \in RunStates /\ v.tainted = run[r].tainted
        /\ v.consumed = run[r].consumed /\ v.granted = run[r].granted
        /\ v.opened /\ v.openedAt = now
    BY <1>1 DEF TypeOK, RunStates
  <2>2. run' = [run EXCEPT ![r] = v]
    BY <1>1, <1>3 DEF Enter, TypeOK
  <2>3. run[r] \in RunStates /\ ~run[r].opened
    BY <1>1, <1>3 DEF Enter, Enterable, TypeOK
  <2> HIDE DEF v
  <2> QED
    BY <1>1, <1>3, <2>1, <2>2, <2>3, HandlerStep DEF Enter, TypeOK, Kinds
<1>4. ASSUME NEW r \in Runs, Finalize(r) PROVE IInv'
  <2>1. PICK value \in Returned : run' = [run EXCEPT ![r] = [@ EXCEPT
            !.finalized = TRUE, !.retrieved = Has(r, "origin_dispatch") /\ value = r]]
    BY <1>4 DEF Finalize
  <2> DEFINE v == [run[r] EXCEPT !.finalized = TRUE,
                                 !.retrieved = Has(r, "origin_dispatch") /\ value = r]
  <2>2. /\ v \in RunStates /\ v.tainted = run[r].tainted
        /\ v.consumed = run[r].consumed /\ v.granted = run[r].granted
        /\ v.opened = run[r].opened /\ v.openedAt = run[r].openedAt
    BY <1>1 DEF TypeOK, RunStates, Has
  <2>3. run' = [run EXCEPT ![r] = v]
    BY <1>1, <2>1 DEF TypeOK
  <2> HIDE DEF v
  <2> QED
    BY <1>1, <1>4, <2>2, <2>3, QuietStep DEF Finalize, TypeOK
<1>5. CASE Tick
  <2>1. now' \in Nat /\ run' = run /\ events' = events
    BY <1>1, <1>5 DEF Tick, TypeOK
  <2> QED
    BY <2>1, UntouchedRun DEF IInv, TypeOK
<1>6. CASE UNCHANGED vars
  BY <1>6, UntouchedRun DEF IInv, TypeOK, vars
<1> QED
  BY <1>2, <1>3, <1>4, <1>5, <1>6, DispatchInv DEF Next

LEMMA Invariance == Spec => []IInv
BY InitInv, NextInv, PTL DEF Spec

\* Every run is always a state of the records the handlers keep.
THEOREM TypeCorrect == Spec => []TypeOK
<1>1. IInv => TypeOK
  BY DEF IInv
<1> QED
  BY <1>1, Invariance, PTL

\* Exploring before authorization rules out every later authorization and release,
\* and makes the report say TRAP_SUCCESS.
THEOREM ExplorationIsDecisive == Spec => []EarlyExplorationPrecludesRelease
<1>1. IInv => EarlyExplorationPrecludesRelease
  <2> SUFFICES ASSUME IInv, NEW r \in Runs, Early(r)
               PROVE  /\ ~Has(r, "authorized") /\ ~Has(r, "origin_dispatch")
                      /\ Outcome(r) = "TRAP_SUCCESS"
    BY DEF EarlyExplorationPrecludesRelease
  <2>1. RunInv(r) /\ events[r] \in Events
    BY DEF IInv, TypeOK
  <2>2. DOMAIN events[r] = 1..Len(events[r]) /\ Len(events[r]) \in Nat
    BY <2>1 DEF Events
  <2>3. PICK i \in DOMAIN events[r] :
            At(r, i, "optional_followed") /\ \A j \in 1..(i - 1) : ~At(r, j, "authorized")
    BY DEF Early
  <2>4. ~Has(r, "authorized")
    <3> SUFFICES ASSUME NEW j \in DOMAIN events[r], At(r, j, "authorized") PROVE FALSE
      BY DEF Has, At
    <3>1. CASE j < i
      BY <2>2, <2>3, <3>1
    <3>2. CASE j > i
      BY <2>1, <2>2, <2>3, <3>2 DEF RunInv, AuthorizedUnexplored, NoneExploredBefore
    <3>3. CASE j = i
      BY <2>3, <3>3 DEF At
    <3> QED
      BY <2>2, <3>1, <3>2, <3>3
  <2>5. ~Has(r, "origin_dispatch")
    <3> SUFFICES ASSUME NEW j \in DOMAIN events[r], At(r, j, "origin_dispatch") PROVE FALSE
      BY DEF Has, At
    <3>1. \E k : At(r, k, "authorized")
      BY <2>1 DEF RunInv, ReleasedUnderGrant
    <3> QED
      BY <2>4, <3>1 DEF Has, At
  <2> QED
    BY <2>4, <2>5 DEF Outcome
<1> QED
  BY <1>1, Invariance, PTL

\* What is released follows the only authorization of its run, within Ttl of the
\* run's entry, with no exploration before it.
THEOREM ReleaseIsAuthorized == Spec => []ReleaseFollowsAuthorization
<1>1. IInv => ReleaseFollowsAuthorization
  <2> SUFFICES ASSUME IInv, NEW r \in Runs, NEW i \in DOMAIN events[r],
                      At(r, i, "origin_dispatch")
               PROVE  /\ \E j \in 1..(i - 1) :
                            /\ At(r, j, "authorized")
                            /\ \A k \in DOMAIN events[r] : At(r, k, "authorized") => k = j
                      /\ \A k \in 1..(i - 1) : ~At(r, k, "optional_followed")
                      /\ \A k \in DOMAIN events[r] :
                            At(r, k, "issued") => events[r][i].at < events[r][k].at + Ttl
    BY DEF ReleaseFollowsAuthorization
  <2>1. RunInv(r)
    BY DEF IInv
  <2>2. PICK j \in 1..(i - 1) : At(r, j, "authorized")
    BY <2>1 DEF RunInv, ReleasedUnderGrant
  <2>3. \A k \in DOMAIN events[r] : At(r, k, "authorized") => k = j
    BY <2>1, <2>2 DEF RunInv, AuthorizedOnce, At
  <2>4. NoneExploredBefore(r, i)
    BY <2>1 DEF RunInv, ReleasedUnderGrant
  <2>5. \A k \in DOMAIN events[r] :
            At(r, k, "issued") => events[r][i].at < events[r][k].at + Ttl
    BY <2>1 DEF RunInv, ClockedByEntry
  <2> QED
    BY <2>2, <2>3, <2>4, <2>5 DEF NoneExploredBefore
<1> QED
  BY <1>1, Invariance, PTL

\* No step changes the report of a finalized run.
THEOREM ReportStays == Spec => FinalReportIsFrozen
<1> DEFINE Frozen == \A r \in Runs :
        run[r].finalized => run[r]'.finalized /\ Report(r)' = Report(r)
<1>1. TypeOK /\ [Next]_vars => [Frozen]_vars
  <2> SUFFICES ASSUME TypeOK, Next, NEW s \in Runs, run[s].finalized
               PROVE  run'[s].finalized /\ Report(s)' = Report(s)
    OBVIOUS
  <2>1. ASSUME run'[s].finalized, run'[s].retrieved = run[s].retrieved,
               events'[s] = events[s]
        PROVE  run'[s].finalized /\ Report(s)' = Report(s)
    BY <2>1 DEF Report, Outcome, Early, At, Has
  <2>2. CASE \E q \in AgentRequests : Dispatch(q)
    <3>1. PICK q \in AgentRequests : Dispatch(q)
      BY <2>2
    <3>2. Open(q.cookie)
      BY <3>1 DEF Dispatch, Lapsed, FollowOptional, FetchScript, Complete, Release, Deny
    <3>3. q.cookie # s
      BY <3>2 DEF Open
    <3>4. run'[s] = run[s] /\ events'[s] = events[s]
      BY <3>1, <3>3 DEF Dispatch, Lapsed, FollowOptional, FetchScript, Complete,
                        Release, Deny, Record, TypeOK
    <3> QED
      BY <2>1, <3>4
  <2>3. ASSUME NEW r \in Runs, CreateRun(r)
        PROVE  /\ events'[s] = events[s] /\ run'[s].finalized
               /\ run'[s].retrieved = run[s].retrieved
    <3>1. run[s] \in RunStates
      BY DEF TypeOK
    <3>2. run'[s] = IF s = r THEN [run[s] EXCEPT !.created = TRUE] ELSE run[s]
      BY <2>3 DEF CreateRun, TypeOK
    <3> QED
      BY <2>3, <3>1, <3>2 DEF CreateRun, RunStates
  <2>4. ASSUME NEW r \in Runs, Enter(r) \/ Finalize(r)
        PROVE  run'[s] = run[s] /\ events'[s] = events[s]
    BY <2>4 DEF Enter, Enterable, Finalize, Record, TypeOK
  <2>5. CASE Tick
    BY <2>1, <2>5 DEF Tick
  <2> QED
    BY <2>1, <2>2, <2>3, <2>4, <2>5 DEF Next
<1> QED
  BY <1>1, TypeCorrect, PTL DEF Spec, FinalReportIsFrozen
=============================================================================
