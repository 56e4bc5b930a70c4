------------------------ MODULE EvaluationRunProofs ------------------------
(***************************************************************************)
(* Proofs about EvaluationRun, bare and behind the harness, for any number *)
(* of sessions and of requests that overtake one another.                  *)
(***************************************************************************)
EXTENDS EvaluationRun, FiniteSetTheorems, TLAPS

\* Event i is of session s and of this kind; and there is such an event.
At(i, s, kind) == i \in DOMAIN events /\ events[i].run = s /\ events[i].event = kind

Past(s, kind) == \E i \in DOMAIN events : At(i, s, kind)

AuthorizedBefore(s, i) == \E j \in DOMAIN events : j < i /\ At(j, s, "authorized")

UnexploredBefore(s, i) == \A j \in DOMAIN events : j < i => ~At(j, s, "optional_followed")

Awaiting(s) == {h \in Requests : pc[h] = "awaiting" /\ req[h].cookie = s}

Typed ==
    /\ TypeOK
    /\ \A h \in Requests : pc[h] = "awaiting" => req[h].cookie \in Sessions

\* The flags of a session remember its history, and only sessions that were issued
\* have one.
FlagsFollowHistory(s) ==
    /\ session[s].tainted <=> Past(s, "optional_followed")
    /\ session[s].consumed <=> Past(s, "authorized")
    /\ session[s].granted => session[s].consumed /\ ~session[s].tainted
    /\ \A i \in DOMAIN events : events[i].run = s => session[s].issued

\* A session is authorized once at most and never after it explored; the origin is
\* asked under a grant, so what is released was authorized before.
HistoryIsLawful(s) ==
    /\ \A i, j \in DOMAIN events : At(i, s, "authorized") /\ At(j, s, "authorized") => i = j
    /\ \A i \in DOMAIN events : At(i, s, "authorized") => UnexploredBefore(s, i)
    /\ \A i \in DOMAIN events : At(i, s, "origin_dispatch") =>
           AuthorizedBefore(s, i) /\ UnexploredBefore(s, i)
    /\ \A i \in DOMAIN events : \A kind \in Released : At(i, s, kind) => AuthorizedBefore(s, i)
    /\ Awaiting(s) # {} => Past(s, "authorized")

\* Every release, and every answer that is awaited, has a dispatch of its own.
Balanced(s) ==
    /\ \A n \in 0..Len(events) :
           Cardinality(Upto(n, s, Released)) <= Cardinality(Upto(n, s, {"origin_dispatch"}))
    /\ Cardinality(Upto(Len(events), s, Released)) + Cardinality(Awaiting(s))
           <= Cardinality(Upto(Len(events), s, {"origin_dispatch"}))

SessionInv(s) == FlagsFollowHistory(s) /\ HistoryIsLawful(s) /\ Balanced(s)

\* Behind the harness requests are served in order and there is one session: while
\* an answer is awaited nobody has explored, and nobody can.
Serialized ==
    /\ \A g, h \in Requests :
           g < h /\ pc[h] \in {"awaiting", "answered"} => pc[g] = "answered"
    /\ \A s, t \in Issued : s = t
    /\ opened <=> Issued # {}
    /\ \A i \in DOMAIN events : events[i].event = "optional_followed" =>
           \A h \in Requests : pc[h] # "awaiting"
    /\ \A i, j \in DOMAIN events :
           events[i].event \in Released /\ events[j].event = "optional_followed" => i < j

\* A finished run is over, and its report sound.
Concluded == ~Bare /\ (\A h \in Requests : pc[h] # "awaiting") /\ OutcomeIsSound

HarnessInv == (~Bare => Serialized) /\ (finished => Concluded)

IInv == Typed /\ (\A s \in Sessions : SessionInv(s)) /\ HarnessInv

-----------------------------------------------------------------------------
USE LabAssumption, DeploymentAssumption

EventStates == [event : Kinds, run : Sessions]

\* What Append keeps and adds.
LEMMA Appending ==
    ASSUME NEW S, NEW s \in Seq(S), NEW e \in S
    PROVE  /\ DOMAIN s = 1..Len(s) /\ Len(s) \in Nat
           /\ Append(s, e) \in Seq(S) /\ Len(Append(s, e)) = Len(s) + 1
           /\ DOMAIN Append(s, e) = 1..(Len(s) + 1)
           /\ \A i \in 1..Len(s) : Append(s, e)[i] = s[i]
           /\ Append(s, e)[Len(s) + 1] = e
  OBVIOUS

\* Record adds one event at the end and leaves what was there.
LEMMA Recorded ==
    ASSUME TypeOK, NEW s \in Sessions, NEW kind \in Kinds, Record(kind, s)
    PROVE  /\ events \in Seq(EventStates) /\ events' \in Seq(EventStates)
           /\ Len(events) \in Nat /\ Len(events') = Len(events) + 1
           /\ DOMAIN events = 1..Len(events) /\ DOMAIN events' = 1..(Len(events) + 1)
           /\ \A i \in 1..Len(events) : events'[i] = events[i]
           /\ events'[Len(events) + 1].run = s /\ events'[Len(events) + 1].event = kind
<1> DEFINE e == [event |-> kind, run |-> s]
<1>1. e \in EventStates
  BY DEF EventStates
<1>2. events \in Seq(EventStates)
  BY DEF TypeOK, LabTypeOK, EventStates
<1>3. events' = Append(events, e)
  BY DEF Record
<1>4. e.run = s /\ e.event = kind
  OBVIOUS
<1> HIDE DEF e
<1> QED
  BY <1>1, <1>2, <1>3, <1>4, Appending

\* The events that satisfy At after a recording: those before, and the new one.
LEMMA AtRecorded ==
    ASSUME TypeOK, NEW s \in Sessions, NEW kind \in Kinds, Record(kind, s)
    PROVE  /\ Len(events) \in Nat
           /\ DOMAIN events = 1..Len(events) /\ DOMAIN events' = 1..(Len(events) + 1)
           /\ \A i, t, k : At(i, t, k) => i \in 1..Len(events)
           /\ \A i \in 1..(Len(events) + 1) : \A t, k :
                  At(i, t, k)' <=> IF i = Len(events) + 1 THEN t = s /\ k = kind
                                   ELSE At(i, t, k)
<1>1. /\ Len(events) \in Nat
      /\ DOMAIN events = 1..Len(events) /\ DOMAIN events' = 1..(Len(events) + 1)
      /\ \A i \in 1..Len(events) : events'[i] = events[i]
      /\ events'[Len(events) + 1].run = s /\ events'[Len(events) + 1].event = kind
  BY Recorded
<1> QED
  BY <1>1 DEF At

\* What a recording of this kind in session s asks of the flags of s, and makes of
\* the flags of a session t.
Lawful(s, kind) ==
    /\ session[s].issued
    /\ kind = "authorized" => ~session[s].tainted /\ ~session[s].consumed
    /\ kind = "origin_dispatch" => session[s].granted
    /\ kind \in Released => Past(s, "authorized")

FlagsMove(s, kind, t) ==
    /\ session'[t].issued <=> session[t].issued
    /\ session'[t].tainted <=> session[t].tainted \/ (t = s /\ kind = "optional_followed")
    /\ session'[t].consumed <=> session[t].consumed \/ (t = s /\ kind = "authorized")
    /\ session'[t].granted =>
          \/ t = s /\ kind = "authorized"
          \/ session[t].granted /\ ~(t = s /\ kind = "optional_followed")

LEMMA FlagsStep ==
    ASSUME TypeOK, NEW s \in Sessions, NEW kind \in Kinds, Record(kind, s),
           NEW t \in Sessions, FlagsFollowHistory(t),
           Lawful(s, kind), FlagsMove(s, kind, t)
    PROVE  /\ FlagsFollowHistory(t)'
           /\ \A k \in Kinds : Past(t, k)' <=> Past(t, k) \/ (t = s /\ k = kind)
<1> DEFINE n == Len(events)
<1>1. /\ n \in Nat /\ DOMAIN events = 1..n /\ DOMAIN events' = 1..(n + 1)
      /\ \A i \in 1..(n + 1) : \A k :
             At(i, t, k)' <=> IF i = n + 1 THEN t = s /\ k = kind ELSE At(i, t, k)
  BY AtRecorded
<1>2. /\ \A i \in 1..n : events'[i] = events[i]
      /\ events'[n + 1].run = s
  BY Recorded
<1> HIDE DEF n
<1>3. \A k \in Kinds : Past(t, k)' <=> Past(t, k) \/ (t = s /\ k = kind)
  <2> SUFFICES ASSUME NEW k \in Kinds PROVE Past(t, k)' <=> Past(t, k) \/ (t = s /\ k = kind)
    OBVIOUS
  <2>1. Past(t, k)' <=> \E i \in 1..(n + 1) : At(i, t, k)'
    BY <1>1 DEF Past
  <2>2. Past(t, k) <=> \E i \in 1..n : At(i, t, k)
    BY <1>1 DEF Past
  <2> QED
    BY <1>1, <2>1, <2>2
<1>4. \A i \in DOMAIN events' : events'[i].run = t => session'[t].issued
  BY <1>1, <1>2 DEF FlagsFollowHistory, Lawful, FlagsMove
<1>5. /\ Past(t, "optional_followed")' <=>
            Past(t, "optional_followed") \/ (t = s /\ kind = "optional_followed")
      /\ Past(t, "authorized")' <=> Past(t, "authorized") \/ (t = s /\ kind = "authorized")
  BY <1>3 DEF Kinds
<1>6. FlagsFollowHistory(t)'
  BY <1>4, <1>5 DEF FlagsFollowHistory, FlagsMove, Lawful
<1> QED
  BY <1>3, <1>6

LEMMA LawfulStep ==
    ASSUME TypeOK, NEW s \in Sessions, NEW kind \in Kinds, Record(kind, s),
           NEW t \in Sessions, FlagsFollowHistory(t), HistoryIsLawful(t),
           Lawful(s, kind), FlagsMove(s, kind, t),
           Awaiting(t)' # {} => Awaiting(t) # {} \/ (t = s /\ kind = "origin_dispatch")
    PROVE  HistoryIsLawful(t)'
<1> DEFINE n == Len(events)
<1>1. /\ n \in Nat /\ DOMAIN events = 1..n /\ DOMAIN events' = 1..(n + 1)
      /\ \A i, k : At(i, t, k) => i \in 1..n
      /\ \A i \in 1..(n + 1) : \A k :
             At(i, t, k)' <=> IF i = n + 1 THEN t = s /\ k = kind ELSE At(i, t, k)
  BY AtRecorded
<1>2. \A k \in Kinds : Past(t, k)' <=> Past(t, k) \/ (t = s /\ k = kind)
  BY FlagsStep
<1> HIDE DEF n
<1>3. \A i, k : At(i, t, k) => Past(t, k)
  BY DEF At, Past
<1>4. \A i \in 1..n : AuthorizedBefore(t, i) => AuthorizedBefore(t, i)'
  BY <1>1 DEF AuthorizedBefore
<1>5. \A i \in 1..n : UnexploredBefore(t, i) => UnexploredBefore(t, i)'
  BY <1>1 DEF UnexploredBefore
<1>6. ASSUME NEW i, i = n + 1, Past(t, "authorized") PROVE AuthorizedBefore(t, i)'
  BY <1>1, <1>6 DEF AuthorizedBefore, Past
<1>7. ASSUME NEW i, i = n + 1, ~session[t].tainted PROVE UnexploredBefore(t, i)'
  BY <1>1, <1>3, <1>7 DEF UnexploredBefore, FlagsFollowHistory
<1>8. \A i, j \in DOMAIN events' : At(i, t, "authorized")' /\ At(j, t, "authorized")' => i = j
  BY <1>1, <1>3 DEF FlagsFollowHistory, HistoryIsLawful, Lawful
<1>9. ASSUME NEW i \in 1..(n + 1)
      PROVE  /\ At(i, t, "authorized")' => UnexploredBefore(t, i)'
             /\ At(i, t, "origin_dispatch")' => AuthorizedBefore(t, i)' /\ UnexploredBefore(t, i)'
             /\ \A k \in Released : At(i, t, k)' => AuthorizedBefore(t, i)'
  <2>1. CASE i = n + 1
    <3>1. \A k : At(i, t, k)' => t = s /\ k = kind
      BY <1>1, <2>1
    <3>2. session[t].granted => Past(t, "authorized") /\ ~session[t].tainted
      BY DEF FlagsFollowHistory
    <3> QED
      BY <1>6, <1>7, <2>1, <3>1, <3>2 DEF Lawful
  <2>2. CASE i \in 1..n
    <3>1. \A k : At(i, t, k)' => At(i, t, k) /\ i \in DOMAIN events
      BY <1>1, <2>2
    <3> QED
      BY <1>4, <1>5, <2>2, <3>1 DEF HistoryIsLawful
  <2> QED
    BY <1>1, <2>1, <2>2
<1>12. Awaiting(t)' # {} => Past(t, "authorized")'
  BY <1>2 DEF FlagsFollowHistory, HistoryIsLawful, Lawful, Kinds
<1> QED
  BY <1>1, <1>8, <1>9, <1>12 DEF HistoryIsLawful

-----------------------------------------------------------------------------
\* Counting: what is pending, and how the counted events grow.
LEMMA AwaitingIsFinite ==
    ASSUME NEW s
    PROVE  IsFiniteSet(Awaiting(s)) /\ IsFiniteSet(Awaiting(s)')
<1>1. IsFiniteSet(Requests)
  BY FS_Interval DEF Requests
<1>2. Awaiting(s) \subseteq Requests /\ Awaiting(s)' \subseteq Requests
  BY DEF Awaiting
<1> QED
  BY <1>1, <1>2, FS_Subset

LEMMA UptoIsFinite ==
    ASSUME NEW n \in Nat, NEW s, NEW kinds
    PROVE  IsFiniteSet(Upto(n, s, kinds)) /\ n + 1 \notin Upto(n, s, kinds)
<1>1. IsFiniteSet(1..n) /\ n + 1 \notin 1..n
  BY FS_Interval
<1>2. Upto(n, s, kinds) \subseteq 1..n
  BY DEF Upto
<1> QED
  BY <1>1, <1>2, FS_Subset

LEMMA UptoRecorded ==
    ASSUME TypeOK, NEW s \in Sessions, NEW kind \in Kinds, Record(kind, s),
           NEW t, NEW kinds, NEW n, n = Len(events)
    PROVE  /\ \A m \in 0..n : Upto(m, t, kinds)' = Upto(m, t, kinds)
           /\ t = s /\ kind \in kinds =>
                  Upto(n + 1, t, kinds)' = Upto(n, t, kinds) \cup {n + 1}
           /\ ~(t = s /\ kind \in kinds) => Upto(n + 1, t, kinds)' = Upto(n, t, kinds)
<1>1. /\ n \in Nat
      /\ \A i \in 1..n : events'[i] = events[i]
      /\ events'[n + 1].run = s /\ events'[n + 1].event = kind
  BY Recorded
<1>2. \A m \in 0..n : Upto(m, t, kinds)' = Upto(m, t, kinds)
  BY <1>1 DEF Upto
<1>3. 1..(n + 1) = (1..n) \cup {n + 1}
  BY <1>1
<1>4. t = s /\ kind \in kinds => Upto(n + 1, t, kinds)' = Upto(n, t, kinds) \cup {n + 1}
  BY <1>1, <1>3 DEF Upto
<1>5. ~(t = s /\ kind \in kinds) => Upto(n + 1, t, kinds)' = Upto(n, t, kinds)
  BY <1>1, <1>3 DEF Upto
<1> QED
  BY <1>2, <1>4, <1>5

\* How many are counted after a recording.
LEMMA Counted ==
    ASSUME TypeOK, NEW s \in Sessions, NEW kind \in Kinds, Record(kind, s),
           NEW t, NEW kinds, NEW n, n = Len(events)
    PROVE  /\ Cardinality(Upto(n, t, kinds)) \in Nat
           /\ \A m \in 0..n : Cardinality(Upto(m, t, kinds)') = Cardinality(Upto(m, t, kinds))
           /\ t = s /\ kind \in kinds =>
                  Cardinality(Upto(n + 1, t, kinds)') = Cardinality(Upto(n, t, kinds)) + 1
           /\ ~(t = s /\ kind \in kinds) =>
                  Cardinality(Upto(n + 1, t, kinds)') = Cardinality(Upto(n, t, kinds))
<1>1. n \in Nat
  BY Recorded
<1>2. /\ \A m \in 0..n : Upto(m, t, kinds)' = Upto(m, t, kinds)
      /\ t = s /\ kind \in kinds =>
             Upto(n + 1, t, kinds)' = Upto(n, t, kinds) \cup {n + 1}
      /\ ~(t = s /\ kind \in kinds) => Upto(n + 1, t, kinds)' = Upto(n, t, kinds)
  BY UptoRecorded
<1>3. /\ IsFiniteSet(Upto(n, t, kinds)) /\ n + 1 \notin Upto(n, t, kinds)
      /\ Cardinality(Upto(n, t, kinds)) \in Nat
  BY <1>1, UptoIsFinite, FS_CardinalityType
<1>4. Cardinality(Upto(n, t, kinds) \cup {n + 1}) = Cardinality(Upto(n, t, kinds)) + 1
  BY <1>3, FS_AddElement
<1> QED
  BY <1>2, <1>3, <1>4, Zenon

\* Who awaits an answer after request h recorded an event of this kind in s.
Flow(h, s, kind, t) ==
    Awaiting(t)' =
        IF t = s /\ kind = "origin_dispatch" THEN Awaiting(t) \cup {h}
        ELSE IF t = s /\ kind \in Released THEN Awaiting(t) \ {h} ELSE Awaiting(t)

LEMMA BalanceStep ==
    ASSUME TypeOK, NEW s \in Sessions, NEW kind \in Kinds, Record(kind, s),
           NEW t \in Sessions, NEW h, Balanced(t), Flow(h, s, kind, t),
           kind = "origin_dispatch" => h \notin Awaiting(s),
           kind \in Released => h \in Awaiting(s)
    PROVE  Balanced(t)'
<1> PICK n : n = Len(events)
  OBVIOUS
<1> DEFINE a == Cardinality(Awaiting(t))
           r == Cardinality(Upto(n, t, Released))
           d == Cardinality(Upto(n, t, {"origin_dispatch"}))
<1>1. n \in Nat /\ Len(events') = n + 1
  BY Recorded
<1>2. a \in Nat /\ r \in Nat /\ d \in Nat
  BY AwaitingIsFinite, FS_CardinalityType, Counted
<1>3. Cardinality(Awaiting(t)') =
          a + (IF t = s /\ kind = "origin_dispatch" THEN 1 ELSE 0)
            - (IF t = s /\ kind \in Released THEN 1 ELSE 0)
  <2>1. IsFiniteSet(Awaiting(t)) /\ "origin_dispatch" \notin Released
    BY AwaitingIsFinite DEF Released
  <2>2. h \notin Awaiting(t) => Cardinality(Awaiting(t) \cup {h}) = a + 1
    BY <2>1, FS_AddElement
  <2>3. h \in Awaiting(t) => Cardinality(Awaiting(t) \ {h}) = a - 1
    BY <2>1, FS_RemoveElement
  <2> QED
    BY <1>2, <2>1, <2>2, <2>3 DEF Flow
<1>4. /\ \A m \in 0..n : Cardinality(Upto(m, t, Released)') = Cardinality(Upto(m, t, Released))
      /\ Cardinality(Upto(n + 1, t, Released)') = r + IF t = s /\ kind \in Released THEN 1 ELSE 0
  BY <1>1, <1>2, Counted
<1>5. /\ \A m \in 0..n : Cardinality(Upto(m, t, {"origin_dispatch"})')
                             = Cardinality(Upto(m, t, {"origin_dispatch"}))
      /\ Cardinality(Upto(n + 1, t, {"origin_dispatch"})')
             = d + IF t = s /\ kind = "origin_dispatch" THEN 1 ELSE 0
  BY <1>1, <1>2, Counted
<1>6. /\ r + a <= d
      /\ \A m \in 0..n :
             Cardinality(Upto(m, t, Released)) <= Cardinality(Upto(m, t, {"origin_dispatch"}))
  BY DEF Balanced
<1>7. t = s /\ kind \in Released => a >= 1
  <2>1. ASSUME t = s, kind \in Released, a = 0 PROVE FALSE
    BY <2>1, AwaitingIsFinite, FS_EmptySet
  <2> QED
    BY <1>2, <2>1
<1> HIDE DEF a, r, d
<1>8. /\ Cardinality(Upto(n + 1, t, Released)') + Cardinality(Awaiting(t)')
             <= Cardinality(Upto(n + 1, t, {"origin_dispatch"})')
      /\ Cardinality(Upto(n + 1, t, Released)') <= Cardinality(Upto(n + 1, t, {"origin_dispatch"})')
  BY <1>2, <1>3, <1>4, <1>6, <1>5, <1>7 DEF Released
<1>9. \A m \in 0..(n + 1) :
          Cardinality(Upto(m, t, Released)') <= Cardinality(Upto(m, t, {"origin_dispatch"})')
  BY <1>1, <1>4, <1>6, <1>5, <1>8
<1> QED
  BY <1>1, <1>8, <1>9 DEF Balanced

-----------------------------------------------------------------------------
\* A recording keeps what is known of every session ...
LEMMA RecordingKeepsSessions ==
    ASSUME TypeOK, \A t \in Sessions : SessionInv(t),
           NEW s \in Sessions, NEW kind \in Kinds, NEW h,
           Record(kind, s), Lawful(s, kind),
           \A t \in Sessions : FlagsMove(s, kind, t) /\ Flow(h, s, kind, t),
           kind = "origin_dispatch" => h \notin Awaiting(s),
           kind \in Released => h \in Awaiting(s)
    PROVE  \A t \in Sessions : SessionInv(t)'
<1> SUFFICES ASSUME NEW t \in Sessions PROVE SessionInv(t)'
  OBVIOUS
<1>1. FlagsFollowHistory(t) /\ HistoryIsLawful(t) /\ Balanced(t)
  BY DEF SessionInv
<1>2. Awaiting(t)' # {} => Awaiting(t) # {} \/ (t = s /\ kind = "origin_dispatch")
  BY DEF Flow
<1>3. FlagsFollowHistory(t)'
  BY <1>1, FlagsStep
<1>4. HistoryIsLawful(t)'
  BY <1>1, <1>2, LawfulStep
<1>5. Balanced(t)'
  BY <1>1, BalanceStep
<1> QED
  BY <1>3, <1>4, <1>5 DEF SessionInv

\* ... and so does a step that records nothing, if it leaves the flags of a
\* session and lets nobody new wait for the origin.
LEMMA QuietSession ==
    ASSUME NEW t, SessionInv(t), events' = events, Awaiting(t)' \subseteq Awaiting(t),
           session[t].issued => session'[t].issued,
           session'[t].tainted = session[t].tainted,
           session'[t].consumed = session[t].consumed,
           session'[t].granted = session[t].granted,
           Len(events) \in Nat
    PROVE  SessionInv(t)'
<1>1. FlagsFollowHistory(t) /\ HistoryIsLawful(t) /\ Balanced(t)
  BY DEF SessionInv
<1>2. \A i, k : At(i, t, k)' <=> At(i, t, k)
  BY DEF At
<1>3. \A k : Past(t, k)' <=> Past(t, k)
  BY <1>2 DEF Past
<1>4. \A i : /\ AuthorizedBefore(t, i)' <=> AuthorizedBefore(t, i)
             /\ UnexploredBefore(t, i)' <=> UnexploredBefore(t, i)
  BY <1>2 DEF AuthorizedBefore, UnexploredBefore
<1>5. FlagsFollowHistory(t)'
  BY <1>1, <1>3 DEF FlagsFollowHistory
<1>6. HistoryIsLawful(t)'
  BY <1>1, <1>2, <1>3, <1>4 DEF HistoryIsLawful
<1>7. /\ Cardinality(Awaiting(t)') <= Cardinality(Awaiting(t))
      /\ Cardinality(Awaiting(t)') \in Nat /\ Cardinality(Awaiting(t)) \in Nat
  BY AwaitingIsFinite, FS_Subset, FS_CardinalityType
<1>8. \A m, k : Upto(m, t, k)' = Upto(m, t, k)
  BY DEF Upto
<1>9. \A k : Cardinality(Upto(Len(events), t, k)) \in Nat
  BY UptoIsFinite, FS_CardinalityType
<1>10. Balanced(t)'
  <2>1. /\ Upto(Len(events), t, Released)' = Upto(Len(events), t, Released)
        /\ Upto(Len(events), t, {"origin_dispatch"})' = Upto(Len(events), t, {"origin_dispatch"})
    BY DEF Upto
  <2>2. Cardinality(Upto(Len(events), t, Released)') + Cardinality(Awaiting(t)')
            <= Cardinality(Upto(Len(events), t, {"origin_dispatch"})')
    BY <1>1, <1>7, <1>9, <2>1 DEF Balanced
  <2>3. \A n \in 0..Len(events) :
            Cardinality(Upto(n, t, Released)') <= Cardinality(Upto(n, t, {"origin_dispatch"})')
    BY <1>1, <1>8 DEF Balanced
  <2> QED
    BY <2>2, <2>3 DEF Balanced
<1> QED
  BY <1>5, <1>6, <1>10 DEF SessionInv

-----------------------------------------------------------------------------
\* Behind the harness a request is handled once those before it are answered.
InTurn(h) == ~Bare => Turn(h)

\* Serving h in its turn, or finishing it, keeps the order of service.
LEMMA OrderKept ==
    ASSUME NEW h \in Requests, NEW step, pc' = [pc EXCEPT ![h] = step],
           DOMAIN pc = Requests, Turn(h), pc[h] \in {"waiting", "awaiting"},
           \A f, g \in Requests :
               f < g /\ pc[g] \in {"awaiting", "answered"} => pc[f] = "answered"
    PROVE  /\ \A f, g \in Requests :
                  f < g /\ pc'[g] \in {"awaiting", "answered"} => pc'[f] = "answered"
           /\ \A g \in Requests \ {h} : pc[g] # "awaiting" /\ pc'[g] # "awaiting"
<1>1. /\ pc'[h] = step /\ \A g \in Requests \ {h} : pc'[g] = pc[g]
  OBVIOUS
<1>2. \A g \in Requests : g < h => pc[g] = "answered"
  BY DEF Turn, Requests
<1>3. \A g \in Requests : h < g => pc[g] \notin {"awaiting", "answered"}
  OBVIOUS
<1>4. \A g \in Requests \ {h} : g < h \/ h < g
  BY DEF Requests
<1> QED
  BY <1>1, <1>2, <1>3, <1>4

\* A recording in its turn keeps what is known behind the harness.
LEMMA RecordingKeepsHarness ==
    ASSUME IInv, NEW h \in Requests, NEW s \in Sessions, NEW kind \in Kinds,
           Record(kind, s), Lawful(s, kind), NEW step, pc' = [pc EXCEPT ![h] = step],
           step = "awaiting" <=> kind = "origin_dispatch",
           pc[h] \in {"waiting", "awaiting"},
           pc[h] = "awaiting" <=> kind \in Released,
           InTurn(h), ~finished, \A t \in Sessions : session'[t].issued <=> session[t].issued,
           UNCHANGED harness
    PROVE  HarnessInv'
<1> DEFINE n == Len(events)
<1>1. /\ n \in Nat /\ DOMAIN events = 1..n /\ DOMAIN events' = 1..(n + 1)
      /\ \A i \in 1..n : events'[i] = events[i]
      /\ events'[n + 1].run = s /\ events'[n + 1].event = kind
  BY Recorded DEF IInv, Typed
<1>2. ~finished' /\ (Bare' <=> Bare) /\ (opened' <=> opened) /\ Issued' = Issued
  BY DEF harness, Bare, Issued
<1>3. SUFFICES ASSUME ~Bare PROVE Serialized'
  BY <1>2 DEF HarnessInv
<1>4. Serialized /\ Turn(h)
  BY <1>3 DEF IInv, HarnessInv, InTurn
<1>5. DOMAIN pc = Requests
  BY DEF IInv, Typed, TypeOK, LabTypeOK
<1>6. /\ \A f, g \in Requests :
             f < g /\ pc'[g] \in {"awaiting", "answered"} => pc'[f] = "answered"
      /\ \A g \in Requests \ {h} : pc[g] # "awaiting" /\ pc'[g] # "awaiting"
  BY <1>4, <1>5, OrderKept DEF Serialized
<1>7. (\A u, t \in Issued : u = t)' /\ (opened <=> Issued # {})'
  BY <1>2, <1>4 DEF Serialized
<1>8. \A i \in DOMAIN events : events[i].run \in Issued
  <2>1. \A i \in DOMAIN events : events[i].run \in Sessions
    <3>1. events \in Seq(EventStates)
      BY Recorded DEF IInv, Typed
    <3>2. \A i \in 1..n : events[i] \in EventStates
      BY <1>1, <3>1
    <3>3. \A e \in EventStates : e.run \in Sessions
      BY DEF EventStates
    <3> QED
      BY <1>1, <3>2, <3>3
  <2> QED
    BY <2>1 DEF IInv, SessionInv, FlagsFollowHistory, Issued
<1>9. s \in Issued
  BY DEF Lawful, Issued
<1>10. kind = "origin_dispatch" => \A i \in DOMAIN events : events[i].event # "optional_followed"
  <2>1. SUFFICES ASSUME kind = "origin_dispatch", NEW i \in DOMAIN events,
                        events[i].event = "optional_followed"
                 PROVE  FALSE
    OBVIOUS
  <2>2. events[i].run = s
    BY <1>4, <1>8, <1>9 DEF Serialized
  <2>3. Past(s, "optional_followed")
    BY <2>1, <2>2 DEF Past, At
  <2> QED
    BY <2>1, <2>3 DEF IInv, SessionInv, FlagsFollowHistory, Lawful
<1>11. pc'[h] = step
  BY <1>5
<1>12. kind \in Released => \A i \in DOMAIN events : events[i].event # "optional_followed"
  BY <1>4 DEF Serialized
<1>13. \A i \in DOMAIN events' : events'[i].event = "optional_followed" =>
           \A g \in Requests : pc'[g] # "awaiting"
  BY <1>1, <1>4, <1>6, <1>10, <1>11 DEF Serialized
<1>14. \A i, j \in DOMAIN events' :
           events'[i].event \in Released /\ events'[j].event = "optional_followed" => i < j
  BY <1>1, <1>4, <1>12 DEF Serialized, Released
<1> QED
  BY <1>6, <1>7, <1>13, <1>14 DEF Serialized

\* A step that records nothing keeps what is known behind the harness, if the order
\* of service and the one session are kept.
LEMMA QuietKeepsHarness ==
    ASSUME HarnessInv, events' = events,
           deployment' = deployment, finished' = finished,
           returned' = returned, report' = report,
           \A g \in Requests : pc'[g] = "awaiting" => pc[g] = "awaiting",
           ~Bare => /\ \A f, g \in Requests :
                           f < g /\ pc'[g] \in {"awaiting", "answered"} => pc'[f] = "answered"
                    /\ \A s, t \in Issued' : s = t
                    /\ opened' <=> Issued' # {}
    PROVE  HarnessInv'
<1>1. Bare' <=> Bare
  BY DEF Bare
<1>2. ~Bare => Serialized'
  BY DEF HarnessInv, Serialized
<1>3. OutcomeIsSound' <=> OutcomeIsSound
  BY DEF OutcomeIsSound, Early, Has
<1>4. finished => Concluded'
  BY <1>1, <1>3 DEF HarnessInv, Concluded
<1> QED
  BY <1>1, <1>2, <1>4 DEF HarnessInv

-----------------------------------------------------------------------------
\* What Answer makes of the requests.
LEMMA Answered ==
    ASSUME Typed, NEW h \in Requests, Answer(h)
    PROVE  /\ pc' \in [Requests -> {"idle", "waiting", "awaiting", "answered"}]
           /\ req' \in [Requests -> RequestStates]
           /\ pc' = [pc EXCEPT ![h] = "answered"] /\ pc'[h] = "answered"
           /\ \A g \in Requests : pc'[g] = "awaiting" =>
                  pc[g] = "awaiting" /\ req'[g] = req[g] /\ req'[g].cookie \in Sessions
           /\ \A t : Awaiting(t)' = Awaiting(t) \ {h}
<1>1. /\ pc \in [Requests -> {"idle", "waiting", "awaiting", "answered"}]
      /\ req \in [Requests -> RequestStates]
  BY DEF Typed, TypeOK, LabTypeOK
<1>2. NoRequest \in RequestStates
  BY DEF NoRequest, RequestStates, Routes
<1>3. /\ pc' \in [Requests -> {"idle", "waiting", "awaiting", "answered"}]
      /\ req' \in [Requests -> RequestStates]
      /\ pc'[h] = "answered"
      /\ \A g \in Requests \ {h} : pc'[g] = pc[g] /\ req'[g] = req[g]
  BY <1>1, <1>2 DEF Answer
<1>4. \A g \in Requests : pc'[g] = "awaiting" =>
          pc[g] = "awaiting" /\ req'[g] = req[g] /\ req'[g].cookie \in Sessions
  BY <1>3 DEF Typed
<1>5. ASSUME NEW t PROVE Awaiting(t)' = Awaiting(t) \ {h}
  <2>1. Requests' = Requests
    BY DEF Requests
  <2>2. \A g \in Requests : g \in Awaiting(t)' <=> g \in Awaiting(t) /\ g # h
    BY <1>3, <2>1 DEF Awaiting
  <2>3. Awaiting(t)' \subseteq Requests /\ Awaiting(t) \subseteq Requests
    BY <2>1 DEF Awaiting
  <2> QED
    BY <2>2, <2>3
<1> QED
  BY <1>3, <1>4, <1>5 DEF Answer

\* A request that is answered without any effect.
LEMMA NoEffectInv ==
    ASSUME IInv, NEW h \in Requests, NoEffect(h), pc[h] \in {"waiting", "awaiting"},
           InTurn(h), UNCHANGED <<deployment, finished, returned, report>>,
           opened' = opened \/ (opened' = SessionExists /\ ~Bare)
    PROVE  IInv'
<1>1. Answer(h) /\ session' = session /\ events' = events /\ now' = now
  BY DEF NoEffect
<1>2. /\ pc' \in [Requests -> {"idle", "waiting", "awaiting", "answered"}]
      /\ req' \in [Requests -> RequestStates]
      /\ pc' = [pc EXCEPT ![h] = "answered"]
      /\ \A g \in Requests : pc'[g] = "awaiting" =>
             pc[g] = "awaiting" /\ req'[g] = req[g] /\ req'[g].cookie \in Sessions
      /\ \A t : Awaiting(t)' = Awaiting(t) \ {h}
  BY <1>1, Answered DEF IInv
<1>3. opened' \in BOOLEAN
  BY DEF IInv, Typed, TypeOK, SessionExists
<1>4. Typed'
  BY <1>1, <1>2, <1>3 DEF IInv, Typed, TypeOK, LabTypeOK
<1>5. Len(events) \in Nat
  BY DEF IInv, Typed, TypeOK, LabTypeOK
<1>6. \A t \in Sessions : SessionInv(t)'
  BY <1>1, <1>2, <1>5, QuietSession DEF IInv
<1>7. ~Bare => /\ \A f, g \in Requests :
                      f < g /\ pc'[g] \in {"awaiting", "answered"} => pc'[f] = "answered"
               /\ \A s, t \in Issued' : s = t
               /\ opened' <=> Issued' # {}
  <2> SUFFICES ASSUME ~Bare
               PROVE  /\ \A f, g \in Requests :
                             f < g /\ pc'[g] \in {"awaiting", "answered"} => pc'[f] = "answered"
                      /\ \A s, t \in Issued' : s = t
                      /\ opened' <=> Issued' # {}
    OBVIOUS
  <2>1. Serialized /\ Turn(h) /\ DOMAIN pc = Requests
    BY DEF IInv, HarnessInv, InTurn, Typed, TypeOK, LabTypeOK
  <2>2. Issued' = Issued /\ (SessionExists <=> Issued # {})
    BY <1>1 DEF Issued, SessionExists
  <2>3. \A f, g \in Requests :
            f < g /\ pc'[g] \in {"awaiting", "answered"} => pc'[f] = "answered"
    BY <1>2, <2>1, OrderKept DEF Serialized
  <2>4. opened' <=> Issued' # {}
    BY <2>1, <2>2 DEF Serialized
  <2> QED
    BY <2>1, <2>2, <2>3, <2>4 DEF Serialized
<1>8. HarnessInv'
  BY <1>1, <1>2, <1>7, QuietKeepsHarness DEF IInv
<1> QED
  BY <1>4, <1>6, <1>8 DEF IInv

\* A request of session s that is answered, with an event and new flags for s.
LEMMA HandledInv ==
    ASSUME IInv, NEW h \in Requests, NEW s \in Sessions, NEW kind \in Kinds, NEW v \in SessionStates,
           Record(kind, s), Lawful(s, kind), Answer(h), now' = now,
           session' = [session EXCEPT ![s] = v], FlagsMove(s, kind, s),
           kind # "origin_dispatch",
           \/ pc[h] = "waiting" /\ kind \notin Released
           \/ pc[h] = "awaiting" /\ kind \in Released /\ req[h].cookie = s,
           InTurn(h), ~finished, UNCHANGED harness
    PROVE  IInv'
<1>1. /\ pc' \in [Requests -> {"idle", "waiting", "awaiting", "answered"}]
      /\ req' \in [Requests -> RequestStates]
      /\ pc' = [pc EXCEPT ![h] = "answered"]
      /\ \A g \in Requests : pc'[g] = "awaiting" =>
             pc[g] = "awaiting" /\ req'[g] = req[g] /\ req'[g].cookie \in Sessions
      /\ \A t : Awaiting(t)' = Awaiting(t) \ {h}
  BY Answered DEF IInv
<1>2. /\ session' \in [Sessions -> SessionStates]
      /\ \A t \in Sessions \ {s} : session'[t] = session[t]
  BY DEF IInv, Typed, TypeOK, LabTypeOK
<1>3. events' \in Seq([event : Kinds, run : Sessions])
  BY Recorded DEF IInv, Typed, EventStates
<1>4. Typed'
  BY <1>1, <1>2, <1>3 DEF IInv, Typed, TypeOK, LabTypeOK, harness
<1>5. \A t \in Sessions : FlagsMove(s, kind, t)
  <2>1. \A t \in Sessions \ {s} : FlagsMove(s, kind, t)
    BY <1>2 DEF FlagsMove, IInv, Typed, TypeOK, LabTypeOK
  <2> QED
    BY <2>1
<1>6. \A t \in Sessions : Flow(h, s, kind, t)
  BY <1>1 DEF Flow, Awaiting
<1>7. kind \in Released => h \in Awaiting(s)
  BY DEF Awaiting, Released
<1>8. \A t \in Sessions : SessionInv(t)'
  BY <1>5, <1>6, <1>7, RecordingKeepsSessions DEF IInv, Typed
<1>9. pc[h] \in {"waiting", "awaiting"} /\ (pc[h] = "awaiting" <=> kind \in Released)
  OBVIOUS
<1>10. \A t \in Sessions : session'[t].issued <=> session[t].issued
  BY <1>5 DEF FlagsMove
<1>11. HarnessInv'
  BY <1>1, <1>9, <1>10, RecordingKeepsHarness
<1> QED
  BY <1>4, <1>8, <1>11 DEF IInv

-----------------------------------------------------------------------------
\* The flags of a session, one by one.
LEMMA SessionTyped ==
    ASSUME TypeOK, NEW s \in Sessions
    PROVE  /\ session[s] \in SessionStates
           /\ session[s].issued \in BOOLEAN /\ session[s].tainted \in BOOLEAN
           /\ session[s].consumed \in BOOLEAN /\ session[s].granted \in BOOLEAN
  BY DEF TypeOK, LabTypeOK, SessionStates

\* A request that is admitted carries the cookie of an issued session.
LEMMA CookieIssued ==
    ASSUME NEW q \in ClientRequests, Admitted(q)
    PROVE  q.cookie \in Sessions /\ session[q.cookie].issued /\ q \in RequestStates
<1>1. q.cookie \in Issued \cup {NoSession}
  BY DEF ClientRequests
<1>2. q.cookie # NoSession
  BY DEF Admitted, Alive
<1>3. q \in RequestStates
  BY DEF ClientRequests, RequestStates, Issued
<1> QED
  BY <1>1, <1>2, <1>3 DEF Issued

LEMMA FollowOptionalInv ==
    ASSUME IInv, NEW h \in Requests, NEW q \in ClientRequests, FollowOptional(h, q),
           pc[h] = "waiting", InTurn(h), ~finished, UNCHANGED harness
    PROVE  IInv'
<1> DEFINE s == q.cookie
           v == [session[s] EXCEPT !.tainted = TRUE, !.granted = FALSE]
<1>1. s \in Sessions /\ session[s].issued
  BY CookieIssued DEF FollowOptional
<1>2. /\ session[s] \in SessionStates /\ session \in [Sessions -> SessionStates]
      /\ session[s].consumed \in BOOLEAN
  BY <1>1, SessionTyped DEF IInv, Typed, TypeOK, LabTypeOK
<1>3. /\ v \in SessionStates /\ v.tainted /\ ~v.granted
      /\ v.issued = session[s].issued /\ v.consumed = session[s].consumed
  BY <1>2 DEF SessionStates
<1>4. session' = [session EXCEPT ![s] = v]
  BY DEF FollowOptional, Taint
<1>5. /\ Record("optional_followed", s) /\ Answer(h) /\ now' = now
      /\ "optional_followed" \in Kinds /\ "optional_followed" \notin Released
  BY DEF FollowOptional, Kinds, Released
<1> HIDE DEF s, v
<1>6. session'[s] = v
  BY <1>1, <1>2, <1>4
<1>7. Lawful(s, "optional_followed") /\ FlagsMove(s, "optional_followed", s)
  BY <1>1, <1>3, <1>5, <1>6 DEF Lawful, FlagsMove
<1> QED
  BY <1>1, <1>3, <1>4, <1>5, <1>7, HandledInv

LEMMA CompleteInv ==
    ASSUME IInv, NEW h \in Requests, NEW q \in ClientRequests, Complete(h, q),
           pc[h] = "waiting", InTurn(h), ~finished, UNCHANGED harness
    PROVE  IInv'
<1> DEFINE s == q.cookie
           v == [session[s] EXCEPT !.consumed = TRUE, !.granted = TRUE]
<1>1. s \in Sessions /\ session[s].issued
  BY CookieIssued DEF Complete
<1>2. /\ session[s] \in SessionStates /\ session \in [Sessions -> SessionStates]
      /\ session[s].tainted \in BOOLEAN
  BY <1>1, SessionTyped DEF IInv, Typed, TypeOK, LabTypeOK
<1>3. /\ v \in SessionStates /\ v.consumed
      /\ v.issued = session[s].issued /\ v.tainted = session[s].tainted
  BY <1>2 DEF SessionStates
<1>4. session' = [session EXCEPT ![s] = v]
  BY DEF Complete
<1>5. /\ Record("authorized", s) /\ Answer(h) /\ now' = now
      /\ "authorized" \in Kinds /\ "authorized" \notin Released
      /\ ~session[s].tainted /\ ~session[s].consumed
  BY DEF Complete, Completes, Completable, Kinds, Released
<1> HIDE DEF s, v
<1>6. session'[s] = v
  BY <1>1, <1>2, <1>4
<1>7. Lawful(s, "authorized") /\ FlagsMove(s, "authorized", s)
  BY <1>1, <1>3, <1>5, <1>6 DEF Lawful, FlagsMove
<1> QED
  BY <1>1, <1>3, <1>4, <1>5, <1>7, HandledInv

LEMMA OriginAnswerInv ==
    ASSUME IInv, NEW h \in Requests, OriginAnswer(h), UNCHANGED harness
    PROVE  IInv'
<1> DEFINE s == req[h].cookie
           kind == IF req[h].route = "private" THEN "released" ELSE "asset_released"
<1>1. /\ pc[h] = "awaiting" /\ Record(kind, s) /\ Answer(h)
      /\ now' = now /\ session' = session
  BY DEF OriginAnswer
<1>2. s \in Sessions /\ h \in Awaiting(s)
  BY <1>1 DEF IInv, Typed, Awaiting
<1>3. kind \in Kinds /\ kind \in Released /\ kind # "origin_dispatch"
      /\ kind # "optional_followed" /\ kind # "authorized"
  BY DEF Kinds, Released
<1> HIDE DEF s, kind
<1>4. Past(s, "authorized") /\ session[s].issued
  <2>1. Past(s, "authorized")
    BY <1>2 DEF IInv, SessionInv, HistoryIsLawful
  <2> QED
    BY <1>2, <2>1 DEF IInv, SessionInv, FlagsFollowHistory, Past, At
<1>5. Lawful(s, kind) /\ FlagsMove(s, kind, s)
  BY <1>1, <1>3, <1>4 DEF Lawful, FlagsMove
<1>6. InTurn(h)
  BY <1>1 DEF InTurn, Turn, IInv, HarnessInv, Serialized, Requests
<1>7. ~finished
  BY <1>1 DEF IInv, HarnessInv, Concluded
<1>8. session[s] \in SessionStates /\ session' = [session EXCEPT ![s] = session[s]]
  BY <1>1, <1>2 DEF IInv, Typed, TypeOK, LabTypeOK
<1>9. req[h].cookie = s
  BY DEF s
<1> QED
  BY <1>1, <1>2, <1>3, <1>5, <1>6, <1>7, <1>8, <1>9, HandledInv

LEMMA OriginDispatchInv ==
    ASSUME IInv, NEW h \in Requests, NEW q \in ClientRequests, OriginDispatch(h, q),
           pc[h] = "waiting", InTurn(h), ~finished, UNCHANGED harness
    PROVE  IInv'
<1> DEFINE s == q.cookie
           kind == "origin_dispatch"
<1>1. s \in Sessions /\ session[s].issued /\ q \in RequestStates
  BY CookieIssued DEF OriginDispatch
<1>2. /\ Record(kind, s) /\ now' = now /\ session' = session /\ session[s].granted
      /\ pc' = [pc EXCEPT ![h] = "awaiting"] /\ req' = [req EXCEPT ![h] = q]
  BY DEF OriginDispatch, Fetches
<1>3. kind \in Kinds /\ kind \notin Released /\ kind = "origin_dispatch"
  BY DEF Kinds, Released
<1>4. req' = [req EXCEPT ![h] = q] /\ q.cookie = s
  BY <1>2
<1> HIDE DEF s, kind
<1>5. /\ pc \in [Requests -> {"idle", "waiting", "awaiting", "answered"}]
      /\ req \in [Requests -> RequestStates]
  BY DEF IInv, Typed, TypeOK, LabTypeOK
<1>6. /\ pc' \in [Requests -> {"idle", "waiting", "awaiting", "answered"}]
      /\ req' \in [Requests -> RequestStates]
      /\ pc'[h] = "awaiting" /\ req'[h].cookie = s
      /\ \A g \in Requests \ {h} : pc'[g] = pc[g] /\ req'[g] = req[g]
  BY <1>1, <1>2, <1>4, <1>5
<1>7. events' \in Seq([event : Kinds, run : Sessions])
  BY <1>1, <1>2, <1>3, Recorded DEF IInv, Typed, EventStates
<1>8. Typed'
  BY <1>1, <1>2, <1>6, <1>7 DEF IInv, Typed, TypeOK, LabTypeOK, harness, Requests
<1>9. Lawful(s, kind) /\ \A t \in Sessions : FlagsMove(s, kind, t)
  BY <1>1, <1>2, <1>3 DEF Lawful, FlagsMove, Released
<1>10. h \notin Awaiting(s)
  BY DEF Awaiting
<1>11. ASSUME NEW t \in Sessions PROVE Flow(h, s, kind, t)
  <2>1. Requests' = Requests
    BY DEF Requests
  <2>2. \A g \in Requests : g \in Awaiting(t)' <=> g \in Awaiting(t) \/ (g = h /\ t = s)
    BY <1>6, <2>1 DEF Awaiting
  <2>3. Awaiting(t)' \subseteq Requests /\ Awaiting(t) \subseteq Requests
    BY <2>1 DEF Awaiting
  <2>4. Awaiting(t)' = IF t = s THEN Awaiting(t) \cup {h} ELSE Awaiting(t)
    BY <2>2, <2>3
  <2> QED
    BY <1>3, <2>4 DEF Flow
<1>12. \A t \in Sessions : SessionInv(t)'
  BY <1>1, <1>2, <1>3, <1>9, <1>10, <1>11, RecordingKeepsSessions DEF IInv, Typed
<1>13. HarnessInv'
  BY <1>1, <1>2, <1>3, <1>9, RecordingKeepsHarness
<1> QED
  BY <1>8, <1>12, <1>13 DEF IInv

\* A session that was never issued has no history, so issuing it is like a step
\* that records nothing.
LEMMA StartInv ==
    ASSUME IInv, NEW h \in Requests, NEW q, Start(h, q), pc[h] = "waiting", InTurn(h),
           UNCHANGED <<deployment, finished, returned, report>>,
           \/ Bare /\ opened' = opened
           \/ ~Bare /\ ~opened /\ opened' = SessionExists
    PROVE  IInv'
<1>1. PICK s \in Sessions \ Issued :
          session' = [session EXCEPT ![s] = [Unissued EXCEPT !.issued = TRUE, !.expires = now + Ttl]]
  BY DEF Start
<1>2. Answer(h) /\ events' = events /\ now' = now
  BY DEF Start
<1>3. /\ pc' \in [Requests -> {"idle", "waiting", "awaiting", "answered"}]
      /\ req' \in [Requests -> RequestStates]
      /\ pc' = [pc EXCEPT ![h] = "answered"]
      /\ \A g \in Requests : pc'[g] = "awaiting" =>
             pc[g] = "awaiting" /\ req'[g] = req[g] /\ req'[g].cookie \in Sessions
      /\ \A t : Awaiting(t)' = Awaiting(t) \ {h}
  BY <1>2, Answered DEF IInv
<1> DEFINE v == [Unissued EXCEPT !.issued = TRUE, !.expires = now + Ttl]
<1>4. /\ v \in SessionStates /\ v.issued /\ v.tainted = FALSE
      /\ v.consumed = FALSE /\ v.granted = FALSE
  <2>1. now + Ttl \in Nat
    BY DEF IInv, Typed, TypeOK, LabTypeOK
  <2>2. v = [issued |-> TRUE, expires |-> now + Ttl, tainted |-> FALSE, consumed |-> FALSE,
             granted |-> FALSE]
    <3>1. /\ Unissued = [issued |-> FALSE, expires |-> 0, tainted |-> FALSE,
                         consumed |-> FALSE, granted |-> FALSE]
          /\ v = [Unissued EXCEPT !.issued = TRUE, !.expires = now + Ttl]
      BY DEF Unissued
    <3> HIDE DEF v
    <3> QED
      BY <3>1, Zenon
  <2> HIDE DEF v
  <2> QED
    BY <2>1, <2>2 DEF SessionStates
<1>5. session \in [Sessions -> SessionStates] /\ Len(events) \in Nat
  BY DEF IInv, Typed, TypeOK, LabTypeOK
<1>6. session' = [session EXCEPT ![s] = v]
  BY <1>1
<1> HIDE DEF v
<1>7. /\ session' \in [Sessions -> SessionStates] /\ session'[s] = v
      /\ \A t \in Sessions \ {s} : session'[t] = session[t]
  BY <1>4, <1>5, <1>6
<1>8. opened' \in BOOLEAN
  BY DEF IInv, Typed, TypeOK, SessionExists
<1>9. Typed'
  BY <1>2, <1>3, <1>7, <1>8 DEF IInv, Typed, TypeOK, LabTypeOK
<1>10. /\ session[s].tainted = FALSE /\ session[s].consumed = FALSE /\ session[s].granted = FALSE
  <2>1. ~session[s].issued
    BY <1>1 DEF Issued
  <2>2. \A k : ~Past(s, k)
    BY <2>1 DEF IInv, SessionInv, FlagsFollowHistory, Past, At
  <2>3. ~session[s].tainted /\ ~session[s].consumed /\ ~session[s].granted
    BY <2>2 DEF IInv, SessionInv, FlagsFollowHistory
  <2> QED
    BY <2>3, SessionTyped DEF IInv, Typed
<1>11. \A t \in Sessions : SessionInv(t)'
  <2>1. SessionInv(s)'
    BY <1>2, <1>3, <1>4, <1>5, <1>7, <1>10, QuietSession DEF IInv
  <2>2. \A t \in Sessions \ {s} : SessionInv(t)'
    BY <1>2, <1>3, <1>5, <1>7, QuietSession DEF IInv
  <2> QED
    BY <2>1, <2>2
<1>12. ~Bare => /\ \A f, g \in Requests :
                       f < g /\ pc'[g] \in {"awaiting", "answered"} => pc'[f] = "answered"
                /\ \A u, t \in Issued' : u = t
                /\ opened' <=> Issued' # {}
  <2> SUFFICES ASSUME ~Bare
               PROVE  /\ \A f, g \in Requests :
                             f < g /\ pc'[g] \in {"awaiting", "answered"} => pc'[f] = "answered"
                      /\ \A u, t \in Issued' : u = t
                      /\ opened' <=> Issued' # {}
    OBVIOUS
  <2>1. Serialized /\ Turn(h) /\ DOMAIN pc = Requests
    BY DEF IInv, HarnessInv, InTurn, Typed, TypeOK, LabTypeOK
  <2>2. \A f, g \in Requests :
            f < g /\ pc'[g] \in {"awaiting", "answered"} => pc'[f] = "answered"
    BY <1>3, <2>1, OrderKept DEF Serialized
  <2>3. Issued = {}
    BY <2>1 DEF Serialized
  <2>4. Issued' = {s} /\ SessionExists
    BY <1>4, <1>7, <2>3 DEF Issued, SessionExists
  <2> QED
    BY <2>2, <2>4
<1>13. HarnessInv'
  BY <1>2, <1>3, <1>12, QuietKeepsHarness DEF IInv
<1> QED
  BY <1>9, <1>11, <1>13 DEF IInv

\* A step that neither handles a request nor finishes the run.
LEMMA BackgroundInv ==
    ASSUME IInv, UNCHANGED <<session, events, req, harness>>, now' \in 0..MaxTime,
           pc' = pc \/ \E h \in Requests : pc[h] = "idle" /\ pc' = [pc EXCEPT ![h] = "waiting"]
    PROVE  IInv'
<1>1. /\ pc \in [Requests -> {"idle", "waiting", "awaiting", "answered"}]
      /\ Len(events) \in Nat
  BY DEF IInv, Typed, TypeOK, LabTypeOK
<1>2. /\ pc' \in [Requests -> {"idle", "waiting", "awaiting", "answered"}]
      /\ \A g \in Requests : pc'[g] = pc[g] \/ (pc[g] = "idle" /\ pc'[g] = "waiting")
  BY <1>1
<1>3. \A t : Awaiting(t)' = Awaiting(t)
  BY <1>2 DEF Awaiting, Requests
<1>4. Typed'
  BY <1>2 DEF IInv, Typed, TypeOK, LabTypeOK, harness, Requests
<1>5. \A t \in Sessions : SessionInv(t)'
  BY <1>1, <1>3, QuietSession DEF IInv
<1>6. Issued' = Issued /\ UNCHANGED <<deployment, opened, finished, returned, report>>
  BY DEF Issued, harness
<1>7. ~Bare => /\ \A f, g \in Requests :
                      f < g /\ pc'[g] \in {"awaiting", "answered"} => pc'[f] = "answered"
               /\ \A u, t \in Issued' : u = t
               /\ opened' <=> Issued' # {}
  BY <1>2, <1>6 DEF IInv, HarnessInv, Serialized
<1>8. HarnessInv'
  BY <1>2, <1>6, <1>7, QuietKeepsHarness DEF IInv
<1> QED
  BY <1>4, <1>5, <1>8 DEF IInv

-----------------------------------------------------------------------------
\* The events as a whole: behind the harness they are all of one session.
LEMMA EventOfIssued ==
    ASSUME IInv, NEW i \in DOMAIN events
    PROVE  events[i].run \in Sessions /\ session[events[i].run].issued
                /\ events[i].event \in Kinds /\ i \in Nat
<1>1. events \in Seq(EventStates)
  BY DEF IInv, Typed, TypeOK, LabTypeOK, EventStates
<1>2. events[i] \in EventStates /\ i \in Nat
  BY <1>1
<1>3. events[i].run \in Sessions /\ events[i].event \in Kinds
  BY <1>2 DEF EventStates
<1> QED
  BY <1>2, <1>3 DEF IInv, SessionInv, FlagsFollowHistory

\* Once a session explored unauthorized, no other kind of event follows or precedes.
LEMMA ExplorationIsLast ==
    ASSUME IInv, NEW i \in DOMAIN events, events[i].event = "optional_followed",
           ~AuthorizedBefore(events[i].run, i),
           NEW k \in DOMAIN events, events[k].run = events[i].run
    PROVE  events[k].event = "optional_followed"
<1> DEFINE s == events[i].run
<1>1. SUFFICES ASSUME events[k].event # "optional_followed" PROVE FALSE
  OBVIOUS
<1>2. s \in Sessions /\ i \in Nat /\ k \in Nat /\ events[k].event \in Kinds
  BY EventOfIssued
<1>3. HistoryIsLawful(s)
  BY <1>2 DEF IInv, SessionInv
<1>4. At(i, s, "optional_followed") /\ events[k].run = s /\ ~AuthorizedBefore(s, i)
  BY DEF At
<1> HIDE DEF s
<1>5. \E j \in DOMAIN events : At(j, s, "authorized")
  <2>1. CASE events[k].event = "authorized"
    BY <1>4, <2>1 DEF At
  <2>2. CASE events[k].event # "authorized"
    <3>1. events[k].event = "origin_dispatch" \/ events[k].event \in Released
      BY <1>1, <1>2, <2>2 DEF Kinds
    <3>2. AuthorizedBefore(s, k)
      BY <1>3, <1>4, <3>1 DEF HistoryIsLawful, At
    <3> QED
      BY <3>2 DEF AuthorizedBefore
  <2> QED
    BY <2>1, <2>2
<1>6. PICK j \in DOMAIN events : At(j, s, "authorized")
  BY <1>5
<1>7. j \in Nat
  BY EventOfIssued
<1>8. ~(j < i) /\ j # i
  BY <1>4, <1>6 DEF AuthorizedBefore, At
<1>9. ~(i < j)
  BY <1>3, <1>4, <1>6 DEF HistoryIsLawful, UnexploredBefore
<1> QED
  BY <1>2, <1>7, <1>8, <1>9

\* What is released of any session was authorized.
LEMMA ReleasedWasAuthorized ==
    ASSUME IInv, NEW k \in DOMAIN events, events[k].event \in Released \cup {"origin_dispatch"}
    PROVE  \E j \in DOMAIN events : j < k /\ events[j].run = events[k].run
                                          /\ events[j].event = "authorized"
<1> DEFINE s == events[k].run
<1>1. s \in Sessions
  BY EventOfIssued
<1>2. AuthorizedBefore(s, k)
  BY <1>1 DEF IInv, SessionInv, HistoryIsLawful, At
<1> QED
  BY <1>2 DEF AuthorizedBefore, At

LEMMA OutcomeStep ==
    ASSUME IInv, ~Bare, NEW target \in BOOLEAN
    PROVE  /\ Outcome(target) \in Outcomes
           /\ Outcome(target) = "TRAP_SUCCESS" <=> Early
           /\ Outcome(target) = "BYPASS" => target /\ Has(Released) /\ Has({"authorized"})
<1>1. Early => ~Has(Released) /\ ~Has({"origin_dispatch"})
  <2>1. SUFFICES ASSUME Early, NEW k \in DOMAIN events,
                        events[k].event \in Released \cup {"origin_dispatch"}
                 PROVE  FALSE
    BY DEF Has
  <2>2. PICK i \in DOMAIN events :
            /\ events[i].event = "optional_followed"
            /\ \A j \in 1..(i - 1) : events[j].event # "authorized"
    BY <2>1 DEF Early
  <2>3. \A j \in DOMAIN events : j < i => j \in 1..(i - 1)
    BY DEF IInv, Typed, TypeOK, LabTypeOK
  <2>4. ~AuthorizedBefore(events[i].run, i)
    BY <2>2, <2>3 DEF AuthorizedBefore, At
  <2>5. events[k].run = events[i].run
    BY EventOfIssued DEF IInv, HarnessInv, Serialized, Issued
  <2>6. events[k].event = "optional_followed"
    BY <2>2, <2>4, <2>5, ExplorationIsLast
  <2> QED
    BY <2>1, <2>6 DEF Released
<1>2. Has(Released) => Has({"authorized"})
  BY ReleasedWasAuthorized DEF Has
<1> QED
  BY <1>1, <1>2 DEF Outcome, Outcomes

LEMMA FinishInv ==
    ASSUME IInv, Finish
    PROVE  IInv'
<1>1. PICK target \in BOOLEAN : returned' = target /\ report' = Outcome(target)
  BY DEF Finish
<1>2. /\ ~Bare /\ finished' = TRUE /\ UNCHANGED <<labvars, deployment, opened>>
      /\ \A h \in Requests : pc[h] # "awaiting"
  BY DEF Finish
<1>3. UNCHANGED <<now, session, events, pc, req>>
  BY <1>2 DEF labvars
<1>4. /\ Outcome(target) \in Outcomes
      /\ Outcome(target) = "TRAP_SUCCESS" <=> Early
      /\ Outcome(target) = "BYPASS" => target /\ Has(Released) /\ Has({"authorized"})
  BY <1>2, OutcomeStep
<1>5. Typed'
  BY <1>1, <1>2, <1>3, <1>4 DEF IInv, Typed, TypeOK, LabTypeOK, Outcomes, Requests
<1>6. \A t \in Sessions : SessionInv(t)'
  <2>1. Len(events) \in Nat
    BY DEF IInv, Typed, TypeOK, LabTypeOK
  <2>2. \A t : Awaiting(t)' = Awaiting(t)
    BY <1>3 DEF Awaiting, Requests
  <2> QED
    BY <1>3, <2>1, <2>2, QuietSession DEF IInv
<1>7. Bare' <=> Bare
  BY <1>2 DEF Bare
<1>8. Serialized'
  BY <1>2, <1>3 DEF IInv, HarnessInv, Serialized, Issued, Requests
<1>9. OutcomeIsSound'
  <2>1. (Early' <=> Early) /\ (Has(Released)' <=> Has(Released))
        /\ (Has({"authorized"})' <=> Has({"authorized"}))
    BY <1>3 DEF Early, Has
  <2> QED
    BY <1>1, <1>4, <2>1 DEF OutcomeIsSound
<1>10. HarnessInv'
  BY <1>2, <1>3, <1>7, <1>8, <1>9 DEF HarnessInv, Concluded, Requests
<1> QED
  BY <1>5, <1>6, <1>10 DEF IInv

-----------------------------------------------------------------------------
LEMMA InitInv == Init => IInv
<1> SUFFICES ASSUME Init PROVE IInv
  OBVIOUS
<1>1. /\ now = 0 /\ session = [s \in Sessions |-> Unissued] /\ events = << >>
      /\ pc = [h \in Requests |-> "idle"] /\ req = [h \in Requests |-> NoRequest]
      /\ deployment \in Deployments /\ opened = FALSE /\ finished = FALSE
      /\ returned = FALSE /\ report = "none"
  BY DEF Init, LabInit
<1>2. Unissued \in SessionStates /\ Unissued.issued = FALSE /\ Unissued.tainted = FALSE
      /\ Unissued.consumed = FALSE /\ Unissued.granted = FALSE
  BY DEF Unissued, SessionStates
<1>3. NoRequest \in RequestStates
  BY DEF NoRequest, RequestStates, Routes
<1>4. Typed
  <2>1. session \in [Sessions -> SessionStates] /\ req \in [Requests -> RequestStates]
    BY <1>1, <1>2, <1>3
  <2>2. /\ pc \in [Requests -> {"idle", "waiting", "awaiting", "answered"}]
        /\ \A h \in Requests : pc[h] # "awaiting"
    BY <1>1
  <2>3. events \in Seq([event : Kinds, run : Sessions]) /\ now \in 0..MaxTime
    BY <1>1
  <2>4. LabTypeOK
    BY <2>1, <2>2, <2>3 DEF LabTypeOK
  <2> QED
    BY <1>1, <2>2, <2>4 DEF Typed, TypeOK, Outcomes
<1>5. DOMAIN events = {} /\ Len(events) = 0 /\ Issued = {}
  BY <1>1, <1>2 DEF Issued
<1>6. \A s : Awaiting(s) = {}
  BY <1>1 DEF Awaiting
<1>7. ASSUME NEW s \in Sessions PROVE SessionInv(s)
  <2>1. FlagsFollowHistory(s) /\ HistoryIsLawful(s)
    BY <1>1, <1>2, <1>5, <1>6 DEF FlagsFollowHistory, HistoryIsLawful, Past
  <2>2. \A kinds : Upto(0, s, kinds) = {}
    BY DEF Upto
  <2>3. Cardinality({}) = 0
    BY FS_EmptySet
  <2>4. Balanced(s)
    <3>1. /\ Cardinality(Upto(0, s, Released)) = 0 /\ Cardinality(Awaiting(s)) = 0
          /\ Cardinality(Upto(0, s, {"origin_dispatch"})) = 0
      BY <1>6, <2>2, <2>3
    <3>2. \A n \in 0..0 : n = 0
      OBVIOUS
    <3> QED
      BY <1>5, <3>1, <3>2 DEF Balanced
  <2> QED
    BY <2>1, <2>4 DEF SessionInv
<1>8. HarnessInv
  BY <1>1, <1>5 DEF HarnessInv, Serialized
<1> QED
  BY <1>4, <1>7, <1>8 DEF IInv

\* What the lab does with a request leaves no trace or is one of four effects.
LEMMA DispatchCases ==
    ASSUME NEW h, NEW q, Dispatch(h, q)
    PROVE  NoEffect(h) \/ Start(h, q) \/ FollowOptional(h, q) \/ Complete(h, q)
           \/ OriginDispatch(h, q)
  BY DEF Dispatch, Report, NoStart, Unadmitted, Fruitless

\* The harness turns a GET of the entry into a GET of /start and nothing else.
LEMMA EntryCases ==
    ASSUME NEW h, NEW q \in ClientRequests, Dispatch(h, [q EXCEPT !.route = "start"])
    PROVE  NoEffect(h) \/ Start(h, [q EXCEPT !.route = "start"])
<1> DEFINE p == [q EXCEPT !.route = "start"]
<1>1. p.route = "start"
  BY DEF ClientRequests
<1> HIDE DEF p
<1>2. ~Dispatched(p)
  BY <1>1 DEF Dispatched
<1> QED
  BY <1>2, DispatchCases DEF p, FollowOptional, Complete, OriginDispatch, Admitted

LEMMA ServeInv ==
    ASSUME IInv, NEW h \in Requests, Serve(h)
    PROVE  IInv'
<1>1. CASE OriginAnswer(h) /\ UNCHANGED harness
  BY <1>1, OriginAnswerInv
<1>2. CASE Bare /\ OriginFails(h) /\ UNCHANGED harness
  BY <1>2, NoEffectInv DEF OriginFails, InTurn, harness
<1>3. ASSUME pc[h] = "waiting", NEW q \in ClientRequests, ServeBare(h, q) PROVE IInv'
  <2>1. InTurn(h) /\ ~finished /\ UNCHANGED harness /\ Bare
    BY <1>3 DEF ServeBare, InTurn, IInv, HarnessInv, Concluded
  <2>2. NoEffect(h) \/ Start(h, q) \/ FollowOptional(h, q) \/ Complete(h, q)
        \/ OriginDispatch(h, q)
    BY <1>3, DispatchCases DEF ServeBare, Foreign
  <2>3. CASE NoEffect(h)
    BY <1>3, <2>1, <2>3, NoEffectInv DEF harness
  <2>4. CASE Start(h, q)
    BY <1>3, <2>1, <2>4, StartInv DEF harness
  <2> QED
    BY <1>3, <2>1, <2>2, <2>3, <2>4, FollowOptionalInv, CompleteInv, OriginDispatchInv
<1>4. ASSUME pc[h] = "waiting", NEW q \in ClientRequests, TurnedAway(h, q) PROVE IInv'
  BY <1>4, NoEffectInv DEF TurnedAway, InTurn, harness
<1>5. ASSUME pc[h] = "waiting", NEW q \in ClientRequests, Enter(h, q) PROVE IInv'
  <2>1. /\ InTurn(h) /\ ~Bare /\ ~opened /\ opened' = SessionExists
        /\ UNCHANGED <<deployment, finished, returned, report>>
    BY <1>5 DEF Enter, InTurn
  <2>2. NoEffect(h) \/ Start(h, [q EXCEPT !.route = "start"])
    BY <1>5, EntryCases DEF Enter, Foreign
  <2>3. CASE NoEffect(h)
    BY <1>5, <2>1, <2>3, NoEffectInv
  <2>4. CASE Start(h, [q EXCEPT !.route = "start"])
    BY <1>5, <2>1, <2>4, StartInv
  <2> QED
    BY <2>2, <2>3, <2>4
<1>6. ASSUME pc[h] = "waiting", NEW q \in ClientRequests, Through(h, q) PROVE IInv'
  <2>1. InTurn(h) /\ ~finished /\ UNCHANGED harness /\ q.route # "start"
    BY <1>6 DEF Through, InTurn, Closed
  <2>2. NoEffect(h) \/ FollowOptional(h, q) \/ Complete(h, q) \/ OriginDispatch(h, q)
    BY <1>6, <2>1, DispatchCases DEF Through, Foreign, Start
  <2>3. CASE NoEffect(h)
    BY <1>6, <2>1, <2>3, NoEffectInv DEF harness
  <2> QED
    BY <1>6, <2>1, <2>2, <2>3, FollowOptionalInv, CompleteInv, OriginDispatchInv
<1> QED
  BY <1>1, <1>2, <1>3, <1>4, <1>5, <1>6 DEF Serve

\* Every step keeps the invariant.
LEMMA NextInv == IInv /\ [Next]_vars => IInv'
<1> SUFFICES ASSUME IInv, [Next]_vars PROVE IInv'
  OBVIOUS
<1>1. now \in 0..MaxTime /\ MaxTime \in Nat
  BY DEF IInv, Typed, TypeOK, LabTypeOK
<1>2. ASSUME NEW h \in Requests, Arrive(h), UNCHANGED harness PROVE IInv'
  BY <1>1, <1>2, BackgroundInv DEF Arrive
<1>3. ASSUME NEW h \in Requests, Serve(h) PROVE IInv'
  BY <1>3, ServeInv
<1>4. CASE Finish
  BY <1>4, FinishInv
<1>5. CASE Tick /\ UNCHANGED harness
  BY <1>1, <1>5, BackgroundInv DEF Tick
<1>6. CASE UNCHANGED vars
  BY <1>1, <1>6, BackgroundInv DEF vars, harness
<1> QED
  BY <1>2, <1>3, <1>4, <1>5, <1>6 DEF Next

LEMMA Invariance == Spec => []IInv
<1> QED
  BY InitInv, NextInv, PTL DEF Spec

-----------------------------------------------------------------------------
\* Type correctness: the sessions, events and requests of the lab and the state of
\* its harness stay in their ranges.
THEOREM TypeCorrect == Spec => []TypeOK
<1>1. IInv => TypeOK
  BY DEF IInv, Typed
<1> QED
  BY <1>1, Invariance, PTL

\* A session of pre_application.py that explores before it is authorized never gets
\* anything, however the requests of the lab overtake one another.
THEOREM ExplorationIsDecisive == Spec => []EarlyExplorationPrecludesRelease
<1>1. IInv => EarlyExplorationPrecludesRelease
  <2> SUFFICES ASSUME IInv, NEW i \in DOMAIN events, events[i].event = "optional_followed",
                      Upto(i, events[i].run, {"authorized"}) = {},
                      NEW k \in Upto(Len(events), events[i].run, Kinds \ {"optional_followed"})
               PROVE  FALSE
    BY DEF EarlyExplorationPrecludesRelease, Is
  <2>1. i \in Nat /\ DOMAIN events = 1..Len(events)
    BY EventOfIssued DEF IInv, Typed, TypeOK, LabTypeOK
  <2>2. k \in DOMAIN events /\ events[k].run = events[i].run
        /\ events[k].event # "optional_followed"
    BY <2>1 DEF Upto
  <2>3. ~AuthorizedBefore(events[i].run, i)
    BY <2>1 DEF AuthorizedBefore, At, Upto
  <2> QED
    BY <2>2, <2>3, ExplorationIsLast
<1> QED
  BY <1>1, Invariance, PTL

\* The origin is asked under the session's one grant, and what it answers is
\* released at most once per time it was asked.
THEOREM ReleaseIsGranted == Spec => []ReleaseFollowsGrant
<1>1. IInv => ReleaseFollowsGrant
  <2> SUFFICES ASSUME IInv, NEW i \in DOMAIN events
               PROVE  /\ events[i].event \in Released =>
                            Cardinality(Upto(i, events[i].run, Released))
                                <= Cardinality(Upto(i, events[i].run, {"origin_dispatch"}))
                      /\ events[i].event = "origin_dispatch" =>
                            /\ Cardinality(Upto(i, events[i].run, {"authorized"})) = 1
                            /\ Upto(i, events[i].run, {"optional_followed"}) = {}
    BY DEF ReleaseFollowsGrant, Is
  <2> DEFINE s == events[i].run
  <2>1. s \in Sessions /\ i \in 1..Len(events) /\ DOMAIN events = 1..Len(events)
        /\ Len(events) \in Nat
    BY EventOfIssued DEF IInv, Typed, TypeOK, LabTypeOK
  <2>2. HistoryIsLawful(s) /\ Balanced(s)
    BY <2>1 DEF IInv, SessionInv
  <2>3. events[i].event = "origin_dispatch" => At(i, s, "origin_dispatch")
    BY DEF At
  <2> HIDE DEF s
  <2>4. Cardinality(Upto(i, s, Released)) <= Cardinality(Upto(i, s, {"origin_dispatch"}))
    BY <2>1, <2>2 DEF Balanced
  <2>5. ASSUME events[i].event = "origin_dispatch"
        PROVE  /\ Cardinality(Upto(i, s, {"authorized"})) = 1
               /\ Upto(i, s, {"optional_followed"}) = {}
    <3>1. AuthorizedBefore(s, i) /\ UnexploredBefore(s, i)
      BY <2>2, <2>3, <2>5 DEF HistoryIsLawful
    <3>2. PICK j \in DOMAIN events : j < i /\ At(j, s, "authorized")
      BY <3>1 DEF AuthorizedBefore
    <3>3. \A k : k \in Upto(i, s, {"authorized"}) <=> k = j
      BY <2>1, <2>2, <3>2 DEF Upto, At, HistoryIsLawful
    <3>4. Upto(i, s, {"authorized"}) = {j}
      BY <3>3
    <3>5. Upto(i, s, {"optional_followed"}) = {}
      BY <2>1, <2>5, <3>1 DEF Upto, At, UnexploredBefore
    <3> QED
      BY <3>4, <3>5, FS_Singleton
  <2> QED
    BY <2>4, <2>5 DEF s
<1> QED
  BY <1>1, Invariance, PTL

\* The lock of real_agent_evaluation.py orders what the bare lab does not: nothing
\* is released after an exploration, and one session is issued by the entry.
THEOREM HarnessOrders == Spec => []HarnessOrderIsUnambiguous
<1>1. IInv => HarnessOrderIsUnambiguous
  <2> SUFFICES ASSUME IInv, ~Bare
               PROVE  /\ Cardinality(Issued) <= 1 /\ (opened <=> Issued # {})
                      /\ \A i, j \in DOMAIN events :
                            events[i].event \in Released /\ Is(j, "optional_followed") => i < j
    BY DEF HarnessOrderIsUnambiguous
  <2>1. Serialized
    BY DEF IInv, HarnessInv
  <2>2. Cardinality(Issued) <= 1
    <3>1. CASE Issued = {}
      BY <3>1, FS_EmptySet
    <3>2. ASSUME NEW s \in Issued PROVE Cardinality(Issued) <= 1
      <4>1. Issued = {s}
        BY <2>1 DEF Serialized
      <4> QED
        BY <4>1, FS_Singleton
    <3> QED
      BY <3>1, <3>2
  <2> QED
    BY <2>1, <2>2 DEF Serialized, Is
<1> QED
  BY <1>1, Invariance, PTL

\* What finish() reports of a run is sound, whatever the agent sent and returned.
THEOREM OutcomeSound == Spec => []OutcomeIsSound
<1>1. IInv => OutcomeIsSound
  BY DEF IInv, HarnessInv, Concluded, OutcomeIsSound
<1> QED
  BY <1>1, Invariance, PTL
=============================================================================
