------------------------- MODULE RequestControlsProofs -------------------------
(***************************************************************************)
(* Proofs about RequestControls for any set of requests, of addresses and  *)
(* of limits: type correctness, then one inductive invariant from which    *)
(* follow the limit on any stretch of time, the refusals' being earned and *)
(* the meaning of the counters.                                            *)
(***************************************************************************)
EXTENDS RequestControls, FiniteSetTheorems, TLAPS

-----------------------------------------------------------------------------
(***************************************************************************)
(* The inductive invariant.  A window that is over leaves no trace but the *)
(* requests it was charged for, so the invariant speaks of the last window *)
(* of an address and of what any stretch of time before it can hold.       *)
(***************************************************************************)
Begun == {r \in Requests : request[r].pc # "arrive"}

\* Where a request stands, what was counted and answered.
Standing(r) ==
    /\ request[r].pc \in {"arrive", "rate"} => \A k \in Keys : request[r].charged[k] = Uncharged
    /\ request[r].pc = "challenge" => request[r].charged["challenge"] = Uncharged
    /\ request[r].pc \in Keys => request[r].client \in Clients
    /\ request[r].pc \in Keys \cup {"arrive"} => request[r].refused = {}
    /\ request[r].pc \in Keys \cup {"arrive", "serve"} => request[r].sent = "none"
    /\ request[r].status = IF request[r].sent = "none" THEN "5xx" ELSE request[r].sent
    /\ \A k \in Keys :
          /\ request[r].charged[k] <= now
          /\ k \in request[r].passed \cup request[r].refused => request[r].charged[k] \in Nat

PassedIn(k, c, times) == {r \in ChargedIn(k, c, times) : k \in request[r].passed}
SpentIn(k, c, times) == {r \in ChargedIn(k, c, times) : k \notin request[r].refused}

\* Of the requests counted in the window, as many as the limit can pass.
Capped(k, c) == IF bucket[k][c].count <= Limit[k] THEN bucket[k][c].count ELSE Limit[k]

InWindow(o) == o..(o + Window - 1)
AfterOpening(o) == (o + 1)..(o + Window - 1)
BeforeOpening(o) == (o - Window + 1)..(o - 1)

\* The last window of address c, opened at o by a request that it counted, and the
\* time before o in which no window but the one before can have been open.
WindowHolds(k, c, o) ==
    /\ bucket[k][c].expires = o + Window
    /\ \A r \in ChargedIn(k, c, Nat) : request[r].charged[k] < o + Window
    /\ Cardinality(PassedIn(k, c, BeforeOpening(o))) < Limit[k]
    /\ Cardinality(PassedIn(k, c, InWindow(o))) <= Capped(k, c)
    /\ Cardinality(PassedIn(k, c, AfterOpening(o))) < Capped(k, c)
    /\ Cardinality(SpentIn(k, c, InWindow(o))) >= Capped(k, c)

Windowed(k, c) ==
    /\ bucket[k][c].count = 0 => bucket[k][c].expires = 0 /\ ChargedIn(k, c, Nat) = {}
    /\ bucket[k][c].count # 0 => \E o \in 0..now : WindowHolds(k, c, o)

Bounded(k, c, t) == Cardinality(PassedIn(k, c, t..(t + Window - 1))) < 2 * Limit[k]

Earned(k, r) ==
    \A t \in Nat, c \in Clients \cup {NoClient} :
        (k \in request[r].refused /\ request[r].charged[k] = t /\ request[r].client = c) =>
            Cardinality(SpentIn(k, c, (t - Window + 1)..t)) >= Limit[k]

\* The requests a counter may have counted.
Countable(l) ==
    {r \in Requests : /\ request[r].pc = "done" /\ request[r].kind # "probe"
                      /\ request[r].sent = l \/ (l = "5xx" /\ request[r].sent = "none")}

IInv ==
    /\ TypeOK
    /\ IsFiniteSet(Begun)
    /\ \A r \in Requests : Standing(r)
    /\ \A k \in Keys, c \in Clients : Windowed(k, c)
    /\ \A k \in Keys, c \in Clients, t \in Nat : Bounded(k, c, t)
    /\ \A k \in Keys, r \in Requests : Earned(k, r)
    /\ \A l \in Labels : metrics[l] <= Cardinality(Countable(l))

-----------------------------------------------------------------------------
\* Type correctness.
LEMMA IncrementedType ==
    ASSUME TypeOK, NEW k \in Keys, NEW c \in Clients
    PROVE  Incremented(k, c) \in [count : Nat, expires : 0..(now + Window)]
<1>1. bucket[k][c] \in [count : Nat, expires : 0..(now + Window)] /\ now \in Nat
  BY DEF TypeOK
<1>2. Window \in Nat
  BY ControlsAssumption
<1>3. [bucket[k][c] EXCEPT !.count = @ + 1] \in [count : Nat, expires : 0..(now + Window)]
  BY <1>1
<1>4. [count |-> 1, expires |-> now + Window] \in [count : Nat, expires : 0..(now + Window)]
  BY <1>1, <1>2
<1> QED
  BY <1>3, <1>4 DEF Incremented

LEMMA BucketType ==
    ASSUME TypeOK, NEW k \in Keys, NEW c,
           bucket' = [bucket EXCEPT ![k][c] = Incremented(k, c)]
    PROVE  bucket' \in [Keys -> [Clients -> [count : Nat, expires : 0..(now + Window)]]]
<1>1. bucket \in [Keys -> [Clients -> [count : Nat, expires : 0..(now + Window)]]]
  BY DEF TypeOK
<1>2. CASE c \in Clients
  BY <1>1, <1>2, IncrementedType
<1>3. CASE c \notin Clients
  <2>1. [bucket[k] EXCEPT ![c] = Incremented(k, c)] = bucket[k]
    BY <1>1, <1>3
  <2> QED
    BY <1>1, <2>1
<1> QED
  BY <1>2, <1>3

\* Whatever becomes of one request, if it is one, the table stays typed.
LEMMA BecomesType ==
    ASSUME TypeOK, NEW r \in Requests, NEW q \in RequestStates, Becomes(r, q)
    PROVE  request' \in [Requests -> RequestStates]
  BY DEF Becomes, TypeOK

LEMMA AnsweredType ==
    ASSUME NEW q \in RequestStates, NEW l \in Labels
    PROVE  Answered(q, l) \in RequestStates
  BY DEF Answered, RequestStates, PCs

LEMMA InitType == Init => TypeOK
<1> SUFFICES ASSUME Init PROVE TypeOK
  OBVIOUS
<1>1. NewRequest \in RequestStates
  BY DEF NewRequest, RequestStates, PCs, Kinds, Labels, Uncharged, Keys
<1>2. NoBucket \in [count : Nat, expires : 0..(0 + Window)]
  BY ControlsAssumption DEF NoBucket
<1> QED
  BY <1>1, <1>2 DEF Init, TypeOK

LEMMA StepType == TypeOK /\ [Next]_vars => TypeOK'
<1> SUFFICES ASSUME TypeOK, Next PROVE TypeOK'
  BY DEF TypeOK, vars
<1>0. now \in Nat /\ Answers \subseteq Labels /\ Window \in Nat
  BY ControlsAssumption DEF TypeOK
<1>1. ASSUME NEW r \in Requests, Arrive(r) PROVE TypeOK'
  <2>1. PICK t \in Traffic :
           LET q == [request[r] EXCEPT !.kind = t.kind, !.client = t.client] IN
           Becomes(r, IF t.kind = "probe" THEN [q EXCEPT !.pc = "serve"]
                      ELSE IF t.client = NoClient THEN Answered(q, "4xx")
                      ELSE [q EXCEPT !.pc = "rate"])
    BY <1>1 DEF Arrive
  <2> DEFINE q == [request[r] EXCEPT !.kind = t.kind, !.client = t.client]
  <2>2. t.kind \in Kinds /\ t.client \in Clients \cup {NoClient}
    BY ControlsAssumption
  <2>3. q \in RequestStates
    BY <2>2 DEF TypeOK, RequestStates
  <2>4. [q EXCEPT !.pc = "serve"] \in RequestStates /\ [q EXCEPT !.pc = "rate"] \in RequestStates
    BY <2>3 DEF RequestStates, PCs
  <2>5. Answered(q, "4xx") \in RequestStates
    BY <2>3, AnsweredType DEF Labels
  <2>6. request' \in [Requests -> RequestStates]
    BY <2>1, <2>4, <2>5, BecomesType
  <2> QED
    BY <1>1, <2>6 DEF Arrive, TypeOK
<1>2. ASSUME NEW r \in Requests, NEW k \in Keys, Charge(r, k) PROVE TypeOK'
  <2> DEFINE c == request[r].client
             q == [request[r] EXCEPT !.charged[k] = now]
  <2>1. q \in RequestStates
    BY <1>0 DEF TypeOK, RequestStates
  <2>2. [q EXCEPT !.passed = @ \cup {k}, !.pc = After(r, k)] \in RequestStates
    BY <2>1 DEF RequestStates, After, PCs
  <2>3. [Answered(q, "4xx") EXCEPT !.refused = {k}] \in RequestStates
    <3>1. Answered(q, "4xx") \in RequestStates
      BY <2>1, AnsweredType DEF Labels
    <3> QED
      BY <3>1 DEF RequestStates
  <2>4. request' \in [Requests -> RequestStates]
    BY <1>2, <2>2, <2>3, BecomesType DEF Charge
  <2>5. bucket' \in [Keys -> [Clients -> [count : Nat, expires : 0..(now + Window)]]]
    BY <1>2, BucketType DEF Charge
  <2> QED
    BY <1>2, <2>4, <2>5 DEF Charge, TypeOK
<1>3. ASSUME NEW r \in Requests, NEW k \in Keys, ChargeFails(r, k) PROVE TypeOK'
  <2> DEFINE c == request[r].client
             q == [request[r] EXCEPT !.charged[k] = now]
  <2>1. q \in RequestStates /\ request[r] \in RequestStates
    BY <1>0 DEF TypeOK, RequestStates
  <2>2. Answered(q, "5xx") \in RequestStates /\ Answered(request[r], "5xx") \in RequestStates
    BY <2>1, AnsweredType DEF Labels
  <2>3. request' \in [Requests -> RequestStates]
    BY <1>3, <2>2, BecomesType DEF ChargeFails
  <2>4. bucket' \in [Keys -> [Clients -> [count : Nat, expires : 0..(now + Window)]]]
    BY <1>3, BucketType DEF ChargeFails, TypeOK
  <2> QED
    BY <1>3, <2>3, <2>4 DEF ChargeFails, TypeOK
<1>4. ASSUME NEW r \in Requests, Serve(r) PROVE TypeOK'
  <2>1. PICK l \in Answers \cup {"4xx", "5xx"} : Becomes(r, Answered(request[r], l))
    BY <1>4 DEF Serve
  <2>2. l \in Labels
    BY <1>0 DEF Labels
  <2>3. Answered(request[r], l) \in RequestStates
    BY <2>2, AnsweredType DEF TypeOK
  <2> QED
    BY <1>4, <2>1, <2>3, BecomesType DEF Serve, TypeOK
<1>5. ASSUME NEW r \in Requests, Disconnect(r) PROVE TypeOK'
  <2>1. [request[r] EXCEPT !.pc = "observe"] \in RequestStates
    BY DEF TypeOK, RequestStates, PCs
  <2> QED
    BY <1>5, <2>1, BecomesType DEF Disconnect, TypeOK
<1>6. ASSUME NEW r \in Requests, Observe(r) PROVE TypeOK'
  <2>1. [request[r] EXCEPT !.pc = "done"] \in RequestStates
    BY DEF TypeOK, RequestStates, PCs
  <2>2. request' \in [Requests -> RequestStates]
    BY <1>6, <2>1, BecomesType DEF Observe
  <2>3. metrics' \in [Labels -> Nat]
    BY <1>6 DEF Observe, TypeOK
  <2> QED
    BY <1>6, <2>2, <2>3 DEF Observe, TypeOK
<1>7. CASE Tick
  BY <1>0, <1>7 DEF Tick, TypeOK
<1> QED
  BY <1>1, <1>2, <1>3, <1>4, <1>5, <1>6, <1>7 DEF Next

\* The tables of the controls stay well typed, and no window ends later than a
\* window's length from now.
THEOREM TypeCorrect == Spec => []TypeOK
  BY InitType, StepType, PTL DEF Spec

-----------------------------------------------------------------------------
(***************************************************************************)
(* What matters of a step to the windows: either a request is counted, and *)
(* passes, is refused or loses the answer, or nothing is counted.          *)
(***************************************************************************)
Verdicts == {"passed", "refused", "lost"}

\* Nothing else of the requests changes than what the verdict says.
Marked(r, k, v) ==
    /\ \A s \in Requests : s # r => request'[s] = request[s]
    /\ request'[r].client = request[r].client
    /\ request'[r].charged = [request[r].charged EXCEPT ![k] = now]
    /\ request'[r].passed = request[r].passed \cup (IF v = "passed" THEN {k} ELSE {})
    /\ request'[r].refused = (IF v = "refused" THEN {k} ELSE {})

Counted(r, k, v) ==
    LET c == request[r].client IN
    /\ request[r].pc = k /\ now' = now
    /\ bucket' = [bucket EXCEPT ![k][c] = Incremented(k, c)]
    /\ v = "passed" => Incremented(k, c).count <= Limit[k]
    /\ v = "refused" => Incremented(k, c).count > Limit[k]
    /\ Marked(r, k, v)

Uncounted ==
    /\ bucket' = bucket
    /\ \A r \in Requests :
          /\ request'[r].charged = request[r].charged
          /\ request'[r].passed = request[r].passed
          /\ request'[r].refused = request[r].refused
          /\ request'[r].client = request[r].client
             \/ \A k \in Keys : request[r].charged[k] = Uncharged

LEMMA ChargeCounts ==
    ASSUME TypeOK, NEW r \in Requests, Standing(r), NEW k \in Keys, Charge(r, k)
    PROVE  Counted(r, k, IF Admits(k, Incremented(k, request[r].client))
                         THEN "passed" ELSE "refused")
<1> DEFINE c == request[r].client
           q == [request[r] EXCEPT !.charged[k] = now]
           ok == Admits(k, Incremented(k, c))
           new == IF ok THEN [q EXCEPT !.passed = @ \cup {k}, !.pc = After(r, k)]
                  ELSE [Answered(q, "4xx") EXCEPT !.refused = {k}]
<1>1. /\ request[r].pc = k /\ now' = now /\ request' = [request EXCEPT ![r] = new]
      /\ bucket' = [bucket EXCEPT ![k][c] = Incremented(k, c)]
  BY DEF Charge, Becomes
<1>2. request[r] \in RequestStates /\ request \in [Requests -> RequestStates]
  BY DEF TypeOK
<1>3. request'[r] = new /\ \A s \in Requests : s # r => request'[s] = request[s]
  BY <1>1, <1>2
<1>4. request[r].refused = {}
  BY <1>1 DEF Standing
<1>5. q.passed = request[r].passed /\ q.refused = request[r].refused /\ q.client = c
      /\ q.charged = [request[r].charged EXCEPT ![k] = now] /\ q \in RequestStates
  BY <1>2 DEF RequestStates, TypeOK
<1>6. new.client = c /\ new.charged = [request[r].charged EXCEPT ![k] = now]
  BY <1>5 DEF RequestStates, Answered
<1>7. CASE ok
  <2>1. new.passed = request[r].passed \cup {k} /\ new.refused = {}
    BY <1>4, <1>5, <1>7 DEF RequestStates
  <2>2. Incremented(k, c).count <= Limit[k]
    BY <1>7 DEF Admits
  <2> QED
    BY <1>1, <1>3, <1>6, <1>7, <2>1, <2>2 DEF Counted, Marked
<1>8. CASE ~ok
  <2>1. new.passed = request[r].passed /\ new.refused = {k}
    BY <1>5, <1>8 DEF RequestStates, Answered
  <2>2. Incremented(k, c).count > Limit[k]
    <3>1. Incremented(k, c).count \in Nat /\ Limit[k] \in Nat
      <4>1. c \in Clients
        BY <1>1 DEF Standing
      <4> QED
        BY <4>1, IncrementedType, ControlsAssumption
    <3> QED
      BY <1>8, <3>1 DEF Admits
  <2> QED
    BY <1>1, <1>3, <1>6, <1>8, <2>1, <2>2 DEF Counted, Marked
<1> QED
  BY <1>7, <1>8

LEMMA FailureCounts ==
    ASSUME TypeOK, NEW r \in Requests, Standing(r), NEW k \in Keys, ChargeFails(r, k)
    PROVE  Uncounted \/ Counted(r, k, "lost")
<1> DEFINE c == request[r].client
           q == [request[r] EXCEPT !.charged[k] = now]
<1>1. request[r] \in RequestStates /\ request \in [Requests -> RequestStates]
      /\ request[r].pc = k /\ now' = now /\ request[r].refused = {}
  BY DEF TypeOK, ChargeFails, Standing
<1>2. CASE UNCHANGED bucket /\ Becomes(r, Answered(request[r], "5xx"))
  BY <1>1, <1>2 DEF Uncounted, Becomes, Answered, RequestStates
<1>3. CASE /\ bucket' = [bucket EXCEPT ![k][c] = Incremented(k, c)]
           /\ Becomes(r, Answered(q, "5xx"))
  <2>1. request'[r] = Answered(q, "5xx") /\ \A s \in Requests : s # r => request'[s] = request[s]
    BY <1>1, <1>3 DEF Becomes
  <2>2. q.passed = request[r].passed /\ q.refused = request[r].refused /\ q.client = c
        /\ q.charged = [request[r].charged EXCEPT ![k] = now] /\ q \in RequestStates
    BY <1>1 DEF RequestStates, TypeOK
  <2>3. /\ request'[r].client = c /\ request'[r].passed = request[r].passed
        /\ request'[r].charged = [request[r].charged EXCEPT ![k] = now]
        /\ request'[r].refused = {}
    BY <1>1, <2>1, <2>2 DEF RequestStates, Answered
  <2> QED
    BY <1>1, <1>3, <2>1, <2>3 DEF Counted, Marked
<1> QED
  BY <1>2, <1>3 DEF ChargeFails

LEMMA OtherStepsDoNotCount ==
    ASSUME TypeOK, NEW r \in Requests, Standing(r),
           Arrive(r) \/ Serve(r) \/ Disconnect(r) \/ Observe(r)
    PROVE  Uncounted
<1>1. request[r] \in RequestStates /\ request \in [Requests -> RequestStates]
  BY DEF TypeOK
<1>2. CASE Arrive(r)
  <2>1. PICK t \in Traffic :
           LET q == [request[r] EXCEPT !.kind = t.kind, !.client = t.client] IN
           Becomes(r, IF t.kind = "probe" THEN [q EXCEPT !.pc = "serve"]
                      ELSE IF t.client = NoClient THEN Answered(q, "4xx")
                      ELSE [q EXCEPT !.pc = "rate"])
    BY <1>2 DEF Arrive
  <2>2. /\ request'[r].charged = request[r].charged /\ request'[r].passed = request[r].passed
        /\ request'[r].refused = request[r].refused
        /\ \A s \in Requests : s # r => request'[s] = request[s]
    BY <1>1, <2>1 DEF Becomes, Answered, RequestStates
  <2>3. \A k \in Keys : request[r].charged[k] = Uncharged
    BY <1>2 DEF Arrive, Standing
  <2> QED
    BY <1>2, <2>2, <2>3 DEF Arrive, Uncounted
<1>3. CASE Serve(r)
  <2>1. PICK l : Becomes(r, Answered(request[r], l))
    BY <1>3 DEF Serve
  <2>2. /\ request'[r] = [[[request[r] EXCEPT !.status = l] EXCEPT !.sent = l] EXCEPT !.pc = "observe"]
        /\ \A s \in Requests : s # r => request'[s] = request[s]
    BY <1>1, <2>1 DEF Becomes, Answered
  <2>3. /\ request'[r].charged = request[r].charged /\ request'[r].passed = request[r].passed
        /\ request'[r].refused = request[r].refused /\ request'[r].client = request[r].client
    BY <1>1, <2>2 DEF RequestStates
  <2> QED
    BY <1>3, <2>2, <2>3 DEF Serve, Uncounted
<1>4. CASE Disconnect(r)
  BY <1>1, <1>4 DEF Disconnect, Becomes, RequestStates, Uncounted
<1>5. CASE Observe(r)
  BY <1>1, <1>5 DEF Observe, Becomes, RequestStates, Uncounted
<1> QED
  BY <1>2, <1>3, <1>4, <1>5

LEMMA CountsOrNot ==
    ASSUME TypeOK, \A r \in Requests : Standing(r), Next
    PROVE  Uncounted \/ \E r \in Requests, k \in Keys, v \in Verdicts : Counted(r, k, v)
<1>1. ASSUME NEW r \in Requests, NEW k \in Keys, Charge(r, k)
      PROVE  \E v \in Verdicts : Counted(r, k, v)
  BY <1>1, ChargeCounts DEF Verdicts
<1>2. ASSUME NEW r \in Requests, NEW k \in Keys, ChargeFails(r, k)
      PROVE  Uncounted \/ \E v \in Verdicts : Counted(r, k, v)
  BY <1>2, FailureCounts DEF Verdicts
<1>3. Tick => Uncounted
  BY DEF Tick, Uncounted
<1> QED
  BY <1>1, <1>2, <1>3, OtherStepsDoNotCount DEF Next

-----------------------------------------------------------------------------
\* What a counted request adds to the sets that the invariant counts.
LEMMA NotCountedBefore ==
    ASSUME NEW r \in Requests, Standing(r), NEW k \in Keys, request[r].pc = k
    PROVE  request[r].charged[k] = Uncharged /\ request[r].client \in Clients
  BY DEF Standing, Keys

LEMMA SetsUncounted ==
    ASSUME Uncounted, NEW k \in Keys, NEW c, NEW times
    PROVE  /\ ChargedIn(k, c, times)' = ChargedIn(k, c, times)
           /\ PassedIn(k, c, times)' = PassedIn(k, c, times)
           /\ SpentIn(k, c, times)' = SpentIn(k, c, times)
<1>1. ASSUME NEW r \in Requests
      PROVE  (request'[r].client = c /\ request'[r].charged[k] \in times \cap Nat)
               <=> (request[r].client = c /\ request[r].charged[k] \in times \cap Nat)
  <2>1. Uncharged \notin Nat
    BY DEF Uncharged
  <2> QED
    BY <2>1 DEF Uncounted
<1>2. ChargedIn(k, c, times)' = ChargedIn(k, c, times)
  BY <1>1 DEF ChargedIn
<1> QED
  BY <1>2 DEF Uncounted, PassedIn, SpentIn, ChargedIn

LEMMA SetsCounted ==
    ASSUME TypeOK, NEW r \in Requests, Standing(r), NEW k \in Keys, NEW v \in Verdicts,
           Counted(r, k, v), NEW c, request[r].client = c,
           NEW times
    PROVE  /\ r \notin ChargedIn(k, c, times)
           /\ ChargedIn(k, c, times)' =
                 ChargedIn(k, c, times) \cup (IF now \in times THEN {r} ELSE {})
           /\ PassedIn(k, c, times)' =
                 PassedIn(k, c, times)
                   \cup (IF now \in times /\ v = "passed" THEN {r} ELSE {})
           /\ SpentIn(k, c, times)' =
                 SpentIn(k, c, times)
                   \cup (IF now \in times /\ v # "refused" THEN {r} ELSE {})
<1>0. request[r].pc = k
  BY DEF Counted
<1>1. /\ request[r].charged[k] = Uncharged /\ Uncharged \notin Nat
      /\ request[r].charged \in [Keys -> Nat \cup {Uncharged}] /\ now \in Nat
      /\ request[r].refused = {}
  <2>1. request[r].charged[k] = Uncharged
    BY <1>0, NotCountedBefore
  <2>2. Uncharged \notin Nat
    BY DEF Uncharged
  <2>3. request[r].charged \in [Keys -> Nat \cup {Uncharged}] /\ now \in Nat
    BY DEF TypeOK, RequestStates
  <2>4. request[r].refused = {}
    BY <1>0 DEF Standing
  <2> QED
    BY <2>1, <2>2, <2>3, <2>4
<1>2. r \notin ChargedIn(k, c, times)
  BY <1>1 DEF ChargedIn
<1>3. /\ request'[r].charged[k] = now /\ request'[r].client = c
      /\ \A s \in Requests : s # r => request'[s] = request[s]
      /\ k \in request'[r].passed <=> v = "passed" \/ k \in request[r].passed
      /\ k \in request'[r].refused <=> v = "refused"
  BY <1>1 DEF Counted, Marked
<1>4. k \notin request[r].passed
  BY <1>1 DEF Standing
<1>5. ChargedIn(k, c, times)' = ChargedIn(k, c, times) \cup (IF now \in times THEN {r} ELSE {})
  BY <1>1, <1>2, <1>3 DEF ChargedIn
<1>6. PassedIn(k, c, times)' =
         PassedIn(k, c, times) \cup (IF now \in times /\ v = "passed" THEN {r} ELSE {})
  BY <1>2, <1>3, <1>4, <1>5 DEF PassedIn, ChargedIn
<1>7. SpentIn(k, c, times)' =
         SpentIn(k, c, times) \cup (IF now \in times /\ v # "refused" THEN {r} ELSE {})
  BY <1>2, <1>3, <1>5 DEF SpentIn, ChargedIn
<1> QED
  BY <1>2, <1>5, <1>6, <1>7

\* ... and for another key or another address it adds nothing.
LEMMA SetsElsewhere ==
    ASSUME TypeOK, NEW r \in Requests, Standing(r), NEW k \in Keys, NEW v \in Verdicts,
           Counted(r, k, v), NEW j \in Keys, NEW d, j # k \/ d # request[r].client, NEW times
    PROVE  /\ ChargedIn(j, d, times)' = ChargedIn(j, d, times)
           /\ PassedIn(j, d, times)' = PassedIn(j, d, times)
           /\ SpentIn(j, d, times)' = SpentIn(j, d, times)
<1>1. /\ request[r].charged \in [Keys -> Nat \cup {Uncharged}]
      /\ request[r].refused = {}
  BY DEF TypeOK, RequestStates, Counted, Standing
<1>2. /\ request'[r].client = request[r].client
      /\ \A s \in Requests : s # r => request'[s] = request[s]
      /\ j # k => /\ request'[r].charged[j] = request[r].charged[j]
                  /\ j \in request'[r].passed <=> j \in request[r].passed
                  /\ j \in request'[r].refused <=> j \in request[r].refused
  BY <1>1 DEF Counted, Marked
<1>3. ChargedIn(j, d, times)' = ChargedIn(j, d, times)
  BY <1>2 DEF ChargedIn
<1> QED
  BY <1>2, <1>3 DEF PassedIn, SpentIn, ChargedIn

-----------------------------------------------------------------------------
\* The sets that are counted are finite.
LEMMA FiniteSets ==
    ASSUME TypeOK, IsFiniteSet(Begun), \A r \in Requests : Standing(r),
           NEW k \in Keys, NEW c, NEW times
    PROVE  /\ IsFiniteSet(PassedIn(k, c, times)) /\ IsFiniteSet(SpentIn(k, c, times))
           /\ Cardinality(PassedIn(k, c, times)) \in Nat
           /\ Cardinality(SpentIn(k, c, times)) \in Nat
<1>1. Uncharged \notin Nat
  BY DEF Uncharged
<1>2. PassedIn(k, c, times) \subseteq Begun /\ SpentIn(k, c, times) \subseteq Begun
  BY <1>1 DEF PassedIn, SpentIn, ChargedIn, Begun, Standing
<1> QED
  BY <1>2, FS_Subset, FS_CardinalityType

\* A larger stretch of time holds no fewer requests.
LEMMA MoreTime ==
    ASSUME TypeOK, IsFiniteSet(Begun), \A r \in Requests : Standing(r),
           NEW k \in Keys, NEW c, NEW S, NEW T,
           \A r \in ChargedIn(k, c, S) : request[r].charged[k] \in T
    PROVE  /\ Cardinality(PassedIn(k, c, S)) <= Cardinality(PassedIn(k, c, T))
           /\ Cardinality(SpentIn(k, c, S)) <= Cardinality(SpentIn(k, c, T))
<1>1. PassedIn(k, c, S) \subseteq PassedIn(k, c, T) /\ SpentIn(k, c, S) \subseteq SpentIn(k, c, T)
  BY DEF PassedIn, SpentIn, ChargedIn
<1> QED
  BY <1>1, FiniteSets, FS_Subset

\* With one more request, a set has at most one more element, and exactly one more if
\* the request is new to it.
LEMMA OneMore ==
    ASSUME NEW S, IsFiniteSet(S), NEW x, NEW b \in BOOLEAN, x \notin S
    PROVE  Cardinality(S \cup (IF b THEN {x} ELSE {})) =
              IF b THEN Cardinality(S) + 1 ELSE Cardinality(S)
<1>1. CASE b
  BY <1>1, FS_AddElement
<1>2. CASE ~b
  <2>1. S \cup {} = S
    OBVIOUS
  <2> QED
    BY <1>2, <2>1
<1> QED
  BY <1>1, <1>2

\* How many more requests of its window a counted request makes.
LEMMA CardsCounted ==
    ASSUME TypeOK, IsFiniteSet(Begun), \A s \in Requests : Standing(s),
           NEW r \in Requests, NEW k \in Keys, NEW v \in Verdicts, Counted(r, k, v),
           NEW c, request[r].client = c, NEW times
    PROVE  /\ Cardinality(PassedIn(k, c, times)') =
                IF now \in times /\ v = "passed" THEN Cardinality(PassedIn(k, c, times)) + 1
                ELSE Cardinality(PassedIn(k, c, times))
           /\ Cardinality(SpentIn(k, c, times)') =
                IF now \in times /\ v # "refused" THEN Cardinality(SpentIn(k, c, times)) + 1
                ELSE Cardinality(SpentIn(k, c, times))
<1>0. Standing(r)
  OBVIOUS
<1>1. /\ r \notin ChargedIn(k, c, times)
      /\ PassedIn(k, c, times)' =
            PassedIn(k, c, times) \cup (IF now \in times /\ v = "passed" THEN {r} ELSE {})
      /\ SpentIn(k, c, times)' =
            SpentIn(k, c, times) \cup (IF now \in times /\ v # "refused" THEN {r} ELSE {})
  BY <1>0, SetsCounted, Z3T(30)
<1>2. r \notin PassedIn(k, c, times) /\ r \notin SpentIn(k, c, times)
  BY <1>1 DEF PassedIn, SpentIn
<1>3. IsFiniteSet(PassedIn(k, c, times)) /\ IsFiniteSet(SpentIn(k, c, times))
  BY FiniteSets
<1>4. (now \in times /\ v = "passed") \in BOOLEAN /\ (now \in times /\ v # "refused") \in BOOLEAN
  OBVIOUS
<1>5. Cardinality(PassedIn(k, c, times) \cup (IF now \in times /\ v = "passed" THEN {r} ELSE {})) =
        IF now \in times /\ v = "passed" THEN Cardinality(PassedIn(k, c, times)) + 1
        ELSE Cardinality(PassedIn(k, c, times))
  BY <1>2, <1>3, <1>4, OneMore
<1>6. Cardinality(SpentIn(k, c, times) \cup (IF now \in times /\ v # "refused" THEN {r} ELSE {})) =
        IF now \in times /\ v # "refused" THEN Cardinality(SpentIn(k, c, times)) + 1
        ELSE Cardinality(SpentIn(k, c, times))
  BY <1>2, <1>3, <1>4, OneMore
<1> QED
  BY <1>1, <1>5, <1>6

LEMMA JoinsCharged ==
    ASSUME TypeOK, \A s \in Requests : Standing(s),
           NEW r \in Requests, NEW k \in Keys, NEW v \in Verdicts, Counted(r, k, v),
           NEW c, request[r].client = c
    PROVE  ChargedIn(k, c, Nat)' = ChargedIn(k, c, Nat) \cup {r}
<1>0. Standing(r)
  OBVIOUS
<1>1. ChargedIn(k, c, Nat)' = ChargedIn(k, c, Nat) \cup (IF now \in Nat THEN {r} ELSE {})
  BY <1>0, SetsCounted, Z3T(30)
<1>2. now \in Nat
  BY DEF TypeOK
<1> QED
  BY <1>1, <1>2

LEMMA Constants ==
    /\ Window \in Nat /\ Window >= 1
    /\ \A k \in Keys : Limit[k] \in Nat /\ Limit[k] >= 1
  BY ControlsAssumption

LEMMA Intervals ==
    ASSUME NEW o \in Int
    PROVE  /\ InWindow(o) \in SUBSET Int /\ AfterOpening(o) \in SUBSET Int
           /\ BeforeOpening(o) \in SUBSET Int
  BY Constants DEF InWindow, AfterOpening, BeforeOpening

-----------------------------------------------------------------------------
\* A request counted in the window that is open.
LEMMA JoinsWindow ==
    ASSUME TypeOK, IsFiniteSet(Begun), \A s \in Requests : Standing(s),
           NEW r \in Requests, NEW k \in Keys, NEW v \in Verdicts, Counted(r, k, v),
           NEW c \in Clients, request[r].client = c, now < bucket[k][c].expires,
           NEW o \in 0..now, WindowHolds(k, c, o)
    PROVE  WindowHolds(k, c, o)' /\ bucket'[k][c].count # 0 /\ now \in InWindow(o)
<1> DEFINE n == bucket[k][c].count
           L == Limit[k]
<1>1. /\ bucket[k][c] \in [count : Nat, expires : 0..(now + Window)]
      /\ bucket \in [Keys -> [Clients -> [count : Nat, expires : 0..(now + Window)]]]
      /\ now \in Nat /\ now' = now
  BY DEF TypeOK, Counted
<1>2. n \in Nat /\ L \in Nat /\ L >= 1 /\ Window \in Nat /\ o \in Nat /\ o <= now
      /\ now < o + Window /\ bucket[k][c].expires = o + Window
  BY <1>1, Constants DEF WindowHolds
<1>3. bucket'[k][c] = [bucket[k][c] EXCEPT !.count = @ + 1]
  BY <1>1 DEF Counted, Incremented
<1>4. bucket'[k][c].count = n + 1 /\ bucket'[k][c].expires = o + Window
  BY <1>1, <1>2, <1>3
<1>5. Incremented(k, c).count = n + 1
  BY <1>1 DEF Incremented
<1>6. (v = "passed" => n + 1 <= L) /\ (v = "refused" => n + 1 > L)
  BY <1>5 DEF Counted
<1>7. /\ now \in InWindow(o) /\ now \notin BeforeOpening(o)
      /\ InWindow(o) \in SUBSET Int /\ AfterOpening(o) \in SUBSET Int
      /\ BeforeOpening(o) \in SUBSET Int
  BY <1>1, <1>2, Intervals DEF InWindow, BeforeOpening
<1>8. \A s \in ChargedIn(k, c, Nat)' : request'[s].charged[k] < o + Window
  <2>1. ChargedIn(k, c, Nat)' = ChargedIn(k, c, Nat) \cup {r}
    BY JoinsCharged
  <2>2. request'[r].charged[k] = now
    BY DEF Counted, Marked, TypeOK, RequestStates
  <2>3. \A s \in Requests : s # r => request'[s] = request[s]
    BY DEF Counted, Marked
  <2>4. \A s \in ChargedIn(k, c, Nat) : s \in Requests /\ request[s].charged[k] < o + Window
    BY DEF WindowHolds, ChargedIn
  <2> QED
    BY <1>2, <2>1, <2>2, <2>3, <2>4
<1>9. Capped(k, c) = (IF n <= L THEN n ELSE L)
      /\ Capped(k, c)' = (IF n + 1 <= L THEN n + 1 ELSE L)
  BY <1>4 DEF Capped
<1>10. /\ Cardinality(PassedIn(k, c, BeforeOpening(o))) \in Nat
       /\ Cardinality(PassedIn(k, c, InWindow(o))) \in Nat
       /\ Cardinality(PassedIn(k, c, AfterOpening(o))) \in Nat
       /\ Cardinality(SpentIn(k, c, InWindow(o))) \in Nat
  BY FiniteSets
<1>11. Cardinality(PassedIn(k, c, BeforeOpening(o))') < L
  <2>1. Cardinality(PassedIn(k, c, BeforeOpening(o))') = Cardinality(PassedIn(k, c, BeforeOpening(o)))
    BY <1>7, CardsCounted
  <2> QED
    BY <2>1 DEF WindowHolds
<1>12. Cardinality(PassedIn(k, c, InWindow(o))') <= Capped(k, c)'
  <2>1. Cardinality(PassedIn(k, c, InWindow(o))') =
           IF v = "passed" THEN Cardinality(PassedIn(k, c, InWindow(o))) + 1
           ELSE Cardinality(PassedIn(k, c, InWindow(o)))
    BY <1>7, CardsCounted
  <2>2. Cardinality(PassedIn(k, c, InWindow(o))) <= Capped(k, c)
    BY DEF WindowHolds
  <2> QED
    BY <1>2, <1>6, <1>9, <1>10, <2>1, <2>2
<1>13. Cardinality(PassedIn(k, c, AfterOpening(o))') < Capped(k, c)'
  <2>1. Cardinality(PassedIn(k, c, AfterOpening(o))') =
           IF now \in AfterOpening(o) /\ v = "passed"
           THEN Cardinality(PassedIn(k, c, AfterOpening(o))) + 1
           ELSE Cardinality(PassedIn(k, c, AfterOpening(o)))
    BY <1>7, CardsCounted
  <2>2. Cardinality(PassedIn(k, c, AfterOpening(o))) < Capped(k, c)
    BY DEF WindowHolds
  <2> QED
    BY <1>2, <1>6, <1>9, <1>10, <2>1, <2>2
<1>14. Cardinality(SpentIn(k, c, InWindow(o))') >= Capped(k, c)'
  <2>1. Cardinality(SpentIn(k, c, InWindow(o))') =
           IF v # "refused" THEN Cardinality(SpentIn(k, c, InWindow(o))) + 1
           ELSE Cardinality(SpentIn(k, c, InWindow(o)))
    BY <1>7, CardsCounted
  <2>2. Cardinality(SpentIn(k, c, InWindow(o))) >= Capped(k, c)
    BY DEF WindowHolds
  <2> QED
    BY <1>2, <1>6, <1>9, <1>10, <2>1, <2>2
<1>15. bucket'[k][c].count # 0
  BY <1>2, <1>4
<1> QED
  BY <1>4, <1>7, <1>8, <1>11, <1>12, <1>13, <1>14, <1>15 DEF WindowHolds

\* A request that opens the next window.
LEMMA OpensWindow ==
    ASSUME TypeOK, IsFiniteSet(Begun), \A s \in Requests : Standing(s),
           NEW r \in Requests, NEW k \in Keys, NEW v \in Verdicts, Counted(r, k, v),
           NEW c \in Clients, request[r].client = c, ~(now < bucket[k][c].expires),
           NEW o, o = now, Windowed(k, c)
    PROVE  WindowHolds(k, c, o)' /\ bucket'[k][c].count # 0 /\ now \in InWindow(o)
<1> DEFINE L == Limit[k]
<1>1. /\ bucket[k][c] \in [count : Nat, expires : 0..(now + Window)]
      /\ bucket \in [Keys -> [Clients -> [count : Nat, expires : 0..(now + Window)]]]
      /\ now \in Nat /\ now' = now /\ o \in Nat
  BY DEF TypeOK, Counted
<1>2. L \in Nat /\ L >= 1 /\ Window \in Nat /\ Window >= 1
  BY Constants
<1>3. bucket'[k][c] = [count |-> 1, expires |-> o + Window]
  BY <1>1 DEF Counted, Incremented
<1>4. Incremented(k, c).count = 1
  BY <1>1 DEF Incremented
<1>5. v # "refused"
  BY <1>2, <1>4 DEF Counted
<1>6. /\ now \in InWindow(o) /\ now \notin BeforeOpening(o) /\ now \notin AfterOpening(o)
      /\ InWindow(o) \in SUBSET Int /\ AfterOpening(o) \in SUBSET Int
      /\ BeforeOpening(o) \in SUBSET Int
  BY <1>1, <1>2, Intervals DEF InWindow, AfterOpening, BeforeOpening
<1>7. \A s \in ChargedIn(k, c, Nat) :
         s \in Requests /\ request[s].charged[k] \in Nat /\ request[s].charged[k] < o
  <2>1. CASE bucket[k][c].count = 0
    BY <2>1 DEF Windowed
  <2>2. ASSUME NEW p \in 0..now, WindowHolds(k, c, p),
               NEW s \in ChargedIn(k, c, Nat)
        PROVE  s \in Requests /\ request[s].charged[k] \in Nat /\ request[s].charged[k] < o
    <3>1. p + Window <= o /\ request[s].charged[k] < p + Window
      BY <1>1, <1>2, <2>2 DEF WindowHolds
    <3>2. s \in Requests /\ request[s].charged[k] \in Nat
      BY DEF ChargedIn
    <3> QED
      BY <1>1, <1>2, <2>2, <3>1, <3>2
  <2> QED
    BY <2>1, <2>2 DEF Windowed
<1>8. ASSUME NEW times \in SUBSET Int, \A t \in times : t >= o
      PROVE  PassedIn(k, c, times) = {} /\ SpentIn(k, c, times) = {}
  BY <1>1, <1>7, <1>8 DEF PassedIn, SpentIn, ChargedIn
<1>9. /\ PassedIn(k, c, InWindow(o)) = {} /\ SpentIn(k, c, InWindow(o)) = {}
      /\ PassedIn(k, c, AfterOpening(o)) = {}
  <2>1. (\A t \in InWindow(o) : t >= o) /\ (\A t \in AfterOpening(o) : t >= o)
    BY <1>1, <1>2 DEF InWindow, AfterOpening
  <2> QED
    BY <1>6, <1>8, <2>1
<1>10. Cardinality({}) = 0
  BY FS_EmptySet
<1>11. Cardinality(PassedIn(k, c, BeforeOpening(o))) < L
  <2>1. CASE bucket[k][c].count = 0
    <3>1. PassedIn(k, c, BeforeOpening(o)) = {}
      BY <2>1 DEF Windowed, PassedIn, ChargedIn
    <3> QED
      BY <1>2, <1>10, <3>1
  <2>2. ASSUME NEW p \in 0..now, WindowHolds(k, c, p)
        PROVE  Cardinality(PassedIn(k, c, BeforeOpening(o))) < L
    <3>1. p + Window <= o /\ p \in Nat
      BY <1>1, <1>2, <2>2 DEF WindowHolds
    <3>2. ASSUME NEW s \in ChargedIn(k, c, BeforeOpening(o))
          PROVE  request[s].charged[k] \in AfterOpening(p)
      <4>1. s \in ChargedIn(k, c, Nat) /\ request[s].charged[k] \in BeforeOpening(o)
        BY <3>2 DEF ChargedIn
      <4>2. request[s].charged[k] < p + Window
        BY <2>2, <4>1 DEF WindowHolds
      <4> QED
        BY <1>1, <1>2, <3>1, <4>1, <4>2 DEF BeforeOpening, AfterOpening
    <3>3. Cardinality(PassedIn(k, c, BeforeOpening(o))) <= Cardinality(PassedIn(k, c, AfterOpening(p)))
      BY <3>2, MoreTime
    <3>4. Cardinality(PassedIn(k, c, AfterOpening(p))) < Capped(k, c) /\ Capped(k, c) <= L
      BY <1>1, <1>2, <2>2 DEF WindowHolds, Capped
    <3>5. /\ Cardinality(PassedIn(k, c, BeforeOpening(o))) \in Nat
          /\ Cardinality(PassedIn(k, c, AfterOpening(p))) \in Nat
          /\ Capped(k, c) \in Nat
      BY <1>1, <1>2, FiniteSets DEF Capped
    <3> QED
      BY <1>2, <3>3, <3>4, <3>5
  <2> QED
    BY <2>1, <2>2 DEF Windowed
<1>12. \A s \in ChargedIn(k, c, Nat)' : request'[s].charged[k] < o + Window
  <2>1. ChargedIn(k, c, Nat)' = ChargedIn(k, c, Nat) \cup {r}
    BY JoinsCharged
  <2>2. request'[r].charged[k] = now
    BY DEF Counted, Marked, TypeOK, RequestStates
  <2>3. \A s \in Requests : s # r => request'[s] = request[s]
    BY DEF Counted, Marked
  <2> QED
    BY <1>1, <1>2, <1>7, <2>1, <2>2, <2>3
<1>13. Capped(k, c)' = 1
  BY <1>2, <1>3 DEF Capped
<1>14. /\ Cardinality(PassedIn(k, c, BeforeOpening(o))') =
             Cardinality(PassedIn(k, c, BeforeOpening(o)))
       /\ Cardinality(PassedIn(k, c, AfterOpening(o))') =
             Cardinality(PassedIn(k, c, AfterOpening(o)))
       /\ Cardinality(PassedIn(k, c, InWindow(o))') =
             IF v = "passed" THEN Cardinality(PassedIn(k, c, InWindow(o))) + 1
             ELSE Cardinality(PassedIn(k, c, InWindow(o)))
       /\ Cardinality(SpentIn(k, c, InWindow(o))') = Cardinality(SpentIn(k, c, InWindow(o))) + 1
  BY <1>5, <1>6, CardsCounted
<1>15. /\ Cardinality(PassedIn(k, c, BeforeOpening(o))') < L
       /\ Cardinality(PassedIn(k, c, AfterOpening(o))') < Capped(k, c)'
       /\ Cardinality(PassedIn(k, c, InWindow(o))') <= Capped(k, c)'
       /\ Cardinality(SpentIn(k, c, InWindow(o))') >= Capped(k, c)'
  BY <1>9, <1>10, <1>11, <1>13, <1>14
<1>16. bucket'[k][c].count # 0 /\ bucket'[k][c].expires = o + Window
  BY <1>3
<1> QED
  BY <1>6, <1>12, <1>15, <1>16 DEF WindowHolds

-----------------------------------------------------------------------------
\* The invariant part by part: first, where the requests stand.
LEMMA TimeGoesOn == TypeOK /\ [Next]_vars => now' \in {now, now + 1}
  BY DEF Next, Arrive, Charge, ChargeFails, Serve, Disconnect, Observe, Tick, vars

LEMMA InitStanding == Init => \A r \in Requests : Standing(r)
<1> SUFFICES ASSUME Init, NEW r \in Requests PROVE Standing(r)
  OBVIOUS
<1>1. request[r] = NewRequest /\ now = 0
  BY DEF Init
<1> QED
  BY <1>1 DEF NewRequest, Standing, Uncharged, Keys

\* A request that is left alone stands where it stood.
LEMMA StandsStill ==
    ASSUME TypeOK, NEW r \in Requests, Standing(r), request'[r] = request[r],
           now' \in {now, now + 1}
    PROVE  Standing(r)'
<1>1. now \in Nat /\ \A k \in Keys : request[r].charged[k] \in Nat \cup {Uncharged}
  BY DEF TypeOK, RequestStates
<1>2. \A k \in Keys : request[r].charged[k] <= now => request[r].charged[k] <= now'
  BY <1>1 DEF Uncharged
<1> QED
  BY <1>2 DEF Standing

\* A request that moves on without being counted, and one that is counted.
LEMMA StandsUncounted ==
    ASSUME TypeOK, NEW r \in Requests, Standing(r), now' = now,
           request'[r].charged = request[r].charged, request'[r].passed = request[r].passed,
           request'[r].refused = request[r].refused,
           request'[r].pc \in {"arrive", "rate"} => request[r].pc = "arrive",
           request'[r].pc # "challenge",
           request'[r].pc \in Keys => request'[r].client \in Clients,
           request'[r].pc \in Keys \cup {"arrive"} => request[r].pc \in Keys \cup {"arrive"},
           request'[r].pc \in Keys \cup {"arrive", "serve"} => request'[r].sent = "none",
           request'[r].status = IF request'[r].sent = "none" THEN "5xx" ELSE request'[r].sent
    PROVE  Standing(r)'
  BY DEF Standing

LEMMA StandsCounted ==
    ASSUME TypeOK, NEW r \in Requests, Standing(r), NEW k \in Keys, NEW v \in Verdicts,
           Counted(r, k, v),
           request'[r].pc \in {"challenge", "serve", "observe"},
           request'[r].pc = "challenge" => k = "rate",
           request'[r].pc \in {"challenge", "serve"} => v = "passed" /\ request'[r].sent = "none",
           request'[r].status = IF request'[r].sent = "none" THEN "5xx" ELSE request'[r].sent
    PROVE  Standing(r)'
<1>1. now \in Nat /\ request[r].charged \in [Keys -> Nat \cup {Uncharged}] /\ now' = now
  BY DEF TypeOK, RequestStates, Counted
<1>2. /\ request'[r].charged[k] = now
      /\ \A j \in Keys : j # k => request'[r].charged[j] = request[r].charged[j]
      /\ request'[r].client = request[r].client /\ request[r].pc = k
      /\ \A j \in Keys : j \in request'[r].passed \cup request'[r].refused =>
                            j = k \/ j \in request[r].passed \cup request[r].refused
      /\ v = "passed" => request'[r].refused = {}
  BY <1>1 DEF Counted, Marked
<1>3. request[r].client \in Clients
  BY <1>2 DEF Standing
<1>4. request'[r].pc = "challenge" => request'[r].charged["challenge"] = Uncharged
  <2> SUFFICES ASSUME request'[r].pc = "challenge"
               PROVE  request'[r].charged["challenge"] = Uncharged
    OBVIOUS
  <2>1. k = "rate" /\ request[r].pc = "rate"
    BY <1>2
  <2> QED
    BY <1>2, <2>1 DEF Standing, Keys
<1>5. \A j \in Keys :
         /\ request'[r].charged[j] <= now'
         /\ j \in request'[r].passed \cup request'[r].refused => request'[r].charged[j] \in Nat
  BY <1>1, <1>2 DEF Standing
<1>6. request'[r].pc \in Keys => request'[r].pc = "challenge"
  BY DEF Keys
<1>7. request'[r].pc \notin {"arrive", "rate"}
  OBVIOUS
<1> QED
  BY <1>2, <1>3, <1>4, <1>5, <1>6, <1>7 DEF Standing

LEMMA StandingStep ==
    ASSUME TypeOK, \A r \in Requests : Standing(r), Next
    PROVE  \A r \in Requests : Standing(r)'
<1> SUFFICES ASSUME NEW s \in Requests PROVE Standing(s)'
  OBVIOUS
<1>0. request \in [Requests -> RequestStates] /\ now' \in {now, now + 1}
  BY TimeGoesOn DEF TypeOK
<1>1. ASSUME NEW r \in Requests, NEW q, Becomes(r, q)
      PROVE  request'[r] = q /\ (s # r => Standing(s)')
  BY <1>0, <1>1, StandsStill DEF Becomes
<1>2. ASSUME Arrive(s) PROVE Standing(s)'
  <2>1. PICK t \in Traffic :
           LET q == [request[s] EXCEPT !.kind = t.kind, !.client = t.client] IN
           Becomes(s, IF t.kind = "probe" THEN [q EXCEPT !.pc = "serve"]
                      ELSE IF t.client = NoClient THEN Answered(q, "4xx")
                      ELSE [q EXCEPT !.pc = "rate"])
    BY <1>2 DEF Arrive
  <2> DEFINE q == [request[s] EXCEPT !.kind = t.kind, !.client = t.client]
             new == IF t.kind = "probe" THEN [q EXCEPT !.pc = "serve"]
                    ELSE IF t.client = NoClient THEN Answered(q, "4xx")
                    ELSE [q EXCEPT !.pc = "rate"]
  <2>2. /\ request[s].pc = "arrive" /\ request[s].sent = "none" /\ request[s].status = "5xx"
        /\ now' = now
    BY <1>2 DEF Arrive, Standing
  <2>3. request[s] \in RequestStates /\ t.kind \in Kinds /\ t.client \in Clients \cup {NoClient}
    BY <1>0, ControlsAssumption
  <2>4. /\ q \in RequestStates /\ q.charged = request[s].charged /\ q.passed = request[s].passed
        /\ q.refused = request[s].refused /\ q.sent = "none" /\ q.status = "5xx"
        /\ q.client = t.client
    BY <2>2, <2>3 DEF RequestStates
  <2>5. /\ new.charged = request[s].charged /\ new.passed = request[s].passed
        /\ new.refused = request[s].refused
        /\ new.pc \in {"rate", "serve", "observe"}
        /\ new.pc = "rate" => new.client \in Clients
        /\ new.pc \in {"rate", "serve"} => new.sent = "none"
        /\ new.status = IF new.sent = "none" THEN "5xx" ELSE new.sent
    <3>1. CASE t.kind = "probe"
      BY <2>4, <3>1 DEF RequestStates
    <3>2. CASE t.kind # "probe" /\ t.client = NoClient
      BY <2>4, <3>2 DEF RequestStates, Answered
    <3>3. CASE t.kind # "probe" /\ t.client # NoClient
      BY <2>3, <2>4, <3>3 DEF RequestStates
    <3> QED
      BY <3>1, <3>2, <3>3
  <2>6. request'[s] = new
    BY <1>1, <2>1
  <2> HIDE DEF new
  <2> QED
    BY <2>2, <2>5, <2>6, StandsUncounted DEF Keys
<1>3. ASSUME NEW k \in Keys, Charge(s, k) PROVE Standing(s)'
  <2> DEFINE q == [request[s] EXCEPT !.charged[k] = now]
             ok == Admits(k, Incremented(k, request[s].client))
             new == IF ok THEN [q EXCEPT !.passed = @ \cup {k}, !.pc = After(s, k)]
                    ELSE [Answered(q, "4xx") EXCEPT !.refused = {k}]
             v == IF ok THEN "passed" ELSE "refused"
  <2>1. request[s].pc = k /\ Becomes(s, new)
    BY <1>3 DEF Charge
  <2>2. request'[s] = new
    BY <1>1, <2>1
  <2>3. Counted(s, k, v) /\ v \in Verdicts
    BY <1>3, ChargeCounts DEF Verdicts
  <2>4. request[s] \in RequestStates /\ request[s].sent = "none" /\ request[s].status = "5xx"
    BY <1>0, <2>1 DEF Standing
  <2>5. q \in RequestStates /\ q.sent = "none" /\ q.status = "5xx"
    BY <2>4 DEF RequestStates, TypeOK
  <2>6. /\ new.pc \in {"challenge", "serve", "observe"}
        /\ new.pc = "challenge" => k = "rate"
        /\ new.pc \in {"challenge", "serve"} => v = "passed" /\ new.sent = "none"
        /\ new.status = IF new.sent = "none" THEN "5xx" ELSE new.sent
    <3>1. CASE ok
      BY <2>5, <3>1 DEF RequestStates, After
    <3>2. CASE ~ok
      BY <2>5, <3>2 DEF RequestStates, Answered
    <3> QED
      BY <3>1, <3>2
  <2> HIDE DEF new, v
  <2> QED
    BY <2>2, <2>3, <2>6, StandsCounted
<1>4. ASSUME NEW k \in Keys, ChargeFails(s, k) PROVE Standing(s)'
  <2> DEFINE q == [request[s] EXCEPT !.charged[k] = now]
  <2>1. request[s].pc = k /\ now' = now /\ request[s] \in RequestStates
    BY <1>0, <1>4 DEF ChargeFails
  <2>2. CASE UNCHANGED bucket /\ Becomes(s, Answered(request[s], "5xx"))
    <3>1. request'[s] = Answered(request[s], "5xx")
      BY <1>1, <2>2
    <3>2. /\ request'[s].charged = request[s].charged /\ request'[s].passed = request[s].passed
          /\ request'[s].refused = request[s].refused
          /\ request'[s].pc = "observe" /\ request'[s].sent = "5xx" /\ request'[s].status = "5xx"
      BY <2>1, <3>1 DEF RequestStates, Answered
    <3> QED
      BY <2>1, <3>2, StandsUncounted DEF Keys
  <2>3. CASE /\ bucket' = [bucket EXCEPT ![k][request[s].client] = Incremented(k, request[s].client)]
             /\ Becomes(s, Answered(q, "5xx"))
    <3>1. request'[s] = Answered(q, "5xx")
      BY <1>1, <2>3
    <3>2. q \in RequestStates /\ q.refused = {} /\ q.passed = request[s].passed
          /\ q.client = request[s].client
          /\ q.charged = [request[s].charged EXCEPT ![k] = now]
      BY <2>1 DEF RequestStates, TypeOK, Standing
    <3>3. /\ request'[s].pc = "observe" /\ request'[s].sent = "5xx" /\ request'[s].status = "5xx"
          /\ request'[s].charged = [request[s].charged EXCEPT ![k] = now]
          /\ request'[s].refused = {} /\ request'[s].passed = request[s].passed
          /\ request'[s].client = request[s].client
      BY <3>1, <3>2 DEF RequestStates, Answered
    <3>4. \A p \in Requests : p # s => request'[p] = request[p]
      BY <1>0, <2>3 DEF Becomes
    <3>5. Counted(s, k, "lost") /\ "lost" \in Verdicts
      BY <2>1, <2>3, <3>3, <3>4 DEF Counted, Marked, Verdicts
    <3> QED
      BY <3>3, <3>5, StandsCounted
  <2> QED
    BY <1>4, <2>2, <2>3 DEF ChargeFails
<1>5. ASSUME Serve(s) PROVE Standing(s)'
  <2>1. PICK l \in Answers \cup {"4xx", "5xx"} : Becomes(s, Answered(request[s], l))
    BY <1>5 DEF Serve
  <2>2. l \in Labels /\ l # "none"
    BY ControlsAssumption DEF Labels
  <2>3. request'[s] = Answered(request[s], l) /\ request[s] \in RequestStates /\ now' = now
    BY <1>0, <1>1, <1>5, <2>1 DEF Serve
  <2>4. /\ request'[s].charged = request[s].charged /\ request'[s].passed = request[s].passed
        /\ request'[s].refused = request[s].refused
        /\ request'[s].pc = "observe" /\ request'[s].sent = l /\ request'[s].status = l
    BY <2>3 DEF RequestStates, Answered
  <2> QED
    BY <2>2, <2>3, <2>4, StandsUncounted DEF Keys
<1>6. ASSUME Disconnect(s) \/ Observe(s) PROVE Standing(s)'
  <2>1. PICK p \in {"observe", "done"} : Becomes(s, [request[s] EXCEPT !.pc = p])
    BY <1>6 DEF Disconnect, Observe
  <2>2. request'[s] = [request[s] EXCEPT !.pc = p] /\ request[s] \in RequestStates /\ now' = now
    BY <1>0, <1>1, <1>6, <2>1 DEF Disconnect, Observe
  <2>3. /\ request'[s].charged = request[s].charged /\ request'[s].passed = request[s].passed
        /\ request'[s].refused = request[s].refused
        /\ request'[s].pc = p /\ request'[s].sent = request[s].sent
        /\ request'[s].status = request[s].status
    BY <2>2 DEF RequestStates
  <2>4. request'[s].status = IF request'[s].sent = "none" THEN "5xx" ELSE request'[s].sent
    BY <2>3 DEF Standing
  <2> QED
    BY <2>2, <2>3, <2>4, StandsUncounted DEF Keys
<1>7. ASSUME NEW r \in Requests, s # r,
             Arrive(r) \/ (\E k \in Keys : Charge(r, k) \/ ChargeFails(r, k))
             \/ Serve(r) \/ Disconnect(r) \/ Observe(r)
      PROVE  Standing(s)'
  BY <1>1, <1>7 DEF Arrive, Charge, ChargeFails, Serve, Disconnect, Observe
<1>8. CASE Tick
  BY <1>0, <1>8, StandsStill DEF Tick
<1> QED
  BY <1>2, <1>3, <1>4, <1>5, <1>6, <1>7, <1>8 DEF Next

-----------------------------------------------------------------------------
\* One request at most comes in at a step.
LEMMA BegunStep ==
    ASSUME TypeOK, IsFiniteSet(Begun), Next
    PROVE  IsFiniteSet(Begun')
<1>0. request \in [Requests -> RequestStates]
  BY DEF TypeOK
<1>1. ASSUME NEW r \in Requests,
             Arrive(r) \/ (\E k \in Keys : Charge(r, k) \/ ChargeFails(r, k))
             \/ Serve(r) \/ Disconnect(r) \/ Observe(r)
      PROVE  IsFiniteSet(Begun')
  <2>1. \A s \in Requests : s # r => request'[s] = request[s]
    BY <1>0, <1>1 DEF Arrive, Charge, ChargeFails, Serve, Disconnect, Observe, Becomes
  <2>2. Begun' \subseteq Begun \cup {r}
    BY <2>1 DEF Begun
  <2>3. IsFiniteSet(Begun \cup {r})
    BY FS_AddElement
  <2> QED
    BY <2>2, <2>3, FS_Subset
<1>2. CASE Tick
  <2>1. Begun' = Begun
    BY <1>2 DEF Tick, Begun
  <2> QED
    BY <2>1
<1> QED
  BY <1>1, <1>2 DEF Next

\* Windows: nothing changes for an address that is not counted, ...
LEMMA WindowStays ==
    ASSUME TypeOK, NEW k \in Keys, NEW c \in Clients, Windowed(k, c),
           now' \in {now, now + 1}, bucket'[k][c] = bucket[k][c],
           \A times : /\ ChargedIn(k, c, times)' = ChargedIn(k, c, times)
                      /\ PassedIn(k, c, times)' = PassedIn(k, c, times)
                      /\ SpentIn(k, c, times)' = SpentIn(k, c, times),
           \A r \in Requests : request'[r].charged[k] = request[r].charged[k]
                               \/ r \notin ChargedIn(k, c, Nat)
    PROVE  Windowed(k, c)'
<1>0. now \in Nat
  BY DEF TypeOK
<1>1. CASE bucket[k][c].count = 0
  BY <1>1 DEF Windowed
<1>2. ASSUME NEW o \in 0..now, WindowHolds(k, c, o), bucket[k][c].count # 0 PROVE Windowed(k, c)'
  <2>1. o \in 0..now'
    BY <1>0
  <2>2. \A r \in ChargedIn(k, c, Nat)' : request'[r].charged[k] < o + Window
    <3>1. \A r \in ChargedIn(k, c, Nat) : r \in Requests /\ request[r].charged[k] < o + Window
      BY <1>2 DEF WindowHolds, ChargedIn
    <3>2. ChargedIn(k, c, Nat)' = ChargedIn(k, c, Nat)
      OBVIOUS
    <3> QED
      BY <3>1, <3>2
  <2>3. Capped(k, c)' = Capped(k, c)
    BY DEF Capped
  <2>4. /\ PassedIn(k, c, BeforeOpening(o))' = PassedIn(k, c, BeforeOpening(o))
        /\ PassedIn(k, c, InWindow(o))' = PassedIn(k, c, InWindow(o))
        /\ PassedIn(k, c, AfterOpening(o))' = PassedIn(k, c, AfterOpening(o))
        /\ SpentIn(k, c, InWindow(o))' = SpentIn(k, c, InWindow(o))
    OBVIOUS
  <2>5. WindowHolds(k, c, o)'
    BY <1>2, <2>2, <2>3, <2>4 DEF WindowHolds
  <2> QED
    BY <1>2, <2>1, <2>5 DEF Windowed
<1> QED
  BY <1>1, <1>2 DEF Windowed

\* ... and the address that is counted joins its window or opens the next.
LEMMA CountedWindow ==
    ASSUME TypeOK, IsFiniteSet(Begun), \A s \in Requests : Standing(s),
           NEW r \in Requests, NEW k \in Keys, NEW v \in Verdicts, Counted(r, k, v),
           NEW c \in Clients, request[r].client = c, Windowed(k, c)
    PROVE  \E o \in 0..now :
              WindowHolds(k, c, o)' /\ bucket'[k][c].count # 0 /\ now \in InWindow(o)
<1>0. now \in Nat /\ bucket[k][c] \in [count : Nat, expires : 0..(now + Window)]
  BY DEF TypeOK
<1>1. CASE now < bucket[k][c].expires
  <2>1. bucket[k][c].count # 0
    BY <1>0, <1>1 DEF Windowed
  <2>2. PICK o \in 0..now : WindowHolds(k, c, o)
    BY <2>1 DEF Windowed
  <2> QED
    BY <1>1, <2>2, JoinsWindow
<1>2. CASE ~(now < bucket[k][c].expires)
  <2>1. PICK o \in 0..now : o = now
    BY <1>0
  <2> QED
    BY <1>2, <2>1, OpensWindow
<1> QED
  BY <1>1, <1>2

LEMMA WindowedStep ==
    ASSUME TypeOK, IsFiniteSet(Begun), \A s \in Requests : Standing(s), Next,
           \A k \in Keys, c \in Clients : Windowed(k, c)
    PROVE  \A k \in Keys, c \in Clients : Windowed(k, c)'
<1> SUFFICES ASSUME NEW j \in Keys, NEW d \in Clients PROVE Windowed(j, d)'
  OBVIOUS
<1>0. now' \in {now, now + 1} /\ Windowed(j, d) /\ now \in Nat
  BY TimeGoesOn DEF TypeOK
<1>1. CASE Uncounted
  <2>1. \A times : /\ ChargedIn(j, d, times)' = ChargedIn(j, d, times)
                   /\ PassedIn(j, d, times)' = PassedIn(j, d, times)
                   /\ SpentIn(j, d, times)' = SpentIn(j, d, times)
    BY <1>1, SetsUncounted
  <2>2. /\ \A r \in Requests : request'[r].charged[j] = request[r].charged[j]
        /\ bucket'[j][d] = bucket[j][d]
    BY <1>1 DEF Uncounted
  <2> QED
    BY <1>0, <2>1, <2>2, WindowStays
<1>2. ASSUME NEW r \in Requests, NEW k \in Keys, NEW v \in Verdicts, Counted(r, k, v)
      PROVE  Windowed(j, d)'
  <2> DEFINE c == request[r].client
  <2>1. c \in Clients /\ Standing(r) /\ now' = now
    BY <1>2, NotCountedBefore DEF Counted
  <2>2. CASE j = k /\ d = c
    <3>1. PICK o \in 0..now : WindowHolds(j, d, o)' /\ bucket'[j][d].count # 0
      BY <1>0, <1>2, <2>1, <2>2, CountedWindow
    <3> QED
      BY <2>1, <3>1 DEF Windowed
  <2>3. CASE j # k \/ d # c
    <3>1. \A times : /\ ChargedIn(j, d, times)' = ChargedIn(j, d, times)
                     /\ PassedIn(j, d, times)' = PassedIn(j, d, times)
                     /\ SpentIn(j, d, times)' = SpentIn(j, d, times)
      BY <1>2, <2>1, <2>3, SetsElsewhere
    <3>2. bucket'[j][d] = bucket[j][d]
      BY <1>2, <2>1, <2>3 DEF Counted, TypeOK
    <3>3. \A s \in Requests : request'[s].charged[j] = request[s].charged[j]
                              \/ s \notin ChargedIn(j, d, Nat)
      <4>1. /\ request[r].charged \in [Keys -> Nat \cup {Uncharged}]
            /\ request'[r].charged = [request[r].charged EXCEPT ![k] = now]
            /\ \A s \in Requests : s # r => request'[s] = request[s]
        BY <1>2 DEF Counted, Marked, TypeOK, RequestStates
      <4>2. d # c => r \notin ChargedIn(j, d, Nat)
        BY DEF ChargedIn
      <4> QED
        BY <2>3, <4>1, <4>2
    <3> QED
      BY <1>0, <3>1, <3>2, <3>3, WindowStays
  <2> QED
    BY <2>2, <2>3
<1> QED
  BY <1>1, <1>2, CountsOrNot

-----------------------------------------------------------------------------
LEMMA FiniteNext ==
    ASSUME TypeOK, IsFiniteSet(Begun), \A s \in Requests : Standing(s),
           NEW r \in Requests, NEW k \in Keys, NEW v \in Verdicts, Counted(r, k, v),
           NEW c, request[r].client = c, NEW times
    PROVE  /\ IsFiniteSet(PassedIn(k, c, times)') /\ Cardinality(PassedIn(k, c, times)') \in Nat
           /\ IsFiniteSet(SpentIn(k, c, times)') /\ Cardinality(SpentIn(k, c, times)') \in Nat
<1>0. Standing(r)
  OBVIOUS
<1>1. /\ PassedIn(k, c, times)' \subseteq PassedIn(k, c, times) \cup {r}
      /\ SpentIn(k, c, times)' \subseteq SpentIn(k, c, times) \cup {r}
  <2>1. /\ PassedIn(k, c, times)' =
              PassedIn(k, c, times) \cup (IF now \in times /\ v = "passed" THEN {r} ELSE {})
        /\ SpentIn(k, c, times)' =
              SpentIn(k, c, times) \cup (IF now \in times /\ v # "refused" THEN {r} ELSE {})
    BY <1>0, SetsCounted, Z3T(30)
  <2> QED
    BY <2>1
<1>2. /\ IsFiniteSet(PassedIn(k, c, times) \cup {r})
      /\ IsFiniteSet(SpentIn(k, c, times) \cup {r})
  BY FiniteSets, FS_AddElement
<1> QED
  BY <1>1, <1>2, FS_Subset, FS_CardinalityType

\* Two windows hold what one stretch of time can, one but for its opening.
LEMMA BoundedNow ==
    ASSUME TypeOK, IsFiniteSet(Begun), \A s \in Requests : Standing(s),
           NEW r \in Requests, NEW k \in Keys, NEW v \in Verdicts, Counted(r, k, v),
           NEW c \in Clients, request[r].client = c, Windowed(k, c),
           NEW t \in Nat, now \in t..(t + Window - 1)
    PROVE  Bounded(k, c, t)'
<1> DEFINE L == Limit[k]
           T == t..(t + Window - 1)
<1>1. PICK o \in 0..now : WindowHolds(k, c, o)' /\ now \in InWindow(o)
  BY CountedWindow
<1>2. /\ now \in Nat /\ o \in Nat /\ o <= now /\ now <= o + Window - 1
      /\ t <= now /\ now <= t + Window - 1
      /\ Window \in Nat /\ L \in Nat /\ L >= 1
  BY <1>1, Constants DEF TypeOK, InWindow
<1>3. /\ \A times : IsFiniteSet(PassedIn(k, c, times)') /\ Cardinality(PassedIn(k, c, times)') \in Nat
  BY FiniteNext
<1>4. \A s \in PassedIn(k, c, T)' :
         /\ s \in Requests /\ request'[s].client = c /\ k \in request'[s].passed
         /\ request'[s].charged[k] \in Nat /\ request'[s].charged[k] >= t
         /\ request'[s].charged[k] < o + Window
  <2>1. \A s \in ChargedIn(k, c, Nat)' : request'[s].charged[k] < o + Window
    BY <1>1 DEF WindowHolds
  <2> QED
    BY <1>2, <2>1 DEF PassedIn, ChargedIn
<1>5. Cardinality(PassedIn(k, c, BeforeOpening(o))') < L
      /\ Cardinality(PassedIn(k, c, InWindow(o))') <= Capped(k, c)'
      /\ Cardinality(PassedIn(k, c, AfterOpening(o))') < Capped(k, c)'
  BY <1>1 DEF WindowHolds
<1>6. Capped(k, c)' \in Nat /\ Capped(k, c)' <= L
  <2>1. bucket'[k][c].count \in Nat
    <3>1. bucket' \in [Keys -> [Clients -> [count : Nat, expires : 0..(now + Window)]]]
      BY BucketType DEF Counted
    <3> QED
      BY <3>1
  <2> QED
    BY <1>2, <2>1 DEF Capped
<1>7. CASE t > o
  <2>1. PassedIn(k, c, T)' \subseteq PassedIn(k, c, AfterOpening(o))'
    <3>1. \A s \in PassedIn(k, c, T)' : request'[s].charged[k] \in AfterOpening(o)
      BY <1>2, <1>4, <1>7 DEF AfterOpening
    <3> QED
      BY <1>4, <3>1 DEF PassedIn, ChargedIn
  <2>2. Cardinality(PassedIn(k, c, T)') <= Cardinality(PassedIn(k, c, AfterOpening(o))')
    BY <1>3, <2>1, FS_Subset
  <2> QED
    BY <1>2, <1>3, <1>5, <1>6, <2>2 DEF Bounded
<1>8. CASE t <= o
  <2> DEFINE B == PassedIn(k, c, BeforeOpening(o))'
             I == PassedIn(k, c, InWindow(o))'
  <2>1. PassedIn(k, c, T)' \subseteq B \cup I
    <3>1. \A s \in PassedIn(k, c, T)' :
             request'[s].charged[k] \in BeforeOpening(o) \/ request'[s].charged[k] \in InWindow(o)
      BY <1>2, <1>4, <1>8 DEF BeforeOpening, InWindow
    <3> QED
      BY <1>4, <3>1 DEF PassedIn, ChargedIn
  <2>2. IsFiniteSet(B) /\ IsFiniteSet(I) /\ Cardinality(B) \in Nat /\ Cardinality(I) \in Nat
    BY <1>3
  <2>3. IsFiniteSet(B \cup I) /\ Cardinality(B \cup I) <= Cardinality(B) + Cardinality(I)
    <3>1. /\ IsFiniteSet(B \cup I) /\ IsFiniteSet(B \cap I)
          /\ Cardinality(B \cup I) = Cardinality(B) + Cardinality(I) - Cardinality(B \cap I)
      BY <2>2, FS_Union, FS_Intersection
    <3>2. Cardinality(B \cap I) \in Nat
      BY <3>1, FS_CardinalityType
    <3> QED
      BY <2>2, <3>1, <3>2
  <2>4. Cardinality(PassedIn(k, c, T)') <= Cardinality(B \cup I)
    BY <2>1, <2>3, FS_Subset
  <2>5. Cardinality(B \cup I) \in Nat
    BY <2>3, FS_CardinalityType
  <2> QED
    BY <1>2, <1>3, <1>5, <1>6, <2>2, <2>3, <2>4, <2>5 DEF Bounded
<1> QED
  BY <1>2, <1>7, <1>8

LEMMA BoundedStep ==
    ASSUME TypeOK, IsFiniteSet(Begun), \A s \in Requests : Standing(s), Next,
           \A k \in Keys, c \in Clients : Windowed(k, c),
           \A k \in Keys, c \in Clients, t \in Nat : Bounded(k, c, t)
    PROVE  \A k \in Keys, c \in Clients, t \in Nat : Bounded(k, c, t)'
<1> SUFFICES ASSUME NEW j \in Keys, NEW d \in Clients, NEW t \in Nat PROVE Bounded(j, d, t)'
  OBVIOUS
<1> DEFINE T == t..(t + Window - 1)
<1>0. Bounded(j, d, t)
  OBVIOUS
<1>1. CASE Uncounted
  <2>1. PassedIn(j, d, T)' = PassedIn(j, d, T)
    BY <1>1, SetsUncounted
  <2> QED
    BY <1>0, <2>1 DEF Bounded
<1>2. ASSUME NEW r \in Requests, NEW k \in Keys, NEW v \in Verdicts, Counted(r, k, v)
      PROVE  Bounded(j, d, t)'
  <2> DEFINE c == request[r].client
  <2>1. c \in Clients /\ Standing(r)
    BY <1>2, NotCountedBefore DEF Counted
  <2>2. CASE j # k \/ d # c
    <3>1. PassedIn(j, d, T)' = PassedIn(j, d, T)
      BY <1>2, <2>1, <2>2, SetsElsewhere
    <3> QED
      BY <1>0, <3>1 DEF Bounded
  <2>3. CASE j = k /\ d = c /\ now \notin T
    <3>0. Counted(r, j, v) /\ request[r].client = d /\ now \notin T
      BY <1>2, <2>3
    <3> HIDE DEF T, c
    <3>1. Cardinality(PassedIn(j, d, T)') = Cardinality(PassedIn(j, d, T))
      BY <3>0, CardsCounted
    <3> QED
      BY <1>0, <3>1 DEF Bounded, T
  <2>4. CASE j = k /\ d = c /\ now \in T
    <3>1. Windowed(j, d)
      OBVIOUS
    <3> QED
      BY <1>2, <2>4, <3>1, BoundedNow
  <2> QED
    BY <2>2, <2>3, <2>4
<1> QED
  BY <1>1, <1>2, CountsOrNot

-----------------------------------------------------------------------------
\* The request that is refused finds the limit spent in the window that refuses it.
LEMMA EarnedNow ==
    ASSUME TypeOK, IsFiniteSet(Begun), \A s \in Requests : Standing(s) /\ Standing(s)',
           NEW r \in Requests, NEW k \in Keys, Counted(r, k, "refused"),
           NEW c \in Clients, request[r].client = c, Windowed(k, c), NEW t, t = now
    PROVE  Cardinality(SpentIn(k, c, (t - Window + 1)..t)') >= Limit[k]
<1> DEFINE I == (t - Window + 1)..t
<1>0. "refused" \in Verdicts
  BY DEF Verdicts
<1>1. PICK o \in 0..now : WindowHolds(k, c, o)' /\ now \in InWindow(o)
  BY <1>0, CountedWindow
<1>2. /\ t \in Nat /\ now' = t /\ o \in Nat /\ o <= t /\ t <= o + Window - 1
      /\ Window \in Nat /\ Limit[k] \in Nat
  BY <1>1, Constants DEF TypeOK, InWindow, Counted
<1>3. Capped(k, c)' = Limit[k]
  <2>1. bucket'[k][c] = Incremented(k, c) /\ Incremented(k, c).count > Limit[k]
    BY DEF Counted, TypeOK
  <2>2. Incremented(k, c).count \in Nat
    BY IncrementedType
  <2> QED
    BY <1>2, <2>1, <2>2 DEF Capped
<1>4. SpentIn(k, c, InWindow(o))' \subseteq SpentIn(k, c, I)'
  <2>1. \A s \in ChargedIn(k, c, InWindow(o))' : request'[s].charged[k] \in I
    <3>1. \A s \in ChargedIn(k, c, InWindow(o))' :
             request'[s].charged[k] \in Nat /\ request'[s].charged[k] <= t
             /\ request'[s].charged[k] >= o
      BY <1>2 DEF ChargedIn, Standing, InWindow
    <3> QED
      BY <1>2, <3>1
  <2> QED
    BY <2>1 DEF SpentIn, ChargedIn
<1>5. \A times : IsFiniteSet(SpentIn(k, c, times)') /\ Cardinality(SpentIn(k, c, times)') \in Nat
  BY <1>0, FiniteNext
<1>6. Cardinality(SpentIn(k, c, InWindow(o))') <= Cardinality(SpentIn(k, c, I)')
  BY <1>4, <1>5, FS_Subset
<1>7. Cardinality(SpentIn(k, c, InWindow(o))') >= Limit[k]
  BY <1>1, <1>3 DEF WindowHolds
<1>8. /\ Cardinality(SpentIn(k, c, InWindow(o))') \in Nat
      /\ Cardinality(SpentIn(k, c, I)') \in Nat
  BY <1>5
<1> HIDE DEF I
<1>9. Cardinality(SpentIn(k, c, I)') >= Limit[k]
  BY <1>2, <1>6, <1>7, <1>8
<1> QED
  BY <1>9 DEF I

\* What earned a refusal is never lost.
LEMMA EarnedStep ==
    ASSUME TypeOK, IsFiniteSet(Begun), \A s \in Requests : Standing(s) /\ Standing(s)', Next,
           \A k \in Keys, c \in Clients : Windowed(k, c),
           \A k \in Keys, r \in Requests : Earned(k, r)
    PROVE  \A k \in Keys, r \in Requests : Earned(k, r)'
<1> SUFFICES ASSUME NEW j \in Keys, NEW s \in Requests, NEW t \in Nat,
                    NEW d \in Clients \cup {NoClient},
                    j \in request'[s].refused, request'[s].charged[j] = t,
                    request'[s].client = d
             PROVE  Cardinality(SpentIn(j, d, (t - Window + 1)..t)') >= Limit[j]
  BY DEF Earned
<1> DEFINE I == (t - Window + 1)..t
<1>0. Standing(s) /\ Earned(j, s) /\ Limit[j] \in Nat
  BY Constants
<1>1. ASSUME j \in request[s].refused, request[s].charged[j] = t, request[s].client = d
      PROVE  Cardinality(SpentIn(j, d, I)) >= Limit[j]
  BY <1>0, <1>1 DEF Earned
<1>2. CASE Uncounted
  <2>1. SpentIn(j, d, I)' = SpentIn(j, d, I)
    BY <1>2, SetsUncounted
  <2>2. j \in request[s].refused /\ request[s].charged[j] = t
    BY <1>2 DEF Uncounted
  <2>3. request[s].client = d
    <3>1. Uncharged \notin Nat
      BY DEF Uncharged
    <3> QED
      BY <1>2, <2>2, <3>1 DEF Uncounted
  <2> QED
    BY <1>1, <2>1, <2>2, <2>3
<1>3. ASSUME NEW r \in Requests, NEW k \in Keys, NEW v \in Verdicts, Counted(r, k, v)
      PROVE  Cardinality(SpentIn(j, d, I)') >= Limit[j]
  <2> DEFINE c == request[r].client
  <2>1. c \in Clients /\ Standing(r) /\ now' = now
    BY <1>3, NotCountedBefore DEF Counted
  <2>2. CASE s = r
    <3>1. v = "refused" /\ j = k /\ d = c /\ t = now
      BY <1>3, <2>2 DEF Counted, Marked, TypeOK, RequestStates
    <3>2. Counted(r, j, "refused") /\ request[r].client = d /\ d \in Clients
      BY <1>3, <2>1, <3>1
    <3>3. Windowed(j, d)
      BY <3>2
    <3> QED
      BY <3>1, <3>2, <3>3, EarnedNow
  <2>3. CASE s # r
    <3>1. request'[s] = request[s]
      BY <1>3, <2>3 DEF Counted, Marked
    <3>2. Cardinality(SpentIn(j, d, I)) >= Limit[j]
      BY <1>1, <3>1
    <3>3. CASE j # k \/ d # c
      <4>1. SpentIn(j, d, I)' = SpentIn(j, d, I)
        BY <1>3, <2>1, <3>3, SetsElsewhere
      <4> QED
        BY <3>2, <4>1
    <3>4. CASE j = k /\ d = c
      <4>1. Counted(r, j, v) /\ request[r].client = d
        BY <1>3, <3>4
      <4> HIDE DEF I, c
      <4>2. Cardinality(SpentIn(j, d, I)') = Cardinality(SpentIn(j, d, I)) + 1
            \/ Cardinality(SpentIn(j, d, I)') = Cardinality(SpentIn(j, d, I))
        BY <4>1, CardsCounted
      <4>3. Cardinality(SpentIn(j, d, I)) \in Nat
        BY FiniteSets
      <4> QED
        BY <1>0, <3>2, <4>2, <4>3
    <3> QED
      BY <3>3, <3>4
  <2> QED
    BY <2>2, <2>3
<1> QED
  BY <1>2, <1>3, CountsOrNot

-----------------------------------------------------------------------------
\* An answered request is counted once, under its class.
LEMMA CountersStep ==
    ASSUME TypeOK, IsFiniteSet(Begun), IsFiniteSet(Begun'), \A s \in Requests : Standing(s),
           Next, \A l \in Labels : metrics[l] <= Cardinality(Countable(l))
    PROVE  \A l \in Labels : metrics'[l] <= Cardinality(Countable(l)')
<1> SUFFICES ASSUME NEW l \in Labels PROVE metrics'[l] <= Cardinality(Countable(l)')
  OBVIOUS
<1>0. metrics \in [Labels -> Nat] /\ request \in [Requests -> RequestStates]
  BY DEF TypeOK
<1>1. /\ IsFiniteSet(Countable(l)) /\ Cardinality(Countable(l)) \in Nat
      /\ IsFiniteSet(Countable(l)') /\ Cardinality(Countable(l)') \in Nat
  <2>1. Countable(l) \subseteq Begun /\ Countable(l)' \subseteq Begun'
    BY DEF Countable, Begun
  <2> QED
    BY <2>1, FS_Subset, FS_CardinalityType
<1>2. ASSUME metrics'[l] = metrics[l], Countable(l) \subseteq Countable(l)'
      PROVE  metrics'[l] <= Cardinality(Countable(l)')
  <2>1. Cardinality(Countable(l)) <= Cardinality(Countable(l)')
    BY <1>1, <1>2, FS_Subset
  <2>2. metrics[l] <= Cardinality(Countable(l)) /\ metrics[l] \in Nat
    BY <1>0
  <2> QED
    BY <1>1, <1>2, <2>1, <2>2
<1>3. ASSUME NEW r \in Requests, request[r].pc # "done",
             \A s \in Requests : s # r => request'[s] = request[s]
      PROVE  Countable(l) \subseteq Countable(l)' /\ r \notin Countable(l)
  BY <1>3 DEF Countable
<1>4. ASSUME NEW r \in Requests,
             Arrive(r) \/ (\E k \in Keys : Charge(r, k) \/ ChargeFails(r, k))
             \/ Serve(r) \/ Disconnect(r)
      PROVE  metrics'[l] <= Cardinality(Countable(l)')
  <2>1. request[r].pc # "done" /\ metrics' = metrics
    BY <1>4 DEF Arrive, Charge, ChargeFails, Serve, Disconnect, Keys
  <2>2. \A s \in Requests : s # r => request'[s] = request[s]
    BY <1>0, <1>4 DEF Arrive, Charge, ChargeFails, Serve, Disconnect, Becomes
  <2> QED
    BY <1>2, <1>3, <2>1, <2>2
<1>5. ASSUME NEW r \in Requests, Observe(r) PROVE metrics'[l] <= Cardinality(Countable(l)')
  <2>1. /\ request[r].pc = "observe"
        /\ request'[r] = [request[r] EXCEPT !.pc = "done"]
        /\ \A s \in Requests : s # r => request'[s] = request[s]
    BY <1>0, <1>5 DEF Observe, Becomes
  <2>2. Countable(l) \subseteq Countable(l)' /\ r \notin Countable(l)
    BY <1>3, <2>1
  <2>3. CASE metrics'[l] = metrics[l]
    BY <1>2, <2>2, <2>3
  <2>4. CASE metrics'[l] # metrics[l]
    <3>1. Counts(r) /\ metrics' = [metrics EXCEPT ![request[r].status] = @ + 1]
      BY <1>5, <2>4 DEF Observe
    <3>2. l = request[r].status /\ metrics'[l] = metrics[l] + 1
      BY <1>0, <2>4, <3>1
    <3>3. l = request[r].sent \/ (l = "5xx" /\ request[r].sent = "none")
      BY <3>2 DEF Standing
    <3>4. /\ request'[r].pc = "done" /\ request'[r].kind # "probe"
          /\ request'[r].sent = request[r].sent
      BY <1>0, <2>1, <3>1 DEF RequestStates, Counts
    <3>5. r \in Countable(l)'
      BY <3>3, <3>4 DEF Countable
    <3>6. /\ IsFiniteSet(Countable(l) \cup {r})
          /\ Cardinality(Countable(l) \cup {r}) = Cardinality(Countable(l)) + 1
      BY <1>1, <2>2, FS_AddElement
    <3>7. Countable(l) \cup {r} \subseteq Countable(l)'
      BY <2>2, <3>5
    <3>8. Cardinality(Countable(l)) + 1 <= Cardinality(Countable(l)')
      BY <1>1, <3>6, <3>7, FS_Subset
    <3>9. metrics[l] <= Cardinality(Countable(l)) /\ metrics[l] \in Nat
      BY <1>0
    <3> QED
      BY <1>1, <3>2, <3>8, <3>9
  <2> QED
    BY <2>3, <2>4
<1>6. CASE Tick
  <2>1. Countable(l)' = Countable(l) /\ metrics' = metrics
    BY <1>6 DEF Tick, Countable
  <2> QED
    BY <2>1
<1> QED
  BY <1>4, <1>5, <1>6 DEF Next

-----------------------------------------------------------------------------
LEMMA InitInvariant == Init => IInv
<1> SUFFICES ASSUME Init PROVE IInv
  OBVIOUS
<1>0. TypeOK /\ \A r \in Requests : Standing(r)
  BY InitType, InitStanding
<1>1. /\ \A r \in Requests : request[r] = NewRequest
      /\ bucket = [k \in Keys |-> [c \in Clients |-> NoBucket]]
      /\ metrics = [l \in Labels |-> 0]
  BY DEF Init
<1>2. \A r \in Requests : /\ request[r].pc = "arrive" /\ request[r].refused = {}
                          /\ \A k \in Keys : request[r].charged[k] = Uncharged
  BY <1>1 DEF NewRequest
<1>3. IsFiniteSet(Begun) /\ IsFiniteSet({}) /\ Cardinality({}) = 0
  <2>1. Begun = {}
    BY <1>2 DEF Begun
  <2> QED
    BY <2>1, FS_EmptySet
<1>4. \A k, c, times : k \in Keys => ChargedIn(k, c, times) = {}
  <2>1. Uncharged \notin Nat
    BY DEF Uncharged
  <2> QED
    BY <1>2, <2>1 DEF ChargedIn
<1>5. \A k \in Keys, c \in Clients : Windowed(k, c)
  BY <1>1, <1>4 DEF Windowed, NoBucket
<1>6. \A k \in Keys, c \in Clients, t \in Nat : Bounded(k, c, t)
  <2> TAKE k \in Keys, c \in Clients, t \in Nat
  <2>1. PassedIn(k, c, t..(t + Window - 1)) = {}
    BY <1>4 DEF PassedIn
  <2>2. Limit[k] \in Nat /\ Limit[k] >= 1
    BY Constants
  <2> QED
    <3>1. Cardinality(PassedIn(k, c, t..(t + Window - 1))) = 0
      BY <1>3, <2>1
    <3>2. 0 < 2 * Limit[k]
      BY <2>2
    <3> QED
      BY <3>1, <3>2 DEF Bounded
<1>7. \A k \in Keys, r \in Requests : Earned(k, r)
  BY <1>2 DEF Earned
<1>8. \A l \in Labels : metrics[l] <= Cardinality(Countable(l))
  <2> TAKE l \in Labels
  <2>1. Countable(l) = {} /\ metrics[l] = 0
    BY <1>1, <1>2 DEF Countable
  <2> QED
    BY <1>3, <2>1
<1> QED
  BY <1>0, <1>3, <1>5, <1>6, <1>7, <1>8 DEF IInv

LEMMA StepInvariant == IInv /\ [Next]_vars => IInv'
<1>1. ASSUME IInv, Next PROVE IInv'
  <2>1. /\ TypeOK /\ IsFiniteSet(Begun) /\ \A r \in Requests : Standing(r)
        /\ \A k \in Keys, c \in Clients : Windowed(k, c)
        /\ \A k \in Keys, c \in Clients, t \in Nat : Bounded(k, c, t)
        /\ \A k \in Keys, r \in Requests : Earned(k, r)
        /\ \A l \in Labels : metrics[l] <= Cardinality(Countable(l))
    BY <1>1 DEF IInv
  <2>2. TypeOK'
    BY <1>1, <2>1, StepType
  <2>3. IsFiniteSet(Begun')
    BY <1>1, <2>1, BegunStep
  <2>4. \A r \in Requests : Standing(r)'
    BY <1>1, <2>1, StandingStep
  <2>5. \A k \in Keys, c \in Clients : Windowed(k, c)'
    BY <1>1, <2>1, WindowedStep
  <2>6. \A k \in Keys, c \in Clients, t \in Nat : Bounded(k, c, t)'
    BY <1>1, <2>1, BoundedStep
  <2>7. \A k \in Keys, r \in Requests : Earned(k, r)'
    BY <1>1, <2>1, <2>4, EarnedStep
  <2>8. \A l \in Labels : metrics'[l] <= Cardinality(Countable(l)')
    BY <1>1, <2>1, <2>3, CountersStep
  <2> QED
    BY <2>2, <2>3, <2>4, <2>5, <2>6, <2>7, <2>8 DEF IInv
<1>2. ASSUME IInv, UNCHANGED vars PROVE IInv'
  <2>1. now' = now /\ bucket' = bucket /\ metrics' = metrics /\ request' = request
    BY <1>2 DEF vars
  <2>2. TypeOK' /\ Begun' = Begun /\ \A r \in Requests : Standing(r)'
    BY <1>2, <2>1 DEF IInv, TypeOK, Begun, Standing
  <2>3. \A k, c, times : /\ ChargedIn(k, c, times)' = ChargedIn(k, c, times)
                         /\ PassedIn(k, c, times)' = PassedIn(k, c, times)
                         /\ SpentIn(k, c, times)' = SpentIn(k, c, times)
    BY <2>1 DEF ChargedIn, PassedIn, SpentIn
  <2>4. \A k, c : Capped(k, c)' = Capped(k, c)
    BY <2>1 DEF Capped
  <2>5. \A k \in Keys, c \in Clients : Windowed(k, c)'
    <3>1. \A k, c, o : WindowHolds(k, c, o)' <=> WindowHolds(k, c, o)
      BY <2>1, <2>3, <2>4 DEF WindowHolds
    <3> QED
      BY <1>2, <2>1, <2>3, <3>1 DEF IInv, Windowed
  <2>6. \A k \in Keys, c \in Clients, t \in Nat : Bounded(k, c, t)'
    BY <1>2, <2>1, <2>3 DEF IInv, Bounded
  <2>7. \A k \in Keys, r \in Requests : Earned(k, r)'
    BY <1>2, <2>1, <2>3 DEF IInv, Earned
  <2>8. \A l \in Labels : metrics'[l] <= Cardinality(Countable(l)')
    BY <1>2, <2>1 DEF IInv, Countable
  <2> QED
    BY <1>2, <2>2, <2>5, <2>6, <2>7, <2>8 DEF IInv
<1> QED
  BY <1>1, <1>2

\* One invariant carries the limits, the refusals and the counters through every step.
THEOREM Inductive == Spec => []IInv
  BY InitInvariant, StepInvariant, PTL DEF Spec

\* Whatever the limits, the length of the window and the requests: no stretch of time
\* as long as a window lets an address through twice the limit (the INCREMENT script).
THEOREM WindowLimitHolds == Spec => []WindowLimit
<1>1. IInv => WindowLimit
  BY DEF IInv, Bounded, PassedIn, WindowLimit
<1> QED
  BY <1>1, Inductive, PTL

\* No request is refused but after as many as the limit that were not (allow()).
THEOREM RefusalEarned == Spec => []RefusalIsEarned
<1>1. IInv => RefusalIsEarned
  <2> SUFFICES ASSUME IInv, NEW k \in Keys, NEW r \in Requests, k \in request[r].refused
               PROVE  Cardinality(SpentIn(k, request[r].client,
                          (request[r].charged[k] - Window + 1)..request[r].charged[k]))
                        >= Limit[k]
    BY DEF RefusalIsEarned, SpentIn
  <2>1. request[r].charged[k] \in Nat /\ request[r].client \in Clients \cup {NoClient}
    BY DEF IInv, Standing, TypeOK, RequestStates
  <2> QED
    BY <2>1 DEF IInv, Earned
<1> QED
  BY <1>1, Inductive, PTL

\* No class of answers is counted more often than it was given (observe()).
THEOREM MetricsHold == Spec => []MetricsReflectAnswers
<1>1. IInv => MetricsReflectAnswers
  BY DEF IInv, Countable, MetricsReflectAnswers
<1> QED
  BY <1>1, Inductive, PTL
=============================================================================
