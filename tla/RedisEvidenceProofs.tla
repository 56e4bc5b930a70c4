------------------------ MODULE RedisEvidenceProofs ------------------------
(***************************************************************************)
(* Proofs about RedisEvidence, for any number of workers and of attempts.  *)
(* In the first part, up to the refinement of EvidenceService, Apply and   *)
(* Status are opaque: what counts is which record an operation was         *)
(* computed on.  The second part opens them: every operation leaves a      *)
(* record that tells one story, so the service's record does, and with it  *)
(* the Redis store's.  The third part counts the answers against it.       *)
(***************************************************************************)
EXTENDS RedisEvidence, SequenceTheorems, FiniteSetTheorems, TLAPS

CallStates == [op : Calls \cup {[kind |-> "none"]}, since : Nat, reply : Replies]

\* The fields of a transaction.
IsTxn(t) ==
    /\ t = [pc |-> t.pc, tries |-> t.tries, dirty |-> t.dirty, draft |-> t.draft,
            status |-> t.status, overtaken |-> t.overtaken, unheard |-> t.unheard]
    /\ t.pc \in {"idle", "watch", "read", "exec"} /\ t.tries \in 0..MaxTries
    /\ t.dirty \in BOOLEAN /\ t.overtaken \in Nat /\ t.unheard \in Seq(Replies)

Typed ==
    /\ now \in 0..MaxTime /\ deadline = Ttl
    /\ call \in [Callers -> CallStates]
    /\ broken \in [Callers -> Nat]
    /\ txn = [w \in Callers |-> txn[w]]
    /\ \A w \in Callers : IsTxn(txn[w])

\* A transaction lasts as long as its call, which began in the past.
Accompanies(w) ==
    /\ txn[w].pc # "idle" <=> Pending(w)
    /\ txn[w].pc = "idle" => txn[w].tries = 0
    /\ call[w].since <= now

\* A draft that EXEC could publish was computed on the record as it is, with a
\* clock read since the call began.
CleanDraft(w) ==
    (txn[w].pc = "exec" /\ ~txn[w].dirty) =>
        \E clock \in Clocks(w) :
            /\ txn[w].draft = Apply(record, call[w].op, clock)
            /\ txn[w].status = Status(record, call[w].op, clock)

\* What can have used up the attempts of a call while the record lived: writes of
\* others, unheard writes of its own, and broken connections.
Wasted(w) == txn[w].overtaken + Len(txn[w].unheard) + broken[w]

Progress(w) ==
    Alive =>
        /\ txn[w].pc = "watch" => Wasted(w) >= txn[w].tries
        /\ txn[w].pc \in {"read", "exec"} =>
              Wasted(w) >= IF txn[w].dirty THEN txn[w].tries ELSE txn[w].tries - 1
        /\ call[w].reply = "error" => Wasted(w) >= MaxTries

CallInv(w) == Accompanies(w) /\ CleanDraft(w) /\ Progress(w)

IInv == Typed /\ \A w \in Callers : CallInv(w)

-----------------------------------------------------------------------------
USE TriesAssumption, ServiceAssumption, RecordAssumption

\* The record with the fields given is a transaction and has these fields.
LEMMA TxnRecord ==
    ASSUME NEW pc \in {"idle", "watch", "read", "exec"}, NEW tries \in 0..MaxTries,
           NEW dirty \in BOOLEAN, NEW draft, NEW status, NEW overtaken \in Nat,
           NEW unheard \in Seq(Replies), NEW t,
           t = [pc |-> pc, tries |-> tries, dirty |-> dirty, draft |-> draft,
                status |-> status, overtaken |-> overtaken, unheard |-> unheard]
    PROVE  /\ IsTxn(t) /\ t.pc = pc /\ t.tries = tries /\ (t.dirty <=> dirty)
           /\ t.draft = draft /\ t.status = status /\ t.overtaken = overtaken
           /\ t.unheard = unheard /\ Len(t.unheard) = Len(unheard) /\ Len(unheard) \in Nat
  BY DEF IsTxn

LEMMA StatusIsReply ==
    \A r, op, clock :
        Status(r, op, clock) \in Replies \ {"none", "pending", "error", "down"}
  BY DEF Status, Replies

\* A transaction is the record of its fields.
LEMMA TxnFields ==
    ASSUME NEW w \in Callers, IsTxn(txn[w])
    PROVE  /\ txn[w] = [pc |-> txn[w].pc, tries |-> txn[w].tries,
                        dirty |-> txn[w].dirty, draft |-> txn[w].draft,
                        status |-> txn[w].status, overtaken |-> txn[w].overtaken,
                        unheard |-> txn[w].unheard]
           /\ txn[w].pc \in {"idle", "watch", "read", "exec"}
           /\ txn[w].tries \in 0..MaxTries /\ txn[w].dirty \in BOOLEAN
           /\ txn[w].overtaken \in Nat /\ txn[w].unheard \in Seq(Replies)
           /\ Len(txn[w].unheard) \in Nat
  BY DEF IsTxn

\* No update moves the record's deadline, so its key lives as long as the record.
LEMMA KeyIsAlive == IInv => (KeyLives <=> Alive)
  BY DEF IInv, Typed, KeyLives, Never, Alive

LEMMA InitInv == RInit => IInv
<1> SUFFICES ASSUME RInit PROVE IInv
  OBVIOUS
<1>1. /\ now = 0 /\ call = [w \in Callers |-> NoCall]
      /\ txn = [w \in Callers |-> NoTxn] /\ deadline = Ttl
      /\ broken = [w \in Callers |-> 0]
  BY DEF RInit, Init
<1>2. IsTxn(NoTxn) /\ NoCall \in CallStates
  BY DEF NoTxn, NoCall, CallStates, Replies, IsTxn
<1>3. Typed
  BY <1>1, <1>2 DEF Typed
<1>4. \A w \in Callers : CallInv(w)
  BY <1>1 DEF CallInv, Accompanies, CleanDraft, Progress, NoTxn, NoCall, Pending
<1> QED
  BY <1>3, <1>4 DEF IInv

\* Nothing about a call changes if its transaction, the record and the time stay.
LEMMA Bystander ==
    ASSUME NEW u \in Callers, CallInv(u), txn'[u] = txn[u], call'[u] = call[u],
           broken'[u] = broken[u], record' = record, now' = now
    PROVE  CallInv(u)'
<1>1. Clocks(u)' = Clocks(u) /\ Alive' = Alive /\ Pending(u)' = Pending(u)
  BY DEF Clocks, Alive, Pending
<1>2. Accompanies(u)'
  BY <1>1 DEF CallInv, Accompanies
<1>3. CleanDraft(u)'
  BY <1>1 DEF CallInv, CleanDraft
<1>4. Progress(u)'
  BY <1>1 DEF CallInv, Progress, Wasted
<1> QED
  BY <1>2, <1>3, <1>4 DEF CallInv

\* Only caller w's count of broken connections may change.
OwnBreaks(w) ==
    /\ deadline' = deadline /\ broken' \in [Callers -> Nat]
    /\ \A u \in Callers \ {w} : broken'[u] = broken[u]

\* A step of caller w that leaves the record and the others alone, and moves its
\* own transaction to t and its call to c.
LEMMA OwnStep ==
    ASSUME IInv, NEW w \in Callers, NEW t, NEW c \in CallStates, IsTxn(t),
           txn' = [txn EXCEPT ![w] = t], call' = [call EXCEPT ![w] = c],
           record' = record, now' = now, OwnBreaks(w),
           (txn'[w] = t /\ call'[w] = c) => CallInv(w)'
    PROVE  IInv'
<1>1. /\ txn' = [u \in Callers |-> txn'[u]] /\ txn'[w] = t
      /\ \A u \in Callers \ {w} : txn'[u] = txn[u]
  BY DEF IInv, Typed
<1>2. /\ call' \in [Callers -> CallStates] /\ call'[w] = c
      /\ \A u \in Callers \ {w} : call'[u] = call[u]
  BY DEF IInv, Typed
<1>3. Typed'
  BY <1>1, <1>2 DEF IInv, Typed, OwnBreaks
<1>4. \A u \in Callers \ {w} : CallInv(u)'
  BY <1>1, <1>2, Bystander DEF IInv, OwnBreaks
<1> QED
  BY <1>1, <1>2, <1>3, <1>4 DEF IInv

\* A step that publishes the draft of caller w: the others are touched.
LEMMA Publishing ==
    ASSUME IInv, NEW w \in Callers, NEW t, NEW c \in CallStates, IsTxn(t),
           txn' = Touched(w, t), call' = [call EXCEPT ![w] = c], now' = now,
           deadline' = deadline, broken' = broken,
           (txn'[w] = t /\ call'[w] = c) => CallInv(w)'
    PROVE  IInv'
<1>1. /\ txn' = [u \in Callers |-> txn'[u]] /\ txn'[w] = t
      /\ \A u \in Callers \ {w} :
            txn'[u] = [txn[u] EXCEPT !.dirty = @ \/ txn[u].pc \in {"read", "exec"},
                                     !.overtaken = IF txn[u].pc = "idle" THEN @ ELSE @ + 1]
  BY DEF Touched
<1>2. /\ call' \in [Callers -> CallStates] /\ call'[w] = c
      /\ \A u \in Callers \ {w} : call'[u] = call[u]
  BY DEF IInv, Typed
<1>3. \A u \in Callers \ {w} : IsTxn(txn'[u]) /\ CallInv(u)'
  <2> SUFFICES ASSUME NEW u \in Callers \ {w} PROVE IsTxn(txn'[u]) /\ CallInv(u)'
    OBVIOUS
  <2>1. IsTxn(txn[u]) /\ CallInv(u)
    BY DEF IInv, Typed
  <2> DEFINE dirty == txn[u].dirty \/ txn[u].pc \in {"read", "exec"}
             overtaken == IF txn[u].pc = "idle" THEN txn[u].overtaken
                                               ELSE txn[u].overtaken + 1
  <2>7. txn[u] = [pc |-> txn[u].pc, tries |-> txn[u].tries, dirty |-> txn[u].dirty,
                  draft |-> txn[u].draft, status |-> txn[u].status,
                  overtaken |-> txn[u].overtaken, unheard |-> txn[u].unheard]
    BY <2>1 DEF IsTxn
  <2>8. txn'[u] = [pc |-> txn[u].pc, tries |-> txn[u].tries, dirty |-> dirty,
                   draft |-> txn[u].draft, status |-> txn[u].status,
                   overtaken |-> overtaken, unheard |-> txn[u].unheard]
    BY <1>1, <2>7, Zenon
  <2>9. dirty \in BOOLEAN /\ overtaken \in Nat
    BY <2>1 DEF IsTxn
  <2> HIDE DEF dirty, overtaken
  <2>2. /\ txn'[u].pc = txn[u].pc /\ txn'[u].tries = txn[u].tries
        /\ txn'[u].dirty <=> dirty
        /\ txn'[u].unheard = txn[u].unheard /\ txn'[u].overtaken = overtaken
        /\ IsTxn(txn'[u])
    BY <2>1, <2>8, <2>9, TxnRecord DEF IsTxn
  <2>3. Accompanies(u)'
    BY <1>2, <2>1, <2>2 DEF CallInv, Accompanies, Pending
  <2> USE DEF dirty, overtaken
  <2>4. CleanDraft(u)'
    BY <2>2 DEF CleanDraft
  <2>5. /\ Len(txn[u].unheard) \in Nat /\ txn[u].overtaken \in Nat /\ txn[u].tries \in Nat
        /\ broken[u] \in Nat
    BY <2>1 DEF IsTxn, IInv, Typed
  <2>6. Progress(u)'
    <3>1. Wasted(u)' = overtaken + Len(txn[u].unheard) + broken[u] /\ Alive' = Alive
      BY <2>2 DEF Wasted, Alive
    <3>2. /\ txn'[u].pc = txn[u].pc /\ txn'[u].tries = txn[u].tries
          /\ txn'[u].dirty <=> dirty
          /\ call'[u].reply = call[u].reply
          /\ Wasted(u) = txn[u].overtaken + Len(txn[u].unheard) + broken[u]
          /\ Progress(u)
      BY <1>2, <2>1, <2>2 DEF CallInv, Wasted
    <3>6. /\ Wasted(u) \in Nat /\ Wasted(u)' \in Nat
          /\ overtaken = txn[u].overtaken => Wasted(u)' = Wasted(u)
          /\ overtaken = txn[u].overtaken + 1 => Wasted(u)' = Wasted(u) + 1
      <4> HIDE DEF overtaken
      <4>1. PICK a \in Nat, b \in Nat, e \in Nat, d \in Nat :
               a = txn[u].overtaken /\ b = Len(txn[u].unheard) /\ e = broken[u] /\ d = overtaken
        BY <2>5, <2>9
      <4>2. PICK x \in Nat, y \in Nat :
               /\ x = a + b + e /\ y = d + b + e
               /\ d = a => y = x
               /\ d = a + 1 => y = x + 1
        OBVIOUS
      <4>3. Wasted(u)' = d + b + e /\ Wasted(u) = a + b + e
        BY <3>1, <3>2, <4>1
      <4>4. Wasted(u)' = y /\ Wasted(u) = x
        BY ONLY <4>2, <4>3
      <4> QED
        BY ONLY <4>1, <4>2, <4>4
    <3>7. Wasted(u)' >= Wasted(u)
      BY <2>5, <3>6
    <3>3. CASE txn[u].pc = "idle"
      BY <3>1, <3>2, <3>3, <3>6, <3>7 DEF Progress
    <3>4. CASE txn[u].pc = "watch"
      BY <2>5, <3>1, <3>2, <3>4, <3>6, <3>7 DEF Progress
    <3>5. CASE txn[u].pc \in {"read", "exec"}
      <4>1. dirty /\ overtaken = txn[u].overtaken + 1
        BY <3>5
      <4>2. Alive => Wasted(u) >= txn[u].tries - 1
        BY <2>5, <3>2, <3>5 DEF Progress
      <4>3. call[u].reply # "error"
        BY <2>1, <3>5 DEF CallInv, Accompanies, Pending
      <4> HIDE DEF dirty, overtaken
      <4>6. Wasted(u)' = Wasted(u) + 1
        BY <3>6, <4>1
      <4>4. Alive' => Wasted(u)' >= txn[u].tries
        BY <2>5, <3>1, <3>6, <4>2, <4>6
      <4>5. /\ txn'[u].dirty /\ call'[u].reply # "error" /\ txn'[u].pc # "watch"
            /\ txn'[u].tries = txn[u].tries
        BY <3>2, <3>5, <4>1, <4>3
      <4> QED
        BY <4>4, <4>5 DEF Progress
    <3> QED
      BY <2>1, <3>3, <3>4, <3>5 DEF IsTxn
  <2> QED
    BY <2>2, <2>3, <2>4, <2>6 DEF CallInv
<1>4. Typed'
  BY <1>1, <1>2, <1>3 DEF IInv, Typed
<1> QED
  BY <1>1, <1>2, <1>3, <1>4 DEF IInv

\* A call that is answered by a step which is over with it.
LEMMA CallAnswered ==
    ASSUME Typed, NEW w \in Callers, NEW reply \in Replies, Answered(w, reply)
    PROVE  /\ [call[w] EXCEPT !.reply = reply] \in CallStates
           /\ call' = [call EXCEPT ![w] = [call[w] EXCEPT !.reply = reply]]
           /\ [call[w] EXCEPT !.reply = reply].reply = reply
           /\ [call[w] EXCEPT !.reply = reply].since = call[w].since
  BY DEF Typed, CallStates, Answered

\* A transaction that is over.
LEMMA OverTxn ==
    ASSUME NEW w \in Callers, IsTxn(txn[w])
    PROVE  /\ IsTxn(Over(w)) /\ Over(w).pc = "idle" /\ Over(w).tries = 0
           /\ Over(w).overtaken = txn[w].overtaken /\ Over(w).unheard = txn[w].unheard
<1>0. txn[w] = [pc |-> txn[w].pc, tries |-> txn[w].tries, dirty |-> txn[w].dirty,
              draft |-> txn[w].draft, status |-> txn[w].status,
              overtaken |-> txn[w].overtaken, unheard |-> txn[w].unheard]
  BY DEF IsTxn
<1>1. Over(w) = [pc |-> "idle", tries |-> 0, dirty |-> FALSE, draft |-> << >>,
                 status |-> "none", overtaken |-> txn[w].overtaken,
                 unheard |-> txn[w].unheard]
  <2>1. Over(w) = [txn[w] EXCEPT !.pc = "idle", !.tries = 0, !.dirty = FALSE,
                                 !.draft = << >>, !.status = "none"]
    BY DEF Over
  <2> QED
    BY <1>0, <2>1, Zenon
<1>2. /\ Over(w).pc = "idle" /\ Over(w).tries = 0 /\ ~Over(w).dirty
      /\ Over(w).draft = << >> /\ Over(w).status = "none"
      /\ Over(w).overtaken = txn[w].overtaken /\ Over(w).unheard = txn[w].unheard
  BY <1>1
<1>3. IsTxn(Over(w))
  BY <1>1, <1>2, TxnFields DEF IsTxn
<1> QED
  BY <1>2, <1>3

LEMMA BeginInv == ASSUME IInv, NEW w \in Callers, RBegin(w) PROVE IInv'
<1>1. PICK op \in Calls : call' = [call EXCEPT ![w] =
          [op |-> op, since |-> now, reply |-> "pending"]]
  BY DEF RBegin, Begin
<1> DEFINE c == [op |-> op, since |-> now, reply |-> "pending"]
           t == [txn[w] EXCEPT !.pc = "watch"]
<1>2. /\ IsTxn(txn[w]) /\ now \in Nat /\ CallInv(w) /\ call[w].reply = "none"
      /\ broken[w] \in Nat /\ broken' = broken /\ OwnBreaks(w)
  BY DEF IInv, Typed, RBegin, Begin, OwnBreaks
<1>3. txn[w].pc = "idle" /\ txn[w].tries = 0
  BY <1>2 DEF CallInv, Accompanies, Pending
<1>4. c \in CallStates /\ c.since = now /\ c.reply = "pending"
  BY <1>2 DEF CallStates, Replies
<1>0. txn[w] = [pc |-> txn[w].pc, tries |-> txn[w].tries, dirty |-> txn[w].dirty,
              draft |-> txn[w].draft, status |-> txn[w].status,
              overtaken |-> txn[w].overtaken, unheard |-> txn[w].unheard]
  BY <1>2 DEF IsTxn
<1>5. t = [pc |-> "watch", tries |-> txn[w].tries, dirty |-> txn[w].dirty,
           draft |-> txn[w].draft, status |-> txn[w].status,
           overtaken |-> txn[w].overtaken, unheard |-> txn[w].unheard]
  <2>1. t = [txn[w] EXCEPT !.pc = "watch"]
    OBVIOUS
  <2> HIDE DEF t
  <2> QED
    BY <1>0, <2>1, Zenon
<1>6. /\ t.pc = "watch" /\ t.tries = txn[w].tries /\ (t.dirty <=> txn[w].dirty)
      /\ t.overtaken = txn[w].overtaken /\ t.unheard = txn[w].unheard
  BY <1>5
<1>7. IsTxn(t)
  BY <1>2, <1>5, <1>6 DEF IsTxn
<1>8. txn' = [txn EXCEPT ![w] = t] /\ call' = [call EXCEPT ![w] = c]
      /\ record' = record /\ now' = now
  BY <1>1 DEF RBegin, Begin
<1> HIDE DEF c, t
<1>9. (txn'[w] = t /\ call'[w] = c) => CallInv(w)'
  <2> SUFFICES ASSUME txn'[w] = t, call'[w] = c PROVE CallInv(w)'
    OBVIOUS
  <2>1. Wasted(w)' = txn[w].overtaken + Len(txn[w].unheard) + broken[w] /\ Wasted(w)' >= 0
    BY <1>2, <1>6 DEF Wasted, IsTxn
  <2>2. txn'[w].pc = "watch" /\ txn'[w].tries = 0 /\ call'[w].reply = "pending"
        /\ call'[w].since = now /\ now' = now
    BY <1>3, <1>4, <1>6, <1>8
  <2> QED
    BY <1>2, <2>1, <2>2 DEF CallInv, Accompanies, CleanDraft, Progress, Pending
<1> QED
  BY <1>2, <1>4, <1>7, <1>8, <1>9, OwnStep

LEMMA WatchInv == ASSUME IInv, NEW w \in Callers, Watch(w) PROVE IInv'
<1> DEFINE t == [txn[w] EXCEPT !.pc = "read", !.tries = @ + 1, !.dirty = FALSE]
<1>1. /\ IsTxn(txn[w]) /\ CallInv(w) /\ call[w] \in CallStates
      /\ txn[w].pc = "watch" /\ txn[w].tries < MaxTries /\ now' = now
      /\ broken' = broken /\ OwnBreaks(w)
  BY DEF IInv, Typed, Watch, OwnBreaks
<1>0. txn[w] = [pc |-> txn[w].pc, tries |-> txn[w].tries, dirty |-> txn[w].dirty,
              draft |-> txn[w].draft, status |-> txn[w].status,
              overtaken |-> txn[w].overtaken, unheard |-> txn[w].unheard]
  BY <1>1 DEF IsTxn
<1>2. t = [pc |-> "read", tries |-> txn[w].tries + 1, dirty |-> FALSE,
           draft |-> txn[w].draft, status |-> txn[w].status,
           overtaken |-> txn[w].overtaken, unheard |-> txn[w].unheard]
  <2>1. t = [txn[w] EXCEPT !.pc = "read", !.tries = txn[w].tries + 1, !.dirty = FALSE]
    OBVIOUS
  <2> HIDE DEF t
  <2> QED
    BY <1>0, <2>1, Zenon
<1>3. /\ t.pc = "read" /\ t.tries = txn[w].tries + 1 /\ ~t.dirty
      /\ t.overtaken = txn[w].overtaken /\ t.unheard = txn[w].unheard
  BY <1>2
<1>4. IsTxn(t)
  BY <1>1, <1>2, <1>3 DEF IsTxn
<1>5. txn' = [txn EXCEPT ![w] = t]
  BY DEF Watch, Typed, IInv
<1>6. call' = [call EXCEPT ![w] = call[w]] /\ record' = record /\ call' = call
  BY DEF Watch, IInv, Typed
<1> HIDE DEF t
<1>7. (txn'[w] = t /\ call'[w] = call[w]) => CallInv(w)'
  <2> SUFFICES ASSUME txn'[w] = t, call'[w] = call[w] PROVE CallInv(w)'
    OBVIOUS
  <2>1. Wasted(w)' = Wasted(w) /\ Alive' = Alive
    BY <1>1, <1>3 DEF Wasted, Alive
  <2>2. /\ txn'[w].pc = "read" /\ txn'[w].tries = txn[w].tries + 1 /\ ~txn'[w].dirty
        /\ call'[w].reply = "pending"
    BY <1>1, <1>3 DEF CallInv, Accompanies, Pending
  <2>3. Alive => Wasted(w) >= txn[w].tries
    BY <1>1 DEF CallInv, Progress
  <2>4. Progress(w)'
    BY <1>1, <2>1, <2>2, <2>3 DEF Progress, IsTxn
  <2> QED
    BY <1>1, <2>2, <2>4 DEF CallInv, Accompanies, CleanDraft, Pending
<1> QED
  BY <1>1, <1>4, <1>5, <1>6, <1>7, OwnStep

\* A call that ends with a reply, its transaction over.
LEMMA AnsweredInv ==
    ASSUME IInv, NEW w \in Callers, NEW reply \in Replies \ {"none", "pending"},
           txn[w].pc # "idle", txn'[w] = Over(w),
           call'[w] = [call[w] EXCEPT !.reply = reply], now' = now, broken' = broken,
           (reply = "error" /\ Alive) => Wasted(w) >= MaxTries
    PROVE  CallInv(w)'
<1>1. IsTxn(txn[w]) /\ CallInv(w) /\ call[w] \in CallStates
  BY DEF IInv, Typed
<1>2. call'[w].reply = reply /\ call'[w].since = call[w].since
  BY <1>1 DEF CallStates
<1>3. /\ txn'[w].pc = "idle" /\ txn'[w].tries = 0
      /\ txn'[w].overtaken = txn[w].overtaken /\ txn'[w].unheard = txn[w].unheard
  BY <1>1, OverTxn
<1>4. Wasted(w)' = Wasted(w) /\ Alive' = Alive
  BY <1>3 DEF Wasted, Alive
<1>5. Progress(w)'
  BY <1>2, <1>3, <1>4 DEF Progress
<1> QED
  BY <1>1, <1>2, <1>3, <1>5 DEF CallInv, Accompanies, CleanDraft, Pending

\* A call that ends without writing.
LEMMA EndedInv ==
    ASSUME IInv, NEW w \in Callers, NEW reply \in Replies \ {"none", "pending"},
           txn[w].pc # "idle", txn' = [txn EXCEPT ![w] = Over(w)], Answered(w, reply),
           record' = record, now' = now, deadline' = deadline, broken' = broken,
           (reply = "error" /\ Alive) => Wasted(w) >= MaxTries
    PROVE  IInv'
<1> DEFINE c == [call[w] EXCEPT !.reply = reply]
           t == Over(w)
<1>1. c \in CallStates /\ call' = [call EXCEPT ![w] = c]
  BY CallAnswered DEF IInv
<1>2. IsTxn(t)
  BY OverTxn DEF IInv, Typed
<1>3. (txn'[w] = t /\ call'[w] = c) => CallInv(w)'
  BY AnsweredInv
<1>4. txn' = [txn EXCEPT ![w] = t] /\ OwnBreaks(w)
  BY DEF OwnBreaks, IInv, Typed
<1> HIDE DEF c, t
<1> QED
  BY <1>1, <1>2, <1>3, <1>4, OwnStep

LEMMA ReadGoneInv ==
    ASSUME IInv, NEW w \in Callers, Read(w), ~Alive PROVE IInv'
<1>1. /\ txn[w].pc # "idle" /\ txn' = [txn EXCEPT ![w] = Over(w)]
      /\ Answered(w, "gone") /\ record' = record /\ now' = now
      /\ deadline' = deadline /\ broken' = broken
  BY KeyIsAlive DEF Read
<1>2. "gone" \in Replies \ {"none", "pending"}
  BY DEF Replies
<1> QED
  BY <1>1, <1>2, EndedInv

LEMMA ExhaustInv == ASSUME IInv, NEW w \in Callers, Exhaust(w) PROVE IInv'
<1>1. /\ txn[w].pc = "watch" /\ txn[w].tries = MaxTries
      /\ txn' = [txn EXCEPT ![w] = Over(w)]
      /\ Answered(w, "error") /\ record' = record /\ now' = now
      /\ deadline' = deadline /\ broken' = broken
  BY DEF Exhaust
<1>2. "error" \in Replies \ {"none", "pending"}
  BY DEF Replies
<1>3. Alive => Wasted(w) >= MaxTries
  BY <1>1 DEF IInv, CallInv, Progress
<1>4. txn[w].pc # "idle"
  BY <1>1
<1> QED
  BY <1>1, <1>2, <1>3, <1>4, EndedInv

LEMMA FailInv == ASSUME IInv, NEW w \in Callers, Fail(w) PROVE IInv'
<1>1. /\ txn[w].pc # "idle" /\ txn' = [txn EXCEPT ![w] = Over(w)]
      /\ Answered(w, "down") /\ record' = record /\ now' = now
      /\ deadline' = deadline /\ broken' = broken
  BY DEF Fail
<1>2. "down" \in Replies \ {"none", "pending"}
  BY DEF Replies
<1> QED
  BY <1>1, <1>2, EndedInv

\* A step that moves the own transaction only.
LEMMA MoveInv ==
    ASSUME IInv, NEW w \in Callers, NEW t, IsTxn(t), txn' = [txn EXCEPT ![w] = t],
           record' = record, now' = now, call' = call, OwnBreaks(w),
           txn'[w] = t => CallInv(w)'
    PROVE  IInv'
<1> DEFINE c == call[w]
<1>1. c \in CallStates /\ call' = [call EXCEPT ![w] = c]
  BY DEF IInv, Typed
<1> HIDE DEF c
<1> QED
  BY <1>1, OwnStep

\* An attempt ends without effect: it was aborted, or its connection broke.
LEMMA RetryInv ==
    ASSUME IInv, NEW w \in Callers, txn[w].pc \in {"read", "exec"},
           txn' = [txn EXCEPT ![w].pc = "watch"],
           record' = record, now' = now, call' = call, OwnBreaks(w),
           Alive => txn[w].overtaken + Len(txn[w].unheard) + broken'[w] >= txn[w].tries
    PROVE  IInv'
<1> DEFINE t == [txn[w] EXCEPT !.pc = "watch"]
<1>1. /\ IsTxn(txn[w]) /\ CallInv(w) /\ call[w] \in CallStates
      /\ txn' = [txn EXCEPT ![w] = t]
  BY DEF IInv, Typed
<1>2. txn[w] = [pc |-> txn[w].pc, tries |-> txn[w].tries, dirty |-> txn[w].dirty,
                draft |-> txn[w].draft, status |-> txn[w].status,
                overtaken |-> txn[w].overtaken, unheard |-> txn[w].unheard]
  BY <1>1 DEF IsTxn
<1>3. t = [pc |-> "watch", tries |-> txn[w].tries, dirty |-> txn[w].dirty,
           draft |-> txn[w].draft, status |-> txn[w].status,
           overtaken |-> txn[w].overtaken, unheard |-> txn[w].unheard]
  <2>1. t = [txn[w] EXCEPT !.pc = "watch"]
    OBVIOUS
  <2> HIDE DEF t
  <2> QED
    BY <1>2, <2>1, Zenon
<1>4. /\ t.pc = "watch" /\ t.tries = txn[w].tries /\ (t.dirty <=> txn[w].dirty)
      /\ t.overtaken = txn[w].overtaken /\ t.unheard = txn[w].unheard
  BY <1>3
<1>5. IsTxn(t)
  BY <1>1, <1>3, <1>4 DEF IsTxn
<1> HIDE DEF t
<1>6. txn'[w] = t => CallInv(w)'
  <2> SUFFICES ASSUME txn'[w] = t PROVE CallInv(w)'
    OBVIOUS
  <2>1. /\ Wasted(w)' = txn[w].overtaken + Len(txn[w].unheard) + broken'[w]
        /\ Alive' = Alive
    BY <1>1, <1>4 DEF Wasted, Alive
  <2>2. txn'[w].pc = "watch" /\ txn'[w].tries = txn[w].tries
        /\ call'[w].reply = "pending"
    BY <1>1, <1>4 DEF CallInv, Accompanies, Pending
  <2>3. Progress(w)'
    BY <2>1, <2>2 DEF Progress
  <2> QED
    BY <1>1, <2>2, <2>3 DEF CallInv, Accompanies, CleanDraft, Pending
<1> QED
  BY <1>1, <1>5, <1>6, MoveInv

LEMMA AbortInv == ASSUME IInv, NEW w \in Callers, Abort(w) PROVE IInv'
<1>1. /\ txn[w].pc = "exec" /\ ~ExecRuns(w) /\ txn' = [txn EXCEPT ![w].pc = "watch"]
      /\ record' = record /\ now' = now /\ call' = call
      /\ deadline' = deadline /\ broken' = broken
  BY DEF Abort
<1>2. Alive => Wasted(w) >= txn[w].tries
  BY <1>1, KeyIsAlive DEF IInv, CallInv, Progress, ExecRuns
<1>3. OwnBreaks(w)
  BY <1>1 DEF OwnBreaks, IInv, Typed
<1> QED
  BY <1>1, <1>2, <1>3, RetryInv DEF Wasted

LEMMA BreakInv == ASSUME IInv, NEW w \in Callers, Break(w) PROVE IInv'
<1>1. /\ txn[w].pc \in {"read", "exec"} /\ txn' = [txn EXCEPT ![w].pc = "watch"]
      /\ record' = record /\ now' = now /\ call' = call
      /\ deadline' = deadline /\ broken' = [broken EXCEPT ![w] = @ + 1]
  BY DEF Break
<1>2. /\ IsTxn(txn[w]) /\ CallInv(w) /\ broken \in [Callers -> Nat]
  BY DEF IInv, Typed
<1>3. OwnBreaks(w) /\ broken'[w] = broken[w] + 1
  BY <1>1, <1>2 DEF OwnBreaks
<1>5. txn[w].overtaken \in Nat /\ Len(txn[w].unheard) \in Nat /\ txn[w].tries \in Nat
  BY <1>2 DEF IsTxn
<1>4. Alive => Wasted(w) >= txn[w].tries - 1
  <2>1. Wasted(w) \in Nat
    BY <1>2, <1>5 DEF Wasted
  <2>2. Alive => Wasted(w) >= IF txn[w].dirty THEN txn[w].tries ELSE txn[w].tries - 1
    BY <1>1, <1>2 DEF CallInv, Progress
  <2> QED
    BY <1>5, <2>1, <2>2
<1>6. Alive => txn[w].overtaken + Len(txn[w].unheard) + broken'[w] >= txn[w].tries
  BY <1>2, <1>3, <1>4, <1>5 DEF Wasted
<1> QED
  BY <1>1, <1>3, <1>6, RetryInv

LEMMA ReadInv == ASSUME IInv, NEW w \in Callers, Read(w), Alive PROVE IInv'
<1>1. PICK clock \in (now - MaxSkew)..(now + MaxSkew) :
          txn' = [txn EXCEPT ![w] =
              [txn[w] EXCEPT !.pc = "exec",
                             !.draft = Apply(record, call[w].op, clock),
                             !.status = Status(record, call[w].op, clock)]]
  BY KeyIsAlive DEF Read
<1> DEFINE draft == Apply(record, call[w].op, clock)
           status == Status(record, call[w].op, clock)
           t == [txn[w] EXCEPT !.pc = "exec", !.draft = draft, !.status = status]
<1>2. /\ IsTxn(txn[w]) /\ CallInv(w) /\ call[w] \in CallStates /\ now \in Nat
      /\ txn[w].pc = "read" /\ record' = record /\ now' = now /\ call' = call
      /\ broken' = broken /\ OwnBreaks(w)
  <2>1. /\ IsTxn(txn[w]) /\ CallInv(w) /\ call[w] \in CallStates /\ now \in Nat
        /\ broken \in [Callers -> Nat]
    BY DEF IInv, Typed
  <2>2. /\ txn[w].pc = "read" /\ record' = record /\ now' = now /\ call' = call
        /\ deadline' = deadline /\ broken' = broken
    BY KeyIsAlive DEF Read
  <2> QED
    BY <2>1, <2>2 DEF OwnBreaks
<1>3. txn' = [txn EXCEPT ![w] = t]
  BY <1>1
<1>4. txn[w] = [pc |-> txn[w].pc, tries |-> txn[w].tries, dirty |-> txn[w].dirty,
                draft |-> txn[w].draft, status |-> txn[w].status,
                overtaken |-> txn[w].overtaken, unheard |-> txn[w].unheard]
  BY <1>2 DEF IsTxn
<1>5. t = [pc |-> "exec", tries |-> txn[w].tries, dirty |-> txn[w].dirty,
           draft |-> draft, status |-> status,
           overtaken |-> txn[w].overtaken, unheard |-> txn[w].unheard]
  <2>1. t = [txn[w] EXCEPT !.pc = "exec", !.draft = draft, !.status = status]
    OBVIOUS
  <2> HIDE DEF t, draft, status
  <2> QED
    BY <1>4, <2>1, Zenon
<1>6. \E k \in Clocks(w) : /\ draft = Apply(record, call[w].op, k)
                           /\ status = Status(record, call[w].op, k)
  BY <1>2 DEF Clocks, CallInv, Accompanies, CallStates
<1> HIDE DEF t, draft, status
<1>7. /\ t.pc = "exec" /\ t.tries = txn[w].tries /\ (t.dirty <=> txn[w].dirty)
      /\ t.draft = draft /\ t.status = status
      /\ t.overtaken = txn[w].overtaken /\ t.unheard = txn[w].unheard
  BY <1>5
<1>8. IsTxn(t)
  BY <1>2, <1>5, <1>7 DEF IsTxn
<1>9. txn'[w] = t => CallInv(w)'
  <2> SUFFICES ASSUME txn'[w] = t PROVE CallInv(w)'
    OBVIOUS
  <2>1. Wasted(w)' = Wasted(w) /\ Alive' = Alive
    BY <1>2, <1>7 DEF Wasted, Alive
  <2>2. Wasted(w) >= IF txn[w].dirty THEN txn[w].tries ELSE txn[w].tries - 1
    BY <1>2 DEF CallInv, Progress
  <2>3. /\ txn'[w].pc = "exec" /\ txn'[w].tries = txn[w].tries
        /\ txn'[w].dirty <=> txn[w].dirty
        /\ call'[w].reply = "pending"
    BY <1>2, <1>7 DEF CallInv, Accompanies, Pending
  <2>4. Progress(w)'
    BY <2>1, <2>2, <2>3 DEF Progress
  <2>5. CleanDraft(w)'
    <3>1. Clocks(w)' = Clocks(w) /\ record' = record /\ call'[w] = call[w]
          /\ txn'[w].draft = draft /\ txn'[w].status = status
      BY <1>2, <1>7 DEF Clocks
    <3> QED
      BY <1>6, <3>1 DEF CleanDraft
  <2> QED
    BY <1>2, <2>3, <2>4, <2>5 DEF CallInv, Accompanies, Pending
<1> QED
  BY <1>2, <1>3, <1>8, <1>9, MoveInv

\* What EXEC publishes, of a transaction that runs.
LEMMA ExecRunsClean ==
    ASSUME IInv, NEW w \in Callers, txn[w].pc = "exec", ExecRuns(w)
    PROVE  /\ Pending(w) /\ Alive
           /\ \E clock \in Clocks(w) :
                 /\ txn[w].draft = Apply(record, call[w].op, clock)
                 /\ txn[w].status = Status(record, call[w].op, clock)
           /\ txn[w].status \in Replies \ {"none", "pending", "error", "down"}
           /\ SetKeepsTtl => deadline' = deadline
  BY StatusIsReply, KeyIsAlive DEF SetKeepsTtl, IInv, CallInv, Accompanies, CleanDraft, ExecRuns

LEMMA ExecInv == ASSUME IInv, NEW w \in Callers, Exec(w) PROVE IInv'
<1> DEFINE reply == txn[w].status
           c == [call[w] EXCEPT !.reply = reply]
           t == Over(w)
<1>1. /\ txn[w].pc = "exec" /\ ExecRuns(w) /\ txn' = Touched(w, t)
      /\ Answered(w, reply) /\ now' = now /\ SetKeepsTtl /\ broken' = broken
  BY DEF Exec, Publish
<1>2. reply \in Replies \ {"none", "pending", "error", "down"} /\ deadline' = deadline
  BY <1>1, ExecRunsClean
<1>3. c \in CallStates /\ call' = [call EXCEPT ![w] = c]
  BY <1>1, <1>2, CallAnswered DEF IInv
<1>4. IsTxn(t)
  BY OverTxn DEF IInv, Typed
<1>5. (txn'[w] = t /\ call'[w] = c) => CallInv(w)'
  BY <1>1, <1>2, AnsweredInv
<1> HIDE DEF c, t, reply
<1> QED
  BY <1>1, <1>2, <1>3, <1>4, <1>5, Publishing

LEMMA ExecUnheardInv == ASSUME IInv, NEW w \in Callers, ExecUnheard(w) PROVE IInv'
<1> DEFINE c == call[w]
           unheard == Append(txn[w].unheard, txn[w].status)
           t == [txn[w] EXCEPT !.pc = "watch", !.unheard = unheard]
<1>1. /\ txn[w].pc = "exec" /\ ExecRuns(w) /\ txn' = Touched(w, t)
      /\ call' = call /\ now' = now /\ SetKeepsTtl /\ broken' = broken
  BY DEF ExecUnheard, Publish
<1>2. /\ IsTxn(txn[w]) /\ CallInv(w) /\ c \in CallStates /\ call' = [call EXCEPT ![w] = c]
      /\ deadline' = deadline /\ broken[w] \in Nat
  BY <1>1, ExecRunsClean DEF IInv, Typed
<1>3. unheard \in Seq(Replies) /\ Len(unheard) = Len(txn[w].unheard) + 1
  BY <1>1, <1>2, ExecRunsClean DEF IsTxn
<1>4. txn[w] = [pc |-> txn[w].pc, tries |-> txn[w].tries, dirty |-> txn[w].dirty,
                draft |-> txn[w].draft, status |-> txn[w].status,
                overtaken |-> txn[w].overtaken, unheard |-> txn[w].unheard]
  BY <1>2 DEF IsTxn
<1>5. t = [pc |-> "watch", tries |-> txn[w].tries, dirty |-> txn[w].dirty,
           draft |-> txn[w].draft, status |-> txn[w].status,
           overtaken |-> txn[w].overtaken, unheard |-> unheard]
  <2>1. t = [txn[w] EXCEPT !.pc = "watch", !.unheard = unheard]
    OBVIOUS
  <2> HIDE DEF t, unheard
  <2> QED
    BY <1>4, <2>1, Zenon
<1> HIDE DEF t, unheard, c
<1>6. /\ t.pc = "watch" /\ t.tries = txn[w].tries /\ (t.dirty <=> txn[w].dirty)
      /\ t.overtaken = txn[w].overtaken /\ t.unheard = unheard
  BY <1>5
<1>7. IsTxn(t)
  BY <1>2, <1>3, <1>5, <1>6 DEF IsTxn
<1>8. (txn'[w] = t /\ call'[w] = c) => CallInv(w)'
  <2> SUFFICES ASSUME txn'[w] = t, call'[w] = c PROVE CallInv(w)'
    OBVIOUS
  <2>1. Wasted(w)' = Wasted(w) + 1 /\ Alive' = Alive
    <3>1. txn[w].overtaken \in Nat /\ Len(txn[w].unheard) \in Nat
      BY <1>2 DEF IsTxn
    <3>2. /\ txn'[w].overtaken = txn[w].overtaken
          /\ Len(txn'[w].unheard) = Len(txn[w].unheard) + 1
      BY <1>3, <1>6
    <3> QED
      BY <1>1, <1>2, <3>1, <3>2 DEF Wasted, Alive
  <2>2. Wasted(w) >= txn[w].tries - 1
    BY <1>1, <1>2, KeyIsAlive DEF CallInv, Progress, ExecRuns
  <2>3. /\ txn'[w].pc = "watch" /\ txn'[w].tries = txn[w].tries
        /\ call'[w].reply = "pending" /\ call[w].reply = "pending"
    BY <1>1, <1>2, <1>6 DEF CallInv, Accompanies, Pending
  <2>4. Wasted(w) \in Nat /\ txn[w].tries \in Nat
    BY <1>2 DEF Wasted, IsTxn
  <2>5. Progress(w)'
    BY <2>1, <2>2, <2>3, <2>4 DEF Progress
  <2> QED
    BY <1>1, <1>2, <2>3, <2>5 DEF CallInv, Accompanies, CleanDraft, Pending
<1> QED
  BY <1>1, <1>2, <1>7, <1>8, Publishing

LEMMA TickInv == ASSUME IInv, RTick PROVE IInv'
<1>1. /\ now < MaxTime /\ now' = now + 1 /\ record' = record /\ call' = call
      /\ txn' = txn /\ now \in 0..MaxTime /\ deadline' = deadline /\ broken' = broken
  BY DEF RTick, Tick, IInv, Typed
<1>2. Typed'
  BY <1>1 DEF IInv, Typed
<1>3. ASSUME NEW w \in Callers PROVE CallInv(w)'
  <2>1. CallInv(w) /\ call[w].since \in Nat
    BY DEF IInv, Typed, CallStates
  <2>2. Accompanies(w)'
    BY <1>1, <2>1 DEF CallInv, Accompanies, Pending
  <2>3. \A clock \in Clocks(w) : clock \in Clocks(w)'
    BY <1>1, <2>1 DEF Clocks
  <2>4. CleanDraft(w)'
    BY <1>1, <2>1, <2>3 DEF CallInv, CleanDraft
  <2>5. Wasted(w)' = Wasted(w) /\ (Alive' => Alive)
    BY <1>1 DEF Wasted, Alive
  <2>6. Progress(w)'
    BY <1>1, <2>1, <2>5 DEF CallInv, Progress
  <2> QED
    BY <2>2, <2>4, <2>6 DEF CallInv
<1> QED
  BY <1>2, <1>3 DEF IInv

LEMMA NextInv == ASSUME IInv, [RNext]_rvars PROVE IInv'
<1>1. CASE UNCHANGED rvars
  <2>1. /\ now' = now /\ record' = record /\ call' = call /\ txn' = txn
        /\ deadline' = deadline /\ broken' = broken
    BY <1>1 DEF rvars
  <2>2. Typed'
    BY <2>1 DEF IInv, Typed
  <2> QED
    BY <2>1, <2>2, Bystander DEF IInv
<1>2. CASE RTick
  BY <1>2, TickInv
<1>3. ASSUME NEW w \in Callers, RBegin(w) PROVE IInv'
  BY <1>3, BeginInv
<1>4. ASSUME NEW w \in Callers, Watch(w) PROVE IInv'
  BY <1>4, WatchInv
<1>5. ASSUME NEW w \in Callers, Read(w) PROVE IInv'
  BY <1>5, ReadInv, ReadGoneInv
<1>6. ASSUME NEW w \in Callers, Exec(w) PROVE IInv'
  BY <1>6, ExecInv
<1>7. ASSUME NEW w \in Callers, ExecUnheard(w) PROVE IInv'
  BY <1>7, ExecUnheardInv
<1>8. ASSUME NEW w \in Callers, Abort(w) PROVE IInv'
  BY <1>8, AbortInv
<1>9. ASSUME NEW w \in Callers, Exhaust(w) PROVE IInv'
  BY <1>9, ExhaustInv
<1>10. ASSUME NEW w \in Callers, Break(w) PROVE IInv'
  BY <1>10, BreakInv
<1>11. ASSUME NEW w \in Callers, Fail(w) PROVE IInv'
  BY <1>11, FailInv
<1> QED
  BY <1>1, <1>2, <1>3, <1>4, <1>5, <1>6, <1>7, <1>8, <1>9, <1>10, <1>11 DEF RNext

LEMMA Invariance == RSpec => []IInv
<1>1. RInit => IInv
  BY InitInv
<1>2. IInv /\ [RNext]_rvars => IInv'
  BY NextInv
<1> QED
  BY <1>1, <1>2, PTL DEF RSpec

-----------------------------------------------------------------------------
\* Type correctness: the transactions of RedisEvidence.update stay in their
\* states, and last exactly as long as their calls.
THEOREM TypeCorrect == RSpec => []RTypeOK
<1>1. IInv => RTypeOK
  BY DEF IInv, Typed, CallInv, Accompanies, RTypeOK, IsTxn, CallStates
<1> QED
  BY <1>1, Invariance, PTL

\* An update that reaches the contention limit on a live record lost every attempt
\* to something: a write of another worker, an own write whose answer was lost, or a
\* broken connection.
THEOREM ContentionEarned == RSpec => []ContentionIsEarned
<1>1. IInv => ContentionIsEarned
  BY KeyIsAlive DEF IInv, CallInv, Progress, ContentionIsEarned, Wasted
<1> QED
  BY <1>1, Invariance, PTL

\* What a call that began too late can be told: no answer of an operation.
TooLate(w) ==
    call[w].since >= Ttl => call[w].reply \in {"none", "pending", "gone", "error", "down"}

NoneTooLate == \A w \in Callers : TooLate(w)

LEMMA TooLateStep == IInv /\ NoneTooLate /\ [RNext]_rvars => NoneTooLate'
<1> SUFFICES ASSUME IInv, NoneTooLate, [RNext]_rvars, NEW u \in Callers
             PROVE  TooLate(u)'
  BY DEF NoneTooLate
<1>1. TooLate(u) /\ call \in [Callers -> CallStates] /\ now \in Nat
  BY DEF IInv, Typed, NoneTooLate
<1>2. CASE call' = call
  BY <1>1, <1>2 DEF TooLate
<1>3. ASSUME NEW w \in Callers, RBegin(w) PROVE TooLate(u)'
  BY <1>1, <1>3 DEF RBegin, Begin, TooLate, CallStates
<1>4. ASSUME NEW w \in Callers, NEW reply \in {"gone", "error", "down"}, Answered(w, reply)
      PROVE  TooLate(u)'
  BY <1>1, <1>4 DEF Answered, TooLate, CallStates
<1>5. ASSUME NEW w \in Callers, Exec(w) PROVE TooLate(u)'
  <2>1. Alive /\ call[w].since <= now /\ Answered(w, txn[w].status)
    BY <1>5, ExecRunsClean DEF Exec, Publish, IInv, CallInv, Accompanies
  <2>2. call[w].since < Ttl
    BY <1>1, <2>1 DEF Alive, CallStates
  <2> QED
    BY <1>1, <2>1, <2>2 DEF Answered, TooLate, CallStates
<1> QED
  BY <1>2, <1>3, <1>4, <1>5
     DEF RNext, Watch, Read, ExecUnheard, Break, Fail, Abort, Exhaust, RTick, Tick, rvars

\* The deadline set with the record stands through every update, and a call that
\* begins after it finds nothing: no update in flight brings the evidence back.
THEOREM RecordLapses == RSpec => []RecordLapsesForGood
<1>1. RInit => NoneTooLate
  BY DEF RInit, Init, NoCall, TooLate, NoneTooLate
<1>2. IInv /\ NoneTooLate => RecordLapsesForGood
  <2>1. IInv /\ now >= Ttl => ~KeyLives
    BY DEF IInv, Typed, KeyLives, Never
  <2> QED
    BY <2>1 DEF RecordLapsesForGood, TooLate, NoneTooLate
<1> QED
  BY <1>1, <1>2, TooLateStep, Invariance, PTL DEF RSpec

\* A step of a transaction is a step of the service or a stutter: what EXEC
\* publishes, the service could have computed on the record as it is at EXEC.
LEMMA StepImplements == IInv /\ [RNext]_rvars => [Next]_vars
<1> SUFFICES ASSUME IInv, [RNext]_rvars PROVE [Next]_vars
  OBVIOUS
<1>1. CASE UNCHANGED rvars
  BY <1>1 DEF rvars, vars
<1>2. CASE RTick
  BY <1>2 DEF RTick, Next
<1>3. ASSUME NEW w \in Callers, RBegin(w) PROVE Next
  BY <1>3 DEF RBegin, Next
<1>4. ASSUME NEW w \in Callers, Watch(w) \/ Break(w) \/ Abort(w) PROVE UNCHANGED vars
  BY <1>4 DEF Watch, Break, Abort, vars
<1>5. ASSUME NEW w \in Callers, Read(w) PROVE [Next]_vars
  <2>1. CASE Alive
    BY <1>5, <2>1, KeyIsAlive DEF Read, vars
  <2>2. CASE ~Alive
    <3>1. Pending(w)
      BY <1>5 DEF Read, IInv, CallInv, Accompanies
    <3>2. Missing(w)
      BY <1>5, <2>2, <3>1, KeyIsAlive DEF Read, Missing
    <3> QED
      BY <3>2 DEF Next
  <2> QED
    BY <2>1, <2>2
<1>6. ASSUME NEW w \in Callers, Exec(w) PROVE Next
  <2>1. /\ txn[w].pc = "exec" /\ ExecRuns(w) /\ record' = txn[w].draft
        /\ Answered(w, txn[w].status) /\ now' = now
    BY <1>6 DEF Exec, Publish
  <2>2. PICK clock \in Clocks(w) : /\ txn[w].draft = Apply(record, call[w].op, clock)
                                   /\ txn[w].status = Status(record, call[w].op, clock)
    BY <2>1, ExecRunsClean
  <2>3. Serve(w)
    BY <2>1, <2>2, ExecRunsClean DEF Serve
  <2> QED
    BY <2>3 DEF Next
<1>7. ASSUME NEW w \in Callers, ExecUnheard(w) PROVE Next
  <2>1. /\ Lossy /\ txn[w].pc = "exec" /\ ExecRuns(w) /\ record' = txn[w].draft
        /\ call' = call /\ now' = now
    BY <1>7 DEF ExecUnheard, Publish
  <2>2. PICK clock \in Clocks(w) : txn[w].draft = Apply(record, call[w].op, clock)
    BY <2>1, ExecRunsClean
  <2>3. Repeat(w)
    BY <2>1, <2>2, ExecRunsClean DEF Repeat
  <2> QED
    BY <2>3 DEF Next
<1>8. ASSUME NEW w \in Callers, Exhaust(w) \/ Fail(w) PROVE Next
  <2>1. Pending(w)
    BY <1>8 DEF Exhaust, Fail, IInv, CallInv, Accompanies
  <2>2. GiveUp(w)
    BY <1>8, <2>1 DEF Exhaust, Fail, GiveUp
  <2> QED
    BY <2>2 DEF Next
<1> QED
  BY <1>1, <1>2, <1>3, <1>4, <1>5, <1>6, <1>7, <1>8 DEF RNext

\* The Redis store is an EvidenceService: every update takes effect at once, on
\* the latest record, however many workers race, and none is lost.
THEOREM StoreIsService == RSpec => ImplementsService
<1>1. RInit => Init
  BY DEF RInit
<1>2. IInv /\ [RNext]_rvars => [Next]_vars
  BY StepImplements
<1> QED
  BY <1>1, <1>2, Invariance, PTL DEF RSpec, ImplementsService, Spec

-----------------------------------------------------------------------------
\* What the operations make of a record.
EventNames ==
    {"challenge_issued", "experiment_exposed", "experiment_activated", "experiment_replay",
     "verification_submitted", "verification_rejected", "challenge_consumed",
     "session_issued", "verification_denied", "protected_page_requested"}

EventStates == [order : Nat, event : EventNames, family : Families \cup {NoFamily}]

TrapStates == [activated : BOOLEAN, order : Nat, phase : Phases, replays : Nat]

RecordStates(Q) ==
    [created : Int, exposed : BOOLEAN, started : BOOLEAN, hits : Nat, phase : Phases,
     replays : Nat, failures : Nat, report : {"none", "supplied", "omitted"},
     category : {"none", "page", "api"}, requests : Q,
     traps : [Families -> TrapStates], count : Nat, events : Seq(EventStates)]

\* The times of the requests play no role here.
IsRecord(r) == \E Q : r \in RecordStates(Q)

\* started is what the window says, as long as it holds everything, and a trap
\* activated before the submission is marked so; the activations in the window are
\* those of traps that are activated.
StartedFollowsEvents(r) ==
    /\ ~r.started =>
          /\ \A f \in ActivatedFamilies(r) : r.traps[f].phase = "before_verification"
          /\ \A i \in 1..Len(r.events) : r.events[i].event # "verification_submitted"
    /\ (r.started /\ Len(r.events) = r.count) =>
          \E i \in 1..Len(r.events) : r.events[i].event = "verification_submitted"
    /\ \A i \in 1..Len(r.events) :
          r.events[i].event = "experiment_activated" =>
              r.events[i].family \in ActivatedFamilies(r)

OneStory(r) ==
    /\ IsRecord(r) /\ TrapsConsistent(r) /\ EventsConsistent(r) /\ PhasesFollowOrder(r)
    /\ StartedFollowsEvents(r)

\* t is what is left of a sequence s over S when only the last n elements are kept.
IsTail(t, s, S, n) ==
    /\ t \in Seq(S) /\ Len(t) \in Nat /\ Len(t) = AtMost(Len(s), n)
    /\ \A i \in 1..Len(t) : t[i] = s[i + (Len(s) - Len(t))]

LEMMA NewestTail ==
    ASSUME NEW S, NEW s \in Seq(S), NEW n \in Nat \ {0}
    PROVE  IsTail(Newest(s, n), s, S, n)
<1>0. PICK t : t = Newest(s, n)
  OBVIOUS
<1>1. Len(s) \in Nat
  BY LenProperties
<1>2. CASE Len(s) <= n
  BY <1>0, <1>1, <1>2 DEF Newest, AtMost, IsTail
<1>3. CASE Len(s) > n
  <2>1. PICK m \in Nat : m = Len(s) - n + 1
    BY <1>1, <1>3
  <2>2. t = SubSeq(s, m, Len(s)) /\ m \in 1..Len(s)
    BY <1>0, <1>1, <1>3, <2>1 DEF Newest
  <2>3. \A i \in m..Len(s) : s[i] \in S
    BY <2>2, ElementOfSeq
  <2>4. /\ t \in Seq(S) /\ Len(t) = Len(s) - m + 1
        /\ \A i \in 1..(Len(s) - m + 1) : t[i] = s[m + i - 1]
    BY <1>1, <2>2, <2>3, SubSeqProperties
  <2>5. Len(t) = n /\ AtMost(Len(s), n) = n
    BY <1>1, <1>3, <2>1, <2>4 DEF AtMost
  <2> QED
    BY <1>0, <1>1, <2>1, <2>4, <2>5 DEF IsTail
<1> QED
  BY <1>1, <1>2, <1>3

Moved(es, e) == Newest(Append(es, e), Window)

\* t is the window es of count events after one more, e.
IsMoved(t, es, e, count) ==
    /\ t \in Seq(EventStates) /\ Len(t) \in Nat \ {0} /\ Len(t) = AtMost(count + 1, Window)
    /\ Len(es) \in Nat /\ Len(t) \in {Len(es), Len(es) + 1}
    /\ t[Len(t)] = e
    /\ \A i \in 1..(Len(t) - 1) :
          /\ i + (Len(es) + 1 - Len(t)) \in 1..Len(es)
          /\ t[i] = es[i + (Len(es) + 1 - Len(t))]
    /\ Len(t) = count + 1 => Len(es) = count

\* The window of events moves on by one if it was full.
LEMMA WindowMoves ==
    ASSUME NEW es \in Seq(EventStates), NEW e \in EventStates, NEW count \in Nat,
           Len(es) = AtMost(count, Window)
    PROVE  IsMoved(Moved(es, e), es, e, count)
<1> DEFINE S == EventStates
<1>0. PICK t : t = Moved(es, e)
  OBVIOUS
<1> HIDE DEF S
<1>1. PICK s : s = Append(es, e)
  OBVIOUS
<1>2. /\ s \in Seq(S) /\ Len(s) = Len(es) + 1 /\ Len(es) \in Nat
      /\ \A i \in 1..Len(es) : s[i] = es[i]
      /\ s[Len(es) + 1] = e
  BY <1>1, AppendProperties, LenProperties DEF S
<1>3. /\ t \in Seq(S) /\ Len(t) \in Nat /\ Len(t) = AtMost(Len(s), Window)
      /\ \A i \in 1..Len(t) : t[i] = s[i + (Len(s) - Len(t))]
  <2>1. Window \in Nat \ {0} /\ t = Newest(s, Window)
    BY <1>0, <1>1 DEF Moved
  <2>2. IsTail(t, s, S, Window)
    BY <1>2, <2>1, NewestTail
  <2> QED
    BY <1>2, <2>2 DEF IsTail
<1>4. /\ Len(t) \in Nat \ {0} /\ Len(t) = AtMost(count + 1, Window)
      /\ Len(t) \in {Len(es), Len(es) + 1}
      /\ Len(t) = count + 1 => Len(es) = count
  BY <1>2, <1>3 DEF AtMost
<1>5. t[Len(t)] = e
  <2>1. Len(t) \in 1..Len(t) /\ Len(t) + (Len(s) - Len(t)) = Len(es) + 1
    BY <1>2, <1>4
  <2> QED
    BY <1>2, <1>3, <2>1
<1>6. ASSUME NEW i \in 1..(Len(t) - 1)
      PROVE  /\ i + (Len(es) + 1 - Len(t)) \in 1..Len(es)
             /\ t[i] = es[i + (Len(es) + 1 - Len(t))]
  <2>1. /\ i \in 1..Len(t) /\ i + (Len(s) - Len(t)) = i + (Len(es) + 1 - Len(t))
        /\ i + (Len(es) + 1 - Len(t)) \in 1..Len(es)
    BY <1>2, <1>4
  <2> QED
    BY <1>2, <1>3, <2>1
<1> QED
  BY <1>0, <1>2, <1>3, <1>4, <1>5, <1>6 DEF IsMoved, S

LEMMA RecordFields ==
    ASSUME NEW r, IsRecord(r)
    PROVE  /\ r.created \in Int /\ r.exposed \in BOOLEAN /\ r.started \in BOOLEAN
           /\ r.hits \in Nat /\ r.phase \in Phases /\ r.replays \in Nat
           /\ r.failures \in Nat /\ r.traps \in [Families -> TrapStates]
           /\ r.count \in Nat /\ r.events \in Seq(EventStates)
           /\ Len(r.events) \in Nat /\ DOMAIN r.events = 1..Len(r.events)
<1>1. PICK Q : r \in RecordStates(Q)
  BY DEF IsRecord
<1>2. r.events \in Seq(EventStates)
  BY <1>1 DEF RecordStates
<1>3. Len(r.events) \in Nat /\ DOMAIN r.events = 1..Len(r.events)
  BY <1>2, LenProperties
<1> QED
  BY <1>1, <1>3 DEF RecordStates

\* A record with one more event tells one story, if what the event means is what
\* the traps say.
LEMMA StoryGoesOn ==
    ASSUME NEW r, OneStory(r), NEW a, IsRecord(a), TrapsConsistent(a),
           NEW e \in EventStates, e.order = r.count + 1,
           a.count = r.count + 1, a.events = Newest(Append(r.events, e), Window),
           a.started <=> (r.started \/ e.event = "verification_submitted"),
           \A f \in ActivatedFamilies(r) :
              /\ f \in ActivatedFamilies(a)
              /\ a.traps[f].order = r.traps[f].order /\ a.traps[f].phase = r.traps[f].phase,
           ~a.started => \A f \in ActivatedFamilies(a) : a.traps[f].phase = "before_verification",
           e.event = "experiment_activated" =>
              /\ e.family \in ActivatedFamilies(a)
              /\ a.traps[e.family].order = r.count + 1
              /\ a.traps[e.family].phase = "before_verification" <=> ~r.started
    PROVE  OneStory(a)
<1>0. PICK es, t : es = r.events /\ t = a.events
  OBVIOUS
<1>1. /\ r.count \in Nat /\ es \in Seq(EventStates) /\ Len(es) \in Nat
      /\ DOMAIN es = 1..Len(es) /\ DOMAIN t = 1..Len(t) /\ Len(es) = AtMost(r.count, Window)
      /\ r.started \in BOOLEAN /\ a.started \in BOOLEAN
  BY <1>0, RecordFields DEF OneStory, EventsConsistent
<1>2. /\ t \in Seq(EventStates) /\ Len(t) \in Nat \ {0}
      /\ Len(t) = AtMost(r.count + 1, Window) /\ Len(t) \in {Len(es), Len(es) + 1}
      /\ t[Len(t)] = e
      /\ \A i \in 1..(Len(t) - 1) :
            /\ i + (Len(es) + 1 - Len(t)) \in 1..Len(es)
            /\ t[i] = es[i + (Len(es) + 1 - Len(t))]
      /\ Len(t) = r.count + 1 => Len(es) = r.count
  <2>1. t = Moved(es, e)
    BY <1>0 DEF Moved
  <2>2. IsMoved(t, es, e, r.count)
    BY <1>1, <2>1, WindowMoves
  <2> QED
    BY <2>2 DEF IsMoved
\* While nothing is lost, old events keep their places.
<1>3. Len(t) = r.count + 1 =>
        /\ Len(es) = r.count /\ Len(t) = Len(es) + 1
        /\ \A i \in 1..Len(es) : t[i] = es[i]
  <2> SUFFICES ASSUME Len(t) = r.count + 1
               PROVE  /\ Len(es) = r.count /\ Len(t) = Len(es) + 1
                      /\ \A i \in 1..Len(es) : t[i] = es[i]
    OBVIOUS
  <2>1. Len(es) = r.count /\ Len(t) = Len(es) + 1
    BY <1>2
  <2>2. ASSUME NEW i \in 1..Len(es) PROVE i \in 1..(Len(t) - 1) /\ i + (Len(es) + 1 - Len(t)) = i
    BY <1>1, <2>1
  <2> QED
    BY <1>2, <2>1, <2>2
<1>4. /\ \A i \in 1..Len(es) : es[i].order = r.count - Len(es) + i
      /\ \A i \in 1..Len(es) : es[i].event = "experiment_activated" =>
            /\ es[i].family \in ActivatedFamilies(r)
            /\ r.traps[es[i].family].order = es[i].order
  BY <1>0, <1>1 DEF OneStory, EventsConsistent, StartedFollowsEvents
<1>5. ASSUME NEW i \in 1..Len(t)
      PROVE  t[i] = e \/ \E p \in 1..Len(es) : t[i] = es[p]
  <2>1. i = Len(t) \/ i \in 1..(Len(t) - 1)
    BY <1>2
  <2> QED
    BY <1>2, <2>1
<1>6. EventsConsistent(a)
  <2> SUFFICES ASSUME NEW i \in 1..Len(t)
               PROVE  /\ t[i].order = a.count - Len(t) + i
                      /\ t[i].event = "experiment_activated" =>
                            a.traps[t[i].family].order = t[i].order
    BY <1>0, <1>1, <1>2 DEF EventsConsistent
  <2>1. CASE i = Len(t)
    BY <1>1, <1>2, <2>1
  <2>2. CASE i # Len(t)
    <3>1. PICK p \in 1..Len(es) : p = i + (Len(es) + 1 - Len(t)) /\ t[i] = es[p]
      BY <1>2, <2>2
    <3>2. r.count - Len(es) + p = a.count - Len(t) + i
      <4>1. /\ r.count \in Nat /\ a.count = r.count + 1 /\ Len(es) \in Nat
            /\ Len(t) \in Nat /\ i \in Nat /\ p = i + (Len(es) + 1 - Len(t))
        BY <1>1, <1>2, <3>1
      <4> QED
        BY ONLY <4>1
    <3> QED
      BY <1>4, <3>1, <3>2
  <2> QED
    BY <2>1, <2>2
<1>7. PhasesFollowOrder(a)
  <2> SUFFICES ASSUME NEW i \in 1..Len(t), NEW j \in 1..Len(t),
                      t[i].event = "experiment_activated",
                      t[j].event = "verification_submitted",
                      \A k \in 1..(j - 1) : t[k].event # "verification_submitted",
                      Len(t) = r.count + 1
               PROVE  a.traps[t[i].family].phase = "before_verification" <=> i < j
    BY <1>0, <1>1 DEF PhasesFollowOrder
  <2>1. CASE i = Len(t) /\ j = Len(t)
    BY <2>1
  <2>2. CASE i = Len(t) /\ j # Len(t)
    <3>1. j \in 1..Len(es) /\ es[j].event = "verification_submitted"
      BY <1>1, <1>3, <2>2
    <3>2. r.started
      BY <1>0, <3>1 DEF OneStory, StartedFollowsEvents
    <3> QED
      BY <1>2, <2>2, <3>2
  <2>3. CASE i # Len(t) /\ j = Len(t)
    <3>1. i \in 1..Len(es) /\ t[i] = es[i] /\ i < j
      BY <1>1, <1>3, <2>3
    <3>2. \A k \in 1..Len(es) : es[k].event # "verification_submitted"
      BY <1>1, <1>3, <2>3
    <3>3. ~r.started
      BY <1>0, <1>3, <3>2 DEF OneStory, StartedFollowsEvents
    <3>4. es[i].family \in ActivatedFamilies(r)
      BY <1>4, <3>1
    <3>5. r.traps[es[i].family].phase = "before_verification"
      BY <3>3, <3>4 DEF OneStory, StartedFollowsEvents
    <3> QED
      BY <3>1, <3>4, <3>5
  <2>4. CASE i # Len(t) /\ j # Len(t)
    <3>1. /\ i \in 1..Len(es) /\ t[i] = es[i] /\ j \in 1..Len(es) /\ t[j] = es[j]
          /\ \A k \in 1..(j - 1) : es[k].event # "verification_submitted"
      BY <1>1, <1>3, <2>4
    <3>2. r.traps[es[i].family].phase = "before_verification" <=> i < j
      BY <1>0, <1>1, <1>3, <3>1 DEF OneStory, PhasesFollowOrder
    <3> QED
      BY <1>4, <3>1, <3>2
  <2> QED
    BY <2>1, <2>2, <2>3, <2>4
<1>8. StartedFollowsEvents(a)
  <2>1. ASSUME ~a.started, NEW i \in 1..Len(t) PROVE t[i].event # "verification_submitted"
    <3>1. \A p \in 1..Len(es) : es[p].event # "verification_submitted"
      BY <1>0, <2>1 DEF OneStory, StartedFollowsEvents
    <3> QED
      BY <1>5, <2>1, <3>1
  <2>2. ASSUME a.started, Len(t) = a.count
        PROVE  \E i \in 1..Len(t) : t[i].event = "verification_submitted"
    <3>1. CASE r.started
      <4>1. PICK p \in 1..Len(es) : es[p].event = "verification_submitted"
        BY <1>0, <1>3, <2>2, <3>1 DEF OneStory, StartedFollowsEvents
      <4> QED
        BY <1>1, <1>3, <2>2, <4>1
    <3>2. CASE ~r.started
      BY <1>2, <2>2, <3>2
    <3> QED
      BY <3>1, <3>2
  <2>3. ASSUME NEW i \in 1..Len(t), t[i].event = "experiment_activated"
        PROVE  t[i].family \in ActivatedFamilies(a)
    BY <1>4, <1>5, <2>3
  <2> QED
    BY <1>0, <2>1, <2>2, <2>3 DEF StartedFollowsEvents
<1> QED
  BY <1>6, <1>7, <1>8 DEF OneStory

\* The parts of a record that its story is about.
SameLog(a, b) == a.count = b.count /\ a.events = b.events /\ (a.started <=> b.started)

\* Whatever else changes, as long as no trap's activation does.
SameTraps(a, b) ==
    /\ a.hits = b.hits /\ a.phase = b.phase
    /\ \A f \in Families :
          /\ a.traps[f].activated <=> b.traps[f].activated
          /\ a.traps[f].order = b.traps[f].order /\ a.traps[f].phase = b.traps[f].phase

LEMMA TrapsStay ==
    ASSUME NEW r, IsRecord(r), TrapsConsistent(r), NEW a, SameTraps(a, r),
           a.count \in Nat, r.count <= a.count,
           \A f \in Families : a.traps[f].replays > 0 => r.traps[f].activated
    PROVE  TrapsConsistent(a) /\ ActivatedFamilies(a) = ActivatedFamilies(r)
<1>1. ActivatedFamilies(a) = ActivatedFamilies(r)
  BY DEF ActivatedFamilies, SameTraps
<1>2. \A f \in ActivatedFamilies(r) : f \in Families
  BY DEF ActivatedFamilies
<1>3. r.count \in Nat
  BY RecordFields
<1>4. \A f \in ActivatedFamilies(r) :
         /\ a.traps[f].order = r.traps[f].order /\ a.traps[f].phase = r.traps[f].phase
         /\ r.traps[f].order \in 1..r.count
  BY <1>2 DEF SameTraps, TrapsConsistent
<1>5. \A f \in ActivatedFamilies(r) : a.traps[f].order \in 1..a.count
  BY <1>3, <1>4
<1> QED
  BY <1>1, <1>4, <1>5 DEF TrapsConsistent, SameTraps

LEMMA StoryStays ==
    ASSUME NEW r, OneStory(r), NEW a, IsRecord(a), SameLog(a, r), a.hits = r.hits,
           a.phase = r.phase, a.traps = r.traps
    PROVE  OneStory(a)
<1>1. TrapsConsistent(a) /\ ActivatedFamilies(a) = ActivatedFamilies(r)
  BY DEF OneStory, TrapsConsistent, ActivatedFamilies, SameLog
<1>2. EventsConsistent(a) /\ PhasesFollowOrder(a)
  BY DEF OneStory, EventsConsistent, PhasesFollowOrder, SameLog
<1>3. StartedFollowsEvents(a)
  BY <1>1 DEF OneStory, StartedFollowsEvents, SameLog
<1> QED
  BY <1>1, <1>2, <1>3 DEF OneStory

\* What append_event changes.
LEMMA Appends ==
    ASSUME NEW b, IsRecord(b), Len(b.events) = AtMost(b.count, Window),
           NEW kind \in EventNames, NEW family \in Families \cup {NoFamily},
           NEW a, a = AppendEvent(b, kind, family)
    PROVE  /\ IsRecord(a) /\ a.count = b.count + 1
           /\ a.traps = b.traps /\ a.hits = b.hits /\ a.phase = b.phase
           /\ (a.started <=> b.started) /\ a.replays = b.replays
           /\ \E e \in EventStates :
                 /\ e.order = b.count + 1 /\ e.event = kind /\ e.family = family
                 /\ a.events = Newest(Append(b.events, e), Window)
<1>1. PICK e : e = [order |-> b.count + 1, event |-> kind, family |-> family]
  OBVIOUS
<1>2. PICK t, n : t = Newest(Append(b.events, e), Window) /\ n = b.count + 1
  OBVIOUS
<1>3. a = [b EXCEPT !.count = n, !.events = t]
  BY <1>1, <1>2 DEF AppendEvent
<1>4. n \in Nat /\ e \in EventStates /\ e.order = n /\ e.event = kind /\ e.family = family
  BY <1>1, <1>2, RecordFields DEF EventStates
<1>5. t \in Seq(EventStates)
  <2>1. IsMoved(Moved(b.events, e), b.events, e, b.count)
    BY <1>4, RecordFields, WindowMoves
  <2> QED
    BY <1>2, <2>1 DEF IsMoved, Moved
<1>6. PICK Q : b \in RecordStates(Q)
  BY DEF IsRecord
<1>7. /\ a \in RecordStates(Q) /\ a.count = n /\ a.events = t
      /\ a.traps = b.traps /\ a.hits = b.hits /\ a.phase = b.phase
      /\ (a.started <=> b.started) /\ a.replays = b.replays
  BY ONLY <1>3, <1>4, <1>5, <1>6 DEF RecordStates
<1>8. IsRecord(a)
  BY <1>7 DEF IsRecord
<1> QED
  BY <1>2, <1>4, <1>7, <1>8

-----------------------------------------------------------------------------
\* Before an event is appended the log is as long as it should be.
LEMMA LogLength == ASSUME NEW r, OneStory(r) PROVE Len(r.events) = AtMost(r.count, Window)
  BY DEF OneStory, EventsConsistent

LEMMA LifecycleStory ==
    ASSUME NEW r, OneStory(r), NEW kind \in EventNames \ {"experiment_activated"},
           NEW a, a = Lifecycle(r, kind)
    PROVE  OneStory(a) /\ ActivatedFamilies(a) = ActivatedFamilies(r) /\ a.replays = r.replays
<1>1. PICK b : b = [r EXCEPT !.started = @ \/ kind = "verification_submitted"]
  OBVIOUS
<1>2. PICK Q : r \in RecordStates(Q)
  BY DEF OneStory, IsRecord
<1>3. /\ b \in RecordStates(Q) /\ b.count = r.count /\ b.events = r.events
      /\ b.traps = r.traps /\ b.hits = r.hits /\ b.phase = r.phase
      /\ (b.started <=> (r.started \/ kind = "verification_submitted"))
      /\ b.replays = r.replays
  <2>1. PICK started \in BOOLEAN : started <=> (r.started \/ kind = "verification_submitted")
    OBVIOUS
  <2>2. b = [r EXCEPT !.started = started]
    BY <1>1, <1>2, <2>1 DEF RecordStates
  <2> QED
    BY <1>2, <2>1, <2>2 DEF RecordStates
<1>4. IsRecord(b) /\ Len(b.events) = AtMost(b.count, Window)
      /\ a = AppendEvent(b, kind, NoFamily)
  BY <1>1, <1>3, LogLength DEF IsRecord, Lifecycle
<1>5. /\ IsRecord(a) /\ a.count = r.count + 1
      /\ a.traps = r.traps /\ a.hits = r.hits /\ a.phase = r.phase
      /\ (a.started <=> (r.started \/ kind = "verification_submitted"))
      /\ a.replays = r.replays
  BY <1>3, <1>4, Appends
<1>6. PICK e \in EventStates :
         /\ e.order = r.count + 1 /\ e.event = kind
         /\ a.events = Newest(Append(r.events, e), Window)
  BY <1>3, <1>4, Appends
<1>7. SameTraps(a, r) /\ r.count \in Nat
  BY <1>5, RecordFields DEF SameTraps, OneStory
<1>8. TrapsConsistent(a) /\ ActivatedFamilies(a) = ActivatedFamilies(r)
  BY <1>5, <1>7, TrapsStay DEF OneStory, TrapsConsistent
<1>9. ~a.started => \A f \in ActivatedFamilies(a) : a.traps[f].phase = "before_verification"
  BY <1>5, <1>8 DEF OneStory, StartedFollowsEvents
<1> QED
  BY <1>5, <1>6, <1>8, <1>9, StoryGoesOn

LEMMA ReplayStory ==
    ASSUME NEW r, OneStory(r), NEW f \in ActivatedFamilies(r), NEW a, a = Replayed(r, f)
    PROVE  /\ OneStory(a) /\ ActivatedFamilies(a) = ActivatedFamilies(r)
           /\ a.replays = AtMost(r.replays + 1, Cap)
<1>1. PICK Q : r \in RecordStates(Q)
  BY DEF OneStory, IsRecord
<1>2. f \in Families /\ r.traps[f] \in TrapStates /\ r.traps[f].activated = TRUE
  BY <1>1 DEF ActivatedFamilies, RecordStates, TrapStates
<1>3. PICK m \in Nat, n \in Nat :
         m = AtMost(r.traps[f].replays + 1, Cap) /\ n = AtMost(r.replays + 1, Cap)
  BY <1>1, <1>2 DEF AtMost, RecordStates, TrapStates
<1>4. PICK u : u = [r.traps[f] EXCEPT !.replays = m]
  OBVIOUS
<1>5. /\ u \in TrapStates /\ (u.activated <=> r.traps[f].activated)
      /\ u.order = r.traps[f].order /\ u.phase = r.traps[f].phase
  BY <1>2, <1>4 DEF TrapStates
<1>6. PICK traps, b : traps = [r.traps EXCEPT ![f] = u]
                      /\ b = [r EXCEPT !.traps = traps, !.replays = n]
  OBVIOUS
<1>7. /\ traps \in [Families -> TrapStates]
      /\ \A g \in Families : traps[g] = IF g = f THEN u ELSE r.traps[g]
  BY <1>1, <1>2, <1>5, <1>6 DEF RecordStates
<1>8. /\ b \in RecordStates(Q) /\ b.count = r.count /\ b.events = r.events
      /\ b.traps = traps /\ b.hits = r.hits /\ b.phase = r.phase
      /\ (b.started <=> r.started) /\ b.replays = n
  BY <1>1, <1>3, <1>6, <1>7 DEF RecordStates
<1>9. a = AppendEvent(b, "experiment_replay", f)
  BY <1>1, <1>2, <1>3, <1>4, <1>6 DEF Replayed, RecordStates, TrapStates
<1>10. IsRecord(b) /\ Len(b.events) = AtMost(b.count, Window)
  BY <1>8, LogLength DEF IsRecord
<1>11. "experiment_replay" \in EventNames /\ f \in Families \cup {NoFamily}
  BY <1>2 DEF EventNames
<1>12. /\ IsRecord(a) /\ a.count = r.count + 1
       /\ a.traps = traps /\ a.hits = r.hits /\ a.phase = r.phase
       /\ (a.started <=> r.started)
       /\ \E e \in EventStates :
             /\ e.order = r.count + 1 /\ e.event = "experiment_replay"
             /\ a.events = Newest(Append(r.events, e), Window)
  BY <1>8, <1>9, <1>10, <1>11, Appends
<1>13. SameTraps(a, r) /\ r.count \in Nat
  BY <1>5, <1>7, <1>12, RecordFields DEF SameTraps, OneStory
<1>14. \A g \in Families : a.traps[g].replays > 0 => r.traps[g].activated
  BY <1>2, <1>7, <1>12 DEF OneStory, TrapsConsistent
<1>15. TrapsConsistent(a) /\ ActivatedFamilies(a) = ActivatedFamilies(r)
  BY <1>12, <1>13, <1>14, TrapsStay DEF OneStory
<1>16. \A g \in ActivatedFamilies(r) :
          a.traps[g].order = r.traps[g].order /\ a.traps[g].phase = r.traps[g].phase
  BY <1>13 DEF SameTraps, ActivatedFamilies
<1>17. ~a.started => \A g \in ActivatedFamilies(a) : a.traps[g].phase = "before_verification"
  BY <1>12, <1>15, <1>16 DEF OneStory, StartedFollowsEvents
<1>18. OneStory(a)
  BY <1>12, <1>15, <1>16, <1>17, StoryGoesOn
<1>19. a.replays = n
  BY <1>8, <1>9, <1>10, <1>11, Appends
<1> QED
  BY <1>3, <1>15, <1>18, <1>19

LEMMA ActivationStory ==
    ASSUME NEW r, OneStory(r), NEW f \in Families \ ActivatedFamilies(r),
           NEW a, a = Activated(r, f)
    PROVE  /\ OneStory(a) /\ ActivatedFamilies(a) = ActivatedFamilies(r) \cup {f}
           /\ a.replays = r.replays
<1>1. PICK Q : r \in RecordStates(Q)
  BY DEF OneStory, IsRecord
<1>2. PICK b : b = AppendEvent(r, "experiment_activated", f)
  OBVIOUS
<1>3. /\ IsRecord(b) /\ b.count = r.count + 1
      /\ b.traps = r.traps /\ b.hits = r.hits /\ b.phase = r.phase
      /\ (b.started <=> r.started)
      /\ \E e \in EventStates :
            /\ e.order = r.count + 1 /\ e.event = "experiment_activated" /\ e.family = f
            /\ b.events = Newest(Append(r.events, e), Window)
  BY <1>2, LogLength, Appends DEF OneStory, EventNames
<1>4. PICK phase \in Phases \ {"none"} :
         phase = PhaseNow(r) /\ (phase = "before_verification" <=> ~r.started)
  BY DEF PhaseNow, Phases
<1>5. PICK u : u = [r.traps[f] EXCEPT !.activated = TRUE, !.phase = phase, !.order = b.count]
  OBVIOUS
<1>6. /\ r.traps[f] \in TrapStates /\ r.count \in Nat /\ r.hits \in Nat /\ r.phase \in Phases
      /\ ~r.traps[f].activated
  BY <1>1 DEF RecordStates, ActivatedFamilies
<1>7. /\ u \in TrapStates /\ u.activated = TRUE /\ u.phase = phase
      /\ u.order = r.count + 1 /\ u.replays = r.traps[f].replays
  <2>1. PICK n \in Nat : n = r.count + 1
    BY <1>6
  <2>2. u = [r.traps[f] EXCEPT !.activated = TRUE, !.phase = phase, !.order = n]
    BY <1>3, <1>5, <2>1
  <2> QED
    BY <1>4, <1>6, <2>1, <2>2 DEF TrapStates
<1>8. PICK traps, first, hits :
         /\ traps = [r.traps EXCEPT ![f] = u]
         /\ first \in Phases /\ first = (IF r.phase = "none" THEN phase ELSE r.phase)
         /\ hits \in Nat /\ hits = r.hits + 1
  <2>1. PICK first \in Phases : first = (IF r.phase = "none" THEN phase ELSE r.phase)
    BY <1>4, <1>6
  <2>2. PICK hits \in Nat : hits = r.hits + 1
    BY <1>6
  <2>3. PICK traps : traps = [r.traps EXCEPT ![f] = u]
    OBVIOUS
  <2> QED
    BY <2>1, <2>2, <2>3
<1>9. /\ traps \in [Families -> TrapStates]
      /\ \A g \in Families : traps[g] = IF g = f THEN u ELSE r.traps[g]
  BY <1>1, <1>7, <1>8 DEF RecordStates
<1>10. a = [b EXCEPT !.traps = traps, !.hits = hits, !.phase = first]
  BY <1>2, <1>3, <1>4, <1>5, <1>8 DEF Activated
<1>11. /\ IsRecord(a) /\ a.count = r.count + 1 /\ a.events = b.events
       /\ a.traps = traps /\ a.hits = hits /\ a.phase = first
       /\ (a.started <=> r.started) /\ a.replays = b.replays
  <2>1. PICK P : b \in RecordStates(P)
    BY <1>3 DEF IsRecord
  <2>2. /\ a \in RecordStates(P) /\ a.count = b.count /\ a.events = b.events
        /\ a.traps = traps /\ a.hits = hits /\ a.phase = first
        /\ (a.started <=> b.started) /\ a.replays = b.replays
    BY <1>8, <1>9, <1>10, <2>1 DEF RecordStates
  <2> QED
    BY <1>3, <2>2 DEF IsRecord
<1>12. ActivatedFamilies(a) = ActivatedFamilies(r) \cup {f}
  BY <1>7, <1>9, <1>11 DEF ActivatedFamilies
<1>13. \A g \in ActivatedFamilies(r) : g \in Families /\ g # f /\ a.traps[g] = r.traps[g]
  BY <1>9, <1>11 DEF ActivatedFamilies
<1>14. TrapsConsistent(a)
  <2>1. a.hits = Cardinality(ActivatedFamilies(a))
    <3>1. ActivatedFamilies(r) \in SUBSET Families /\ f \notin ActivatedFamilies(r)
      BY DEF ActivatedFamilies
    <3>2. IsFiniteSet(ActivatedFamilies(r))
      BY <3>1, FS_Subset
    <3>3. Cardinality(ActivatedFamilies(r) \cup {f}) = Cardinality(ActivatedFamilies(r)) + 1
      BY <3>1, <3>2, FS_AddElement
    <3>4. r.hits = Cardinality(ActivatedFamilies(r))
      BY DEF OneStory, TrapsConsistent
    <3> QED
      BY <1>8, <1>11, <1>12, <3>3, <3>4
  <2>2. (a.phase = "none") <=> (ActivatedFamilies(a) = {})
    BY <1>4, <1>8, <1>11, <1>12
  <2>3. \A g \in ActivatedFamilies(r) : r.traps[g].order \in 1..r.count
    BY DEF OneStory, TrapsConsistent
  <2>4. a.traps[f] = u
    BY <1>9, <1>11
  <2>5. ASSUME NEW g \in ActivatedFamilies(a)
        PROVE  a.traps[g].order \in 1..a.count
    BY <1>6, <1>7, <1>11, <1>12, <1>13, <2>3, <2>4
  <2>6. ASSUME NEW g \in ActivatedFamilies(a), NEW h \in ActivatedFamilies(a), g # h
        PROVE  a.traps[g].order # a.traps[h].order
    <3>1. CASE g # f /\ h # f
      BY <1>12, <1>13, <2>6, <3>1 DEF OneStory, TrapsConsistent
    <3>2. CASE g = f \/ h = f
      BY <1>6, <1>7, <1>12, <1>13, <2>3, <2>4, <2>6, <3>2
    <3> QED
      BY <3>1, <3>2
  <2>7. ASSUME NEW g \in ActivatedFamilies(a),
               \A h \in ActivatedFamilies(a) : a.traps[g].order <= a.traps[h].order
        PROVE  a.traps[g].phase = a.phase
    <3>1. CASE ActivatedFamilies(r) = {}
      <4>1. g = f /\ r.phase = "none"
        BY <1>12, <3>1 DEF OneStory, TrapsConsistent
      <4> QED
        BY <1>7, <1>8, <1>11, <2>4, <4>1
    <3>2. CASE ActivatedFamilies(r) # {}
      <4>1. PICK h \in ActivatedFamilies(r) : TRUE
        BY <3>2
      <4>2. r.phase # "none" /\ a.phase = r.phase
        BY <1>8, <1>11, <3>2 DEF OneStory, TrapsConsistent
      <4>3. g # f
        BY <1>6, <1>7, <1>12, <1>13, <2>3, <2>4, <2>7, <4>1
      <4>4. g \in ActivatedFamilies(r)
            /\ \A k \in ActivatedFamilies(r) : r.traps[g].order <= r.traps[k].order
        BY <1>12, <1>13, <2>7, <4>3
      <4>5. r.traps[g].phase = r.phase
        BY <4>4 DEF OneStory, TrapsConsistent
      <4> QED
        BY <1>13, <4>2, <4>4, <4>5
    <3> QED
      BY <3>1, <3>2
  <2>8. ASSUME NEW g \in Families, a.traps[g].replays > 0 PROVE a.traps[g].activated
    BY <1>7, <1>9, <1>11, <2>8 DEF OneStory, TrapsConsistent
  <2> QED
    BY <2>1, <2>2, <2>5, <2>6, <2>7, <2>8 DEF TrapsConsistent
<1>15. ~a.started => \A g \in ActivatedFamilies(a) : a.traps[g].phase = "before_verification"
  BY <1>4, <1>7, <1>9, <1>11, <1>12, <1>13 DEF OneStory, StartedFollowsEvents
<1>16. /\ f \in ActivatedFamilies(a) /\ a.traps[f].order = r.count + 1
       /\ a.traps[f].phase = "before_verification" <=> ~r.started
  BY <1>4, <1>7, <1>9, <1>11, <1>12
<1>17. \A g \in ActivatedFamilies(r) :
          /\ g \in ActivatedFamilies(a)
          /\ a.traps[g].order = r.traps[g].order /\ a.traps[g].phase = r.traps[g].phase
  BY <1>12, <1>13
<1>18. PICK e \in EventStates :
          /\ e.order = r.count + 1 /\ e.event = "experiment_activated" /\ e.family = f
          /\ a.events = Newest(Append(r.events, e), Window)
  BY <1>3, <1>11
<1>19. OneStory(a)
  BY <1>11, <1>14, <1>15, <1>16, <1>17, <1>18, StoryGoesOn
<1>20. b.replays = r.replays
  BY <1>2, LogLength, Appends DEF OneStory, EventNames
<1> QED
  BY <1>11, <1>12, <1>19, <1>20

\* The operations that append no event.
LEMMA QuietStory ==
    ASSUME NEW r, OneStory(r), NEW a,
           \/ a = Failed(r)
           \/ \E supplied \in BOOLEAN : a = Reported(r, supplied)
           \/ \E category \in {"page", "api"} : \E clock : a = Observed(r, category, clock)
    PROVE  OneStory(a) /\ ActivatedFamilies(a) = ActivatedFamilies(r) /\ a.replays = r.replays
<1>1. PICK Q : r \in RecordStates(Q)
  BY DEF OneStory, IsRecord
<1> DEFINE Same == /\ a.count = r.count /\ a.events = r.events /\ (a.started <=> r.started)
                   /\ a.hits = r.hits /\ a.phase = r.phase /\ a.traps = r.traps
                   /\ a.replays = r.replays
<1>2. CASE a = Failed(r)
  <2>1. PICK n \in Nat : n = AtMost(r.failures + 1, Cap)
    BY <1>1 DEF AtMost, RecordStates
  <2>2. a = [r EXCEPT !.failures = n]
    BY <1>2, <2>1 DEF Failed
  <2>3. a \in RecordStates(Q) /\ Same
    BY <1>1, <2>2 DEF RecordStates
  <2> QED
    BY <2>3, StoryStays DEF IsRecord, SameLog, ActivatedFamilies
<1>3. ASSUME NEW supplied \in BOOLEAN, a = Reported(r, supplied)
      PROVE  IsRecord(a) /\ Same
  <2>1. PICK v \in {"none", "supplied", "omitted"} : v = IF supplied THEN "supplied" ELSE "omitted"
    OBVIOUS
  <2>2. a = [r EXCEPT !.report = v]
    BY <1>3, <2>1 DEF Reported
  <2>3. a \in RecordStates(Q) /\ Same
    BY <1>1, <2>2 DEF RecordStates
  <2> QED
    BY <2>3 DEF IsRecord
<1>4. ASSUME NEW category \in {"page", "api"}, NEW clock, a = Observed(r, category, clock)
      PROVE  IsRecord(a) /\ Same
  <2>1. PICK q : a = [r EXCEPT !.requests = q, !.category = category]
    BY <1>4 DEF Observed
  <2>2. a \in RecordStates({q}) /\ Same
    BY <1>1, <2>1 DEF RecordStates
  <2> QED
    BY <2>2 DEF IsRecord
<1>5. IsRecord(a) /\ Same => OneStory(a) /\ ActivatedFamilies(a) = ActivatedFamilies(r)
  BY StoryStays DEF SameLog, ActivatedFamilies
<1> QED
  BY <1>2, <1>3, <1>4, <1>5

\* The record as issue_challenge leaves it: every event has its place, and none is
\* an activation or a submission.
LEMMA FirstStory ==
    ASSUME NEW clock \in Int, NEW order \in Orders
    PROVE  /\ OneStory(Expose(NewRecord(clock), order))
           /\ ActivatedFamilies(Expose(NewRecord(clock), order)) = {}
           /\ Expose(NewRecord(clock), order).replays = 0
<1>1. PICK n \in Nat : n = Cardinality(Families)
  BY FS_CardinalityType
<1>2. order \in [1..n -> Families] /\ Len(order) = n
  <2>1. order \in [1..n -> Families]
    BY <1>1 DEF Orders
  <2> QED
    BY <2>1
<1>3. PICK first : first = [order |-> 1, event |-> "challenge_issued", family |-> NoFamily]
  OBVIOUS
<1>4. PICK entries : entries = [i \in 1..n |-> [order |-> 1 + i, event |-> "experiment_exposed",
                                                family |-> order[i]]]
  OBVIOUS
<1>5. PICK s, t : s = <<first>> \o entries /\ t = Newest(s, Window)
  OBVIOUS
<1>6. /\ s \in Seq(EventStates) /\ Len(s) = n + 1
      /\ \A i \in 1..(n + 1) :
            s[i].order = i /\ s[i].event \in {"challenge_issued", "experiment_exposed"}
  <2>1. first \in EventStates /\ first.order = 1 /\ first.event = "challenge_issued"
    BY <1>3 DEF EventStates, EventNames
  <2>2. PICK one : one = <<first>>
    OBVIOUS
  <2>3. one \in Seq(EventStates) /\ Len(one) = 1 /\ one[1] = first
    BY <2>1, <2>2
  <2>4. ASSUME NEW i \in 1..n
        PROVE  /\ entries[i] \in EventStates /\ entries[i].order = 1 + i
               /\ entries[i].event = "experiment_exposed"
    <3>1. entries[i] = [order |-> 1 + i, event |-> "experiment_exposed", family |-> order[i]]
      BY <1>4
    <3>2. 1 + i \in Nat /\ order[i] \in Families
      BY <1>2
    <3> QED
      BY <3>1, <3>2 DEF EventStates, EventNames
  <2>5. entries \in [1..n -> EventStates]
    BY <1>4, <2>4
  <2>6. entries \in Seq(EventStates) /\ Len(entries) = n
    BY <1>1, <2>5
  <2>7. /\ s \in Seq(EventStates) /\ Len(s) = 1 + n
        /\ \A i \in 1..(1 + n) : s[i] = IF i <= 1 THEN one[i] ELSE entries[i - 1]
    <3>1. s = one \o entries
      BY <1>5, <2>2
    <3>2. /\ one \o entries \in Seq(EventStates)
          /\ Len(one \o entries) = Len(one) + Len(entries)
          /\ \A i \in 1..(Len(one) + Len(entries)) :
                (one \o entries)[i] = IF i <= Len(one) THEN one[i] ELSE entries[i - Len(one)]
      <4>1. one \in Seq(EventStates) /\ entries \in Seq(EventStates)
        BY <2>3, <2>6
      <4> QED
        BY ONLY <4>1, ConcatProperties
    <3>3. Len(one) = 1 /\ Len(entries) = n
      BY <2>3, <2>6
    <3> QED
      BY ONLY <3>1, <3>2, <3>3
  <2>8. ASSUME NEW i \in 1..(n + 1)
        PROVE  s[i].order = i /\ s[i].event \in {"challenge_issued", "experiment_exposed"}
    <3>1. CASE i = 1
      BY <1>1, <2>1, <2>3, <2>7, <3>1
    <3>2. CASE i # 1
      <4>1. i - 1 \in 1..n /\ ~(i <= 1) /\ 1 + (i - 1) = i /\ i \in 1..(1 + n)
        BY <1>1, <3>2
      <4>2. s[i] = entries[i - 1]
        BY <2>7, <4>1
      <4> QED
        BY <2>4, <4>1, <4>2
    <3> QED
      BY <3>1, <3>2
  <2> QED
    BY <1>1, <2>7, <2>8
<1>7. /\ t \in Seq(EventStates) /\ Len(t) \in Nat /\ DOMAIN t = 1..Len(t)
      /\ Len(t) = AtMost(n + 1, Window)
      /\ \A i \in 1..Len(t) :
            /\ t[i].order = n + 1 - Len(t) + i
            /\ t[i].event \in {"challenge_issued", "experiment_exposed"}
  <2>1. /\ t \in Seq(EventStates) /\ Len(t) \in Nat /\ Len(t) = AtMost(Len(s), Window)
        /\ \A i \in 1..Len(t) : t[i] = s[i + (Len(s) - Len(t))]
    <3>1. Window \in Nat \ {0} /\ t = Newest(s, Window)
      BY <1>5
    <3>2. s \in Seq(EventStates)
      BY <1>6
    <3>3. IsTail(t, s, EventStates, Window)
      BY <3>1, <3>2, NewestTail
    <3> QED
      BY <3>3 DEF IsTail
  <2>2. Len(t) <= n + 1
    BY <1>1, <1>6, <2>1 DEF AtMost
  <2>3. ASSUME NEW i \in 1..Len(t)
        PROVE  /\ i + (Len(s) - Len(t)) \in 1..(n + 1)
               /\ i + (Len(s) - Len(t)) = n + 1 - Len(t) + i
    BY <1>1, <1>6, <2>1, <2>2
  <2>4. DOMAIN t = 1..Len(t)
    BY <2>1, LenProperties
  <2> QED
    BY <1>6, <2>1, <2>3, <2>4
<1>8. PICK traps : traps = [f \in Families |-> Untouched]
  OBVIOUS
<1>9. traps \in [Families -> TrapStates] /\ \A f \in Families : traps[f] = Untouched
  BY <1>8 DEF TrapStates, Untouched, Phases
<1>10. PICK b : b = [created |-> clock, exposed |-> FALSE, started |-> FALSE,
                     hits |-> 0, phase |-> "none", replays |-> 0, failures |-> 0,
                     report |-> "none", category |-> "none", requests |-> << >>,
                     traps |-> traps, count |-> 0, events |-> << >>]
  OBVIOUS
<1>11. PICK one, r : one = <<first>> /\ r = [b EXCEPT !.count = 1, !.events = one]
  OBVIOUS
<1>12. NewRecord(clock) = r
  <2>1. b.count = 0 /\ b.events = << >> /\ 0 + 1 = 1
    BY <1>10
  <2>2. Append(<< >>, first) = one /\ Len(one) = 1
    BY <1>11
  <2>3. Newest(one, Window) = one
    BY <2>2 DEF Newest
  <2>4. NewRecord(clock) = AppendEvent(b, "challenge_issued", NoFamily)
    BY <1>8, <1>10 DEF NewRecord
  <2>5. AppendEvent(b, "challenge_issued", NoFamily)
          = [b EXCEPT !.count = 1, !.events = Newest(Append(<< >>, first), Window)]
    BY <1>3, <2>1 DEF AppendEvent
  <2> QED
    BY <1>11, <2>2, <2>3, <2>4, <2>5
<1>13. /\ r.exposed = FALSE /\ r.count = 1 /\ r.events = one /\ r.started = FALSE
       /\ r.hits = 0 /\ r.phase = "none" /\ r.replays = 0 /\ r.traps = traps
       /\ r \in RecordStates({<< >>})
  <2>1. one \in Seq(EventStates)
    BY <1>3, <1>11 DEF EventStates, EventNames
  <2> QED
    BY <1>9, <1>10, <1>11, <2>1 DEF RecordStates, Phases
<1>14. PICK a : a = Expose(NewRecord(clock), order)
  OBVIOUS
<1>15. PICK count \in Nat : count = n + 1
  OBVIOUS
<1>16. a = [r EXCEPT !.exposed = TRUE, !.count = count, !.events = t]
  <2>1. a = ExposeInOrder(r, order)
    BY <1>12, <1>13, <1>14 DEF Expose
  <2>2. entries = [i \in 1..Len(order) |->
                      [order |-> r.count + i, event |-> "experiment_exposed", family |-> order[i]]]
    BY <1>2, <1>4, <1>13
  <2>3. ExposeInOrder(r, order)
          = [r EXCEPT !.exposed = TRUE, !.count = r.count + Len(order),
                      !.events = Newest(r.events \o entries, Window)]
    BY <2>2 DEF ExposeInOrder
  <2>4. r.count + Len(order) = count /\ Newest(r.events \o entries, Window) = t
    BY <1>2, <1>5, <1>11, <1>13, <1>15
  <2> QED
    BY <2>1, <2>3, <2>4
<1>17. /\ IsRecord(a) /\ a.count = n + 1 /\ a.events = t /\ a.started = FALSE
       /\ a.hits = 0 /\ a.phase = "none" /\ a.traps = traps /\ a.replays = 0
  <2>1. /\ a \in RecordStates({<< >>}) /\ a.count = count /\ a.events = t /\ a.started = FALSE
        /\ a.hits = 0 /\ a.phase = "none" /\ a.traps = traps /\ a.replays = 0
    BY <1>7, <1>13, <1>15, <1>16 DEF RecordStates
  <2> QED
    BY <1>15, <2>1 DEF IsRecord
<1>18. ActivatedFamilies(a) = {}
  BY <1>9, <1>17 DEF ActivatedFamilies, Untouched
<1>19. TrapsConsistent(a)
  BY <1>9, <1>17, <1>18, FS_EmptySet DEF TrapsConsistent, Untouched
<1>20. EventsConsistent(a)
  BY <1>7, <1>17 DEF EventsConsistent
<1>21. PhasesFollowOrder(a) /\ StartedFollowsEvents(a)
  BY <1>7, <1>17, <1>18 DEF PhasesFollowOrder, StartedFollowsEvents
<1> QED
  BY <1>14, <1>17, <1>18, <1>19, <1>20, <1>21 DEF OneStory

\* What an operation answered st makes of record r: a.
Outcome(r, a, op, st) ==
    /\ OneStory(a)
    /\ st = "204" => /\ op.family \in Families \ ActivatedFamilies(r)
                     /\ ActivatedFamilies(a) = ActivatedFamilies(r) \cup {op.family}
    /\ st # "204" => ActivatedFamilies(a) = ActivatedFamilies(r)
    /\ a.replays = IF st = "410" THEN AtMost(r.replays + 1, Cap) ELSE r.replays

\* Every operation leaves one story, activates the trap it was answered 204 for,
\* and no other, and counts as a replay what it answered 410.
LEMMA ApplyStory ==
    ASSUME NEW r, OneStory(r), NEW op \in Operations, NEW clock \in Int
    PROVE  Outcome(r, Apply(r, op, clock), op, Status(r, op, clock))
<1>1. PICK a, st : a = Apply(r, op, clock) /\ st = Status(r, op, clock)
  OBVIOUS
<1>2. CASE op.kind = "lifecycle"
  <2>1. a = Lifecycle(r, op.event) /\ st = "done"
    BY <1>1, <1>2 DEF Apply, Status
  <2>2. op.event \in EventNames \ {"experiment_activated"}
    BY <1>2 DEF Operations, EventNames
  <2> QED
    BY <1>1, <2>1, <2>2, LifecycleStory DEF Outcome
<1>3. CASE op.kind \in {"report", "observe", "failure"}
  <2>1. st = "done"
    BY <1>1, <1>3 DEF Status
  <2>2. \/ a = Failed(r)
        \/ \E supplied \in BOOLEAN : a = Reported(r, supplied)
        \/ \E category \in {"page", "api"} : \E c : a = Observed(r, category, c)
    <3>1. CASE op.kind = "failure"
      BY <1>1, <3>1 DEF Apply
    <3>2. CASE op.kind = "report"
      <4>1. a = Reported(r, op.supplied) /\ op.supplied \in BOOLEAN
        BY <1>1, <3>2 DEF Apply, Operations
      <4> QED
        BY <4>1
    <3>3. CASE op.kind = "observe"
      <4>1. a = Observed(r, op.category, clock) /\ op.category \in {"page", "api"}
        BY <1>1, <3>3 DEF Apply, Operations
      <4> QED
        BY <4>1
    <3> QED
      BY <1>3, <3>1, <3>2, <3>3
  <2> QED
    BY <1>1, <2>1, <2>2, QuietStory DEF Outcome
<1>4. CASE op.kind = "activate"
  <2>1. op.family \in Families
    BY <1>4 DEF Operations
  <2>2. \/ st = "204" /\ a = Activated(r, op.family) /\ ~r.traps[op.family].activated
        \/ st = "410" /\ a = Replayed(r, op.family) /\ r.traps[op.family].activated
        \/ st \notin {"204", "410"} /\ a = r
    BY <1>1, <1>4 DEF Apply, Status
  <2>3. CASE st = "204"
    <3>1. op.family \in Families \ ActivatedFamilies(r) /\ a = Activated(r, op.family)
      BY <2>1, <2>2, <2>3 DEF ActivatedFamilies
    <3> QED
      BY <1>1, <2>3, <3>1, ActivationStory DEF Outcome
  <2>4. CASE st = "410"
    <3>1. op.family \in ActivatedFamilies(r) /\ a = Replayed(r, op.family)
      BY <2>1, <2>2, <2>4 DEF ActivatedFamilies
    <3> QED
      BY <1>1, <2>4, <3>1, ReplayStory DEF Outcome
  <2>5. CASE st \notin {"204", "410"}
    BY <1>1, <2>2, <2>5 DEF Outcome
  <2> QED
    BY <2>3, <2>4, <2>5
<1> QED
  BY <1>2, <1>3, <1>4 DEF Operations

-----------------------------------------------------------------------------
\* The invariant of the service: what is called is an operation, and the record
\* tells one story.
ServiceInv ==
    /\ now \in Nat /\ call \in [Callers -> CallStates]
    /\ \A w \in Callers : Pending(w) => call[w].op \in Calls
    /\ OneStory(record)

LEMMA ServiceInit == Init => ServiceInv
<1> SUFFICES ASSUME Init PROVE ServiceInv
  OBVIOUS
<1>1. OneStory(record)
  BY FirstStory DEF Init
<1>2. NoCall \in CallStates /\ NoCall.reply = "none"
  BY DEF NoCall, CallStates, Replies
<1> QED
  BY <1>1, <1>2 DEF Init, ServiceInv, Pending

\* An answer ends a call, and changes nothing else about it.
LEMMA AnswerEnds ==
    ASSUME ServiceInv, NEW w \in Callers, NEW reply \in Replies \ {"pending"},
           Answered(w, reply), now' = now, OneStory(record')
    PROVE  ServiceInv'
<1>1. /\ call' \in [Callers -> CallStates] /\ call'[w].reply = reply
      /\ \A u \in Callers \ {w} : call'[u] = call[u]
  BY DEF ServiceInv, CallStates, Answered
<1>2. ASSUME NEW u \in Callers, call'[u].reply = "pending" PROVE call'[u].op \in Calls
  BY <1>1, <1>2 DEF ServiceInv, Pending
<1> QED
  BY <1>1, <1>2 DEF ServiceInv, Pending

LEMMA ServiceStep == ServiceInv /\ [Next]_vars => ServiceInv'
<1> SUFFICES ASSUME ServiceInv, [Next]_vars PROVE ServiceInv'
  OBVIOUS
<1>1. ASSUME NEW w \in Callers, Begin(w) PROVE ServiceInv'
  <2>1. PICK op \in Calls :
           call' = [call EXCEPT ![w] = [op |-> op, since |-> now, reply |-> "pending"]]
    BY <1>1 DEF Begin
  <2>2. PICK c : c = [op |-> op, since |-> now, reply |-> "pending"]
    OBVIOUS
  <2>3. c \in CallStates /\ c.op \in Calls
    BY <2>2 DEF CallStates, Replies, ServiceInv
  <2>4. /\ call' \in [Callers -> CallStates] /\ call'[w] = c
        /\ \A u \in Callers \ {w} : call'[u] = call[u]
    BY <2>1, <2>2, <2>3 DEF ServiceInv
  <2> QED
    BY <1>1, <2>3, <2>4 DEF Begin, ServiceInv, Pending
<1>2. ASSUME NEW w \in Callers, Pending(w), NEW clock \in Clocks(w)
      PROVE  /\ OneStory(Apply(record, call[w].op, clock))
             /\ Status(record, call[w].op, clock) \in Replies \ {"pending"}
  <2>1. clock \in Int /\ call[w].op \in Operations
    BY <1>2 DEF Clocks, ServiceInv, CallStates
  <2> QED
    BY <2>1, ApplyStory, StatusIsReply DEF Outcome, ServiceInv
<1>3. ASSUME NEW w \in Callers, Serve(w) PROVE ServiceInv'
  <2>1. PICK clock \in Clocks(w) :
           /\ record' = Apply(record, call[w].op, clock)
           /\ Answered(w, Status(record, call[w].op, clock))
    BY <1>3 DEF Serve
  <2>2. Pending(w) /\ now' = now
    BY <1>3 DEF Serve
  <2> QED
    BY <1>2, <2>1, <2>2, AnswerEnds
<1>4. ASSUME NEW w \in Callers, Repeat(w) PROVE ServiceInv'
  <2>1. PICK clock \in Clocks(w) : record' = Apply(record, call[w].op, clock)
    BY <1>4 DEF Repeat
  <2>2. Pending(w) /\ now' = now /\ call' = call
    BY <1>4 DEF Repeat
  <2>3. OneStory(record')
    BY <1>2, <2>1, <2>2
  <2> QED
    BY <2>2, <2>3 DEF ServiceInv, Pending
<1>5. ASSUME NEW w \in Callers, Missing(w) \/ GiveUp(w) PROVE ServiceInv'
  <2>1. PICK reply \in {"gone", "error", "down"} :
           Answered(w, reply) /\ now' = now /\ record' = record
    BY <1>5 DEF Missing, GiveUp
  <2>2. reply \in Replies \ {"pending"}
    BY DEF Replies
  <2>3. OneStory(record')
    BY <2>1 DEF ServiceInv
  <2> QED
    BY <2>1, <2>2, <2>3, AnswerEnds
<1>6. CASE Tick
  BY <1>6 DEF Tick, ServiceInv, Pending
<1>7. CASE UNCHANGED vars
  BY <1>7 DEF vars, ServiceInv, Pending
<1> QED
  BY <1>1, <1>3, <1>4, <1>5, <1>6, <1>7 DEF Next

LEMMA ServiceStory == Spec => []ServiceInv
  BY ServiceInit, ServiceStep, PTL DEF Spec

\* The evidence of a session tells one story at every moment, whatever workers race:
\* the service's record does, and the Redis store is that service.
THEOREM StoryHolds == RSpec => []RecordTellsOneStory
<1>1. ServiceInv => RecordTellsOneStory
  BY DEF ServiceInv, OneStory, RecordTellsOneStory
<1>2. Spec => []RecordTellsOneStory
  BY <1>1, ServiceStory, PTL
<1> QED
  BY <1>2, StoreIsService, PTL DEF ImplementsService

-----------------------------------------------------------------------------
\* A call loses at most one answer in each of its attempts, and none before it began.
Attempts ==
    \A w \in Callers :
        LET n == Len(txn[w].unheard) IN
        /\ n <= MaxTries
        /\ txn[w].pc = "watch" => n <= txn[w].tries
        /\ txn[w].pc \in {"read", "exec"} => n < txn[w].tries
        /\ call[w].reply = "none" => n = 0

\* The callers answered 410, and the lost 204s of family f.
Refused == {w \in Callers : call[w].reply = "410"}
UntoldOf(f) == {x \in Untold("204") : call[x[1]].op.family = f}

Finite ==
    /\ IsFiniteSet(Refused) /\ IsFiniteSet(Untold("204")) /\ IsFiniteSet(Untold("410"))
    /\ \A f \in Families : IsFiniteSet(Told(f, "204"))

\* What a step may do to the answers: give none ...
Settled == {"204", "410"}

Quiet ==
    /\ record' = record
    /\ \A u \in Callers :
          /\ txn'[u].unheard = txn[u].unheard
          /\ \/ call'[u] = call[u]
             \/ /\ call[u].reply \notin Settled /\ call'[u].reply \notin Settled
                /\ call'[u].op = call[u].op \/ Len(txn[u].unheard) = 0

\* ... give one for what was made of the record ...
Heard(w, st) ==
    /\ Pending(w) /\ Outcome(record, record', call[w].op, st)
    /\ call'[w].reply = st /\ call'[w].op = call[w].op
    /\ \A u \in Callers \ {w} : call'[u] = call[u]
    /\ \A u \in Callers : txn'[u].unheard = txn[u].unheard

\* ... or lose it.
Lost(w, st) ==
    /\ Outcome(record, record', call[w].op, st)
    /\ call' = call /\ Len(txn[w].unheard) < MaxTries
    /\ txn'[w].unheard = Append(txn[w].unheard, st)
    /\ \A u \in Callers \ {w} : txn'[u].unheard = txn[u].unheard

\* The other transactions keep their lost answers when one writes.
LEMMA TouchedKeeps ==
    ASSUME Typed, NEW w \in Callers, NEW mine, txn' = Touched(w, mine)
    PROVE  /\ txn'[w] = mine
           /\ \A u \in Callers \ {w} :
                 /\ txn'[u].unheard = txn[u].unheard /\ txn'[u].tries = txn[u].tries
                 /\ txn'[u].pc = txn[u].pc
<1>1. txn'[w] = mine
  BY DEF Touched
<1>2. ASSUME NEW u \in Callers \ {w}
      PROVE  /\ txn'[u].unheard = txn[u].unheard /\ txn'[u].tries = txn[u].tries
             /\ txn'[u].pc = txn[u].pc
  <2>1. PICK t : t = txn[u]
    OBVIOUS
  <2>2. PICK dirty, overtaken : txn'[u] = [t EXCEPT !.dirty = dirty, !.overtaken = overtaken]
    BY <2>1 DEF Touched
  <2>3. IsTxn(t)
    BY <2>1 DEF Typed
  <2>4. t = [pc |-> t.pc, tries |-> t.tries, dirty |-> t.dirty, draft |-> t.draft,
             status |-> t.status, overtaken |-> t.overtaken, unheard |-> t.unheard]
    BY <2>3 DEF IsTxn
  <2>5. txn'[u] = [pc |-> t.pc, tries |-> t.tries, dirty |-> dirty, draft |-> t.draft,
                   status |-> t.status, overtaken |-> overtaken, unheard |-> t.unheard]
    BY ONLY <2>2, <2>4, Zenon
  <2> QED
    BY <2>1, <2>5
<1> QED
  BY <1>1, <1>2

\* The lost answers of a caller are numbered from 1.
LEMMA UntoldBy ==
    ASSUME IInv, NEW status, NEW x
    PROVE  x \in Untold(status) <=>
              /\ x \in Callers \X (1..MaxTries)
              /\ x[1] \in Callers /\ x[2] \in 1..Len(txn[x[1]].unheard)
              /\ txn[x[1]].unheard[x[2]] = status
<1>1. ASSUME NEW u \in Callers PROVE DOMAIN txn[u].unheard = 1..Len(txn[u].unheard)
  BY LenProperties DEF IInv, Typed, IsTxn
<1> QED
  BY <1>1 DEF Untold

LEMMA UnheardLen ==
    ASSUME IInv, NEW u \in Callers
    PROVE  txn[u].unheard \in Seq(Replies) /\ Len(txn[u].unheard) \in Nat
  BY LenProperties DEF IInv, Typed, IsTxn

Account == Finite /\ AnswersAccountForRecord

\* The sums over the answers, which are all that the account is about.
LEMMA AccountSums ==
    ASSUME Finite
    PROVE  /\ \A f \in Families : Cardinality(Told(f, "204")) \in Nat
                                  /\ Cardinality(UntoldOf(f)) \in Nat
                                  /\ IsFiniteSet(UntoldOf(f))
           /\ Cardinality(Refused) \in Nat /\ Cardinality(Untold("410")) \in Nat
<1>1. ASSUME NEW f \in Families PROVE IsFiniteSet(UntoldOf(f))
  <2>1. UntoldOf(f) \in SUBSET Untold("204")
    BY DEF UntoldOf
  <2> QED
    BY <2>1, FS_Subset DEF Finite
<1> QED
  BY <1>1, FS_CardinalityType DEF Finite

LEMMA QuietAccount ==
    ASSUME IInv, IInv', Account, Quiet PROVE Account'
<1>1. Refused' = Refused /\ \A f \in Families : Told(f, "204")' = Told(f, "204")
  BY DEF Quiet, Settled, Refused, Told
<1>2. ASSUME NEW st PROVE Untold(st)' = Untold(st)
  BY DEF Quiet, Untold
<1>3. ASSUME NEW f \in Families PROVE UntoldOf(f)' = UntoldOf(f)
  <2>1. ASSUME NEW x \in Untold("204") PROVE call'[x[1]].op = call[x[1]].op
    <3>1. PICK u, n : u = x[1] /\ n = x[2]
      OBVIOUS
    <3>2. u \in Callers /\ n \in 1..Len(txn[u].unheard)
      BY <3>1, UntoldBy
    <3>3. Len(txn[u].unheard) # 0
      BY <3>2, UnheardLen
    <3> QED
      BY <3>1, <3>2, <3>3 DEF Quiet
  <2>2. UntoldOf(f)' = {x \in Untold("204")' : call'[x[1]].op.family = f}
    BY DEF UntoldOf
  <2>3. UntoldOf(f) = {x \in Untold("204") : call[x[1]].op.family = f}
    BY DEF UntoldOf
  <2> QED
    BY <1>2, <2>1, <2>2, <2>3
<1>4. Finite'
  BY <1>1, <1>2 DEF Account, Finite
<1>5. AnswersAccountForRecord'
  <2>1. record' = record
    BY DEF Quiet
  <2> QED
    BY <1>1, <1>2, <1>3, <2>1 DEF Account, AnswersAccountForRecord, UntoldOf, Refused
<1> QED
  BY <1>4, <1>5 DEF Account

\* One more, for each kind of answer.
Plus(n, b) == IF b THEN n + 1 ELSE n

LEMMA SaturatesOnce ==
    ASSUME NEW n \in Nat, NEW m, m = AtMost(n, Cap)
    PROVE  AtMost(m + 1, Cap) = AtMost(n + 1, Cap)
  BY DEF AtMost

LEMMA AccountGoesOn ==
    ASSUME Account, Finite', NEW st, NEW op, Outcome(record, record', op, st),
           \A f \in Families :
              Cardinality(Told(f, "204"))' + Cardinality(UntoldOf(f))'
                = Plus(Cardinality(Told(f, "204")) + Cardinality(UntoldOf(f)),
                       st = "204" /\ op.family = f),
           Cardinality(Refused)' + Cardinality(Untold("410"))'
             = Plus(Cardinality(Refused) + Cardinality(Untold("410")), st = "410")
    PROVE  Account'
<1>1. ASSUME NEW f \in Families
      PROVE  Cardinality(Told(f, "204"))' + Cardinality(UntoldOf(f))'
                = IF record'.traps[f].activated THEN 1 ELSE 0
  <2>1. Cardinality(Told(f, "204")) + Cardinality(UntoldOf(f))
           = IF f \in ActivatedFamilies(record) THEN 1 ELSE 0
    BY DEF Account, AnswersAccountForRecord, ActivatedFamilies, UntoldOf
  <2>2. f \in ActivatedFamilies(record') <=> record'.traps[f].activated
    BY DEF ActivatedFamilies
  <2>3. CASE st = "204" /\ op.family = f
    BY <2>1, <2>2, <2>3 DEF Outcome, Plus
  <2>4. CASE ~(st = "204" /\ op.family = f)
    <3>1. f \in ActivatedFamilies(record') <=> f \in ActivatedFamilies(record)
      BY <2>4 DEF Outcome
    <3> QED
      BY <2>1, <2>2, <2>4, <3>1 DEF Plus
  <2> QED
    BY <2>3, <2>4
<1>2. record'.replays = AtMost(Cardinality(Refused)' + Cardinality(Untold("410"))', Cap)
  <2>1. PICK n \in Nat : n = Cardinality(Refused) + Cardinality(Untold("410"))
    BY AccountSums DEF Account
  <2>2. record.replays = AtMost(n, Cap)
    BY <2>1 DEF Account, AnswersAccountForRecord, Refused
  <2>3. CASE st = "410"
    <3>1. record'.replays = AtMost(record.replays + 1, Cap)
      BY <2>3 DEF Outcome
    <3>2. AtMost(record.replays + 1, Cap) = AtMost(n + 1, Cap)
      BY <2>2, SaturatesOnce
    <3> QED
      BY <2>1, <2>3, <3>1, <3>2 DEF Plus
  <2>4. CASE st # "410"
    BY <2>1, <2>2, <2>4 DEF Outcome, Plus
  <2> QED
    BY <2>3, <2>4
<1>3. AnswersAccountForRecord'
  BY <1>1, <1>2 DEF AnswersAccountForRecord, UntoldOf, Refused
<1> QED
  BY <1>3 DEF Account

LEMMA HeardAccount ==
    ASSUME IInv, IInv', Account, NEW w \in Callers, NEW st, Heard(w, st)
    PROVE  Account'
<1>1. /\ call[w].reply = "pending" /\ call'[w].reply = st
      /\ \A u \in Callers : call'[u].op = call[u].op
      /\ \A u \in Callers \ {w} : call'[u] = call[u]
  BY DEF Heard, Pending
<1>2. ASSUME NEW f \in Families
      PROVE  /\ w \notin Told(f, "204")
             /\ Told(f, "204")' = IF st = "204" /\ call[w].op.family = f
                                  THEN Told(f, "204") \cup {w} ELSE Told(f, "204")
  BY <1>1 DEF Told
<1>3. w \notin Refused /\ Refused' = IF st = "410" THEN Refused \cup {w} ELSE Refused
  BY <1>1 DEF Refused
<1>4. ASSUME NEW s PROVE Untold(s)' = Untold(s)
  BY DEF Heard, Untold
<1>5. ASSUME NEW f \in Families PROVE UntoldOf(f)' = UntoldOf(f)
  <2>1. \A x \in Untold("204") : call'[x[1]].op = call[x[1]].op
    BY <1>1, UntoldBy
  <2> QED
    BY <1>4, <2>1 DEF UntoldOf
<1>6. Finite'
  BY <1>2, <1>3, <1>4, FS_AddElement DEF Account, Finite
<1>7. ASSUME NEW f \in Families
      PROVE  Cardinality(Told(f, "204"))' + Cardinality(UntoldOf(f))'
                = Plus(Cardinality(Told(f, "204")) + Cardinality(UntoldOf(f)),
                       st = "204" /\ call[w].op.family = f)
  <2>1. Cardinality(Told(f, "204") \cup {w}) = Cardinality(Told(f, "204")) + 1
    BY <1>2, FS_AddElement DEF Account, Finite
  <2>2. Cardinality(Told(f, "204")) \in Nat /\ Cardinality(UntoldOf(f)) \in Nat
    BY AccountSums DEF Account
  <2>3. UntoldOf(f)' = UntoldOf(f)
    BY <1>5
  <2>4. CASE st = "204" /\ call[w].op.family = f
    <3>1. Told(f, "204")' = Told(f, "204") \cup {w}
      BY <1>2, <2>4
    <3>2. Cardinality(Told(f, "204"))' = Cardinality(Told(f, "204")) + 1
      <4>1. PICK S, T : S = Told(f, "204")' /\ T = Told(f, "204") \cup {w}
        OBVIOUS
      <4>2. S = T
        BY <3>1, <4>1
      <4>3. Cardinality(S) = Cardinality(T)
        BY <4>2
      <4> QED
        BY <2>1, <4>1, <4>3
    <3>3. Cardinality(UntoldOf(f))' = Cardinality(UntoldOf(f))
      BY <2>3
    <3> QED
      BY <2>2, <2>4, <3>2, <3>3 DEF Plus
  <2>5. CASE ~(st = "204" /\ call[w].op.family = f)
    <3>1. Told(f, "204")' = Told(f, "204")
      BY <1>2, <2>5
    <3> QED
      BY <2>2, <2>3, <2>5, <3>1 DEF Plus
  <2> QED
    BY <2>4, <2>5
<1>8. Cardinality(Refused)' + Cardinality(Untold("410"))'
        = Plus(Cardinality(Refused) + Cardinality(Untold("410")), st = "410")
  <2>1. Cardinality(Refused \cup {w}) = Cardinality(Refused) + 1
    BY <1>3, FS_AddElement DEF Account, Finite
  <2>2. Cardinality(Refused) \in Nat /\ Cardinality(Untold("410")) \in Nat
    BY AccountSums DEF Account
  <2> QED
    BY <1>3, <1>4, <2>1, <2>2 DEF Plus
<1>9. Outcome(record, record', call[w].op, st)
  BY DEF Heard
<1> QED
  BY <1>6, <1>7, <1>8, <1>9, AccountGoesOn

LEMMA LostAccount ==
    ASSUME IInv, IInv', Account, NEW w \in Callers, NEW st, Lost(w, st)
    PROVE  Account'
<1>1. PICK n \in Nat : n = Len(txn[w].unheard)
  BY UnheardLen
<1>2. /\ call' = call /\ n < MaxTries
      /\ \A u \in Callers \ {w} : txn'[u].unheard = txn[u].unheard
  BY <1>1 DEF Lost
<1>3. /\ Len(txn'[w].unheard) = n + 1 /\ txn'[w].unheard[n + 1] = st
      /\ \A i \in 1..n : txn'[w].unheard[i] = txn[w].unheard[i]
  <2>1. PICK q : q = txn[w].unheard
    OBVIOUS
  <2>2. PICK S : st \in S /\ q \in Seq(S)
    <3>1. q \in Seq(Replies)
      BY <2>1, UnheardLen
    <3>2. q \in [1..n -> Replies \cup {st}]
      BY <1>1, <2>1, <3>1, LenProperties
    <3>3. q \in Seq(Replies \cup {st})
      BY <3>2
    <3> QED
      BY <3>3
  <2>3. txn'[w].unheard = Append(q, st)
    BY <2>1 DEF Lost
  <2> QED
    BY <1>1, <2>1, <2>2, <2>3, AppendProperties
<1>4. PICK y : y = <<w, n + 1>>
  OBVIOUS
<1>5. ASSUME NEW s
      PROVE  /\ y \notin Untold(s)
             /\ Untold(s)' = IF st = s THEN Untold(s) \cup {y} ELSE Untold(s)
  <2>1. y \notin Untold(s)
    BY <1>1, <1>4, UntoldBy
  <2>2. ASSUME NEW x
        PROVE  x \in Untold(s)' <=> x \in Untold(s) \/ (x = y /\ st = s)
    <3>1. x \in Untold(s)' <=>
              /\ x \in Callers \X (1..MaxTries)
              /\ x[1] \in Callers /\ x[2] \in 1..Len(txn'[x[1]].unheard)
              /\ txn'[x[1]].unheard[x[2]] = s
      <4>1. ASSUME NEW u \in Callers
            PROVE  DOMAIN txn'[u].unheard = 1..Len(txn'[u].unheard)
        BY LenProperties DEF IInv, Typed, IsTxn
      <4> QED
        BY <4>1 DEF Untold
    <3>2. CASE x \notin Callers \X (1..MaxTries)
      <4>1. y \in Callers \X (1..MaxTries)
        BY <1>1, <1>2, <1>4
      <4> QED
        BY <3>1, <3>2, <4>1, UntoldBy
    <3>3. CASE x \in Callers \X (1..MaxTries) /\ x[1] # w
      BY <1>2, <1>4, <3>1, <3>3, UntoldBy
    <3>4. CASE x \in Callers \X (1..MaxTries) /\ x[1] = w
      <4>1. PICK i \in 1..MaxTries : x = <<w, i>> /\ x[2] = i
        BY <3>4
      <4>2. x \in Untold(s)' <=> i \in 1..(n + 1) /\ txn'[w].unheard[i] = s
        BY <1>3, <3>1, <3>4, <4>1
      <4>3. x \in Untold(s) <=> i \in 1..n /\ txn[w].unheard[i] = s
        BY <1>1, <3>4, <4>1, UntoldBy
      <4>4. x = y <=> i = n + 1
        BY <1>4, <4>1
      <4>5. i \in 1..(n + 1) <=> i \in 1..n \/ i = n + 1
        BY <1>1
      <4>6. i # n + 1 \/ i \notin 1..n
        BY <1>1
      <4> QED
        BY <1>3, <4>2, <4>3, <4>4, <4>5, <4>6
    <3> QED
      BY <3>2, <3>3, <3>4
  <2> QED
    BY <2>1, <2>2
<1>6. Refused' = Refused /\ \A f \in Families : Told(f, "204")' = Told(f, "204")
  BY <1>2 DEF Refused, Told
<1>7. y[1] = w
  BY <1>4
<1>8. ASSUME NEW f \in Families
      PROVE  /\ y \notin UntoldOf(f)
             /\ UntoldOf(f)' = IF st = "204" /\ call[w].op.family = f
                              THEN UntoldOf(f) \cup {y} ELSE UntoldOf(f)
  <2>1. UntoldOf(f)' = {x \in Untold("204")' : call[x[1]].op.family = f}
    BY <1>2 DEF UntoldOf
  <2> QED
    BY <1>5, <1>7, <2>1 DEF UntoldOf
<1>9. Finite'
  BY <1>5, <1>6, FS_AddElement DEF Account, Finite
<1>10. ASSUME NEW f \in Families
       PROVE  Cardinality(Told(f, "204"))' + Cardinality(UntoldOf(f))'
                = Plus(Cardinality(Told(f, "204")) + Cardinality(UntoldOf(f)),
                       st = "204" /\ call[w].op.family = f)
  <2>1. IsFiniteSet(UntoldOf(f)) /\ Cardinality(Told(f, "204")) \in Nat
        /\ Cardinality(UntoldOf(f)) \in Nat
    BY AccountSums DEF Account
  <2>2. Cardinality(UntoldOf(f) \cup {y}) = Cardinality(UntoldOf(f)) + 1
    BY <1>8, <2>1, FS_AddElement
  <2>3. Told(f, "204")' = Told(f, "204")
    BY <1>6
  <2>4. CASE st = "204" /\ call[w].op.family = f
    <3>1. UntoldOf(f)' = UntoldOf(f) \cup {y}
      BY <1>8, <2>4
    <3> QED
      BY <2>1, <2>2, <2>3, <2>4, <3>1 DEF Plus
  <2>5. CASE ~(st = "204" /\ call[w].op.family = f)
    <3>1. UntoldOf(f)' = UntoldOf(f)
      BY <1>8, <2>5
    <3> QED
      BY <2>1, <2>3, <2>5, <3>1 DEF Plus
  <2> QED
    BY <2>4, <2>5
<1>11. Cardinality(Refused)' + Cardinality(Untold("410"))'
        = Plus(Cardinality(Refused) + Cardinality(Untold("410")), st = "410")
  <2>1. Cardinality(Untold("410") \cup {y}) = Cardinality(Untold("410")) + 1
    BY <1>5, FS_AddElement DEF Account, Finite
  <2>2. Cardinality(Refused) \in Nat /\ Cardinality(Untold("410")) \in Nat
    BY AccountSums DEF Account
  <2>3. CASE st = "410"
    <3>1. Untold("410")' = Untold("410") \cup {y}
      BY <1>5, <2>3
    <3> QED
      BY <1>6, <2>1, <2>2, <2>3, <3>1 DEF Plus
  <2>4. CASE st # "410"
    <3>1. Untold("410")' = Untold("410")
      BY <1>5, <2>4
    <3> QED
      BY <1>6, <2>2, <2>4, <3>1 DEF Plus
  <2> QED
    BY <2>3, <2>4
<1>12. Outcome(record, record', call[w].op, st)
  BY DEF Lost
<1> QED
  BY <1>9, <1>10, <1>11, <1>12, AccountGoesOn

-----------------------------------------------------------------------------
\* The attempts of one caller, and what keeps them.
Attempt(w) ==
    LET n == Len(txn[w].unheard) IN
    /\ n <= MaxTries
    /\ txn[w].pc = "watch" => n <= txn[w].tries
    /\ txn[w].pc \in {"read", "exec"} => n < txn[w].tries
    /\ call[w].reply = "none" => n = 0

LEMMA AttemptsByCaller == Attempts <=> \A w \in Callers : Attempt(w)
  BY DEF Attempts, Attempt

\* A step of one caller moves its transaction only, and tells it alone an answer.
Alone(w) ==
    \A u \in Callers \ {w} :
        /\ txn'[u].unheard = txn[u].unheard /\ txn'[u].tries = txn[u].tries
        /\ txn'[u].pc = txn[u].pc /\ call'[u] = call[u]

LEMMA AttemptsGoOn ==
    ASSUME Attempts, NEW w \in Callers, Alone(w), Attempt(w)' PROVE Attempts'
<1>1. ASSUME NEW u \in Callers \ {w} PROVE Attempt(u)'
  BY <1>1 DEF Alone, Attempts, Attempt
<1> QED
  BY <1>1 DEF Attempts, Attempt

LEMMA MovesAlone ==
    ASSUME Typed, NEW w \in Callers, NEW t, txn' = [txn EXCEPT ![w] = t]
    PROVE  txn'[w] = t /\ \A u \in Callers \ {w} : txn'[u] = txn[u]
  BY DEF Typed

LEMMA AnswersAlone ==
    ASSUME Typed, NEW w \in Callers, NEW reply, Answered(w, reply)
    PROVE  /\ call'[w].reply = reply /\ call'[w].op = call[w].op
           /\ \A u \in Callers \ {w} : call'[u] = call[u]
  BY DEF Typed, CallStates, Answered

\* A transaction that goes back to its next attempt.
LEMMA GoesToWatch ==
    ASSUME Typed, NEW w \in Callers, txn' = [txn EXCEPT ![w].pc = "watch"]
    PROVE  /\ txn'[w].pc = "watch" /\ txn'[w].tries = txn[w].tries
           /\ txn'[w].unheard = txn[w].unheard
           /\ \A u \in Callers \ {w} : txn'[u] = txn[u]
<1>1. PICK o : o = txn[w]
  OBVIOUS
<1>2. o = [pc |-> o.pc, tries |-> o.tries, dirty |-> o.dirty, draft |-> o.draft,
           status |-> o.status, overtaken |-> o.overtaken, unheard |-> o.unheard]
  BY <1>1 DEF Typed, IsTxn
<1>3. PICK t : t = [o EXCEPT !.pc = "watch"]
  OBVIOUS
<1>4. t = [pc |-> "watch", tries |-> o.tries, dirty |-> o.dirty, draft |-> o.draft,
           status |-> o.status, overtaken |-> o.overtaken, unheard |-> o.unheard]
  BY ONLY <1>2, <1>3, Zenon
<1>5. txn' = [txn EXCEPT ![w] = t]
  BY <1>1, <1>3
<1>6. t.pc = "watch" /\ t.tries = o.tries /\ t.unheard = o.unheard
  BY ONLY <1>4
<1>7. txn'[w] = t /\ \A u \in Callers \ {w} : txn'[u] = txn[u]
  BY ONLY <1>5, Typed, w \in Callers, MovesAlone
<1> QED
  BY ONLY <1>1, <1>6, <1>7

\* What a step of caller w makes of its own transaction: moved on to read or exec,
\* its lost answers kept.
LEMMA WatchMoves ==
    ASSUME Typed, NEW w \in Callers, Watch(w)
    PROVE  /\ txn'[w].pc = "read" /\ txn'[w].tries = txn[w].tries + 1
           /\ txn'[w].unheard = txn[w].unheard
           /\ \A u \in Callers \ {w} : txn'[u] = txn[u]
<1>1. PICK o : o = txn[w]
  OBVIOUS
<1>2. o = [pc |-> o.pc, tries |-> o.tries, dirty |-> o.dirty, draft |-> o.draft,
           status |-> o.status, overtaken |-> o.overtaken, unheard |-> o.unheard]
  BY <1>1 DEF Typed, IsTxn
<1>3. PICK t, k : t = [o EXCEPT !.pc = "read", !.tries = k, !.dirty = FALSE]
                  /\ k = txn[w].tries + 1 /\ txn' = [txn EXCEPT ![w] = t]
  BY <1>1 DEF Watch
<1>4. t = [pc |-> "read", tries |-> k, dirty |-> FALSE, draft |-> o.draft,
           status |-> o.status, overtaken |-> o.overtaken, unheard |-> o.unheard]
  BY ONLY <1>2, <1>3, Zenon
<1>5. t.pc = "read" /\ t.tries = k /\ t.unheard = o.unheard
  BY ONLY <1>4
<1>6. txn'[w] = t /\ \A u \in Callers \ {w} : txn'[u] = txn[u]
  BY ONLY <1>3, Typed, w \in Callers, MovesAlone
<1> QED
  BY ONLY <1>1, <1>3, <1>5, <1>6

LEMMA ReadMoves ==
    ASSUME Typed, NEW w \in Callers, Read(w), KeyLives
    PROVE  /\ txn'[w].pc = "exec" /\ txn'[w].tries = txn[w].tries
           /\ txn'[w].unheard = txn[w].unheard
           /\ \A u \in Callers \ {w} : txn'[u] = txn[u]
<1>1. PICK o : o = txn[w]
  OBVIOUS
<1>2. o = [pc |-> o.pc, tries |-> o.tries, dirty |-> o.dirty, draft |-> o.draft,
           status |-> o.status, overtaken |-> o.overtaken, unheard |-> o.unheard]
  BY <1>1 DEF Typed, IsTxn
<1>3. PICK t, draft, status :
         t = [o EXCEPT !.pc = "exec", !.draft = draft, !.status = status]
         /\ txn' = [txn EXCEPT ![w] = t]
  BY <1>1 DEF Read
<1>4. t = [pc |-> "exec", tries |-> o.tries, dirty |-> o.dirty, draft |-> draft,
           status |-> status, overtaken |-> o.overtaken, unheard |-> o.unheard]
  BY ONLY <1>2, <1>3, Zenon
<1>5. t.pc = "exec" /\ t.tries = o.tries /\ t.unheard = o.unheard
  BY ONLY <1>4
<1>6. txn'[w] = t /\ \A u \in Callers \ {w} : txn'[u] = txn[u]
  BY ONLY <1>3, Typed, w \in Callers, MovesAlone
<1> QED
  BY ONLY <1>1, <1>3, <1>5, <1>6

\* A step that only moves a transaction changes no answer.
LEMMA MoveAccount ==
    ASSUME IInv, IInv', Account, Attempts, NEW w \in Callers, record' = record,
           call' = call, \A u \in Callers \ {w} : txn'[u] = txn[u],
           txn'[w].unheard = txn[w].unheard, Attempt(w)'
    PROVE  Attempts' /\ Account'
<1>1. Quiet
  BY DEF Quiet
<1>2. Alone(w)
  BY DEF Alone
<1> QED
  BY <1>1, <1>2, QuietAccount, AttemptsGoOn

LEMMA WatchAccount ==
    ASSUME IInv, IInv', Account, Attempts, NEW w \in Callers, Watch(w)
    PROVE  Attempts' /\ Account'
<1>1. txn[w].pc = "watch" /\ record' = record /\ call' = call
  BY DEF Watch
<1>2. Attempt(w)'
  <2>1. Len(txn[w].unheard) \in Nat /\ txn[w].tries \in Nat
    BY TxnFields DEF IInv, Typed
  <2> QED
    BY <1>1, <2>1, WatchMoves DEF IInv, Attempts, Attempt
<1> QED
  BY <1>1, <1>2, WatchMoves, MoveAccount DEF IInv

\* An attempt that ends without effect.
LEMMA RetryAccount ==
    ASSUME IInv, IInv', Account, Attempts, NEW w \in Callers, Break(w) \/ Abort(w)
    PROVE  Attempts' /\ Account'
<1>1. /\ txn[w].pc \in {"read", "exec"} /\ record' = record /\ call' = call
      /\ txn' = [txn EXCEPT ![w].pc = "watch"]
  BY DEF Break, Abort
<1>2. Attempt(w)'
  <2>1. Len(txn[w].unheard) \in Nat /\ txn[w].tries \in Nat
    BY TxnFields DEF IInv, Typed
  <2> QED
    BY <1>1, <2>1, GoesToWatch DEF IInv, Attempts, Attempt
<1> QED
  BY <1>1, <1>2, GoesToWatch, MoveAccount DEF IInv

LEMMA ReadAccount ==
    ASSUME IInv, IInv', Account, Attempts, NEW w \in Callers, Read(w), KeyLives
    PROVE  Attempts' /\ Account'
<1>1. txn[w].pc = "read" /\ record' = record /\ call' = call
  BY DEF Read
<1>2. Attempt(w)'
  <2>1. Len(txn[w].unheard) \in Nat /\ txn[w].tries \in Nat
    BY TxnFields DEF IInv, Typed
  <2> QED
    BY <1>1, <2>1, ReadMoves DEF IInv, Attempts, Attempt
<1> QED
  BY <1>1, <1>2, ReadMoves, MoveAccount DEF IInv

LEMMA BeginAccount ==
    ASSUME IInv, IInv', Account, Attempts, NEW w \in Callers, RBegin(w)
    PROVE  Attempts' /\ Account'
<1>1. /\ call[w].reply = "none" /\ record' = record
      /\ txn' = [txn EXCEPT ![w].pc = "watch"]
  BY DEF RBegin, Begin
<1>2. call'[w].reply = "pending" /\ \A u \in Callers \ {w} : call'[u] = call[u]
  <2>1. PICK op \in Calls :
           call' = [call EXCEPT ![w] = [op |-> op, since |-> now, reply |-> "pending"]]
    BY DEF RBegin, Begin
  <2>2. PICK c : c = [op |-> op, since |-> now, reply |-> "pending"]
    OBVIOUS
  <2>3. c.reply = "pending" /\ call' = [call EXCEPT ![w] = c]
    BY <2>1, <2>2
  <2> QED
    BY <2>3 DEF IInv, Typed
<1>3. Len(txn[w].unheard) = 0
  BY <1>1 DEF Attempts
<1>4. Quiet
  BY <1>1, <1>2, <1>3, GoesToWatch DEF IInv, Quiet, Settled
<1>5. Alone(w)
  BY <1>1, <1>2, GoesToWatch DEF IInv, Alone
<1>6. Attempt(w)'
  <2>1. txn[w].tries \in Nat
    BY TxnFields DEF IInv, Typed
  <2>2. txn'[w].pc = "watch" /\ txn'[w].tries \in Nat /\ Len(txn'[w].unheard) = 0
    BY <1>1, <1>3, <2>1, GoesToWatch DEF IInv
  <2> QED
    BY <2>2 DEF Attempt
<1> QED
  BY <1>4, <1>5, <1>6, QuietAccount, AttemptsGoOn

\* A call that ends without a write.
LEMMA EndAccount ==
    ASSUME IInv, IInv', Account, Attempts, NEW w \in Callers, txn[w].pc # "idle",
           NEW reply \in {"gone", "error", "down"}, Answered(w, reply), record' = record,
           txn' = [txn EXCEPT ![w] = Over(w)]
    PROVE  Attempts' /\ Account'
<1>1. call[w].reply = "pending"
  BY DEF IInv, CallInv, Accompanies, Pending
<1>2. /\ txn'[w].pc = "idle" /\ txn'[w].unheard = txn[w].unheard
      /\ \A u \in Callers \ {w} : txn'[u] = txn[u]
  BY MovesAlone, OverTxn DEF IInv, Typed
<1>3. /\ call'[w].reply = reply /\ call'[w].op = call[w].op
      /\ \A u \in Callers \ {w} : call'[u] = call[u]
  BY AnswersAlone DEF IInv
<1>4. Quiet
  BY <1>1, <1>2, <1>3 DEF Quiet, Settled
<1>5. Alone(w)
  BY <1>2, <1>3 DEF Alone
<1>6. Attempt(w)'
  BY <1>2, <1>3 DEF Attempt, Attempts
<1> QED
  BY <1>4, <1>5, <1>6, QuietAccount, AttemptsGoOn

\* A write: what EXEC publishes is an outcome of the operation on the record.
LEMMA WriteOutcome ==
    ASSUME IInv, ServiceInv, NEW w \in Callers, txn[w].pc = "exec", ExecRuns(w),
           record' = txn[w].draft
    PROVE  Outcome(record, record', call[w].op, txn[w].status)
<1>1. PICK clock \in Clocks(w) : /\ txn[w].draft = Apply(record, call[w].op, clock)
                                 /\ txn[w].status = Status(record, call[w].op, clock)
  BY ExecRunsClean
<1>2. clock \in Int /\ call[w].op \in Operations
  BY <1>1, ExecRunsClean DEF Clocks, ServiceInv, CallStates
<1>3. OneStory(record)
  BY DEF ServiceInv
<1> QED
  BY <1>1, <1>2, <1>3, ApplyStory

LEMMA ExecAccount ==
    ASSUME IInv, IInv', ServiceInv, Account, Attempts, NEW w \in Callers, Exec(w)
    PROVE  Attempts' /\ Account'
<1>1. /\ txn[w].pc = "exec" /\ ExecRuns(w) /\ record' = txn[w].draft
      /\ txn' = Touched(w, Over(w)) /\ Answered(w, txn[w].status)
  BY DEF Exec, Publish
<1>2. Pending(w) /\ txn[w].status \notin {"none", "pending", "error", "down"}
  BY <1>1, ExecRunsClean
<1>3. /\ txn'[w].pc = "idle" /\ txn'[w].unheard = txn[w].unheard
      /\ \A u \in Callers \ {w} :
            /\ txn'[u].unheard = txn[u].unheard /\ txn'[u].tries = txn[u].tries
            /\ txn'[u].pc = txn[u].pc
  BY <1>1, TouchedKeeps, OverTxn DEF IInv, Typed
<1>4. /\ call'[w].reply = txn[w].status /\ call'[w].op = call[w].op
      /\ \A u \in Callers \ {w} : call'[u] = call[u]
  BY <1>1, AnswersAlone DEF IInv
<1>5. Heard(w, txn[w].status)
  BY <1>1, <1>2, <1>3, <1>4, WriteOutcome DEF Heard
<1>6. Alone(w)
  BY <1>3, <1>4 DEF Alone
<1>7. Attempt(w)'
  BY <1>2, <1>3, <1>4 DEF Attempt, Attempts
<1> QED
  BY <1>5, <1>6, <1>7, HeardAccount, AttemptsGoOn

LEMMA ExecUnheardAccount ==
    ASSUME IInv, IInv', ServiceInv, Account, Attempts, NEW w \in Callers, ExecUnheard(w)
    PROVE  Attempts' /\ Account'
<1>1. /\ txn[w].pc = "exec" /\ ExecRuns(w) /\ record' = txn[w].draft /\ call' = call
  BY DEF ExecUnheard, Publish
<1>2. PICK o : o = txn[w]
  OBVIOUS
<1>3. o = [pc |-> o.pc, tries |-> o.tries, dirty |-> o.dirty, draft |-> o.draft,
           status |-> o.status, overtaken |-> o.overtaken, unheard |-> o.unheard]
  BY <1>2 DEF IInv, Typed, IsTxn
<1>4. PICK t, q : t = [o EXCEPT !.pc = "watch", !.unheard = q]
                  /\ q = Append(o.unheard, o.status) /\ txn' = Touched(w, t)
  BY <1>2 DEF ExecUnheard
<1>5. t = [pc |-> "watch", tries |-> o.tries, dirty |-> o.dirty, draft |-> o.draft,
           status |-> o.status, overtaken |-> o.overtaken, unheard |-> q]
  BY ONLY <1>3, <1>4, Zenon
<1>6. /\ txn'[w].pc = "watch" /\ txn'[w].tries = txn[w].tries
      /\ txn'[w].unheard = Append(txn[w].unheard, txn[w].status)
      /\ \A u \in Callers \ {w} :
            /\ txn'[u].unheard = txn[u].unheard /\ txn'[u].tries = txn[u].tries
            /\ txn'[u].pc = txn[u].pc
  <2>1. t.pc = "watch" /\ t.tries = o.tries /\ t.unheard = q
    BY ONLY <1>5
  <2>2. /\ txn'[w] = t
        /\ \A u \in Callers \ {w} :
              /\ txn'[u].unheard = txn[u].unheard /\ txn'[u].tries = txn[u].tries
              /\ txn'[u].pc = txn[u].pc
    <3>1. Typed
      BY DEF IInv
    <3> QED
      BY ONLY <1>4, <3>1, w \in Callers, TouchedKeeps
  <2> QED
    BY ONLY <1>2, <1>4, <2>1, <2>2
<1>7. /\ Len(txn[w].unheard) \in Nat /\ txn[w].tries \in 0..MaxTries
      /\ Len(txn[w].unheard) < txn[w].tries
  BY <1>1, TxnFields DEF IInv, Typed, Attempts
<1>8. Lost(w, txn[w].status)
  BY <1>1, <1>6, <1>7, WriteOutcome DEF Lost
<1>9. Alone(w)
  BY <1>1, <1>6 DEF Alone
<1>10. Attempt(w)'
  <2>1. call'[w].reply # "none"
    BY <1>1, ExecRunsClean DEF Pending
  <2>2. Len(txn'[w].unheard) = Len(txn[w].unheard) + 1
    <3>1. txn[w].unheard \in Seq(Replies) /\ txn[w].status \in Replies
      BY <1>1, TxnFields, ExecRunsClean DEF IInv, Typed
    <3> QED
      BY <1>6, <3>1, AppendProperties
  <2> QED
    BY <1>6, <1>7, <2>1, <2>2 DEF Attempt
<1> QED
  BY <1>8, <1>9, <1>10, LostAccount, AttemptsGoOn

LEMMA AccountStep ==
    ASSUME IInv, IInv', ServiceInv, Account, Attempts, [RNext]_rvars
    PROVE  Attempts' /\ Account'
<1>1. CASE RTick \/ UNCHANGED rvars
  <2>1. record' = record /\ call' = call /\ txn' = txn
    BY <1>1 DEF RTick, Tick, rvars
  <2>2. Quiet
    BY <2>1 DEF Quiet
  <2> QED
    BY <2>1, <2>2, QuietAccount DEF Attempts
<1>2. ASSUME NEW w \in Callers, RBegin(w) PROVE Attempts' /\ Account'
  BY <1>2, BeginAccount
<1>3. ASSUME NEW w \in Callers, Watch(w) PROVE Attempts' /\ Account'
  BY <1>3, WatchAccount
<1>4. ASSUME NEW w \in Callers, Read(w) PROVE Attempts' /\ Account'
  <2>1. CASE KeyLives
    BY <1>4, <2>1, ReadAccount
  <2>2. CASE ~KeyLives
    BY <1>4, <2>2, EndAccount DEF Read
  <2> QED
    BY <2>1, <2>2
<1>5. ASSUME NEW w \in Callers, Exec(w) PROVE Attempts' /\ Account'
  BY <1>5, ExecAccount
<1>6. ASSUME NEW w \in Callers, ExecUnheard(w) PROVE Attempts' /\ Account'
  BY <1>6, ExecUnheardAccount
<1>7. ASSUME NEW w \in Callers, Break(w) \/ Abort(w) PROVE Attempts' /\ Account'
  BY <1>7, RetryAccount
<1>8. ASSUME NEW w \in Callers, Fail(w) \/ Exhaust(w) PROVE Attempts' /\ Account'
  BY <1>8, EndAccount DEF Fail, Exhaust
<1> QED
  BY <1>1, <1>2, <1>3, <1>4, <1>5, <1>6, <1>7, <1>8 DEF RNext

LEMMA AccountInit == RInit => Attempts /\ Account
<1> SUFFICES ASSUME RInit PROVE Attempts /\ Account
  OBVIOUS
<1>1. \A w \in Callers : call[w] = NoCall /\ txn[w] = NoTxn
  BY DEF RInit, Init
<1>2. NoCall.reply = "none" /\ NoTxn.pc = "idle" /\ NoTxn.unheard = << >>
  BY DEF NoCall, NoTxn
<1>3. Attempts
  BY <1>1, <1>2 DEF Attempts
<1>4. Refused = {} /\ \A f \in Families : Told(f, "204") = {}
  BY <1>1, <1>2 DEF Refused, Told
<1>5. ASSUME NEW s PROVE Untold(s) = {}
  BY <1>1, <1>2 DEF Untold
<1>6. ASSUME NEW f \in Families PROVE UntoldOf(f) = {}
  BY <1>5 DEF UntoldOf
<1>7. Finite
  BY <1>4, <1>5, FS_EmptySet DEF Finite
<1>8. ActivatedFamilies(record) = {} /\ record.replays = 0
  <2>1. PICK order \in Orders, clock \in (0 - MaxSkew)..MaxSkew :
           record = Expose(NewRecord(clock), order)
    BY DEF RInit, Init
  <2>2. clock \in Int
    BY <2>1
  <2> QED
    BY <2>1, <2>2, FirstStory
<1>9. AtMost(0, Cap) = 0
  BY DEF AtMost
<1>10. AnswersAccountForRecord
  <2>1. \A f \in Families : ~record.traps[f].activated
    BY <1>8 DEF ActivatedFamilies
  <2>2. /\ \A f \in Families : Cardinality(Told(f, "204")) = 0 /\ Cardinality(UntoldOf(f)) = 0
        /\ Cardinality(Refused) = 0 /\ Cardinality(Untold("410")) = 0
    BY <1>4, <1>5, <1>6, FS_EmptySet
  <2> QED
    BY <1>8, <1>9, <2>1, <2>2 DEF AnswersAccountForRecord, UntoldOf, Refused
<1> QED
  BY <1>3, <1>7, <1>10 DEF Account

\* The answers given and lost account for the record, for any number of workers and
\* of attempts: a trap is activated for exactly one answer 204, and the replays
\* counted are the answers 410.
THEOREM AccountHolds == RSpec => []AnswersAccountForRecord
<1>1. IInv /\ IInv' /\ ServiceInv /\ Attempts /\ Account /\ [RNext]_rvars
         => (Attempts /\ Account)'
  BY AccountStep
<1>2. RSpec => []ServiceInv
  BY StoreIsService, ServiceStory, PTL DEF ImplementsService
<1>3. RSpec => [](Attempts /\ Account)
  BY <1>1, <1>2, AccountInit, Invariance, PTL DEF RSpec
<1>4. Account => AnswersAccountForRecord
  BY DEF Account
<1> QED
  BY <1>3, <1>4, PTL
=============================================================================
