--------------------------- MODULE RedisEvidence ---------------------------
(***************************************************************************)
(* RedisEvidence of distributed.py: every update is an optimistic          *)
(* transaction, WATCH and GET, the operation computed by the worker, then  *)
(* MULTI, SET keepttl and EXEC, tried again up to MaxTries times when the  *)
(* key changed meanwhile.  Several workers update the record of one        *)
(* session; EvidenceService says what they must see.                       *)
(***************************************************************************)
EXTENDS EvidenceService

CONSTANT MaxTries       \* attempts before the store reports contention (10)

ASSUME TriesAssumption == MaxTries \in Nat \ {0}

VARIABLES
    txn,        \* txn[w]: the optimistic transaction of caller w
    deadline,   \* when Redis expires the record's key, Never if it has no TTL
    broken      \* broken[w]: attempts of w that a lost connection ended (history)

rvars == <<now, record, call, txn, deadline, broken>>

\* pc: where the attempt is; tries: attempts begun; dirty: the watched key was
\* written since WATCH; draft and status: what EXEC will publish and return;
\* overtaken: writes of other callers since the call began (history); unheard:
\* statuses of its own writes whose answers were lost (history).
NoTxn == [pc |-> "idle", tries |-> 0, dirty |-> FALSE, draft |-> << >>,
          status |-> "none", overtaken |-> 0, unheard |-> << >>]

\* The transaction is over; its history stays.
Over(w) == [txn[w] EXCEPT !.pc = "idle", !.tries = 0, !.dirty = FALSE,
                          !.draft = << >>, !.status = "none"]

\* The key exists until its deadline.
Never == -1
KeyLives == deadline = Never \/ now < deadline

\* create() stores the record with its TTL, at time 0.
RInit ==
    /\ Init
    /\ txn = [w \in Callers |-> NoTxn]
    /\ deadline = Ttl
    /\ broken = [w \in Callers |-> 0]

RBegin(w) ==
    /\ Begin(w)
    /\ txn' = [txn EXCEPT ![w].pc = "watch"]
    /\ UNCHANGED <<deadline, broken>>

\* Slips: attempts without a limit, and a dirty mark that survives WATCH.
UnlimitedWatch(w) ==
    /\ txn[w].pc = "watch"
    /\ txn' = [txn EXCEPT ![w] = [@ EXCEPT !.pc = "read", !.tries = @ + 1, !.dirty = FALSE]]
    /\ UNCHANGED <<now, record, call, deadline, broken>>
StaleWatch(w) ==
    /\ txn[w].pc = "watch" /\ txn[w].tries < MaxTries
    /\ txn' = [txn EXCEPT ![w] = [@ EXCEPT !.pc = "read", !.tries = @ + 1]]
    /\ UNCHANGED <<now, record, call, deadline, broken>>

\* The next attempt starts with WATCH, which forgets earlier writes.
Watch(w) ==
    /\ txn[w].pc = "watch" /\ txn[w].tries < MaxTries
    /\ txn' = [txn EXCEPT ![w] =
                   [txn[w] EXCEPT !.pc = "read", !.tries = @ + 1, !.dirty = FALSE]]
    /\ UNCHANGED <<now, record, call, deadline, broken>>

\* GET, and the operation on the decoded copy; a missing record ends the call.
Read(w) ==
    /\ txn[w].pc = "read"
    /\ IF KeyLives
       THEN /\ \E clock \in (now - MaxSkew)..(now + MaxSkew) :
                   txn' = [txn EXCEPT ![w] =
                       [txn[w] EXCEPT !.pc = "exec",
                                      !.draft = Apply(record, call[w].op, clock),
                                      !.status = Status(record, call[w].op, clock)]]
            /\ UNCHANGED call
       ELSE /\ txn' = [txn EXCEPT ![w] = Over(w)]
            /\ Answered(w, "gone")
    /\ UNCHANGED <<now, record, deadline, broken>>

\* Slips: SET without WATCH, and expiry not counted as a change of the key.
Unwatched(w) == KeyLives
ExpiryUnnoticed(w) == ~txn[w].dirty

\* Redis runs a transaction only if the watched key was neither written nor
\* expired since WATCH.
ExecRuns(w) == ~txn[w].dirty /\ KeyLives

\* Slip: SET without keepttl.
SetForgetsTtl == deadline' = Never

\* SET keepttl: the key keeps its deadline; one that is gone is made anew, without.
SetKeepsTtl == deadline' = IF KeyLives THEN deadline ELSE Never

\* What a write does to the other transactions: the SET touches the key even
\* when it stores an equal record.
Touched(w, mine) ==
    [u \in Callers |->
        IF u = w THEN mine
        ELSE [txn[u] EXCEPT !.dirty = @ \/ txn[u].pc \in {"read", "exec"},
                            !.overtaken = IF txn[u].pc = "idle" THEN @ ELSE @ + 1]]

\* EXEC runs the SET.
Publish(w) ==
    /\ txn[w].pc = "exec" /\ ExecRuns(w)
    /\ record' = txn[w].draft
    /\ SetKeepsTtl
    /\ UNCHANGED <<now, broken>>

Exec(w) ==
    /\ Publish(w)
    /\ txn' = Touched(w, Over(w))
    /\ Answered(w, txn[w].status)

\* EXEC ran, but the connection broke before its answer: redis-py reports a
\* WatchError for a connection lost while watching, so update() tries again.
ExecUnheard(w) ==
    /\ Lossy
    /\ Publish(w)
    /\ txn' = Touched(w, [txn[w] EXCEPT !.pc = "watch",
                                         !.unheard = Append(@, txn[w].status)])
    /\ UNCHANGED call

\* The connection breaks after WATCH, at GET or before EXEC reached Redis: the same
\* WatchError, but nothing was written.
Break(w) ==
    /\ Lossy
    /\ txn[w].pc \in {"read", "exec"}
    /\ txn' = [txn EXCEPT ![w].pc = "watch"]
    /\ broken' = [broken EXCEPT ![w] = @ + 1]
    /\ UNCHANGED <<now, record, call, deadline>>

\* WATCH does not reach Redis, or Redis answers a command with an error: update()
\* passes the exception on, at once.
Fail(w) ==
    /\ Lossy
    /\ \/ txn[w].pc = "watch" /\ txn[w].tries < MaxTries
       \/ txn[w].pc \in {"read", "exec"}
    /\ txn' = [txn EXCEPT ![w] = Over(w)]
    /\ Answered(w, "down")
    /\ UNCHANGED <<now, record, deadline, broken>>

\* EXEC was refused: WatchError, the draft is thrown away.
Abort(w) ==
    /\ txn[w].pc = "exec" /\ ~ExecRuns(w)
    /\ txn' = [txn EXCEPT ![w].pc = "watch"]
    /\ UNCHANGED <<now, record, call, deadline, broken>>

\* Slip: one attempt too many is waited for.
LateExhaust(w) ==
    /\ txn[w].pc = "watch" /\ txn[w].tries > MaxTries
    /\ txn' = [txn EXCEPT ![w].pc = "idle"]
    /\ Answered(w, "error")
    /\ UNCHANGED <<now, record, deadline, broken>>

\* Out of attempts: RedisError, which the boundary turns into a 503.
Exhaust(w) ==
    /\ txn[w].pc = "watch" /\ txn[w].tries = MaxTries
    /\ txn' = [txn EXCEPT ![w] = Over(w)]
    /\ Answered(w, "error")
    /\ UNCHANGED <<now, record, deadline, broken>>

RTick == Tick /\ UNCHANGED <<txn, deadline, broken>>

RNext ==
    \/ \E w \in Callers : \/ RBegin(w) \/ Watch(w) \/ Read(w) \/ Exec(w) \/ ExecUnheard(w)
                          \/ Break(w) \/ Fail(w) \/ Abort(w) \/ Exhaust(w)
    \/ RTick

RSpec == RInit /\ [][RNext]_rvars

\* Each worker runs its update to the end; nothing makes a caller call.
RFairness ==
    \A w \in Callers :
        WF_rvars(Watch(w) \/ Read(w) \/ Exec(w) \/ Abort(w) \/ Exhaust(w))

RFairSpec == RSpec /\ RFairness

-----------------------------------------------------------------------------
RTypeOK ==
    /\ now \in 0..MaxTime /\ deadline \in {Never, Ttl}
    /\ \A w \in Callers :
          /\ call[w].reply \in Replies /\ broken[w] \in Nat
          /\ txn[w].pc \in {"idle", "watch", "read", "exec"}
          /\ txn[w].tries \in 0..MaxTries
          /\ txn[w].dirty \in BOOLEAN /\ txn[w].overtaken \in Nat
          /\ txn[w].pc # "idle" <=> Pending(w)

\* The record tells one story at every moment, whatever the interleaving.
RecordTellsOneStory ==
    TrapsConsistent(record) /\ EventsConsistent(record) /\ PhasesFollowOrder(record)

\* Each update works on the latest record, so none is lost: the store is an
\* EvidenceService.
ImplementsService == Spec

\* The callers told a status for family f, and the writes whose callers were to
\* be told a status but whose answers were lost.
Told(f, status) == {w \in Callers : call[w].reply = status /\ call[w].op.family = f}
Untold(status) ==
    {x \in Callers \X (1..MaxTries) :
        LET lost == txn[x[1]].unheard IN x[2] \in DOMAIN lost /\ lost[x[2]] = status}

\* The answers given and the answers lost account for the record: a trap is
\* activated exactly when one caller, and one only, was or would have been
\* answered 204, and the replays are the 410s.
AnswersAccountForRecord ==
    /\ \A f \in Families :
          Cardinality(Told(f, "204"))
              + Cardinality({x \in Untold("204") : call[x[1]].op.family = f})
          = IF record.traps[f].activated THEN 1 ELSE 0
    /\ record.replays =
          AtMost(Cardinality({w \in Callers : call[w].reply = "410"})
                     + Cardinality(Untold("410")), Cap)

\* The contention limit is reached only if every attempt was used up by something
\* else: a write of another caller, an own write whose answer was lost, or a broken
\* connection; or the record expired under it.  As long as no connection breaks, a
\* worker whose attempts are wasted knows that the store made progress.
ContentionIsEarned ==
    \A w \in Callers :
        (call[w].reply = "error" /\ KeyLives)
            => txn[w].overtaken + Len(txn[w].unheard) + broken[w] >= MaxTries

\* A record lapses Ttl after it was created, however often it was updated, whatever
\* update was in flight at that moment, and for good: who calls later finds none.
RecordLapsesForGood ==
    /\ now >= Ttl => ~KeyLives
    /\ \A w \in Callers : call[w].since >= Ttl =>
          call[w].reply \in {"none", "pending", "gone", "error", "down"}

\* Every call is answered: aborts are bounded by the number of attempts.
EveryCallAnswered == \A w \in Callers : Pending(w) ~> ~Pending(w)

-----------------------------------------------------------------------------
\* docs/agent-interaction-challenge.md: the first bound GET returns 204 and later
\* ones 410.  When the answer to EXEC is lost, the retried update finds the trap
\* activated by itself: the first and only GET is answered 410.
ReplayFollowsActivation ==
    \A w \in Callers : call[w].reply = "410" =>
        \E v \in Callers : call[v].reply = "204" /\ call[v].op.family = call[w].op.family
=============================================================================
