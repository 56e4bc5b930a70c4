-------------------------- MODULE EvidenceService --------------------------
(***************************************************************************)
(* What an evidence store promises for one session: every operation takes  *)
(* effect at once, on the latest record, and its caller is told what that  *)
(* record answered.  Over a lossy connection an operation may take effect  *)
(* more than once before its caller is answered.                           *)
(***************************************************************************)
EXTENDS EvidenceRecord

CONSTANTS
    Callers,    \* endpoint invocations, each making one call
    Calls,      \* the operations they make
    Lossy,      \* whether the answer of the store can be lost
    MaxSkew,    \* bound on |worker clock - Redis time|
    MaxTime     \* bound on the time a run explores

ASSUME ServiceAssumption ==
    /\ MaxSkew \in Nat /\ MaxTime \in Nat /\ Lossy \in BOOLEAN
    /\ Calls \subseteq Operations

VARIABLES
    now,        \* Redis' time
    record,     \* the record of the session
    call        \* call[w]: what caller w asked and was answered

vars == <<now, record, call>>

NoCall == [op |-> [kind |-> "none"], since |-> 0, reply |-> "none"]

\* "gone": there is no record; "error": the store is out of attempts; "down": the
\* store failed.  The others are what the operation answered.
Replies == {"none", "pending", "done", "gone", "error", "down", "204", "404", "405", "410"}

\* The record as issue_challenge leaves it, traps exposed in any order.
Orders == {o \in [1..Cardinality(Families) -> Families] :
              \A i, j \in DOMAIN o : o[i] = o[j] => i = j}

Init ==
    /\ now = 0
    /\ \E order \in Orders, clock \in (0 - MaxSkew)..MaxSkew :
           record = Expose(NewRecord(clock), order)
    /\ call = [w \in Callers |-> NoCall]

\* Redis keeps the record Ttl after the SET that created it, at time 0.
Alive == now < Ttl

Pending(w) == call[w].reply = "pending"

Answered(w, reply) == call' = [call EXCEPT ![w].reply = reply]

Begin(w) ==
    /\ call[w].reply = "none"
    /\ \E op \in Calls : call' = [call EXCEPT ![w] =
           [op |-> op, since |-> now, reply |-> "pending"]]
    /\ UNCHANGED <<now, record>>

\* The clocks an operation may have read: any worker's, since the call began.
Clocks(w) == (call[w].since - MaxSkew)..(now + MaxSkew)

Serve(w) ==
    /\ Pending(w) /\ Alive
    /\ \E clock \in Clocks(w) :
           /\ record' = Apply(record, call[w].op, clock)
           /\ Answered(w, Status(record, call[w].op, clock))
    /\ UNCHANGED now

\* The operation took effect, but the worker did not learn it and tries again.
Repeat(w) ==
    /\ Lossy /\ Pending(w) /\ Alive
    /\ \E clock \in Clocks(w) : record' = Apply(record, call[w].op, clock)
    /\ UNCHANGED <<now, call>>

\* The record expired: the operation does nothing.
Missing(w) ==
    /\ Pending(w) /\ ~Alive
    /\ Answered(w, "gone")
    /\ UNCHANGED <<now, record>>

\* The store gives the call up.
GiveUp(w) ==
    /\ Pending(w)
    /\ \E reply \in {"error", "down"} : Answered(w, reply)
    /\ UNCHANGED <<now, record>>

Tick == now < MaxTime /\ now' = now + 1 /\ UNCHANGED <<record, call>>

Next ==
    \/ \E w \in Callers : Begin(w) \/ Serve(w) \/ Repeat(w) \/ Missing(w) \/ GiveUp(w)
    \/ Tick

Spec == Init /\ [][Next]_vars
=============================================================================
