-------------------------- MODULE MCRedisEvidence --------------------------
(***************************************************************************)
(* Small instances of RedisEvidence: two trap families, up to three        *)
(* callers.                                                                *)
(***************************************************************************)
EXTENDS RedisEvidence, TLC

TrapMethods == [f \in Families |-> IF f = "protocol_action" THEN "POST" ELSE "GET"]

Activate(f, m) == [kind |-> "activate", family |-> f, method |-> m]
Event(e) == [kind |-> "lifecycle", event |-> e]

\* Trap activations racing with the submission of the verification.
TrapCalls == {Activate(f, TrapMethods[f]) : f \in Families}
             \cup {Event("verification_submitted"), Activate("protocol_action", "GET")}

\* And with a protected request.
AllCalls == TrapCalls \cup {[kind |-> "observe", category |-> "page"]}

=============================================================================
