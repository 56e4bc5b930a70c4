------------------------- MODULE LocalProcessProofs -------------------------
(***************************************************************************)
(* Proofs about LocalProcess, for any number of requests, threads, runs    *)
(* and events: what the unlocked challenge store still promises, that a    *)
(* completed measurement run is never touched again, and that an open one  *)
(* holds the evidence of its browser once, in order and without gaps.      *)
(***************************************************************************)
EXTENDS LocalProcess, SequenceTheorems, FunctionTheorems, FiniteSetTheorems, TLAPS

\* The fields of what a thread holds.
IsJob(t) ==
    /\ t = [kind |-> t.kind, run |-> t.run, token |-> t.token, verdict |-> t.verdict,
            snapshot |-> t.snapshot, at |-> t.at, late |-> t.late, wrote |-> t.wrote]
    /\ t.late \in BOOLEAN

Typed ==
    /\ pc \in [Requests -> Steps]
    /\ job = [r \in Requests |-> job[r]]
    /\ \A r \in Requests : IsJob(job[r])
    /\ challenge = [status |-> challenge.status, expires |-> challenge.expires]

\* No check can pass any more.
Spent == challenge.status \notin {"NEW", "ISSUED"}

\* Where a request is between its mark and its verdict, and from its passed check.
Marked == {"consumed", "copy", "decide"}
Passing == Marked \cup {"mark"}

\* Before it arrives a request has no verdict, and none arrives before the
\* challenge is issued.
Fresh ==
    /\ \A r \in Requests : pc[r] = "idle" => job[r].verdict = "none" /\ ~job[r].late
    /\ challenge.status = "NEW" => \A r \in Requests : pc[r] = "idle"

\* The first mark spends the challenge for good, although later marks and checks
\* overwrite it: none of them makes it ISSUED again.
MarkSpends ==
    \A r \in Requests :
        (job[r].verdict \in Taken \cup {"failed"} \/ pc[r] \in Marked) => Spent

\* A late request never passes the check.
LateFails ==
    \A r \in Requests : job[r].late =>
        Spent /\ job[r].verdict \notin Taken /\ pc[r] \notin Passing

IInv == Typed /\ Fresh /\ MarkSpends /\ LateFails

-----------------------------------------------------------------------------
LEMMA InitInv == Init => IInv
<1> SUFFICES ASSUME Init PROVE IInv
  OBVIOUS
<1>1. /\ pc = [r \in Requests |-> "idle"] /\ job = [r \in Requests |-> NoJob]
      /\ challenge = [status |-> "NEW", expires |-> 0]
  BY DEF Init
<1>2. IsJob(NoJob) /\ NoJob.verdict = "none" /\ NoJob.late = FALSE
  BY DEF NoJob, IsJob
<1>3. Typed
  BY <1>1, <1>2 DEF Typed, Steps
<1>4. Fresh /\ MarkSpends /\ LateFails
  BY <1>1, <1>2 DEF Fresh, MarkSpends, LateFails, Marked, Taken
<1> QED
  BY <1>3, <1>4 DEF IInv

\* A step of request r that has arrived and does not begin anew: it spends the
\* challenge if it settles it, and a late one does not pass.
LEMMA StepInv ==
    ASSUME IInv, NEW r \in Requests, NEW t, NEW step \in Steps \ {"idle"}, IsJob(t),
           pc' = [pc EXCEPT ![r] = step], job' = [job EXCEPT ![r] = t],
           challenge' = [status |-> challenge'.status, expires |-> challenge'.expires],
           challenge'.status # "NEW", Spent => Spent',
           (t.verdict \in Taken \cup {"failed"} \/ step \in Marked) => Spent',
           t.late => Spent' /\ t.verdict \notin Taken /\ step \notin Passing
    PROVE  IInv'
<1>1. /\ pc' \in [Requests -> Steps] /\ pc'[r] = step
      /\ \A q \in Requests \ {r} : pc'[q] = pc[q]
  BY DEF IInv, Typed
<1>2. /\ job' = [q \in Requests |-> job'[q]] /\ job'[r] = t
      /\ \A q \in Requests \ {r} : job'[q] = job[q]
  BY DEF IInv, Typed
<1>3. Typed'
  BY <1>1, <1>2 DEF IInv, Typed
<1>4. Fresh'
  BY <1>1, <1>2 DEF IInv, Fresh
<1>5. MarkSpends'
  <2> SUFFICES ASSUME NEW q \in Requests,
                      job'[q].verdict \in Taken \cup {"failed"} \/ pc'[q] \in Marked
               PROVE  Spent'
    BY DEF MarkSpends, Taken, Marked
  <2>1. CASE q = r
    BY <1>1, <1>2, <2>1
  <2>2. CASE q # r
    BY <1>1, <1>2, <2>2 DEF IInv, MarkSpends
  <2> QED
    BY <2>1, <2>2
<1>6. LateFails'
  <2> SUFFICES ASSUME NEW q \in Requests, job'[q].late
               PROVE  Spent' /\ job'[q].verdict \notin Taken /\ pc'[q] \notin Passing
    BY DEF LateFails, Taken, Passing, Marked
  <2>1. CASE q = r
    BY <1>1, <1>2, <2>1
  <2>2. CASE q # r
    BY <1>1, <1>2, <2>2 DEF IInv, LateFails
  <2> QED
    BY <2>1, <2>2
<1> QED
  BY <1>3, <1>4, <1>5, <1>6 DEF IInv

\* A step that leaves the challenge, the verdict and the lateness alone, and does
\* not pass the check.
LEMMA KeepInv ==
    ASSUME IInv, NEW r \in Requests, NEW t, NEW step \in Steps \ {"idle"}, IsJob(t),
           pc' = [pc EXCEPT ![r] = step], job' = [job EXCEPT ![r] = t],
           challenge' = challenge, pc[r] # "idle",
           t.verdict = job[r].verdict, t.late <=> job[r].late,
           step # "mark", step \in Marked => pc[r] \in Marked
    PROVE  IInv'
<1>1. challenge'.status # "NEW" /\ (Spent => Spent')
  BY DEF IInv, Fresh, Spent
<1>2. challenge' = [status |-> challenge'.status, expires |-> challenge'.expires]
  BY DEF IInv, Typed
<1>3. (t.verdict \in Taken \cup {"failed"} \/ step \in Marked) => Spent'
  BY DEF IInv, MarkSpends, Spent
<1>4. t.late => Spent' /\ t.verdict \notin Taken /\ step \notin Passing
  BY DEF IInv, LateFails, Spent, Passing
<1> QED
  BY <1>1, <1>2, <1>3, <1>4, StepInv

LEMMA FinishInv ==
    ASSUME IInv, NEW r \in Requests, Finish(r), challenge' = challenge, pc[r] # "idle"
    PROVE  IInv'
<1> DEFINE t == [NoJob EXCEPT !.verdict = job[r].verdict,
                              !.late = job[r].late /\ job[r].verdict \in Taken]
<1>1. pc' = [pc EXCEPT ![r] = "answered"] /\ job' = [job EXCEPT ![r] = t]
  BY DEF Finish
<1>2. t = [kind |-> "page", run |-> 0, token |-> FALSE, verdict |-> job[r].verdict,
           snapshot |-> {}, at |-> 0, late |-> job[r].late /\ job[r].verdict \in Taken,
           wrote |-> 0]
  <2>1. /\ NoJob = [kind |-> "page", run |-> 0, token |-> FALSE, verdict |-> "none",
                    snapshot |-> {}, at |-> 0, late |-> FALSE, wrote |-> 0]
        /\ t = [NoJob EXCEPT !.verdict = job[r].verdict,
                             !.late = job[r].late /\ job[r].verdict \in Taken]
    BY DEF NoJob
  <2> HIDE DEF t
  <2> QED
    BY <2>1, Zenon
<1> HIDE DEF t
<1>3. t.verdict = job[r].verdict /\ (t.late <=> job[r].late /\ job[r].verdict \in Taken)
  BY <1>2
<1>4. IsJob(t)
  BY <1>2, <1>3 DEF IsJob
<1>5. ~t.late
  BY <1>3 DEF IInv, LateFails
<1>6. /\ challenge'.status # "NEW" /\ (Spent => Spent')
      /\ challenge' = [status |-> challenge'.status, expires |-> challenge'.expires]
  BY DEF IInv, Fresh, Spent, Typed
<1>7. t.verdict \in Taken \cup {"failed"} => Spent'
  BY <1>3 DEF IInv, MarkSpends, Spent
<1>8. "answered" \in Steps \ {"idle"} /\ "answered" \notin Marked
  BY DEF Steps, Marked
<1> QED
  BY <1>1, <1>4, <1>5, <1>6, <1>7, <1>8, StepInv

\* What a thread holds, with some fields replaced.
LEMMA AppendInv ==
    ASSUME IInv, NEW r \in Requests, NEW step \in Steps \ {"idle"}, AppendEvent(r, job[r]),
           Goto(r, step), challenge' = challenge, pc[r] # "idle",
           step # "mark", step \in Marked => pc[r] \in Marked
    PROVE  IInv'
<1> DEFINE j == job[r]
           t == [j EXCEPT !.snapshot = WindowOf(events + 1), !.wrote = events + 1]
<1>1. pc' = [pc EXCEPT ![r] = step] /\ job' = [job EXCEPT ![r] = t]
  BY DEF AppendEvent, Goto
<1>2. IsJob(j)
  BY DEF IInv, Typed
<1> HIDE DEF j
<1>3. t = [kind |-> j.kind, run |-> j.run, token |-> j.token, verdict |-> j.verdict,
           snapshot |-> WindowOf(events + 1), at |-> j.at, late |-> j.late,
           wrote |-> events + 1]
  <2>1. /\ j = [kind |-> j.kind, run |-> j.run, token |-> j.token, verdict |-> j.verdict,
                snapshot |-> j.snapshot, at |-> j.at, late |-> j.late, wrote |-> j.wrote]
        /\ t = [j EXCEPT !.snapshot = WindowOf(events + 1), !.wrote = events + 1]
    BY <1>2 DEF IsJob
  <2> HIDE DEF t
  <2> QED
    BY <2>1, Zenon
<1> HIDE DEF t
<1>4. t.verdict = j.verdict /\ (t.late <=> j.late)
  BY <1>3
<1>5. IsJob(t)
  BY <1>2, <1>3, <1>4 DEF IsJob
<1>6. t.verdict = job[r].verdict /\ (t.late <=> job[r].late)
  BY <1>4 DEF j
<1> QED
  BY <1>1, <1>5, <1>6, KeepInv

LEMMA ArriveInv ==
    ASSUME IInv, NEW r \in Requests, NEW kind \in Kinds, Arrive(r, kind) PROVE IInv'
<1> DEFINE j == job[r]
           run == IF Open(Current) THEN Current ELSE 0
           token == kind = "page" /\ HasToken
           late == kind = "verify" /\ Settled
           t == [j EXCEPT !.kind = kind, !.run = run, !.token = token, !.late = late]
           step == Entry(kind)
<1>1. /\ pc' = [pc EXCEPT ![r] = step] /\ job' = [job EXCEPT ![r] = t]
      /\ challenge' = challenge /\ challenge.status # "NEW" /\ pc[r] = "idle"
  BY DEF Arrive
<1>2. IsJob(j) /\ j.verdict = "none"
  BY <1>1 DEF IInv, Typed, Fresh
<1>3. step \in Steps \ {"idle"} /\ step \notin Passing
  BY DEF Entry, Steps, Passing, Marked, Kinds
<1>4. late \in BOOLEAN /\ (late => Spent)
  BY DEF IInv, MarkSpends, Settled
<1> HIDE DEF j, run, token, late, step
<1>5. t = [kind |-> kind, run |-> run, token |-> token, verdict |-> j.verdict,
           snapshot |-> j.snapshot, at |-> j.at, late |-> late, wrote |-> j.wrote]
  <2>1. /\ j = [kind |-> j.kind, run |-> j.run, token |-> j.token, verdict |-> j.verdict,
                snapshot |-> j.snapshot, at |-> j.at, late |-> j.late, wrote |-> j.wrote]
        /\ t = [j EXCEPT !.kind = kind, !.run = run, !.token = token, !.late = late]
    BY <1>2 DEF IsJob
  <2> HIDE DEF t
  <2> QED
    BY <2>1, Zenon
<1> HIDE DEF t
<1>6. t.verdict = "none" /\ (t.late <=> late)
  BY <1>2, <1>5
<1>7. IsJob(t)
  BY <1>4, <1>5, <1>6 DEF IsJob
<1>8. /\ challenge'.status # "NEW" /\ (Spent => Spent')
      /\ challenge' = [status |-> challenge'.status, expires |-> challenge'.expires]
  BY <1>1 DEF IInv, Spent, Typed
<1>9. t.verdict \notin Taken \cup {"failed"} /\ step \notin Marked
  BY <1>3, <1>6 DEF Taken, Passing
<1> QED
  BY <1>1, <1>3, <1>4, <1>6, <1>7, <1>8, <1>9, StepInv

\* A step of the thread alone.
LEMMA GotoInv ==
    ASSUME IInv, NEW r \in Requests, NEW step \in Steps \ {"idle"}, Goto(r, step),
           job' = job, challenge' = challenge, pc[r] # "idle",
           step # "mark", step \in Marked => pc[r] \in Marked
    PROVE  IInv'
<1> DEFINE t == job[r]
<1>1. /\ IsJob(t) /\ job' = [job EXCEPT ![r] = t] /\ pc' = [pc EXCEPT ![r] = step]
      /\ t.verdict = job[r].verdict /\ (t.late <=> job[r].late)
  BY DEF IInv, Typed, Goto
<1> HIDE DEF t
<1> QED
  BY <1>1, KeepInv

LEMMA VerifySteps ==
    ASSUME IInv, NEW r \in Requests,
           \/ Submit(r) \/ Refuse(r) \/ Check(r) \/ Mark(r) \/ Reject(r) \/ Consumed(r)
           \/ Copy(r) \/ Decide(r) \/ DecideFails(r)
    PROVE  IInv'
<1> DEFINE j == job[r]
<1>0. /\ IsJob(j)
      /\ j = [kind |-> j.kind, run |-> j.run, token |-> j.token, verdict |-> j.verdict,
              snapshot |-> j.snapshot, at |-> j.at, late |-> j.late, wrote |-> j.wrote]
  BY DEF IInv, Typed, IsJob
<1>1. CASE Submit(r)
  <2>1. /\ Goto(r, "check") /\ job' = job /\ challenge' = challenge /\ pc[r] # "idle"
        /\ "check" \in Steps \ {"idle"} /\ "check" \notin Marked /\ "check" # "mark"
    BY <1>1 DEF Submit, Steps, Marked
  <2> QED
    BY <2>1, GotoInv
<1>2. CASE Check(r) /\ ~Lapsed /\ Unspent
  <2> DEFINE t == job[r]
  <2>1. /\ pc' = [pc EXCEPT ![r] = "mark"] /\ pc[r] = "check" /\ ~Spent
        /\ challenge' = challenge /\ job' = [job EXCEPT ![r] = t] /\ IsJob(t)
        /\ t.verdict = job[r].verdict
    BY <1>0, <1>2 DEF Check, Goto, Unspent, Spent, IInv, Typed
  <2>2. challenge'.status # "NEW" /\ (Spent => Spent') /\ "mark" \in Steps \ {"idle"}
        /\ challenge' = [status |-> challenge'.status, expires |-> challenge'.expires]
    BY <2>1 DEF IInv, Fresh, Steps, Typed
  <2>3. ~t.late /\ t.verdict \notin Taken \cup {"failed"} /\ "mark" \notin Marked
    BY <2>1 DEF IInv, LateFails, MarkSpends, Marked
  <2> HIDE DEF t
  <2> QED
    BY <2>1, <2>2, <2>3, StepInv
<1>3. CASE Check(r) /\ ~(~Lapsed /\ Unspent)
  <2> DEFINE t == job[r]
  <2>1. /\ pc' = [pc EXCEPT ![r] = "reject"] /\ pc[r] = "check"
        /\ job' = [job EXCEPT ![r] = t] /\ IsJob(t)
        /\ challenge' = IF Lapsed THEN [challenge EXCEPT !.status = "EXPIRED"] ELSE challenge
    BY <1>0, <1>3 DEF Check, Goto, IInv, Typed
  <2>2. challenge = [status |-> challenge.status, expires |-> challenge.expires]
        /\ challenge.status # "NEW"
    BY <2>1 DEF IInv, Typed, Fresh
  <2>3. /\ challenge' = [status |-> challenge'.status, expires |-> challenge'.expires]
        /\ challenge'.status \in {challenge.status, "EXPIRED"}
    <3>1. CASE Lapsed
      <4>1. challenge' = [status |-> "EXPIRED", expires |-> challenge.expires]
        BY <2>1, <2>2, <3>1
      <4> QED
        BY <4>1
    <3>2. CASE ~Lapsed
      BY <2>1, <2>2, <3>2
    <3> QED
      BY <3>1, <3>2
  <2>4. challenge'.status # "NEW" /\ (Spent => Spent')
    BY <2>2, <2>3 DEF Spent
  <2>5. t.late => Spent' /\ t.verdict \notin Taken
    BY <2>4 DEF IInv, LateFails
  <2>6. t.verdict \in Taken \cup {"failed"} => Spent'
    BY <2>4 DEF IInv, MarkSpends
  <2>7. "reject" \in Steps \ {"idle"} /\ "reject" \notin Passing /\ "reject" \notin Marked
    BY DEF Steps, Passing, Marked
  <2> HIDE DEF t
  <2> QED
    BY <2>1, <2>3, <2>4, <2>5, <2>6, <2>7, StepInv
<1>4. CASE Mark(r)
  <2>1. PICK verdict \in {"accepted", "failed"}, step \in {"consumed", "reject"},
             status \in {"CONSUMED", "FAILED"} :
            /\ pc[r] = "mark" /\ pc' = [pc EXCEPT ![r] = step]
            /\ job' = [job EXCEPT ![r].verdict = verdict]
            /\ challenge' = [challenge EXCEPT !.status = status]
    BY <1>4 DEF Mark, Goto
  <2> DEFINE t == [j EXCEPT !.verdict = verdict]
  <2>2. job' = [job EXCEPT ![r] = t]
    BY <2>1
  <2>3. ~j.late
    BY <2>1 DEF IInv, LateFails, Passing
  <2> HIDE DEF j
  <2>4. t = [kind |-> j.kind, run |-> j.run, token |-> j.token, verdict |-> verdict,
             snapshot |-> j.snapshot, at |-> j.at, late |-> j.late, wrote |-> j.wrote]
    <3>1. t = [j EXCEPT !.verdict = verdict]
      OBVIOUS
    <3> HIDE DEF t
    <3> QED
      BY <1>0, <3>1, Zenon
  <2> HIDE DEF t
  <2>5. t.verdict = verdict /\ ~t.late
    BY <2>3, <2>4
  <2>6. IsJob(t)
    BY <1>0, <2>3, <2>4, <2>5 DEF IsJob
  <2>7. challenge' = [status |-> status, expires |-> challenge.expires]
    <3>1. challenge = [status |-> challenge.status, expires |-> challenge.expires]
      BY DEF IInv, Typed
    <3> QED
      BY <2>1, <3>1
  <2>8. /\ challenge' = [status |-> challenge'.status, expires |-> challenge'.expires]
        /\ challenge'.status # "NEW" /\ Spent'
    BY <2>7 DEF Spent
  <2>9. step \in Steps \ {"idle"}
    BY <2>1 DEF Steps
  <2> QED
    BY <2>1, <2>2, <2>5, <2>6, <2>8, <2>9, StepInv
<1>5. CASE Reject(r)
  <2>1. /\ AppendEvent(r, job[r]) /\ Goto(r, "ingest") /\ challenge' = challenge
        /\ pc[r] # "idle" /\ "ingest" \in Steps \ {"idle"} /\ "ingest" \notin Marked
        /\ "ingest" # "mark"
    BY <1>5 DEF Reject, Steps, Marked
  <2> QED
    BY <2>1, AppendInv
<1>6. CASE Consumed(r)
  <2>1. /\ AppendEvent(r, job[r]) /\ Goto(r, "copy") /\ challenge' = challenge
        /\ pc[r] # "idle" /\ "copy" \in Steps \ {"idle"} /\ pc[r] \in Marked
        /\ "copy" # "mark"
    BY <1>6 DEF Consumed, Steps, Marked
  <2> QED
    BY <2>1, AppendInv
<1>7. CASE Copy(r)
  <2> DEFINE t == [j EXCEPT !.snapshot = {}, !.wrote = 0]
  <2>1. /\ pc' = [pc EXCEPT ![r] = "decide"] /\ job' = [job EXCEPT ![r] = t]
        /\ challenge' = challenge /\ pc[r] # "idle" /\ pc[r] \in Marked
        /\ "decide" \in Steps \ {"idle"} /\ "decide" # "mark"
    BY <1>7 DEF Copy, Goto, Marked, Steps
  <2> HIDE DEF j
  <2>2. t = [kind |-> j.kind, run |-> j.run, token |-> j.token, verdict |-> j.verdict,
             snapshot |-> {}, at |-> j.at, late |-> j.late, wrote |-> 0]
    <3>1. t = [j EXCEPT !.snapshot = {}, !.wrote = 0]
      OBVIOUS
    <3> HIDE DEF t
    <3> QED
      BY <1>0, <3>1, Zenon
  <2> HIDE DEF t
  <2>3. t.verdict = j.verdict /\ (t.late <=> j.late)
    BY <2>2
  <2>4. IsJob(t)
    BY <1>0, <2>2, <2>3 DEF IsJob
  <2>5. t.verdict = job[r].verdict /\ (t.late <=> job[r].late)
    BY <2>3 DEF j
  <2> QED
    BY <2>1, <2>4, <2>5, KeepInv
<1>8. CASE Decide(r)
  <2>1. PICK verdict \in {"allowed", "denied"} :
            AppendEvent(r, [job[r] EXCEPT !.verdict = verdict])
    BY <1>8 DEF Decide
  <2> DEFINE d == [j EXCEPT !.verdict = verdict]
             t == [d EXCEPT !.snapshot = WindowOf(events + 1), !.wrote = events + 1]
  <2>2. /\ pc' = [pc EXCEPT ![r] = "ingest"] /\ job' = [job EXCEPT ![r] = t]
        /\ challenge' = challenge /\ pc[r] = "decide"
    BY <1>8, <2>1 DEF Decide, Goto, AppendEvent
  <2>3. ~j.late
    BY <2>2 DEF IInv, LateFails, Passing, Marked
  <2> HIDE DEF j
  <2>4. t = [kind |-> j.kind, run |-> j.run, token |-> j.token, verdict |-> verdict,
             snapshot |-> WindowOf(events + 1), at |-> j.at, late |-> j.late,
             wrote |-> events + 1]
    <3>1. /\ d = [j EXCEPT !.verdict = verdict]
          /\ t = [d EXCEPT !.snapshot = WindowOf(events + 1), !.wrote = events + 1]
      OBVIOUS
    <3> HIDE DEF d, t
    <3>2. d = [kind |-> j.kind, run |-> j.run, token |-> j.token, verdict |-> verdict,
               snapshot |-> j.snapshot, at |-> j.at, late |-> j.late, wrote |-> j.wrote]
      BY <1>0, <3>1, Zenon
    <3> QED
      BY <3>1, <3>2, Zenon
  <2> HIDE DEF d, t
  <2>5. t.verdict = verdict /\ ~t.late
    BY <2>3, <2>4
  <2>6. IsJob(t)
    BY <1>0, <2>3, <2>4, <2>5 DEF IsJob
  <2>7. Spent
    BY <2>2 DEF IInv, MarkSpends, Marked
  <2>8. /\ challenge'.status # "NEW" /\ Spent' /\ "ingest" \in Steps \ {"idle"}
        /\ challenge' = [status |-> challenge'.status, expires |-> challenge'.expires]
    BY <2>2, <2>7 DEF IInv, Typed, Spent, Steps
  <2> QED
    BY <2>2, <2>5, <2>6, <2>8, StepInv
<1>9. CASE Refuse(r)
  <2>1. /\ Goto(r, "reject") /\ job' = job /\ challenge' = challenge /\ pc[r] # "idle"
        /\ "reject" \in Steps \ {"idle"} /\ "reject" \notin Marked /\ "reject" # "mark"
    BY <1>9 DEF Refuse, Steps, Marked
  <2> QED
    BY <2>1, GotoInv
<1>10. CASE DecideFails(r)
  BY <1>10, FinishInv DEF DecideFails
<1> QED
  BY <1>1, <1>2, <1>3, <1>4, <1>5, <1>6, <1>7, <1>8, <1>9, <1>10

LEMMA RequestSteps ==
    ASSUME IInv, NEW r \in Requests,
           Trap(r) \/ VisitUnknown(r) \/ Visit(r) \/ Read(r) \/ Walk(r) \/ Record(r)
    PROVE  IInv'
<1> DEFINE j == job[r]
<1>0. /\ IsJob(j)
      /\ j = [kind |-> j.kind, run |-> j.run, token |-> j.token, verdict |-> j.verdict,
              snapshot |-> j.snapshot, at |-> j.at, late |-> j.late, wrote |-> j.wrote]
  BY DEF IInv, Typed, IsJob
<1>1. CASE Trap(r) /\ AppendEvent(r, job[r])
  <2>1. CASE Goto(r, "ingest")
    <3>1. /\ AppendEvent(r, job[r]) /\ Goto(r, "ingest") /\ challenge' = challenge
          /\ pc[r] # "idle" /\ "ingest" \in Steps \ {"idle"} /\ "ingest" \notin Marked
          /\ "ingest" # "mark"
      BY <1>1, <2>1 DEF Trap, Steps, Marked
    <3> QED
      BY <3>1, AppendInv
  <2>2. CASE Finish(r)
    BY <1>1, <2>2, FinishInv DEF Trap
  <2> QED
    BY <1>1, <2>1, <2>2 DEF Trap
<1>2. CASE Trap(r) /\ ~AppendEvent(r, job[r])
  BY <1>2, FinishInv DEF Trap
<1>3. CASE VisitUnknown(r)
  BY <1>3, FinishInv DEF VisitUnknown
<1>4. CASE Record(r)
  BY <1>4, FinishInv DEF Record
<1>5. CASE Visit(r)
  <2> DEFINE t == [j EXCEPT !.wrote = events + 1]
  <2>1. /\ pc' = [pc EXCEPT ![r] = "read"] /\ job' = [job EXCEPT ![r] = t]
        /\ challenge' = challenge /\ pc[r] # "idle"
        /\ "read" \in Steps \ {"idle"} /\ "read" # "mark" /\ "read" \notin Marked
    BY <1>5 DEF Visit, Goto, Marked, Steps
  <2> HIDE DEF j
  <2>2. t = [kind |-> j.kind, run |-> j.run, token |-> j.token, verdict |-> j.verdict,
             snapshot |-> j.snapshot, at |-> j.at, late |-> j.late, wrote |-> events + 1]
    <3>1. t = [j EXCEPT !.wrote = events + 1]
      OBVIOUS
    <3> HIDE DEF t
    <3> QED
      BY <1>0, <3>1, Zenon
  <2> HIDE DEF t
  <2>3. t.verdict = j.verdict /\ (t.late <=> j.late)
    BY <2>2
  <2>4. IsJob(t)
    BY <1>0, <2>2, <2>3 DEF IsJob
  <2>5. t.verdict = job[r].verdict /\ (t.late <=> job[r].late)
    BY <2>3 DEF j
  <2> QED
    BY <2>1, <2>4, <2>5, KeepInv
<1>6. CASE Read(r)
  <2> DEFINE t == [j EXCEPT !.at = events]
  <2>1. /\ pc' = [pc EXCEPT ![r] = "walk"] /\ job' = [job EXCEPT ![r] = t]
        /\ challenge' = challenge /\ pc[r] # "idle"
        /\ "walk" \in Steps \ {"idle"} /\ "walk" # "mark" /\ "walk" \notin Marked
    BY <1>6 DEF Read, Goto, Marked, Steps
  <2> HIDE DEF j
  <2>2. t = [kind |-> j.kind, run |-> j.run, token |-> j.token, verdict |-> j.verdict,
             snapshot |-> j.snapshot, at |-> events, late |-> j.late, wrote |-> j.wrote]
    <3>1. t = [j EXCEPT !.at = events]
      OBVIOUS
    <3> HIDE DEF t
    <3> QED
      BY <1>0, <3>1, Zenon
  <2> HIDE DEF t
  <2>3. t.verdict = j.verdict /\ (t.late <=> j.late)
    BY <2>2
  <2>4. IsJob(t)
    BY <1>0, <2>2, <2>3 DEF IsJob
  <2>5. t.verdict = job[r].verdict /\ (t.late <=> job[r].late)
    BY <2>3 DEF j
  <2> QED
    BY <2>1, <2>4, <2>5, KeepInv
<1>7. CASE Walk(r)
  <2>1. PICK snapshot : job' = [job EXCEPT ![r] =
                            [job[r] EXCEPT !.snapshot = snapshot, !.at = 0]]
    BY <1>7 DEF Walk
  <2> DEFINE t == [j EXCEPT !.snapshot = snapshot, !.at = 0]
  <2>2. /\ pc' = [pc EXCEPT ![r] = "ingest"] /\ job' = [job EXCEPT ![r] = t]
        /\ challenge' = challenge /\ pc[r] # "idle"
        /\ "ingest" \in Steps \ {"idle"} /\ "ingest" # "mark" /\ "ingest" \notin Marked
    BY <1>7, <2>1 DEF Walk, Goto, Marked, Steps
  <2> HIDE DEF j
  <2>3. t = [kind |-> j.kind, run |-> j.run, token |-> j.token, verdict |-> j.verdict,
             snapshot |-> snapshot, at |-> 0, late |-> j.late, wrote |-> j.wrote]
    <3>1. t = [j EXCEPT !.snapshot = snapshot, !.at = 0]
      OBVIOUS
    <3> HIDE DEF t
    <3> QED
      BY <1>0, <3>1, Zenon
  <2> HIDE DEF t
  <2>4. t.verdict = j.verdict /\ (t.late <=> j.late)
    BY <2>3
  <2>5. IsJob(t)
    BY <1>0, <2>3, <2>4 DEF IsJob
  <2>6. t.verdict = job[r].verdict /\ (t.late <=> job[r].late)
    BY <2>4 DEF j
  <2> QED
    BY <2>2, <2>5, <2>6, KeepInv
<1> QED
  BY <1>1, <1>2, <1>3, <1>4, <1>5, <1>6, <1>7

LEMMA NextInv == ASSUME IInv, [Next]_vars PROVE IInv'
<1>1. ASSUME pc' = pc, job' = job, challenge' = challenge PROVE IInv'
  BY <1>1 DEF IInv, Typed, Fresh, MarkSpends, LateFails, Spent
<1>2. CASE UNCHANGED vars
  BY <1>1, <1>2 DEF vars
<1>3. CASE Operator \/ Tick
  BY <1>1, <1>3 DEF Operator, Tick, local
<1>4. CASE Issue
  <2>1. /\ challenge.status = "NEW" /\ pc' = pc /\ job' = job
        /\ challenge' = [status |-> "ISSUED", expires |-> now + ChallengeTtl]
    BY <1>4 DEF Issue
  <2>2. \A r \in Requests : pc[r] = "idle" /\ job[r].verdict = "none" /\ ~job[r].late
    BY <2>1 DEF IInv, Fresh
  <2>3. challenge'.status = "ISSUED"
        /\ challenge' = [status |-> challenge'.status, expires |-> challenge'.expires]
    BY <2>1
  <2> QED
    BY <2>1, <2>2, <2>3 DEF IInv, Typed, Fresh, MarkSpends, LateFails, Taken, Marked
<1>5. ASSUME NEW r \in Requests, NEW kind \in Kinds, Arrive(r, kind) PROVE IInv'
  BY <1>5, ArriveInv
<1>6. ASSUME NEW r \in Requests,
             \/ Submit(r) \/ Refuse(r) \/ Check(r) \/ Mark(r) \/ Reject(r) \/ Consumed(r)
             \/ Copy(r) \/ Decide(r) \/ DecideFails(r)
      PROVE  IInv'
  BY <1>6, VerifySteps
<1>7. ASSUME NEW r \in Requests,
             Trap(r) \/ VisitUnknown(r) \/ Visit(r) \/ Read(r) \/ Walk(r) \/ Record(r)
      PROVE  IInv'
  BY <1>7, RequestSteps
<1> QED
  BY <1>2, <1>3, <1>4, <1>5, <1>6, <1>7 DEF Next

-----------------------------------------------------------------------------
\* Although InMemoryChallengeStore.verify takes no lock, a verification that
\* arrives after another settled the challenge is refused: threads can pass its
\* check together, but none of them makes the challenge ISSUED again.
THEOREM LateRefused == Spec => []LateAttemptsAreRefused
<1>1. Init => IInv
  BY InitInv
<1>2. IInv /\ [Next]_vars => IInv'
  BY NextInv
<1>3. IInv => LateAttemptsAreRefused
  BY DEF IInv, LateFails, LateAttemptsAreRefused
<1> QED
  BY <1>1, <1>2, <1>3, PTL DEF Spec

-----------------------------------------------------------------------------
\* The fields of a run of the recorder.
IsRun(t) ==
    /\ t = [start |-> t.start, completed |-> t.completed, used |-> t.used,
            truncated |-> t.truncated, copied |-> t.copied, seen |-> t.seen]
    /\ t.completed \in BOOLEAN

RunsInv == \E S : runs \in Seq(S) /\ \A t \in S : IsRun(t)

\* Run k, which is not completed, becomes t.
Rewrites(k, t) ==
    /\ k \in DOMAIN runs /\ ~runs[k].completed
    /\ IsRun(t) /\ runs' = [runs EXCEPT ![k] = t]

LEMMA RunsTyped ==
    ASSUME RunsInv
    PROVE  Len(runs) \in Nat /\ DOMAIN runs = 1..Len(runs) /\ \A k \in DOMAIN runs : IsRun(runs[k])
<1>1. PICK S : runs \in Seq(S) /\ \A t \in S : IsRun(t)
  BY DEF RunsInv
<1> QED
  BY <1>1, LenProperties

\* evidence() writes to open runs only.
LEMMA IngestRewrites ==
    ASSUME RunsInv, NEW k, NEW snapshot, Ingest(k, snapshot)
    PROVE  runs' = runs \/ \E t : Rewrites(k, t)
<1> DEFINE r == runs[k]
           newer == Newer(r, snapshot)
           copied == r.copied \o Kept(r, newer)
           truncated == r.truncated \/ Len(r.copied) + Len(newer) > Room
           seen == SeenNow(r, newer)
           t == Copied(r, newer)
<1>1. CASE ~Open(k)
  BY <1>1 DEF Ingest
<1>2. CASE Open(k)
  <2>1. runs' = [runs EXCEPT ![k] = t]
    BY <1>2 DEF Ingest
  <2>2. k \in DOMAIN runs /\ ~r.completed /\ IsRun(r)
    BY <1>2, RunsTyped DEF Open, Usable
  <2> HIDE DEF r, newer
  <2>3. t = [start |-> r.start, completed |-> r.completed, used |-> TRUE,
             truncated |-> truncated, copied |-> copied, seen |-> seen]
    <3>1. /\ r = [start |-> r.start, completed |-> r.completed, used |-> r.used,
                  truncated |-> r.truncated, copied |-> r.copied, seen |-> r.seen]
          /\ t = [r EXCEPT !.used = TRUE, !.copied = copied, !.truncated = truncated,
                           !.seen = seen]
      BY <2>2 DEF IsRun, Copied
    <3> HIDE DEF t, copied, truncated, seen
    <3> QED
      BY <3>1, Zenon
  <2> HIDE DEF t, copied, truncated, seen
  <2>4. IsRun(t)
    <3>1. t.start = r.start /\ (t.completed <=> r.completed) /\ t.used = TRUE
          /\ t.truncated = truncated /\ t.copied = copied /\ t.seen = seen
      BY <2>3
    <3> QED
      BY <2>2, <2>3, <3>1 DEF IsRun
  <2> QED
    BY <2>1, <2>2, <2>4 DEF Rewrites, r
<1> QED
  BY <1>1, <1>2

LEMMA CountRewrites ==
    ASSUME RunsInv, Count
    PROVE  runs' = runs \/ \E t : Rewrites(Current, t)
<1> DEFINE k == Current
           r == runs[k]
           t == [r EXCEPT !.used = TRUE]
<1>1. CASE ~Open(Current)
  BY <1>1 DEF Count
<1>2. CASE Open(Current)
  <2>1. runs' = [runs EXCEPT ![k] = t]
    BY <1>2 DEF Count
  <2>2. k \in DOMAIN runs /\ ~r.completed /\ IsRun(r)
    BY <1>2, RunsTyped DEF Open, Usable
  <2> HIDE DEF r
  <2>3. t = [start |-> r.start, completed |-> r.completed, used |-> TRUE,
             truncated |-> r.truncated, copied |-> r.copied, seen |-> r.seen]
    <3>1. /\ r = [start |-> r.start, completed |-> r.completed, used |-> r.used,
                  truncated |-> r.truncated, copied |-> r.copied, seen |-> r.seen]
          /\ t = [r EXCEPT !.used = TRUE]
      BY <2>2 DEF IsRun
    <3> HIDE DEF t
    <3> QED
      BY <3>1, Zenon
  <2> HIDE DEF t
  <2>4. IsRun(t)
    <3>1. t.start = r.start /\ (t.completed <=> r.completed) /\ t.used = TRUE
          /\ t.truncated = r.truncated /\ t.copied = r.copied /\ t.seen = r.seen
      BY <2>3
    <3> QED
      BY <2>2, <2>3, <3>1 DEF IsRun
  <2> QED
    BY <2>1, <2>2, <2>4 DEF Rewrites, r
<1> QED
  BY <1>1, <1>2

\* What a step may do to the runs.
LEMMA RunSteps ==
    ASSUME RunsInv, [Next]_vars
    PROVE  \/ runs' = runs \/ \E k, t : Rewrites(k, t)
           \/ StartRun \/ FinishRun
<1>1. CASE UNCHANGED vars
  BY <1>1 DEF vars
<1>2. CASE Tick
  BY <1>2 DEF Tick
<1>3. CASE Operator
  BY <1>3 DEF Operator
<1>4. CASE Issue
  BY <1>4, IngestRewrites DEF Issue
<1>5. ASSUME NEW r \in Requests, NEW kind \in Kinds, Arrive(r, kind)
      PROVE  runs' = runs \/ \E k, t : Rewrites(k, t)
  BY <1>5, CountRewrites DEF Arrive
<1>6. ASSUME NEW r \in Requests, Copy(r) \/ Record(r)
      PROVE  runs' = runs \/ \E k, t : Rewrites(k, t)
  BY <1>6, IngestRewrites DEF Copy, Record
<1>7. ASSUME NEW r \in Requests,
             \/ Submit(r) \/ Refuse(r) \/ Check(r) \/ Mark(r) \/ Reject(r) \/ Consumed(r)
             \/ Decide(r) \/ DecideFails(r)
      PROVE  runs' = runs
  BY <1>7 DEF Submit, Refuse, Check, Mark, Reject, Consumed, Decide, DecideFails
<1>8. ASSUME NEW r \in Requests,
             Trap(r) \/ VisitUnknown(r) \/ Visit(r) \/ Read(r) \/ Walk(r)
      PROVE  runs' = runs
  BY <1>8 DEF Trap, VisitUnknown, Visit, Read, Walk
<1> QED
  BY <1>1, <1>2, <1>3, <1>4, <1>5, <1>6, <1>7, <1>8 DEF Next

LEMMA RewritesKeeps ==
    ASSUME RunsInv, NEW k, NEW t, Rewrites(k, t)
    PROVE  RunsInv'
<1>1. PICK S : runs \in Seq(S) /\ \A u \in S : IsRun(u)
  BY DEF RunsInv
<1>2. k \in 1..Len(runs) /\ runs \in Seq(S \cup {t})
  BY <1>1, RunsTyped, SeqMonotonic DEF Rewrites
<1>3. runs' \in Seq(S \cup {t})
  BY <1>2, ExceptSeq DEF Rewrites
<1> QED
  BY <1>1, <1>3 DEF RunsInv, Rewrites

LEMMA StartKeeps ==
    ASSUME RunsInv, StartRun
    PROVE  RunsInv' /\ \A k \in DOMAIN runs : runs'[k] = runs[k]
<1> DEFINE t == NewRun(now)
<1>1. PICK S : runs \in Seq(S) /\ \A u \in S : IsRun(u)
  BY DEF RunsInv
<1>2. IsRun(t)
  BY DEF NewRun, IsRun
<1>3. runs \in Seq(S \cup {t}) /\ runs' = Append(runs, t) /\ t \in S \cup {t}
  BY <1>1, SeqMonotonic DEF StartRun
<1> HIDE DEF t
<1>4. runs' \in Seq(S \cup {t}) /\ \A k \in 1..Len(runs) : runs'[k] = runs[k]
  BY <1>3, AppendProperties
<1> QED
  BY <1>1, <1>2, <1>4, RunsTyped DEF RunsInv

LEMMA FinishKeeps ==
    ASSUME RunsInv, FinishRun
    PROVE  RunsInv' /\ \A k \in DOMAIN runs : runs[k].completed => runs'[k] = runs[k]
<1> DEFINE k == Current
           r == runs[k]
           t == [r EXCEPT !.completed = TRUE]
<1>1. PICK S : runs \in Seq(S) /\ \A u \in S : IsRun(u)
  BY DEF RunsInv
<1>2. k \in DOMAIN runs /\ IsRun(r) /\ runs' = [runs EXCEPT ![k] = t]
  BY RunsTyped DEF FinishRun, Usable
<1> HIDE DEF k, r
<1>3. t = [start |-> r.start, completed |-> TRUE, used |-> r.used,
           truncated |-> r.truncated, copied |-> r.copied, seen |-> r.seen]
  <2>1. /\ r = [start |-> r.start, completed |-> r.completed, used |-> r.used,
                truncated |-> r.truncated, copied |-> r.copied, seen |-> r.seen]
        /\ t = [r EXCEPT !.completed = TRUE]
    BY <1>2 DEF IsRun
  <2> HIDE DEF t
  <2> QED
    BY <2>1, Zenon
<1> HIDE DEF t
<1>4. IsRun(t)
  <2>1. t.start = r.start /\ t.completed = TRUE /\ t.used = r.used
        /\ t.truncated = r.truncated /\ t.copied = r.copied /\ t.seen = r.seen
    BY <1>3
  <2> QED
    BY <1>3, <2>1 DEF IsRun
<1>5. r.completed => t = r
  BY <1>2, <1>3 DEF IsRun
<1>6. k \in 1..Len(runs) /\ runs \in Seq(S \cup {t})
  BY <1>1, <1>2, RunsTyped, SeqMonotonic
<1>7. runs' \in Seq(S \cup {t})
  BY <1>2, <1>6, ExceptSeq
<1>8. RunsInv'
  BY <1>1, <1>4, <1>7 DEF RunsInv
<1>9. \A l \in DOMAIN runs : runs[l].completed => runs'[l] = runs[l]
  BY <1>2, <1>5 DEF r
<1> QED
  BY <1>8, <1>9

\* A run that was completed is immutable: no request in flight under it adds to
\* it, and completing it again changes nothing.
THEOREM CompletedStays == Spec => CompletedRunIsFrozen
<1>1. Init => RunsInv
  <2>1. << >> \in Seq({}) /\ \A t \in {} : IsRun(t)
    BY EmptySeq
  <2>2. ASSUME Init PROVE \E S : runs \in Seq(S) /\ \A t \in S : IsRun(t)
    <3>1. runs = << >>
      BY <2>2 DEF Init
    <3>2. runs \in Seq({})
      BY <2>1, <3>1
    <3> QED
      BY <2>1, <3>2
  <2> QED
    BY <2>2 DEF RunsInv
<1>2. RunsInv /\ [Next]_vars => RunsInv'
  <2> SUFFICES ASSUME RunsInv, [Next]_vars PROVE RunsInv'
    OBVIOUS
  <2>1. CASE runs' = runs
    BY <2>1 DEF RunsInv
  <2> QED
    BY <2>1, RunSteps, RewritesKeeps, StartKeeps, FinishKeeps
<1>3. RunsInv /\ [Next]_vars
        => [\A k \in DOMAIN runs : runs[k].completed => runs'[k] = runs[k]]_vars
  <2> SUFFICES ASSUME RunsInv, [Next]_vars, NEW k \in DOMAIN runs, runs[k].completed
               PROVE  runs'[k] = runs[k]
    OBVIOUS
  <2>1. ASSUME NEW j, NEW t, Rewrites(j, t) PROVE runs'[k] = runs[k]
    BY <2>1 DEF Rewrites
  <2> QED
    BY <2>1, RunSteps, StartKeeps, FinishKeeps
<1> QED
  BY <1>1, <1>2, <1>3, PTL DEF Spec, CompletedRunIsFrozen

-----------------------------------------------------------------------------
(***************************************************************************)
(* The orders a run copies.  Of any finite set of orders there is one with *)
(* i up to it, for each i up to their number: the rank is an injection of  *)
(* the set into an interval as large as the set, so it is onto.            *)
(***************************************************************************)
LEMMA Ranks ==
    ASSUME NEW S \in SUBSET Nat, IsFiniteSet(S), NEW rank,
           rank = [o \in S |-> Cardinality({p \in S : p <= o})]
    PROVE  /\ Cardinality(S) \in Nat /\ rank \in Surjection(S, 1..Cardinality(S))
           /\ \A a, b \in S : a < b <=> rank[a] < rank[b]
           /\ \A a, b \in S : rank[a] = rank[b] => a = b
<1> DEFINE n == Cardinality(S)
           Upto(o) == {p \in S : p <= o}
<1>1. n \in Nat
  BY FS_CardinalityType
<1>2. \A o \in S : /\ IsFiniteSet(Upto(o)) /\ Cardinality(Upto(o)) \in Nat
                   /\ Cardinality(Upto(o)) <= n
  BY FS_Subset, FS_CardinalityType
<1>3. \A o \in S : Cardinality(Upto(o)) # 0
  <2>1. \A o \in S : o \in Upto(o)
    OBVIOUS
  <2> QED
    BY <1>2, <2>1, FS_EmptySet
<1>4. rank \in [S -> 1..n] /\ \A o \in S : rank[o] = Cardinality(Upto(o))
  BY <1>1, <1>2, <1>3
<1>5. ASSUME NEW a \in S, NEW b \in S, a < b PROVE rank[a] < rank[b]
  <2>1. Upto(a) \subseteq Upto(b) /\ b \in Upto(b) /\ b \notin Upto(a)
    <3>1. \A p \in S : p \in Nat
      OBVIOUS
    <3>2. a \in Nat /\ b \in Nat /\ (\A p \in S : p <= a => p <= b) /\ ~(b <= a) /\ b <= b
      BY <1>5, <3>1
    <3> QED
      BY <3>2, Zenon
  <2>2. Cardinality(Upto(a)) <= Cardinality(Upto(b)) /\ Cardinality(Upto(a)) # Cardinality(Upto(b))
    <3> HIDE DEF Upto
    <3> QED
      BY <1>2, <2>1, FS_Subset
  <2> QED
    BY <1>2, <1>4, <2>2
<1>6. \A a, b \in S : rank[a] \in Nat /\ rank[b] \in Nat
  BY <1>1, <1>4
<1>7. \A a, b \in S : a < b <=> rank[a] < rank[b]
  BY <1>5, <1>6
<1>8. \A a, b \in S : rank[a] = rank[b] => a = b
  BY <1>6, <1>7
<1>9. rank \in Injection(S, 1..n)
  BY <1>4, <1>8, Fun_IsInj
<1>10. IsFiniteSet(1..n) /\ Cardinality(1..n) = n
  BY <1>1, FS_Interval
<1>11. rank \in Surjection(S, 1..n)
  BY <1>9, <1>10, FS_Injection
<1> QED
  BY <1>1, <1>7, <1>8, <1>11

LEMMA InOrderSorts ==
    ASSUME NEW S \in SUBSET Nat, IsFiniteSet(S)
    PROVE  LET q == InOrder(S) IN
           /\ q \in Seq(S) /\ ToSet(q) = S
           /\ \A i, j \in 1..Len(q) : i < j => q[i] < q[j]
<1> DEFINE rank == [o \in S |-> Cardinality({p \in S : p <= o})]
           n == Cardinality(S)
           q == InOrder(S)
<1>1. /\ n \in Nat /\ rank \in [S -> 1..n]
      /\ \A i \in 1..n : \E o \in S : rank[o] = i
      /\ \A a, b \in S : a < b <=> rank[a] < rank[b]
      /\ \A a, b \in S : rank[a] = rank[b] => a = b
  <2>1. /\ n \in Nat /\ rank \in Surjection(S, 1..n)
        /\ \A a, b \in S : a < b <=> rank[a] < rank[b]
        /\ \A a, b \in S : rank[a] = rank[b] => a = b
    BY Ranks
  <2> HIDE DEF rank
  <2> QED
    BY <2>1, Fun_SurjectionProperties DEF Surjection
<1>2. q = [i \in 1..n |-> CHOOSE o \in S : rank[o] = i]
  <2>1. \A i \in 1..n : (CHOOSE o \in S : rank[o] = i)
                          = CHOOSE o \in S : Cardinality({p \in S : p <= o}) = i
    OBVIOUS
  <2> HIDE DEF rank
  <2> QED
    BY <2>1 DEF InOrder
<1> HIDE DEF rank, q
<1>3. \A i \in 1..n : q[i] \in S /\ rank[q[i]] = i
  BY <1>1, <1>2
<1>4. q \in Seq(S) /\ Len(q) = n /\ DOMAIN q = 1..n
  <2>1. q \in [1..n -> S]
    BY <1>2, <1>3
  <2> QED
    BY <1>1, <2>1
<1>5. \A i, j \in 1..n : i < j => q[i] < q[j]
  BY <1>1, <1>3
<1>6. ToSet(q) = S
  <2>1. ASSUME NEW o \in S PROVE o \in ToSet(q)
    <3>1. rank[o] \in 1..n /\ q[rank[o]] \in S /\ rank[q[rank[o]]] = rank[o]
      BY <1>1, <1>3
    <3>2. q[rank[o]] = o
      BY <1>1, <3>1
    <3> QED
      BY <1>4, <3>1, <3>2 DEF ToSet
  <2> QED
    BY <1>3, <1>4, <2>1 DEF ToSet
<1> QED
  BY <1>4, <1>5, <1>6 DEF q

-----------------------------------------------------------------------------
(***************************************************************************)
(* What is copied: a run's copies are in order and none is newer than the  *)
(* last order it looked at; and as long as no event had to leave the       *)
(* window, snapshots and copies have no gaps.                              *)
(***************************************************************************)
Ascending(u) ==
    /\ \A i \in 1..Len(u.copied) : u.copied[i] <= u.seen
    /\ \A i, j \in 1..Len(u.copied) : i < j => u.copied[i] < u.copied[j]

RunOK(u, count) ==
    /\ u \in RunStates /\ Len(u.copied) <= Room
    /\ Ascending(u)
    /\ count <= Window /\ ~u.truncated => ToSet(u.copied) = 1..u.seen

\* A snapshot of count events without gaps.
Whole(S, count) == \E m \in 0..count : S = 1..m

\* What a run keeps of the newer orders q.
LEMMA KeptPrefix ==
    ASSUME NEW u \in RunStates, Len(u.copied) <= Room, NEW S, NEW q \in Seq(S)
    PROVE  LET kept == Kept(u, q) IN
           /\ kept \in Seq(S) /\ Len(kept) <= Len(q) /\ Len(u.copied) + Len(kept) <= Room
           /\ \A i \in 1..Len(kept) : kept[i] = q[i]
           /\ Len(u.copied) + Len(q) <= Room => kept = q
<1> DEFINE d == Room - Len(u.copied)
           kept == Kept(u, q)
<1>1. Len(u.copied) \in Nat /\ Len(q) \in Nat /\ Room \in Nat /\ d \in Nat
  <2>1. u.copied \in Seq(Nat)
    BY DEF RunStates
  <2> QED
    BY <2>1, LenProperties, MeasurementAssumption
<1>0. /\ Len(q) <= d => kept = q
      /\ ~(Len(q) <= d) => kept = SubSeq(q, 1, d)
      /\ Len(u.copied) + d = Room
  BY <1>1 DEF Kept
<1> HIDE DEF kept, d
<1>2. CASE Len(q) <= d
  <2>1. kept = q
    BY <1>0, <1>2
  <2> QED
    BY <1>0, <1>1, <1>2, <2>1 DEF kept
<1>3. CASE ~(Len(q) <= d)
  <2>1. kept = SubSeq(q, 1, d)
    BY <1>0, <1>3
  <2>2. \A i \in 1..d : q[i] \in S
    BY <1>1, <1>3, ElementOfSeq
  <2>3. /\ kept \in Seq(S) /\ Len(kept) = IF 1 <= d THEN d - 1 + 1 ELSE 0
        /\ \A i \in 1..(d - 1 + 1) : kept[i] = q[1 + i - 1]
    BY <1>1, <2>1, <2>2, SubSeqProperties
  <2>4. Len(kept) = d
    BY <1>1, <2>3
  <2>5. \A i \in 1..d : kept[i] = q[i]
    BY <1>1, <2>3
  <2> QED
    <3>1. Len(kept) <= Len(q) /\ Len(u.copied) + Len(kept) <= Room
      BY <1>0, <1>1, <1>3, <2>4
    <3>2. ~(Len(u.copied) + Len(q) <= Room)
      BY <1>0, <1>1, <1>3
    <3>3. \A i \in 1..Len(kept) : kept[i] = q[i]
      BY <2>4, <2>5
    <3> QED
      BY <2>3, <3>1, <3>2, <3>3 DEF kept
<1> QED
  BY <1>2, <1>3 DEF kept

\* Two sequences in order, the second of larger orders than the first.
LEMMA AscendingConcat ==
    ASSUME NEW c \in Seq(Nat), NEW k \in Seq(Nat), NEW a \in Nat, NEW b \in Nat, a <= b,
           \A i \in 1..Len(c) : c[i] <= a,
           \A i, j \in 1..Len(c) : i < j => c[i] < c[j],
           \A i \in 1..Len(k) : a < k[i] /\ k[i] <= b,
           \A i, j \in 1..Len(k) : i < j => k[i] < k[j]
    PROVE  LET s == c \o k IN
           /\ s \in Seq(Nat) /\ Len(s) = Len(c) + Len(k)
           /\ ToSet(s) = ToSet(c) \cup ToSet(k)
           /\ \A i \in 1..Len(s) : s[i] <= b
           /\ \A i, j \in 1..Len(s) : i < j => s[i] < s[j]
<1>1. PICK m, n : m = Len(c) /\ n = Len(k)
  OBVIOUS
<1>2. PICK s : s = c \o k
  OBVIOUS
<1>3. /\ m \in Nat /\ n \in Nat /\ DOMAIN c = 1..m /\ DOMAIN k = 1..n
      /\ \A i \in 1..m : c[i] \in Nat /\ c[i] <= a
      /\ \A i \in 1..n : k[i] \in Nat /\ a < k[i] /\ k[i] <= b
  BY <1>1, LenProperties, ElementOfSeq
<1>4. /\ s \in Seq(Nat) /\ Len(s) = m + n /\ DOMAIN s = 1..(m + n)
      /\ \A i \in 1..(m + n) : s[i] = IF i <= m THEN c[i] ELSE k[i - m]
  BY <1>1, <1>2, ConcatProperties, LenProperties
<1>5. \A i \in 1..(m + n) : /\ i <= m => i \in 1..m /\ s[i] = c[i]
                            /\ ~(i <= m) => i - m \in 1..n /\ s[i] = k[i - m]
  BY <1>3, <1>4
<1>6. \A i \in 1..(m + n) : s[i] \in Nat /\ s[i] <= b
  <2> TAKE i \in 1..(m + n)
  <2>1. CASE i <= m
    <3>1. s[i] = c[i] /\ c[i] \in Nat /\ c[i] <= a
      BY <1>3, <1>5, <2>1
    <3> QED
      BY <3>1
  <2>2. CASE ~(i <= m)
    BY <1>3, <1>5, <2>2
  <2> QED
    BY <2>1, <2>2
<1>7. ASSUME NEW i \in 1..(m + n), NEW j \in 1..(m + n), i < j PROVE s[i] < s[j]
  <2>1. i \in Nat /\ j \in Nat
    BY <1>3
  <2>2. CASE j <= m
    <3>1. i \in 1..m /\ j \in 1..m /\ s[i] = c[i] /\ s[j] = c[j]
      BY <1>3, <1>5, <1>7, <2>1, <2>2
    <3> QED
      BY <1>1, <1>7, <3>1
  <2>3. CASE ~(i <= m)
    <3>1. /\ i - m \in 1..n /\ j - m \in 1..n /\ i - m < j - m
          /\ s[i] = k[i - m] /\ s[j] = k[j - m]
      BY <1>3, <1>5, <1>7, <2>1, <2>3
    <3> QED
      BY <1>1, <3>1
  <2>4. CASE i <= m /\ ~(j <= m)
    <3>1. /\ s[i] = c[i] /\ c[i] \in Nat /\ c[i] <= a
      BY <1>3, <1>5, <2>4
    <3>2. s[j] = k[j - m] /\ k[j - m] \in Nat /\ a < k[j - m]
      BY <1>3, <1>5, <2>4
    <3> QED
      BY <3>1, <3>2
  <2> QED
    BY <1>3, <1>7, <2>1, <2>2, <2>3, <2>4
<1>8. ToSet(s) = ToSet(c) \cup ToSet(k)
  <2>1. \A i \in 1..m : i \in 1..(m + n) /\ s[i] = c[i]
    BY <1>3, <1>5
  <2>2. \A i \in 1..n : i + m \in 1..(m + n) /\ s[i + m] = k[i]
    <3> TAKE i \in 1..n
    <3>1. i + m \in 1..(m + n) /\ ~(i + m <= m) /\ (i + m) - m = i
      BY <1>3
    <3> QED
      BY <1>5, <3>1
  <2>3. \A i \in 1..(m + n) : s[i] \in ToSet(c) \cup ToSet(k)
    BY <1>3, <1>5 DEF ToSet
  <2>4. ToSet(c) \subseteq ToSet(s) /\ ToSet(k) \subseteq ToSet(s)
    <3>1. ASSUME NEW i \in 1..m PROVE c[i] \in ToSet(s)
      BY <1>4, <2>1 DEF ToSet
    <3>2. ASSUME NEW i \in 1..n PROVE k[i] \in ToSet(s)
      BY <1>4, <2>2 DEF ToSet
    <3>3. ToSet(c) = {c[i] : i \in 1..m} /\ ToSet(k) = {k[i] : i \in 1..n}
      BY <1>3 DEF ToSet
    <3> QED
      BY <3>1, <3>2, <3>3
  <2>5. ToSet(s) \subseteq ToSet(c) \cup ToSet(k)
    BY <1>4, <2>3 DEF ToSet
  <2> QED
    BY <2>4, <2>5
<1> QED
  BY <1>1, <1>2, <1>4, <1>6, <1>7, <1>8

LEMMA CopiedRun ==
    ASSUME NEW count \in Nat, NEW u, RunOK(u, count), NEW S \in SUBSET (1..count),
           count <= Window => Whole(S, count),
           NEW t, t = Copied(u, Newer(u, S))
    PROVE  /\ RunOK(t, count)
           /\ \A m \in 0..count : count <= Window /\ S = 1..m /\ ~t.truncated => m <= t.seen
<1> DEFINE N == {o \in S : o > u.seen}
           q == InOrder(N)
           kept == Kept(u, q)
           c == u.copied
<1>1. /\ u \in RunStates /\ c \in Seq(Nat) /\ u.seen \in Nat /\ Len(c) \in Nat
      /\ Room \in Nat /\ Len(c) <= Room
  <2>1. u \in RunStates /\ c \in Seq(Nat) /\ u.seen \in Nat /\ Len(c) <= Room
    BY DEF RunOK, RunStates
  <2> QED
    BY <2>1, LenProperties, MeasurementAssumption
<1>2. N \in SUBSET Nat /\ IsFiniteSet(N) /\ \A o \in N : o > u.seen /\ o \in 1..count
  <2>1. IsFiniteSet(1..count) /\ N \subseteq 1..count
    <3>1. 1 \in Int /\ count \in Int
      OBVIOUS
    <3>2. IsFiniteSet(1..count)
      BY <3>1, FS_Interval
    <3> QED
      BY <3>2
  <2> QED
    BY <2>1, FS_Subset
<1> HIDE DEF N
<1>3. /\ q \in Seq(N) /\ ToSet(q) = N /\ Len(q) \in Nat /\ DOMAIN q = 1..Len(q)
      /\ \A i, j \in 1..Len(q) : i < j => q[i] < q[j]
      /\ \A i \in 1..Len(q) : q[i] \in N
  <2>1. /\ q \in Seq(N) /\ ToSet(q) = N
        /\ \A i, j \in 1..Len(q) : i < j => q[i] < q[j]
    BY <1>2, InOrderSorts
  <2> QED
    BY <2>1, LenProperties, ElementOfSeq
<1> HIDE DEF q
<1>4. /\ kept \in Seq(N) /\ Len(kept) <= Len(q) /\ Len(c) + Len(kept) <= Room
      /\ \A i \in 1..Len(kept) : kept[i] = q[i]
      /\ Len(c) + Len(q) <= Room => kept = q
      /\ Len(kept) \in Nat
  <2>1. /\ kept \in Seq(N) /\ Len(kept) <= Len(q) /\ Len(c) + Len(kept) <= Room
        /\ \A i \in 1..Len(kept) : kept[i] = q[i]
        /\ Len(c) + Len(q) <= Room => kept = q
    BY <1>1, <1>3, KeptPrefix
  <2> QED
    BY <2>1, LenProperties
<1> HIDE DEF kept
\* The last order looked at.
<1>5. /\ SeenNow(u, q) \in Nat /\ u.seen <= SeenNow(u, q)
      /\ \A o \in N : o <= SeenNow(u, q)
      /\ SeenNow(u, q) \in N \cup {u.seen}
  <2>1. CASE q = << >>
    <3>1. N = {}
      BY <1>3, <2>1 DEF ToSet
    <3> QED
      BY <1>1, <2>1, <3>1 DEF SeenNow
  <2>2. CASE q # << >>
    <3>1. Len(q) \in Nat \ {0}
      BY <1>3, <2>2, EmptySeq
    <3>2. SeenNow(u, q) = q[Len(q)] /\ q[Len(q)] \in N
      BY <1>3, <2>2, <3>1 DEF SeenNow, Last
    <3>3. ASSUME NEW o \in N PROVE o <= q[Len(q)]
      <4>1. PICK i \in 1..Len(q) : q[i] = o
        BY <1>3 DEF ToSet
      <4>2. i = Len(q) \/ i < Len(q)
        BY <3>1, <4>1
      <4>3. i < Len(q) => q[i] < q[Len(q)]
        BY <1>3, <3>1, <4>1
      <4>4. o \in Nat /\ q[Len(q)] \in Nat
        BY <1>2, <3>2
      <4> QED
        BY <4>1, <4>2, <4>3, <4>4
    <3>4. q[Len(q)] \in Nat /\ u.seen <= q[Len(q)]
      <4>1. \A o \in N : o \in Nat /\ u.seen <= o
        BY <1>1, <1>2
      <4> QED
        BY <3>2, <4>1
    <3> QED
      BY <3>2, <3>3, <3>4
  <2> QED
    BY <2>1, <2>2
<1>6. \A i \in 1..Len(kept) : q[i] \in Nat /\ q[i] > u.seen /\ q[i] <= SeenNow(u, q)
  <2>1. \A i \in 1..Len(kept) : q[i] \in N
    BY <1>3, <1>4
  <2> QED
    BY <1>2, <1>5, <2>1
<1>7. /\ c \o kept \in Seq(Nat) /\ Len(c \o kept) = Len(c) + Len(kept)
      /\ ToSet(c \o kept) = ToSet(c) \cup ToSet(kept)
      /\ \A i \in 1..Len(c \o kept) : (c \o kept)[i] <= SeenNow(u, q)
      /\ \A i, j \in 1..Len(c \o kept) : i < j => (c \o kept)[i] < (c \o kept)[j]
  <2>1. kept \in Seq(Nat)
    BY <1>2, <1>4, SeqMonotonic
  <2>2. /\ \A i \in 1..Len(kept) : u.seen < kept[i] /\ kept[i] <= SeenNow(u, q)
        /\ \A i, j \in 1..Len(kept) : i < j => kept[i] < kept[j]
    <3>1. 1..Len(kept) \subseteq 1..Len(q)
      BY <1>3, <1>4
    <3>2. \A i \in 1..Len(kept) : u.seen < q[i]
      BY <1>1, <1>6
    <3> QED
      BY <1>3, <1>4, <1>6, <3>1, <3>2
  <2>3. /\ \A i \in 1..Len(c) : c[i] <= u.seen
        /\ \A i, j \in 1..Len(c) : i < j => c[i] < c[j]
    BY DEF RunOK, Ascending
  <2>4. u.seen \in Nat /\ SeenNow(u, q) \in Nat /\ u.seen <= SeenNow(u, q) /\ c \in Seq(Nat)
    BY <1>1, <1>5
  <2> QED
    BY <2>1, <2>2, <2>3, <2>4, AscendingConcat
<1>8. /\ t \in RunStates /\ t.copied = c \o kept /\ t.seen = SeenNow(u, q)
      /\ t.truncated = (u.truncated \/ Len(c) + Len(q) > Room)
  <2>1. t = [u EXCEPT !.used = TRUE, !.copied = c \o kept,
                      !.truncated = u.truncated \/ Len(c) + Len(q) > Room,
                      !.seen = SeenNow(u, q)]
    BY DEF Copied, Newer, q, N, kept
  <2> QED
    BY <1>1, <1>5, <1>7, <2>1 DEF RunStates
<1>9. Len(t.copied) <= Room /\ Ascending(t)
  BY <1>4, <1>7, <1>8 DEF Ascending
<1>13. ASSUME count <= Window, ~t.truncated, NEW m \in 0..count, S = 1..m
       PROVE  m <= t.seen /\ ToSet(t.copied) = 1..t.seen
  <2>1. kept = q /\ ToSet(c) = 1..u.seen
    <3>1. ~u.truncated /\ ~(Len(c) + Len(q) > Room)
      BY <1>8, <1>13
    <3>2. Len(c) + Len(q) <= Room
      BY <1>1, <1>3, <3>1
    <3> QED
      BY <1>4, <1>13, <3>1, <3>2 DEF RunOK
  <2>2. N = (u.seen + 1)..m
    BY <1>1, <1>13 DEF N
  <2>3. m <= t.seen /\ t.seen = (IF u.seen < m THEN m ELSE u.seen)
    <3>1. CASE u.seen < m
      <4>1. m \in N
        BY <1>1, <2>2, <3>1
      <4> QED
        BY <1>1, <1>5, <1>8, <2>2, <3>1, <4>1
    <3>2. CASE ~(u.seen < m)
      <4>1. N = {}
        BY <1>1, <2>2, <3>2
      <4> QED
        BY <1>1, <1>5, <1>8, <3>2, <4>1
    <3> QED
      BY <3>1, <3>2
  <2>4. ToSet(t.copied) = 1..u.seen \cup N
    BY <1>3, <1>7, <1>8, <2>1
  <2>5. 1..u.seen \cup N = 1..t.seen
    BY <1>1, <1>13, <2>2, <2>3
  <2> QED
    BY <2>3, <2>4, <2>5
<1>14. count <= Window /\ ~t.truncated => ToSet(t.copied) = 1..t.seen
  BY <1>13 DEF Whole
<1> QED
  BY <1>8, <1>9, <1>13, <1>14 DEF RunOK

-----------------------------------------------------------------------------
RunsOK(rs, count) ==
    /\ rs \in Seq(RunStates) /\ Len(rs) <= MaxRuns
    /\ \A k \in 1..Len(rs) : RunOK(rs[k], count)

LEMMA RunsLen ==
    ASSUME NEW rs, NEW count, RunsOK(rs, count)
    PROVE  Len(rs) \in Nat /\ DOMAIN rs = 1..Len(rs)
  BY LenProperties DEF RunsOK

\* Events that nobody has copied yet change nothing.
LEMMA RunsLater ==
    ASSUME NEW rs, NEW count \in Nat, NEW later \in Nat, count <= later, RunsOK(rs, count)
    PROVE  RunsOK(rs, later)
<1>1. later <= Window => count <= Window
  BY LocalAssumption
<1> QED
  BY <1>1 DEF RunsOK, RunOK

Put(rs, k, t) == [rs EXCEPT ![k] = t]

LEMMA RunReplaced ==
    ASSUME NEW rs, NEW count, RunsOK(rs, count), NEW k \in 1..Len(rs), NEW t, RunOK(t, count)
    PROVE  /\ RunsOK(Put(rs, k, t), count) /\ Len(Put(rs, k, t)) = Len(rs)
           /\ Put(rs, k, t)[k] = t
<1>1. rs \in Seq(RunStates) /\ t \in RunStates
  BY DEF RunsOK, RunOK
<1>2. PICK new : new = Put(rs, k, t)
  OBVIOUS
<1>3. /\ new \in Seq(RunStates) /\ Len(new) = Len(rs)
      /\ \A j \in 1..Len(rs) : new[j] = IF j = k THEN t ELSE rs[j]
  BY <1>1, <1>2, ExceptSeq DEF Put
<1>4. RunsOK(new, count)
  BY <1>3 DEF RunsOK
<1> QED
  BY <1>2, <1>3, <1>4

LEMMA RunsIngest ==
    ASSUME NEW count \in Nat, RunsOK(runs, count), NEW S \in SUBSET (1..count),
           count <= Window => Whole(S, count), NEW k, Ingest(k, S)
    PROVE  /\ RunsOK(runs', count) /\ Len(runs') = Len(runs)
           /\ \A m \in 0..count :
                 (count <= Window /\ S = 1..m /\ Open(k) /\ ~runs'[k].truncated)
                   => k \in 1..Len(runs') /\ m <= runs'[k].seen
<1>1. CASE ~Open(k)
  BY <1>1 DEF Ingest
<1>2. CASE Open(k)
  <2>1. k \in 1..Len(runs)
    BY <1>2, RunsLen DEF Open, Usable
  <2>2. PICK t : t = Copied(runs[k], Newer(runs[k], S))
    OBVIOUS
  <2>3. runs' = [runs EXCEPT ![k] = t]
    BY <1>2, <2>2 DEF Ingest
  <2>4. RunOK(runs[k], count)
    BY <2>1 DEF RunsOK
  <2>5. /\ RunOK(t, count)
        /\ \A m \in 0..count : count <= Window /\ S = 1..m /\ ~t.truncated => m <= t.seen
    BY <2>2, <2>4, CopiedRun
  <2>6. RunsOK(runs', count) /\ Len(runs') = Len(runs) /\ runs'[k] = t
    <3>1. PICK old, new : old = runs /\ new = runs'
      OBVIOUS
    <3>2. RunsOK(old, count) /\ k \in 1..Len(old) /\ new = Put(old, k, t)
      BY <2>1, <2>3, <3>1 DEF Put
    <3>3. RunsOK(new, count) /\ Len(new) = Len(old) /\ new[k] = t
      BY <2>5, <3>2, RunReplaced
    <3> QED
      BY <3>1, <3>3
  <2> QED
    BY <2>1, <2>5, <2>6
<1> QED
  BY <1>1, <1>2

LEMMA RunsCount ==
    ASSUME NEW count, RunsOK(runs, count), Count
    PROVE  RunsOK(runs', count) /\ Len(runs') = Len(runs)
<1>1. CASE ~Open(Current)
  BY <1>1 DEF Count
<1>2. CASE Open(Current)
  <2>1. Current \in 1..Len(runs)
    BY <1>2, RunsLen DEF Open, Usable
  <2>2. PICK u, t : u = runs[Current] /\ t = [u EXCEPT !.used = TRUE]
    OBVIOUS
  <2>3. runs' = [runs EXCEPT ![Current] = t]
    BY <1>2, <2>2 DEF Count
  <2>4. RunOK(u, count)
    BY <2>1, <2>2 DEF RunsOK
  <2>5. RunOK(t, count)
    <3>1. /\ t \in RunStates /\ t.copied = u.copied /\ t.seen = u.seen
          /\ t.truncated = u.truncated
      BY <2>2, <2>4 DEF RunOK, RunStates
    <3> QED
      BY <2>4, <3>1 DEF RunOK, Ascending
  <2>6. PICK old, new, i : old = runs /\ new = runs' /\ i = Current
    OBVIOUS
  <2>7. RunsOK(old, count) /\ i \in 1..Len(old) /\ new = Put(old, i, t)
    BY <2>1, <2>3, <2>6 DEF Put
  <2>8. RunsOK(new, count) /\ Len(new) = Len(old)
    BY <2>5, <2>7, RunReplaced
  <2> QED
    BY <2>6, <2>8
<1> QED
  BY <1>1, <1>2

LEMMA RunsOperator ==
    ASSUME NEW count \in Nat, RunsOK(runs, count), now \in 0..MaxTime, StartRun \/ FinishRun
    PROVE  RunsOK(runs', count) /\ Len(runs') \in {Len(runs), Len(runs) + 1}
<1>1. CASE StartRun
  <2>1. PICK t : t = NewRun(now)
    OBVIOUS
  <2>2. RunOK(t, count)
    <3>1. /\ t.copied = << >> /\ t.seen = 0 /\ t \in RunStates /\ Len(t.copied) = 0
      BY <2>1, EmptySeq DEF NewRun, RunStates
    <3>2. ToSet(t.copied) = {} /\ 1..0 = {} /\ 1..Len(t.copied) = {}
      BY <3>1 DEF ToSet
    <3> QED
      BY <3>1, <3>2, MeasurementAssumption DEF RunOK, Ascending
  <2>3. /\ runs \in Seq(RunStates) /\ runs' = Append(runs, t) /\ Len(runs) < MaxRuns
        /\ Len(runs) \in Nat /\ MaxRuns \in Nat /\ t \in RunStates
    BY <1>1, <2>1, <2>2, RunsLen, MeasurementAssumption DEF StartRun, RunsOK, RunOK
  <2>4. /\ runs' \in Seq(RunStates) /\ Len(runs') = Len(runs) + 1
        /\ \A k \in 1..Len(runs) : runs'[k] = runs[k]
        /\ runs'[Len(runs) + 1] = t
    BY <2>3, AppendProperties
  <2>5. \A k \in 1..Len(runs') : k \in 1..Len(runs) \/ k = Len(runs) + 1
    BY <2>3, <2>4
  <2>6. \A k \in 1..Len(runs') : RunOK(runs'[k], count)
    BY <2>2, <2>4, <2>5 DEF RunsOK
  <2> QED
    BY <2>3, <2>4, <2>6 DEF RunsOK
<1>2. CASE FinishRun
  <2>1. Current \in 1..Len(runs)
    BY <1>2, RunsLen DEF FinishRun, Usable
  <2>2. PICK u, t : u = runs[Current] /\ t = [u EXCEPT !.completed = TRUE]
    OBVIOUS
  <2>3. runs' = [runs EXCEPT ![Current] = t]
    BY <1>2, <2>2 DEF FinishRun
  <2>4. RunOK(u, count)
    BY <2>1, <2>2 DEF RunsOK
  <2>5. RunOK(t, count)
    <3>1. /\ t \in RunStates /\ t.copied = u.copied /\ t.seen = u.seen
          /\ t.truncated = u.truncated
      BY <2>2, <2>4 DEF RunOK, RunStates
    <3> QED
      BY <2>4, <3>1 DEF RunOK, Ascending
  <2>6. PICK old, new, i : old = runs /\ new = runs' /\ i = Current
    OBVIOUS
  <2>7. RunsOK(old, count) /\ i \in 1..Len(old) /\ new = Put(old, i, t)
    BY <2>1, <2>3, <2>6 DEF Put
  <2>8. RunsOK(new, count) /\ Len(new) = Len(old)
    BY <2>5, <2>7, RunReplaced
  <2> QED
    BY <2>6, <2>8
<1> QED
  BY <1>1, <1>2

-----------------------------------------------------------------------------
JobStates ==
    [kind : Kinds, run : Nat, token : BOOLEAN, verdict : Verdicts,
     snapshot : SUBSET Nat, at : Nat, late : BOOLEAN, wrote : Nat]

\* What the thread of a request may hold before a step, with len runs and count
\* events: about to be copied, as long as no event has left the window, is a
\* snapshot without gaps that includes the request's own last event.
JobOK(t, step, len, count) ==
    /\ t \in JobStates
    /\ t.run \in 0..len /\ t.snapshot \in SUBSET (1..count)
    /\ t.at \in 0..count /\ t.wrote \in 0..count
    /\ (step \in {"copy", "ingest"} /\ count <= Window) =>
          \E m \in 0..count : t.snapshot = 1..m /\ t.wrote <= m

Statuses == {"NEW", "ISSUED", "CONSUMED", "FAILED", "EXPIRED"}

DInv ==
    /\ now \in 0..MaxTime
    /\ challenge.status \in Statuses
    /\ events \in Nat /\ (challenge.status = "NEW" => events = 0)
    /\ RunsOK(runs, events)
    /\ \A r \in Requests : JobOK(job[r], pc[r], Len(runs), events)

\* Later runs and events take nothing from what a thread holds.
LEMMA JobLater ==
    ASSUME NEW t, NEW s, NEW step, NEW len \in Nat, NEW more \in Nat, NEW count \in Nat,
           NEW later \in Nat, len <= more, count <= later, JobOK(t, s, len, count),
           step = s \/ step \notin {"copy", "ingest"}
    PROVE  JobOK(t, step, more, later)
<1>1. later <= Window => count <= Window
  BY LocalAssumption
<1>2. t.run \in 0..more /\ t.snapshot \in SUBSET (1..later) /\ t.at \in 0..later
      /\ t.wrote \in 0..later
  BY DEF JobOK
<1>3. (step \in {"copy", "ingest"} /\ later <= Window) =>
          \E m \in 0..later : t.snapshot = 1..m /\ t.wrote <= m
  BY <1>1 DEF JobOK
<1> QED
  BY <1>2, <1>3 DEF JobOK

\* A verdict changes nothing else.
LEMMA JobVerdict ==
    ASSUME NEW j, NEW s, NEW step, NEW len \in Nat, NEW count \in Nat,
           JobOK(j, s, len, count), step \notin {"copy", "ingest"},
           NEW verdict \in Verdicts, NEW t, t = [j EXCEPT !.verdict = verdict]
    PROVE  JobOK(t, step, len, count)
<1>1. /\ t \in JobStates /\ t.run = j.run /\ t.snapshot = j.snapshot /\ t.at = j.at
      /\ t.wrote = j.wrote
  BY DEF JobOK, JobStates
<1> QED
  BY <1>1 DEF JobOK

\* The snapshot that goes with an event ends with it, and has no gap before the
\* window is full.
LEMMA JobAppend ==
    ASSUME NEW j, NEW s, NEW step, NEW len \in Nat, NEW count \in Nat,
           JobOK(j, s, len, count),
           NEW t, t = [j EXCEPT !.snapshot = WindowOf(count + 1), !.wrote = count + 1]
    PROVE  JobOK(t, step, len, count + 1)
<1>1. PICK S : S = WindowOf(count + 1)
  OBVIOUS
<1>2. S \in SUBSET (1..(count + 1)) /\ S \in SUBSET Nat
  BY <1>1 DEF WindowOf
<1>3. count + 1 <= Window => S = 1..(count + 1)
  BY <1>1, LocalAssumption DEF WindowOf
<1>4. /\ t \in JobStates /\ t.run = j.run /\ t.snapshot = S /\ t.at = j.at
      /\ t.wrote = count + 1
  <2>1. PICK n \in Nat : n = count + 1
    OBVIOUS
  <2>2. t = [j EXCEPT !.snapshot = S, !.wrote = n]
    BY <1>1, <2>1
  <2>3. j \in JobStates /\ S \in SUBSET Nat
    BY <1>2 DEF JobOK
  <2>4. t \in JobStates /\ t.run = j.run /\ t.snapshot = S /\ t.at = j.at /\ t.wrote = n
    BY ONLY <2>2, <2>3 DEF JobStates
  <2> QED
    BY <2>1, <2>4
<1> QED
  BY <1>2, <1>3, <1>4 DEF JobOK

\* An answered request holds nothing.
LEMMA JobFinished ==
    ASSUME NEW j, NEW s, NEW len \in Nat, NEW count \in Nat, JobOK(j, s, len, count),
           NEW late \in BOOLEAN,
           NEW t, t = [NoJob EXCEPT !.verdict = j.verdict, !.late = late]
    PROVE  JobOK(t, "answered", len, count)
<1>1. /\ t \in JobStates /\ t.run = 0 /\ t.snapshot = {} /\ t.at = 0 /\ t.wrote = 0
  BY DEF JobOK, JobStates, NoJob, Kinds
<1> QED
  BY <1>1 DEF JobOK

\* A step of request r, and what the runs and the evidence may become meanwhile.
LEMMA DataStep ==
    ASSUME IInv, DInv, NEW r \in Requests, NEW step, NEW t,
           pc' = [pc EXCEPT ![r] = step], job' = [job EXCEPT ![r] = t],
           now' = now, events' \in {events, events + 1},
           challenge'.status \in Statuses \ {"NEW"},
           RunsOK(runs', events'), Len(runs') = Len(runs),
           JobOK(t, step, Len(runs), events')
    PROVE  DInv'
<1>1. events \in Nat /\ events' \in Nat /\ events <= events' /\ Len(runs) \in Nat
  BY RunsLen DEF DInv
<1>2. ASSUME NEW q \in Requests PROVE JobOK(job'[q], pc'[q], Len(runs'), events')
  <2>1. CASE q = r
    BY <2>1 DEF IInv, Typed
  <2>2. CASE q # r
    <3>1. job'[q] = job[q] /\ pc'[q] = pc[q]
      BY <2>2 DEF IInv, Typed
    <3>2. JobOK(job[q], pc[q], Len(runs), events)
      BY DEF DInv
    <3>3. JobOK(job[q], pc[q], Len(runs), events')
      BY <1>1, <3>2, JobLater
    <3> QED
      BY <3>1, <3>3
  <2> QED
    BY <2>1, <2>2
<1> QED
  BY <1>1, <1>2 DEF DInv

\* What holds before a step of a request that has arrived.
LEMMA Held ==
    ASSUME IInv, DInv, NEW r \in Requests
    PROVE  /\ JobOK(job[r], pc[r], Len(runs), events)
           /\ Len(runs) \in Nat /\ events \in Nat /\ events + 1 \in Nat
           /\ RunsOK(runs, events) /\ RunsOK(runs, events + 1)
           /\ pc[r] # "idle" => challenge.status \in Statuses \ {"NEW"}
<1>1. events \in Nat /\ RunsOK(runs, events)
  BY DEF DInv
<1>2. RunsOK(runs, events + 1)
  BY <1>1, RunsLater
<1> QED
  BY <1>1, <1>2, RunsLen DEF DInv, IInv, Fresh

\* A step that appends the last event of request r, which holds j.
LEMMA AppendData ==
    ASSUME IInv, DInv, NEW r \in Requests, NEW step, NEW s, NEW j,
           JobOK(j, s, Len(runs), events), AppendEvent(r, j), Goto(r, step),
           pc[r] # "idle", now' = now, runs' = runs, challenge' = challenge
    PROVE  DInv'
<1>1. PICK t : t = [j EXCEPT !.snapshot = WindowOf(events + 1), !.wrote = events + 1]
  OBVIOUS
<1>2. /\ job' = [job EXCEPT ![r] = t] /\ pc' = [pc EXCEPT ![r] = step]
      /\ events' = events + 1
  BY <1>1 DEF AppendEvent, Goto
<1>3. JobOK(t, step, Len(runs), events + 1)
  <2>1. PICK count \in Nat, len \in Nat : count = events /\ len = Len(runs)
    BY Held
  <2>2. JobOK(t, step, len, count + 1)
    BY <1>1, <2>1, JobAppend
  <2> QED
    BY <2>1, <2>2
<1> QED
  BY <1>2, <1>3, Held, DataStep

\* A step that answers request r.
LEMMA FinishData ==
    ASSUME IInv, DInv, NEW r \in Requests, Finish(r), pc[r] # "idle",
           now' = now, events' \in {events, events + 1}, challenge' = challenge,
           RunsOK(runs', events'), Len(runs') = Len(runs)
    PROVE  DInv'
<1> DEFINE late == job[r].late /\ job[r].verdict \in Taken
<1>1. late \in BOOLEAN
  OBVIOUS
<1>2. pc' = [pc EXCEPT ![r] = "answered"]
      /\ job' = [job EXCEPT ![r] = [NoJob EXCEPT !.verdict = job[r].verdict, !.late = late]]
  BY DEF Finish
<1> HIDE DEF late
<1>3. PICK j, t : j = job[r] /\ t = [NoJob EXCEPT !.verdict = j.verdict, !.late = late]
  OBVIOUS
<1>4. job' = [job EXCEPT ![r] = t]
  BY <1>2, <1>3
<1>5. PICK count \in Nat, len \in Nat : count = events /\ len = Len(runs)
  BY Held
<1>6. JobOK(j, pc[r], len, count)
  BY <1>3, <1>5, Held
<1>7. JobOK(t, "answered", len, count)
  BY <1>1, <1>3, <1>6, JobFinished
<1>8. JobOK(t, "answered", Len(runs), events')
  BY <1>5, <1>7, JobLater
<1>9. challenge'.status \in Statuses \ {"NEW"}
  BY Held
<1> QED
  BY <1>2, <1>4, <1>8, <1>9, DataStep

\* A step that leaves what the thread holds.
LEMMA MoveData ==
    ASSUME IInv, DInv, NEW r \in Requests, NEW step, step \notin {"copy", "ingest"},
           Goto(r, step), job' = job, now' = now, runs' = runs,
           events' \in {events, events + 1}, challenge'.status \in Statuses \ {"NEW"}
    PROVE  DInv'
<1>1. PICK t : t = job[r]
  OBVIOUS
<1>2. job' = [job EXCEPT ![r] = t] /\ pc' = [pc EXCEPT ![r] = step]
  BY <1>1 DEF IInv, Typed, Goto
<1>3. JobOK(t, step, Len(runs), events')
  BY <1>1, Held, JobLater
<1>4. RunsOK(runs', events') /\ Len(runs') = Len(runs)
  BY Held
<1> QED
  BY <1>2, <1>3, <1>4, DataStep

\* A step that only changes the verdict, and the status of the challenge with it.
LEMMA VerdictData ==
    ASSUME IInv, DInv, NEW r \in Requests, NEW step, step \notin {"copy", "ingest"},
           NEW verdict \in Verdicts, Goto(r, step), job' = [job EXCEPT ![r].verdict = verdict],
           now' = now, runs' = runs, events' = events,
           challenge'.status \in Statuses \ {"NEW"}
    PROVE  DInv'
<1>1. PICK j, t : j = job[r] /\ t = [j EXCEPT !.verdict = verdict]
  OBVIOUS
<1>2. job' = [job EXCEPT ![r] = t] /\ pc' = [pc EXCEPT ![r] = step]
  BY <1>1 DEF Goto
<1>3. JobOK(t, step, Len(runs), events)
  BY <1>1, Held, JobVerdict
<1>4. RunsOK(runs', events') /\ Len(runs') = Len(runs) /\ events' \in {events, events + 1}
  BY Held
<1>5. JobOK(t, step, Len(runs), events')
  BY <1>3
<1> QED
  BY <1>2, <1>4, <1>5, DataStep

-----------------------------------------------------------------------------
LEMMA VerifyData ==
    ASSUME IInv, DInv, NEW r \in Requests,
           \/ Submit(r) \/ Refuse(r) \/ Check(r) \/ Mark(r) \/ Reject(r) \/ Consumed(r)
           \/ Decide(r) \/ DecideFails(r)
    PROVE  DInv'
<1>1. CASE Submit(r) \/ Refuse(r)
  <2>1. PICK step \in {"check", "reject"} :
           /\ Goto(r, step) /\ pc[r] # "idle" /\ job' = job /\ now' = now /\ runs' = runs
           /\ events' \in {events, events + 1} /\ challenge' = challenge
    BY <1>1 DEF Submit, Refuse
  <2>2. challenge'.status \in Statuses \ {"NEW"}
    BY <2>1, Held
  <2> QED
    BY <2>1, <2>2, MoveData
<1>2. CASE Check(r)
  <2>1. PICK step \in {"mark", "reject"} :
           /\ Goto(r, step) /\ pc[r] = "check" /\ job' = job /\ now' = now /\ runs' = runs
           /\ events' \in {events, events + 1}
           /\ challenge' = IF Lapsed THEN [challenge EXCEPT !.status = "EXPIRED"]
                                     ELSE challenge
    BY <1>2 DEF Check
  <2>2. challenge'.status \in Statuses \ {"NEW"}
    <3>1. challenge.status \in Statuses \ {"NEW"}
          /\ challenge = [status |-> challenge.status, expires |-> challenge.expires]
      BY <2>1, Held DEF IInv, Typed
    <3>2. CASE Lapsed
      <4>1. challenge' = [status |-> "EXPIRED", expires |-> challenge.expires]
        BY <2>1, <3>1, <3>2
      <4> QED
        BY <4>1 DEF Statuses
    <3> QED
      BY <2>1, <3>1, <3>2
  <2> QED
    BY <2>1, <2>2, MoveData
<1>3. CASE DecideFails(r)
  <2>1. /\ Finish(r) /\ pc[r] # "idle" /\ now' = now /\ runs' = runs
        /\ events' = events /\ challenge' = challenge
    BY <1>3 DEF DecideFails
  <2> QED
    BY <2>1, Held, FinishData
<1>4. CASE Mark(r)
  <2>1. PICK verdict \in {"accepted", "failed"}, step \in {"consumed", "reject"},
             status \in {"CONSUMED", "FAILED"} :
            /\ pc[r] = "mark" /\ Goto(r, step) /\ now' = now /\ runs' = runs
            /\ events' = events /\ job' = [job EXCEPT ![r].verdict = verdict]
            /\ challenge' = [challenge EXCEPT !.status = status]
    BY <1>4 DEF Mark
  <2>2. challenge'.status \in Statuses \ {"NEW"}
    <3>1. challenge = [status |-> challenge.status, expires |-> challenge.expires]
      BY DEF IInv, Typed
    <3>2. challenge' = [status |-> status, expires |-> challenge.expires]
      BY <2>1, <3>1
    <3> QED
      BY <3>2 DEF Statuses
  <2>3. verdict \in Verdicts
    BY DEF Verdicts
  <2> QED
    BY <2>1, <2>2, <2>3, VerdictData
<1>5. CASE Reject(r)
  <2>1. /\ AppendEvent(r, job[r]) /\ Goto(r, "ingest") /\ pc[r] # "idle"
        /\ now' = now /\ runs' = runs /\ challenge' = challenge
    BY <1>5 DEF Reject
  <2> QED
    BY <2>1, Held, AppendData
<1>6. CASE Consumed(r)
  <2>1. /\ AppendEvent(r, job[r]) /\ Goto(r, "copy") /\ pc[r] # "idle"
        /\ now' = now /\ runs' = runs /\ challenge' = challenge
    BY <1>6 DEF Consumed
  <2> QED
    BY <2>1, Held, AppendData
<1>7. CASE Decide(r)
  <2>1. PICK verdict, j :
           /\ verdict \in {"allowed", "denied"}
           /\ j = [job[r] EXCEPT !.verdict = verdict] /\ AppendEvent(r, j)
           /\ Goto(r, "ingest") /\ pc[r] = "decide"
           /\ now' = now /\ runs' = runs /\ challenge' = challenge
    BY <1>7 DEF Decide
  <2>2. verdict \in Verdicts
    BY <2>1 DEF Verdicts
  <2>3. JobOK(j, "decide", Len(runs), events)
    BY <2>1, <2>2, Held, JobVerdict
  <2> QED
    BY <2>1, <2>3, AppendData
<1> QED
  BY <1>1, <1>2, <1>3, <1>4, <1>5, <1>6, <1>7

LEMMA ArriveData ==
    ASSUME IInv, DInv, NEW r \in Requests, NEW kind \in Kinds, Arrive(r, kind) PROVE DInv'
<1> DEFINE run == IF Open(Current) THEN Current ELSE 0
           token == kind = "page" /\ HasToken
           late == kind = "verify" /\ Settled
           step == Entry(kind)
<1>1. PICK j : j = job[r]
  OBVIOUS
<1>2. PICK t : t = [j EXCEPT !.kind = kind, !.run = run, !.token = token, !.late = late]
  OBVIOUS
<1>3. /\ pc' = [pc EXCEPT ![r] = step] /\ job' = [job EXCEPT ![r] = t]
      /\ challenge' = challenge /\ challenge.status # "NEW" /\ Count
      /\ now' = now /\ events' = events
  BY <1>1, <1>2 DEF Arrive
<1>4. step \notin {"copy", "ingest"}
  BY DEF Entry, Kinds
<1>5. token \in BOOLEAN /\ late \in BOOLEAN
  BY DEF HasToken, Settled
<1>6. run \in 0..Len(runs) /\ run \in Nat
  BY RunsLen DEF DInv, Open, Usable, Current
<1>7. JobOK(j, pc[r], Len(runs), events)
  BY <1>1, Held
<1> HIDE DEF run, token, late, step
<1>8. /\ t \in JobStates /\ t.run = run /\ t.snapshot = j.snapshot /\ t.at = j.at
      /\ t.wrote = j.wrote
  BY <1>2, <1>5, <1>6, <1>7 DEF JobOK, JobStates
<1>9. JobOK(t, step, Len(runs), events')
  BY <1>3, <1>4, <1>6, <1>7, <1>8 DEF JobOK
<1>10. RunsOK(runs', events') /\ Len(runs') = Len(runs)
  BY <1>3, RunsCount DEF DInv
<1>11. challenge'.status \in Statuses \ {"NEW"} /\ events' \in {events, events + 1}
  BY <1>3 DEF DInv
<1> QED
  BY <1>3, <1>9, <1>10, <1>11, DataStep

\* What was to be copied is.
LEMMA IngestData ==
    ASSUME IInv, DInv, NEW r \in Requests, pc[r] \in {"copy", "ingest"},
           Ingest(job[r].run, job[r].snapshot)
    PROVE  /\ RunsOK(runs', events) /\ Len(runs') = Len(runs)
           /\ \A m \in 0..events :
                 (events <= Window /\ job[r].snapshot = 1..m /\ Open(job[r].run)
                    /\ ~runs'[job[r].run].truncated)
                   => job[r].run \in 1..Len(runs') /\ m <= runs'[job[r].run].seen
<1>1. PICK count, S, k : count = events /\ S = job[r].snapshot /\ k = job[r].run
  OBVIOUS
<1>2. /\ count \in Nat /\ S \in SUBSET (1..count) /\ (count <= Window => Whole(S, count))
      /\ RunsOK(runs, count) /\ Ingest(k, S)
  BY <1>1, Held DEF JobOK, Whole
<1>3. /\ RunsOK(runs', count) /\ Len(runs') = Len(runs)
      /\ \A m \in 0..count :
            (count <= Window /\ S = 1..m /\ Open(k) /\ ~runs'[k].truncated)
              => k \in 1..Len(runs') /\ m <= runs'[k].seen
  BY <1>2, RunsIngest
<1> QED
  BY <1>1, <1>3

LEMMA CopyData ==
    ASSUME IInv, DInv, NEW r \in Requests, Copy(r) PROVE DInv'
<1>1. PICK j, t : j = job[r] /\ t = [j EXCEPT !.snapshot = {}, !.wrote = 0]
  OBVIOUS
<1>2. /\ pc' = [pc EXCEPT ![r] = "decide"] /\ job' = [job EXCEPT ![r] = t]
      /\ pc[r] = "copy" /\ Ingest(job[r].run, job[r].snapshot)
      /\ now' = now /\ events' = events /\ challenge' = challenge
  BY <1>1 DEF Copy, Goto
<1>3. /\ t \in JobStates /\ t.run = j.run /\ t.snapshot = {} /\ t.at = j.at /\ t.wrote = 0
  BY <1>1, Held DEF JobOK, JobStates
<1>4. JobOK(t, "decide", Len(runs), events')
  BY <1>1, <1>2, <1>3, Held DEF JobOK
<1>5. RunsOK(runs', events') /\ Len(runs') = Len(runs)
  BY <1>2, IngestData
<1>6. challenge'.status \in Statuses \ {"NEW"} /\ events' \in {events, events + 1}
  BY <1>2, Held
<1> QED
  BY <1>2, <1>4, <1>5, <1>6, DataStep

LEMMA RecordData ==
    ASSUME IInv, DInv, NEW r \in Requests, Record(r) PROVE DInv'
<1>1. /\ Finish(r) /\ pc[r] = "ingest" /\ Ingest(job[r].run, job[r].snapshot)
      /\ now' = now /\ events' = events /\ challenge' = challenge
  BY DEF Record
<1>2. RunsOK(runs', events') /\ Len(runs') = Len(runs)
  BY <1>1, IngestData
<1> QED
  BY <1>1, <1>2, FinishData

\* While no event has left the window, a walk over the list meets all there are.
LEMMA WalkData ==
    ASSUME IInv, DInv, NEW r \in Requests, Walk(r) PROVE DInv'
<1> DEFINE met == {o \in 1..events : o > job[r].at - Window}
           lost == {o \in met : o <= events - Window}
<1>1. PICK skipped, j, t, S :
         /\ skipped \in kSubset(Cardinality(lost), met)
         /\ j = job[r] /\ S = met \ skipped
         /\ t = [j EXCEPT !.snapshot = S, !.at = 0]
         /\ job' = [job EXCEPT ![r] = t] /\ pc' = [pc EXCEPT ![r] = "ingest"]
         /\ pc[r] = "walk" /\ now' = now /\ runs' = runs
         /\ events' = events /\ challenge' = challenge
  BY DEF Walk, Goto
<1>2. S \in SUBSET (1..events) /\ S \in SUBSET Nat
  BY <1>1, Held
<1>3. ASSUME events <= Window PROVE S = 1..events
  <2>1. events \in Nat /\ job[r].at \in 0..events
    BY Held DEF JobOK
  <2>2. met = 1..events /\ lost = {}
    BY <1>3, <2>1, LocalAssumption
  <2>3. skipped \in SUBSET (1..events) /\ Cardinality(skipped) = 0
    BY <1>1, <2>2, FS_EmptySet DEF kSubset
  <2>4. IsFiniteSet(1..events)
    BY <2>1, FS_Interval
  <2>5. IsFiniteSet(skipped)
    BY <2>3, <2>4, FS_Subset
  <2>6. skipped = {}
    BY <2>3, <2>5, FS_EmptySet
  <2> QED
    BY <1>1, <2>2, <2>6
<1> HIDE DEF met, lost
<1>4. JobOK(j, "walk", Len(runs), events)
  BY <1>1, Held
<1>5. /\ t \in JobStates /\ t.run = j.run /\ t.snapshot = S /\ t.at = 0
      /\ t.wrote = j.wrote
  <2>1. t = [j EXCEPT !.snapshot = S, !.at = 0] /\ j \in JobStates /\ S \in SUBSET Nat
    BY <1>1, <1>2, <1>4 DEF JobOK
  <2> QED
    BY ONLY <2>1 DEF JobStates
<1>6. JobOK(t, "ingest", Len(runs), events')
  BY <1>1, <1>2, <1>3, <1>4, <1>5, Held DEF JobOK
<1>7. /\ RunsOK(runs', events') /\ Len(runs') = Len(runs)
      /\ challenge'.status \in Statuses \ {"NEW"} /\ events' \in {events, events + 1}
  BY <1>1, Held
<1> QED
  BY <1>1, <1>6, <1>7, DataStep

LEMMA VisitData ==
    ASSUME IInv, DInv, NEW r \in Requests,
           Trap(r) \/ Visit(r) \/ VisitUnknown(r) \/ Read(r)
    PROVE  DInv'
<1>1. CASE Trap(r) /\ AppendEvent(r, job[r]) /\ Goto(r, "ingest")
  <2>1. /\ AppendEvent(r, job[r]) /\ Goto(r, "ingest") /\ pc[r] # "idle"
        /\ now' = now /\ runs' = runs /\ challenge' = challenge
    BY <1>1 DEF Trap
  <2> QED
    BY <2>1, Held, AppendData
<1>2. CASE Finish(r) /\ ((Trap(r) /\ events' = events) \/ VisitUnknown(r))
  <2>1. /\ Finish(r) /\ pc[r] # "idle" /\ events' \in {events, events + 1}
        /\ now' = now /\ runs' = runs /\ challenge' = challenge
    BY <1>2 DEF Trap, VisitUnknown
  <2>2. RunsOK(runs', events') /\ Len(runs') = Len(runs)
    BY <2>1, Held
  <2> QED
    BY <2>1, <2>2, FinishData
<1>3. CASE Visit(r)
  <2>1. PICK j, t, n :
           /\ j = job[r] /\ n = events + 1 /\ t = [j EXCEPT !.wrote = n]
           /\ job' = [job EXCEPT ![r] = t] /\ pc' = [pc EXCEPT ![r] = "read"]
           /\ pc[r] = "visit" /\ now' = now /\ runs' = runs
           /\ events' = events + 1 /\ challenge' = challenge
    BY <1>3 DEF Visit, Goto
  <2>2. JobOK(j, "visit", Len(runs), events) /\ n \in Nat
    BY <2>1, Held
  <2>3. /\ t \in JobStates /\ t.run = j.run /\ t.snapshot = j.snapshot /\ t.at = j.at
        /\ t.wrote = n
    BY <2>1, <2>2 DEF JobOK, JobStates
  <2>4. JobOK(t, "read", Len(runs), events')
    BY <2>1, <2>2, <2>3, Held DEF JobOK
  <2>5. /\ RunsOK(runs', events') /\ Len(runs') = Len(runs)
        /\ challenge'.status \in Statuses \ {"NEW"} /\ events' \in {events, events + 1}
    BY <2>1, Held
  <2> QED
    BY <2>1, <2>4, <2>5, DataStep
<1>4. CASE Read(r)
  <2>1. PICK j, t :
           /\ j = job[r] /\ t = [j EXCEPT !.at = events]
           /\ job' = [job EXCEPT ![r] = t] /\ pc' = [pc EXCEPT ![r] = "walk"]
           /\ pc[r] = "read" /\ now' = now /\ runs' = runs
           /\ events' = events /\ challenge' = challenge
    BY <1>4 DEF Read, Goto
  <2>2. JobOK(j, "read", Len(runs), events) /\ events \in Nat
    BY <2>1, Held
  <2>3. /\ t \in JobStates /\ t.run = j.run /\ t.snapshot = j.snapshot /\ t.at = events
        /\ t.wrote = j.wrote
    BY <2>1, <2>2 DEF JobOK, JobStates
  <2>4. JobOK(t, "walk", Len(runs), events')
    BY <2>1, <2>2, <2>3, Held DEF JobOK
  <2>5. /\ RunsOK(runs', events') /\ Len(runs') = Len(runs)
        /\ challenge'.status \in Statuses \ {"NEW"} /\ events' \in {events, events + 1}
    BY <2>1, Held
  <2> QED
    BY <2>1, <2>4, <2>5, DataStep
<1>5. Trap(r) => (AppendEvent(r, job[r]) /\ Goto(r, "ingest")) \/ (Finish(r) /\ events' = events)
  BY DEF Trap
<1>6. VisitUnknown(r) => Finish(r)
  BY DEF VisitUnknown
<1> QED
  BY <1>1, <1>2, <1>3, <1>4, <1>5, <1>6

LEMMA IssueData ==
    ASSUME IInv, DInv, Issue PROVE DInv'
<1>1. /\ challenge.status = "NEW" /\ challenge'.status = "ISSUED" /\ events' = Opening
      /\ Ingest(Current, WindowOf(Opening)) /\ now' = now /\ pc' = pc /\ job' = job
      /\ events = 0
  BY DEF Issue, DInv
<1>2. PICK S, k : S = WindowOf(Opening) /\ k = Current
  OBVIOUS
<1>3. /\ S \in SUBSET (1..Opening) /\ Opening \in Nat
      /\ Opening <= Window => Whole(S, Opening)
  <2>1. Opening <= Window => S = 1..Opening
    BY <1>2, LocalAssumption DEF WindowOf
  <2> QED
    BY <1>2, <2>1, LocalAssumption DEF WindowOf, Whole
<1>4. RunsOK(runs, Opening)
  <2>1. RunsOK(runs, 0) /\ 0 <= Opening
    BY <1>1, <1>3 DEF DInv
  <2> QED
    BY <1>3, <2>1, RunsLater
<1>5. RunsOK(runs', Opening) /\ Len(runs') = Len(runs)
  BY <1>1, <1>2, <1>3, <1>4, RunsIngest
<1>6. ASSUME NEW q \in Requests PROVE JobOK(job[q], pc[q], Len(runs), Opening)
  <2>1. /\ JobOK(job[q], pc[q], Len(runs), 0) /\ 0 <= Opening /\ Len(runs) \in Nat
    BY <1>1, <1>3, RunsLen DEF DInv
  <2> QED
    BY <1>3, <2>1, JobLater
<1> QED
  BY <1>1, <1>3, <1>5, <1>6 DEF DInv, Statuses

LEMMA OperatorData ==
    ASSUME IInv, DInv, Operator PROVE DInv'
<1>1. /\ StartRun \/ FinishRun
      /\ challenge' = challenge /\ events' = events /\ pc' = pc /\ job' = job /\ now' = now
  BY DEF Operator, local, StartRun, FinishRun
<1>2. RunsOK(runs', events) /\ Len(runs') \in {Len(runs), Len(runs) + 1} /\ Len(runs) \in Nat
  BY <1>1, RunsOperator, RunsLen DEF DInv
<1>3. ASSUME NEW q \in Requests PROVE JobOK(job[q], pc[q], Len(runs'), events)
  <2>1. JobOK(job[q], pc[q], Len(runs), events) /\ Len(runs') \in Nat /\ Len(runs) <= Len(runs')
    BY <1>2 DEF DInv
  <2> QED
    BY <1>2, <2>1, JobLater DEF DInv
<1> QED
  BY <1>1, <1>2, <1>3 DEF DInv

-----------------------------------------------------------------------------
LEMMA InitData == Init => DInv
<1> SUFFICES ASSUME Init PROVE DInv
  OBVIOUS
<1>1. RunsOK(runs, 0)
  <2>1. runs = << >> /\ Len(runs) = 0 /\ runs \in Seq(RunStates) /\ 1..0 = {}
    BY EmptySeq DEF Init
  <2> QED
    BY <2>1, MeasurementAssumption DEF RunsOK
<1>2. JobOK(NoJob, "idle", 0, 0)
  BY DEF JobOK, JobStates, NoJob, Kinds, Verdicts
<1>3. ASSUME NEW r \in Requests PROVE JobOK(job[r], pc[r], Len(runs), 0)
  BY <1>2, EmptySeq DEF Init
<1> QED
  BY <1>1, <1>3, MeasurementAssumption DEF Init, DInv, Statuses

LEMMA NextData == ASSUME IInv, DInv, [Next]_vars PROVE DInv'
<1>1. ASSUME NEW r \in Requests, NEW kind \in Kinds, Arrive(r, kind) PROVE DInv'
  BY <1>1, ArriveData
<1>2. ASSUME NEW r \in Requests,
             \/ Submit(r) \/ Refuse(r) \/ Check(r) \/ Mark(r) \/ Reject(r) \/ Consumed(r)
             \/ Decide(r) \/ DecideFails(r)
      PROVE  DInv'
  BY <1>2, VerifyData
<1>3. ASSUME NEW r \in Requests, Trap(r) \/ Visit(r) \/ VisitUnknown(r) \/ Read(r)
      PROVE  DInv'
  BY <1>3, VisitData
<1>4. ASSUME NEW r \in Requests, Copy(r) \/ Walk(r) \/ Record(r) PROVE DInv'
  BY <1>4, CopyData, WalkData, RecordData
<1>5. CASE Issue
  BY <1>5, IssueData
<1>6. CASE Operator
  BY <1>6, OperatorData
<1>7. CASE Tick
  <2>1. now' \in 0..MaxTime
    BY <1>7, MeasurementAssumption DEF Tick, DInv
  <2> QED
    BY <1>7, <2>1 DEF Tick, DInv, local
<1>8. CASE UNCHANGED vars
  BY <1>8 DEF vars, DInv
<1> QED
  BY <1>1, <1>2, <1>3, <1>4, <1>5, <1>6, <1>7, <1>8 DEF Next

\* What every reachable state satisfies, beyond the types: the runs are in order and
\* complete up to the last event they looked at, and what is about to be copied has
\* no gap before the window is full.
THEOREM Inductive == Spec => [](IInv /\ DInv)
<1>1. Init => IInv /\ DInv
  BY InitInv, InitData
<1>2. (IInv /\ DInv) /\ [Next]_vars => (IInv /\ DInv)'
  BY NextInv, NextData
<1> QED
  BY <1>1, <1>2, PTL DEF Spec

\* Type correctness: no run keeps more than it has room for, and a thread's snapshot
\* and last event are among the events there are.
THEOREM TypeCorrect == Spec => []TypeOK
<1>1. IInv /\ DInv => TypeOK
  <2> SUFFICES ASSUME IInv, DInv PROVE TypeOK
    OBVIOUS
  <2>1. ASSUME NEW k \in DOMAIN runs
        PROVE  runs[k] \in RunStates /\ Len(runs[k].copied) <= Room
    BY RunsLen DEF DInv, RunsOK, RunOK
  <2>2. ASSUME NEW r \in Requests
        PROVE  /\ job[r].kind \in Kinds /\ job[r].verdict \in Verdicts
               /\ job[r].run \in 0..Len(runs)
               /\ job[r].snapshot \subseteq 1..events /\ job[r].wrote \in 0..events
    BY Held DEF JobOK, JobStates
  <2> QED
    BY <2>1, <2>2 DEF TypeOK, IInv, Typed, DInv, Statuses, RunsOK
<1> QED
  BY <1>1, Inductive, PTL

\* A run copies each event of the session once and in order, however the snapshots
\* of its requests overlap, lag or leave gaps.
THEOREM CopiedInOrder == Spec => []CopiedOnceInOrder
<1>1. DInv => CopiedOnceInOrder
  <2> SUFFICES ASSUME DInv, NEW k \in DOMAIN runs,
                      NEW i \in DOMAIN runs[k].copied, NEW j \in DOMAIN runs[k].copied, i < j
               PROVE  runs[k].copied[i] < runs[k].copied[j]
    BY DEF CopiedOnceInOrder
  <2>1. k \in 1..Len(runs)
    BY RunsLen DEF DInv
  <2>2. runs[k] \in RunStates /\ Ascending(runs[k])
    BY <2>1 DEF DInv, RunsOK, RunOK
  <2>3. DOMAIN runs[k].copied = 1..Len(runs[k].copied)
    BY <2>2, LenProperties DEF RunStates
  <2> QED
    BY <2>2, <2>3 DEF Ascending
<1> QED
  BY <1>1, Inductive, PTL

\* Only record_event answers a request that is about to copy.
LEMMA AnswersByRecord ==
    ASSUME IInv, [Next]_vars, NEW r \in Requests, pc[r] = "ingest", pc'[r] = "answered"
    PROVE  Record(r)
<1>1. ASSUME NEW q \in Requests, NEW step, pc' = [pc EXCEPT ![q] = step]
      PROVE  q = r
  BY <1>1 DEF IInv, Typed
<1>2. ASSUME NEW q \in Requests, NEW kind \in Kinds, Arrive(q, kind) PROVE FALSE
  BY <1>1, <1>2 DEF Arrive
<1>3. ASSUME NEW q \in Requests,
             \/ Submit(q) \/ Refuse(q) \/ Check(q) \/ Mark(q) \/ Reject(q) \/ Consumed(q)
             \/ Copy(q) \/ Decide(q) \/ DecideFails(q)
             \/ Trap(q) \/ Visit(q) \/ VisitUnknown(q) \/ Read(q) \/ Walk(q)
      PROVE  FALSE
  <2>1. pc[q] # "ingest" /\ \E step : pc' = [pc EXCEPT ![q] = step]
    BY <1>3 DEF Submit, Refuse, Check, Mark, Reject, Consumed, Copy, Trap, Visit, VisitUnknown,
                Read, Walk, Decide, DecideFails, Goto, Finish
  <2> QED
    BY <1>1, <2>1
<1>4. ASSUME NEW q \in Requests, Record(q) PROVE Record(r)
  BY <1>1, <1>4 DEF Record, Finish
<1>5. ~(Issue \/ Operator \/ Tick \/ UNCHANGED vars)
  BY DEF Issue, Operator, Tick, local, vars
<1> QED
  BY <1>2, <1>3, <1>4, <1>5 DEF Next

\* Nothing is missing from an open run when a request is answered: its own events
\* are copied and all before them, unless the run is full or the window was.
THEOREM NothingMissing == Spec => NothingIsMissing
<1> DEFINE NoneMissing(r) ==
      (/\ pc[r] = "ingest" /\ pc'[r] = "answered"
       /\ Open(job[r].run) /\ ~runs'[job[r].run].truncated /\ events <= Window)
      => /\ job[r].wrote <= runs'[job[r].run].seen
         /\ ToSet(runs'[job[r].run].copied) = 1..runs'[job[r].run].seen
<1>1. ASSUME IInv, DInv, [Next]_vars, NEW r \in Requests PROVE NoneMissing(r)
  <2> SUFFICES ASSUME pc[r] = "ingest", pc'[r] = "answered", Open(job[r].run),
                      ~runs'[job[r].run].truncated, events <= Window
               PROVE  /\ job[r].wrote <= runs'[job[r].run].seen
                      /\ ToSet(runs'[job[r].run].copied) = 1..runs'[job[r].run].seen
    OBVIOUS
  <2>1. Ingest(job[r].run, job[r].snapshot)
    BY <1>1, AnswersByRecord DEF Record
  <2>2. PICK m \in 0..events : job[r].snapshot = 1..m /\ job[r].wrote <= m
    BY <1>1, Held DEF JobOK
  <2>3. /\ RunsOK(runs', events) /\ job[r].run \in 1..Len(runs')
        /\ m <= runs'[job[r].run].seen
    BY <1>1, <2>1, <2>2, IngestData
  <2>4. /\ runs'[job[r].run].seen \in Nat
        /\ ToSet(runs'[job[r].run].copied) = 1..runs'[job[r].run].seen
    BY <2>3 DEF RunsOK, RunOK, RunStates
  <2>5. job[r].wrote \in Nat /\ events \in Nat
    BY <1>1, Held DEF JobOK
  <2> QED
    BY <2>2, <2>3, <2>4, <2>5
<1>2. IInv /\ DInv /\ [Next]_vars => [\A r \in Requests : NoneMissing(r)]_vars
  BY <1>1
<1> QED
  BY <1>2, Inductive, PTL DEF Spec, NothingIsMissing
=============================================================================
