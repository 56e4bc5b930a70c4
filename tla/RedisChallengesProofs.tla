----------------------- MODULE RedisChallengesProofs -----------------------
(***************************************************************************)
(* Proofs about RedisChallenges, for any number of challenges, sessions,   *)
(* requests, any lifetimes and any bound on clock skew.                    *)
(***************************************************************************)
EXTENDS RedisChallenges, TLAPS

LifetimeOf(rec) == IF rec.ttl = NoTtl THEN Lifetime ELSE rec.ttl

\* What a request that took a challenge knows of it.
TakenInv ==
    \A r \in Requests :
        request[r].taken =>
            /\ Target(r) \in Challenges
            /\ stored[Target(r)].state = "deleted"
            /\ request[r].session = record[Target(r)].session
            /\ stored[Target(r)].since <= request[r].takenAt
            /\ request[r].takenAt <= now

\* The program counter tells whether a request has taken its challenge.
ProgressInv ==
    \A r \in Requests :
        /\ request[r].pc \in {"idle", "sent"} => ~request[r].taken
        /\ request[r].pc \in {"judge", "accepted"} => request[r].taken
        /\ request[r].pc = "sent" =>
               Target(r) \in Challenges /\ request[r].session \in Sessions

\* A record's expiry is at most one clock error past its lifetime, and only
\* minted records are stored.
RecordInv ==
    \A c \in Challenges :
        /\ record[c].expires <= record[c].minted + MaxSkew + LifetimeOf(record[c])
        /\ record[c].minted <= now
        /\ stored[c].since <= now
        /\ stored[c].state # "unset" => Minted(c)

IInv == TypeOK /\ TakenInv /\ ProgressInv /\ RecordInv /\ SingleTaker
        /\ OnlyTheOwnerSpends /\ AcceptanceIsEarned /\ AcceptanceAge

\* Initially no challenge exists and no request was made.
LEMMA InitIInv == Init => IInv
  <1> SUFFICES ASSUME Init PROVE IInv
    OBVIOUS
  <1> USE LifetimeAssumption, TtlAssumption, SessionAssumption DEF Init
  <1>1. TypeOK
    BY DEF TypeOK, Unminted, NoKey, Idle, Records, Keys, RequestStates, PCs
  <1>2. TakenInv /\ ProgressInv /\ SingleTaker
    BY DEF TakenInv, ProgressInv, SingleTaker, Idle
  <1>3. RecordInv
    <2> SUFFICES ASSUME NEW c \in Challenges
                 PROVE  /\ record[c].expires <= record[c].minted + MaxSkew + LifetimeOf(record[c])
                        /\ record[c].minted <= now
                        /\ stored[c].since <= now
                        /\ stored[c].state # "unset" => Minted(c)
      BY DEF RecordInv
    <2>1. record[c] = Unminted /\ stored[c] = NoKey
      OBVIOUS
    <2>2. /\ Unminted.expires = 0 /\ Unminted.minted = 0
          /\ NoKey.since = 0 /\ NoKey.state = "unset"
      BY DEF Unminted, NoKey
    <2>3. LifetimeOf(Unminted) = Lifetime
      BY DEF LifetimeOf, Unminted
    <2>4. 0 <= 0 + MaxSkew + Lifetime
      OBVIOUS
    <2> QED
      BY <2>1, <2>2, <2>3, <2>4
  <1>4. OnlyTheOwnerSpends
    BY DEF OnlyTheOwnerSpends, NoKey
  <1>5. AcceptanceIsEarned /\ AcceptanceAge
    BY DEF AcceptanceIsEarned, AcceptanceAge, Accepted, Idle
  <1> QED
    BY <1>1, <1>2, <1>3, <1>4, <1>5 DEF IInv

\* A step of Mint preserves the invariant: the new record is not stored yet.
LEMMA MintIInv == ASSUME IInv, NEW c \in Challenges, Mint(c) PROVE IInv'
  <1> USE LifetimeAssumption, TtlAssumption, SessionAssumption
  <1> PICK s \in Sessions, ttl \in TtlArgs, t \in Readings :
         record' = [record EXCEPT ![c] =
             [session |-> s, minted |-> now, ttl |-> ttl,
              expires |-> t + (IF ttl = NoTtl THEN Lifetime ELSE ttl)]]
    BY DEF Mint
  <1>0. /\ UNCHANGED <<now, stored, request>>
        /\ ~Minted(c)
        /\ t \in Int /\ t <= now + MaxSkew /\ now \in Nat
        /\ ttl \in Nat \/ ttl = NoTtl
    BY DEF Mint, IInv, TypeOK, Readings
  <1>1. TypeOK'
    BY <1>0 DEF IInv, TypeOK, Records
  <1>2. \A d \in Challenges : d # c => record'[d] = record[d]
    BY DEF IInv, TypeOK
  <1>3. \A r \in Requests : request[r].taken => Target(r) # c
    BY <1>0 DEF IInv, TakenInv, RecordInv
  <1>4. TakenInv' /\ ProgressInv' /\ SingleTaker'
    BY <1>0, <1>2, <1>3 DEF IInv, TakenInv, ProgressInv, SingleTaker, Target
  <1>5. RecordInv'
    BY <1>0, <1>2 DEF IInv, TypeOK, Records, RecordInv, LifetimeOf, Minted
  <1>6. OnlyTheOwnerSpends'
    BY <1>0, <1>2, <1>3 DEF IInv, OnlyTheOwnerSpends, RecordInv, Target
  <1>7. AcceptanceIsEarned' /\ AcceptanceAge'
    BY <1>0, <1>2, <1>3
       DEF IInv, TakenInv, ProgressInv, AcceptanceIsEarned, AcceptanceAge, Accepted, Target
  <1> QED
    BY <1>1, <1>4, <1>5, <1>6, <1>7 DEF IInv

\* A step of Store preserves the invariant: nobody has taken an unstored key.
LEMMA StoreIInv == ASSUME IInv, NEW c \in Challenges, Store(c) PROVE IInv'
  <1> USE LifetimeAssumption, TtlAssumption
  <1>0. /\ UNCHANGED <<now, record, request>>
        /\ Minted(c) /\ stored[c].state = "unset" /\ now \in Nat
        /\ stored' = [stored EXCEPT ![c] = [state |-> "set", since |-> now,
                                            expires |-> KeyExpiry(record[c].ttl)]]
        /\ record[c].ttl \in Nat \cup {NoTtl}
    BY DEF Store, IInv, TypeOK, Records
  <1>1. TypeOK'
    BY <1>0 DEF IInv, TypeOK, Keys, KeyExpiry
  <1>2. \A d \in Challenges : d # c => stored'[d] = stored[d]
    BY <1>0 DEF IInv, TypeOK
  <1>3. stored'[c].state = "set" /\ stored'[c].since = now
    BY <1>0 DEF IInv, TypeOK
  <1>4. \A r \in Requests : request[r].taken => Target(r) # c
    BY <1>0 DEF IInv, TakenInv
  <1>5. TakenInv' /\ ProgressInv' /\ SingleTaker'
    BY <1>0, <1>2, <1>4 DEF IInv, TakenInv, ProgressInv, SingleTaker, Target
  <1>6. RecordInv'
    BY <1>0, <1>2, <1>3 DEF IInv, TypeOK, RecordInv, LifetimeOf, Minted
  <1>7. OnlyTheOwnerSpends'
    BY <1>0, <1>2, <1>3 DEF IInv, OnlyTheOwnerSpends, Target
  <1>8. AcceptanceIsEarned' /\ AcceptanceAge'
    BY <1>0, <1>2, <1>4
       DEF IInv, TakenInv, ProgressInv, AcceptanceIsEarned, AcceptanceAge, Accepted, Target
  <1> QED
    BY <1>1, <1>5, <1>6, <1>7, <1>8 DEF IInv

\* A step of Submit preserves the invariant: the request has taken nothing.
LEMMA SubmitIInv == ASSUME IInv, NEW r \in Requests, Submit(r) PROVE IInv'
  <1> PICK c \in Challenges, s \in Sessions \cup {NoSession}, nonce \in BOOLEAN :
         request' = [request EXCEPT ![r] =
             [pc |-> IF s = NoSession THEN "refused" ELSE "sent",
              challenge |-> c, session |-> s, nonce |-> nonce,
              taken |-> FALSE, takenAt |-> 0, judgedAt |-> 0]]
    BY DEF Submit
  <1>0. UNCHANGED <<now, record, stored>> /\ request[r].pc = "idle"
    BY DEF Submit
  <1>1. \A q \in Requests : q # r => request'[q] = request[q]
    BY DEF IInv, TypeOK
  <1>2. /\ request'[r].taken = FALSE
        /\ request'[r].pc \in {"sent", "refused"}
        /\ request'[r].challenge = c
        /\ request'[r].pc = "sent" => request'[r].session \in Sessions
    BY DEF IInv, TypeOK
  <1>3. TypeOK'
    BY <1>0 DEF IInv, TypeOK, RequestStates, PCs
  <1>4. TakenInv' /\ ProgressInv' /\ SingleTaker'
    BY <1>0, <1>1, <1>2 DEF IInv, TakenInv, ProgressInv, SingleTaker, Target
  <1>5. RecordInv'
    BY <1>0 DEF IInv, RecordInv, LifetimeOf, Minted
  <1>6. ~request[r].taken
    BY <1>0 DEF IInv, ProgressInv
  <1>7. OnlyTheOwnerSpends'
    BY <1>0, <1>1, <1>6 DEF IInv, OnlyTheOwnerSpends, Target
  <1>8. AcceptanceIsEarned' /\ AcceptanceAge'
    BY <1>0, <1>1, <1>2 DEF IInv, AcceptanceIsEarned, AcceptanceAge, Accepted, Target
  <1> QED
    BY <1>3, <1>4, <1>5, <1>7, <1>8 DEF IInv

\* Ending a request without a verdict preserves the invariant.
LEMMA EndIInv ==
    ASSUME IInv, NEW r \in Requests, UNCHANGED <<now, record, stored>>,
           request[r].pc \in {"sent", "judge"},
           request' = [request EXCEPT ![r].pc = "refused"]
    PROVE  IInv'
  <1>1. TypeOK'
    <2>1. request[r] \in RequestStates
      BY DEF IInv, TypeOK
    <2>2. [request[r] EXCEPT !.pc = "refused"] \in RequestStates
      BY <2>1 DEF RequestStates, PCs
    <2>3. request' \in [Requests -> RequestStates]
      BY <2>2 DEF IInv, TypeOK
    <2> QED
      BY <2>3 DEF IInv, TypeOK
  <1>2. \A q \in Requests :
          /\ request'[q].challenge = request[q].challenge
          /\ request'[q].session = request[q].session
          /\ request'[q].nonce = request[q].nonce
          /\ request'[q].taken = request[q].taken
          /\ request'[q].takenAt = request[q].takenAt
          /\ request'[q].judgedAt = request[q].judgedAt
          /\ request'[q].pc = IF q = r THEN "refused" ELSE request[q].pc
    BY DEF IInv, TypeOK, RequestStates
  <1>3. TakenInv' /\ ProgressInv' /\ SingleTaker'
    BY <1>2 DEF IInv, TakenInv, ProgressInv, SingleTaker, Target
  <1>4. RecordInv'
    BY DEF IInv, RecordInv, LifetimeOf, Minted
  <1>5. OnlyTheOwnerSpends'
    BY <1>2 DEF IInv, OnlyTheOwnerSpends, Target
  <1>6. AcceptanceIsEarned' /\ AcceptanceAge'
    BY <1>2 DEF IInv, AcceptanceIsEarned, AcceptanceAge, Accepted, Target
  <1> QED
    BY <1>1, <1>3, <1>4, <1>5, <1>6 DEF IInv

\* A step of Consume preserves the invariant.  The key of the challenge is set
\* before the call and deleted after it, so no other request holds its record.
LEMMA ConsumeIInv == ASSUME IInv, NEW r \in Requests, Consume(r) PROVE IInv'
  <1> DEFINE c == request[r].challenge
  <1>0. UNCHANGED <<now, record>> /\ request[r].pc = "sent" /\ c \in Challenges
        /\ ~request[r].taken /\ now \in Nat
    BY DEF Consume, IInv, ProgressInv, Target, TypeOK
  <1>1. CASE Consumable(c, request[r].session)
    <2>1. /\ stored' = [stored EXCEPT ![c].state = "deleted"]
          /\ request' = [request EXCEPT ![r].pc = "judge", ![r].taken = TRUE,
                                         ![r].takenAt = now]
          /\ stored[c].state = "set" /\ record[c].session = request[r].session
      BY <1>1 DEF Consume, Consumed, Consumable, Live
    <2>2. TypeOK'
      BY <1>0, <2>1 DEF IInv, TypeOK, Keys, RequestStates, PCs
    <2>3. \A q \in Requests : q # r => request'[q] = request[q]
      BY <2>1 DEF IInv, TypeOK
    <2>4. /\ request'[r].pc = "judge" /\ request'[r].taken
          /\ request'[r].takenAt = now
          /\ request'[r].challenge = c
          /\ request'[r].session = request[r].session
      BY <2>1 DEF IInv, TypeOK, RequestStates
    <2>5. \A d \in Challenges : d # c => stored'[d] = stored[d]
      BY <2>1 DEF IInv, TypeOK
    <2>6. stored'[c].state = "deleted" /\ stored'[c].since = stored[c].since
      BY <1>0, <2>1 DEF IInv, TypeOK, Keys
    <2>7. \A q \in Requests : request[q].taken => Target(q) # c
      BY <2>1 DEF IInv, TakenInv
    <2>8. TakenInv'
      <3> SUFFICES ASSUME NEW q \in Requests, request'[q].taken
                   PROVE  /\ Target(q)' \in Challenges
                          /\ stored'[Target(q)'].state = "deleted"
                          /\ request'[q].session = record'[Target(q)'].session
                          /\ stored'[Target(q)'].since <= request'[q].takenAt
                          /\ request'[q].takenAt <= now'
        BY DEF TakenInv
      <3>1. CASE q = r
        BY <1>0, <2>1, <2>4, <2>6, <3>1 DEF IInv, RecordInv, Target
      <3>2. CASE q # r
        BY <1>0, <2>3, <2>5, <2>7, <3>2 DEF IInv, TakenInv, Target
      <3> QED
        BY <3>1, <3>2
    <2>9. ProgressInv' /\ SingleTaker'
      BY <2>3, <2>4, <2>7 DEF IInv, ProgressInv, SingleTaker, Target
    <2>10. RecordInv'
      BY <1>0, <2>1, <2>5, <2>6 DEF IInv, RecordInv, LifetimeOf, Minted
    <2>11. OnlyTheOwnerSpends'
      <3> SUFFICES ASSUME NEW d \in Challenges, stored'[d].state = "deleted"
                   PROVE  \E q \in Requests :
                            /\ request'[q].taken /\ request'[q].challenge = d
                            /\ request'[q].session = record'[d].session
        BY DEF OnlyTheOwnerSpends, Target
      <3>1. CASE d = c
        BY <1>0, <2>1, <2>4, <3>1
      <3>2. CASE d # c
        BY <1>0, <2>3, <2>5, <3>2 DEF IInv, OnlyTheOwnerSpends, Target
      <3> QED
        BY <3>1, <3>2
    <2>12. AcceptanceIsEarned' /\ AcceptanceAge'
      BY <1>0, <2>3, <2>4, <2>5, <2>6
         DEF IInv, TakenInv, ProgressInv, AcceptanceIsEarned, AcceptanceAge, Accepted, Target
    <2> QED
      BY <2>2, <2>8, <2>9, <2>10, <2>11, <2>12 DEF IInv
  <1>2. CASE ~Consumable(c, request[r].session)
    <2>1. request' = [request EXCEPT ![r].pc = "refused"] /\ stored' = stored
      BY <1>2 DEF Consume
    <2> QED
      BY <1>0, <2>1, EndIInv
  <1> QED
    BY <1>1, <1>2

\* A step of Judge preserves the invariant: an acceptance is at most one clock
\* error after the record's expiry, which is at most one error late itself.
LEMMA JudgeIInv == ASSUME IInv, NEW r \in Requests, Judge(r) PROVE IInv'
  <1> DEFINE c == request[r].challenge
  <1>0. /\ UNCHANGED <<now, record, stored>> /\ request[r].pc = "judge"
        /\ request[r].taken /\ now \in Nat /\ c \in Challenges
    BY DEF Judge, IInv, ProgressInv, TakenInv, Target, TypeOK
  <1>3. /\ \E pc \in {"accepted", "refused"} :
              request' = [request EXCEPT ![r].judgedAt = now, ![r].pc = pc]
        /\ request'[r].pc = "accepted" =>
              request[r].nonce /\ now - MaxSkew < record[c].expires
    <2> PICK clock \in Readings :
           request' = [request EXCEPT ![r].judgedAt = now, ![r].pc =
               IF Acceptable(r, clock) THEN "accepted" ELSE "refused"]
      BY DEF Judge
    <2>1. clock \in Int /\ now - MaxSkew <= clock /\ record[c].expires \in Int
      BY <1>0, LifetimeAssumption DEF Readings, IInv, TypeOK, Records
    <2>2. CASE Acceptable(r, clock)
      <3>1. request' = [request EXCEPT ![r].judgedAt = now, ![r].pc = "accepted"]
        BY <2>2
      <3>2. record[c].expires > clock /\ request[r].nonce
        BY <2>2 DEF Acceptable
      <3>3. now - MaxSkew < record[c].expires
        BY <1>0, <2>1, <3>2, LifetimeAssumption
      <3> QED
        BY <3>1, <3>2, <3>3
    <2>3. CASE ~Acceptable(r, clock)
      BY <2>3 DEF IInv, TypeOK, RequestStates
    <2> QED
      BY <2>2, <2>3
  <1>1. TypeOK'
    BY <1>0, <1>3 DEF IInv, TypeOK, RequestStates, PCs
  <1>2. /\ \A q \in Requests :
             /\ request'[q].challenge = request[q].challenge
             /\ request'[q].session = request[q].session
             /\ request'[q].nonce = request[q].nonce
             /\ request'[q].taken = request[q].taken
             /\ request'[q].takenAt = request[q].takenAt
             /\ q # r => /\ request'[q].pc = request[q].pc
                         /\ request'[q].judgedAt = request[q].judgedAt
        /\ request'[r].judgedAt = now
        /\ request'[r].pc \in {"accepted", "refused"}
    BY <1>3 DEF IInv, TypeOK, RequestStates
  <1>4. TakenInv' /\ SingleTaker'
    BY <1>0, <1>2 DEF IInv, TakenInv, SingleTaker, Target
  <1>9. ProgressInv'
    BY <1>0, <1>2 DEF IInv, ProgressInv, Target
  <1>5. RecordInv'
    BY <1>0 DEF IInv, RecordInv, LifetimeOf, Minted
  <1>6. OnlyTheOwnerSpends'
    BY <1>0, <1>2 DEF IInv, OnlyTheOwnerSpends, Target
  <1>7. AcceptanceIsEarned'
    <2> SUFFICES ASSUME NEW q \in Requests, request'[q].pc = "accepted"
                 PROVE  /\ request'[q].nonce
                        /\ request'[q].session = record'[request'[q].challenge].session
                        /\ stored'[request'[q].challenge].state = "deleted"
                        /\ stored'[request'[q].challenge].since <= request'[q].takenAt
                        /\ request'[q].takenAt <= request'[q].judgedAt
      BY DEF AcceptanceIsEarned, Accepted, Target
    <2>1. CASE q = r
      BY <1>0, <1>2, <1>3, <2>1 DEF IInv, TakenInv, Target
    <2>2. CASE q # r
      BY <1>0, <1>2, <2>2 DEF IInv, AcceptanceIsEarned, Accepted, Target
    <2> QED
      BY <2>1, <2>2
  <1>8. AcceptanceAge'
    <2> SUFFICES ASSUME NEW q \in Requests, request'[q].pc = "accepted"
                 PROVE  request'[q].judgedAt - record'[request'[q].challenge].minted
                          < LifetimeOf(record'[request'[q].challenge]) + 2 * MaxSkew
      BY DEF AcceptanceAge, Accepted, Target, LifetimeOf
    <2>1. CASE q = r
      <3>1. /\ record[c].expires <= record[c].minted + MaxSkew + LifetimeOf(record[c])
            /\ now - MaxSkew < record[c].expires
        BY <1>0, <1>3, <2>1 DEF IInv, RecordInv
      <3>2. LifetimeOf(record[c]) \in Nat /\ record[c].minted \in Nat
            /\ record[c].expires \in Int
        BY <1>0, LifetimeAssumption DEF IInv, TypeOK, Records, LifetimeOf
      <3>3. now - record[c].minted < LifetimeOf(record[c]) + 2 * MaxSkew
        BY <1>0, <3>1, <3>2, LifetimeAssumption DEF IInv, TypeOK
      <3> QED
        BY <1>0, <1>2, <1>3, <2>1, <3>3
    <2>2. CASE q # r
      BY <1>0, <1>2, <2>2 DEF IInv, AcceptanceAge, Accepted, Target, LifetimeOf
    <2> QED
      BY <2>1, <2>2
  <1> QED
    BY <1>1, <1>4, <1>9, <1>5, <1>6, <1>7, <1>8 DEF IInv

\* Time passing, and stuttering, preserve the invariant.
LEMMA TickIInv ==
    ASSUME IInv, now' = now \/ now' = now + 1, UNCHANGED <<record, stored, request>>
    PROVE  IInv'
  <1>1. TypeOK' /\ now <= now'
    BY DEF IInv, TypeOK
  <1>2. TakenInv'
    BY <1>1 DEF IInv, TypeOK, RequestStates, TakenInv, Target
  <1>3. ProgressInv' /\ SingleTaker' /\ OnlyTheOwnerSpends'
    BY DEF IInv, ProgressInv, SingleTaker, OnlyTheOwnerSpends, Target
  <1>4. RecordInv'
    BY <1>1 DEF IInv, TypeOK, Records, Keys, RecordInv, LifetimeOf, Minted
  <1>5. AcceptanceIsEarned' /\ AcceptanceAge'
    BY DEF IInv, AcceptanceIsEarned, AcceptanceAge, Accepted, Target
  <1> QED
    BY <1>1, <1>2, <1>3, <1>4, <1>5 DEF IInv

\* Every step of the store preserves the invariant.
LEMMA NextIInv == IInv /\ [Next]_vars => IInv'
  <1> SUFFICES ASSUME IInv, [Next]_vars PROVE IInv'
    OBVIOUS
  <1>1. ASSUME NEW c \in Challenges, Mint(c) PROVE IInv'
    BY <1>1, MintIInv
  <1>2. ASSUME NEW c \in Challenges, Store(c) PROVE IInv'
    BY <1>2, StoreIInv
  <1>3. ASSUME NEW r \in Requests, Submit(r) PROVE IInv'
    BY <1>3, SubmitIInv
  <1>4. ASSUME NEW r \in Requests, Consume(r) PROVE IInv'
    BY <1>4, ConsumeIInv
  <1>5. ASSUME NEW r \in Requests, Judge(r) PROVE IInv'
    BY <1>5, JudgeIInv
  <1>6. ASSUME NEW r \in Requests, Fail(r) PROVE IInv'
    BY <1>6, EndIInv DEF Fail
  <1>7. CASE Tick
    BY <1>7, TickIInv DEF Tick
  <1>8. CASE UNCHANGED vars
    BY <1>8, TickIInv DEF vars
  <1> QED
    BY <1>1, <1>2, <1>3, <1>4, <1>5, <1>6, <1>7, <1>8 DEF Next

\* The inductive invariant holds in every reachable state.
THEOREM Invariant == Spec => []IInv
  BY InitIInv, NextIInv, PTL DEF Spec

\* Type correctness of the Redis challenge store.
THEOREM TypeCorrect == Spec => []TypeOK
  <1>1. IInv => TypeOK
    BY DEF IInv
  <1> QED
    BY <1>1, Invariant, PTL

\* Whatever the number of workers, at most one request ever holds a challenge,
\* so a challenge is accepted at most once and a failed attempt is final.
THEOREM AtMostOneTaker == Spec => []SingleTaker
  <1>1. IInv => SingleTaker
    BY DEF IInv
  <1> QED
    BY <1>1, Invariant, PTL

\* Another browser cannot burn a challenge, in any run.
THEOREM WrongBrowserCannotBurn == Spec => []OnlyTheOwnerSpends
  <1>1. IInv => OnlyTheOwnerSpends
    BY DEF IInv
  <1> QED
    BY <1>1, Invariant, PTL

\* No challenge is accepted older than its lifetime plus twice the clock error.
THEOREM AcceptanceAgeBounded == Spec => []AcceptanceAge
  <1>1. IInv => AcceptanceAge
    BY DEF IInv
  <1> QED
    BY <1>1, Invariant, PTL

\* Every acceptance is one of the bound session, with the right nonce.
THEOREM AcceptanceEarned == Spec => []AcceptanceIsEarned
  <1>1. IInv => AcceptanceIsEarned
    BY DEF IInv
  <1> QED
    BY <1>1, Invariant, PTL

-----------------------------------------------------------------------------
\* The taker of a challenge, once there is one, fixes its abstract phase.
LEMMA PhaseOfTaken ==
    ASSUME IInv, NEW r \in Requests, request[r].taken
    PROVE  PhaseOf(Target(r)) =
             IF request[r].pc = "judge" THEN "taken"
             ELSE IF Accepted(r) THEN "accepted" ELSE "refused"
  <1>1. Target(r) \in Challenges /\ Minted(Target(r))
    BY DEF IInv, TakenInv, RecordInv
  <1>2. TakenBy(Target(r)) = {r}
    BY DEF IInv, SingleTaker, TakenBy
  <1> QED
    BY <1>1, <1>2 DEF PhaseOf

\* A challenge nobody took is open once it was minted.
LEMMA PhaseOfUntaken ==
    ASSUME NEW c \in Challenges,
           \A r \in Requests : request[r].taken => Target(r) # c
    PROVE  PhaseOf(c) = IF Minted(c) THEN "open" ELSE "unissued"
  <1>1. TakenBy(c) = {}
    BY DEF TakenBy
  <1> QED
    BY <1>1 DEF PhaseOf

\* A step that leaves record alone, and the takers and verdicts of a challenge,
\* leaves its abstract phase alone.
LEMMA PhaseOfSame ==
    ASSUME NEW c \in Challenges, record'[c] = record[c],
           \A r \in Requests :
              /\ (request'[r].taken /\ request'[r].challenge = c)
                    <=> (request[r].taken /\ request[r].challenge = c)
              /\ (request[r].taken /\ request[r].challenge = c)
                    => request'[r].pc = request[r].pc
    PROVE  PhaseOf(c)' = PhaseOf(c)
  <1>1. TakenBy(c)' = TakenBy(c)
    BY DEF TakenBy, Target
  <1>2. \A r \in TakenBy(c) : request'[r].pc = request[r].pc
    BY DEF TakenBy, Target
  <1>3. Minted(c)' = Minted(c)
    BY DEF Minted
  <1> QED
    BY <1>1, <1>2, <1>3 DEF PhaseOf, Accepted

\* Steps that change neither a phase nor an owner stutter in the contract.
LEMMA PhasesSame ==
    ASSUME \A c \in Challenges : PhaseOf(c)' = PhaseOf(c) /\ record'[c] = record[c]
    PROVE  UNCHANGED Contract!vars
  <1>1. AbstractPhase' = AbstractPhase
    BY DEF AbstractPhase
  <1>2. AbstractOwner' = AbstractOwner
    BY DEF AbstractOwner
  <1> QED
    BY <1>1, <1>2 DEF Contract!vars

\* A step that moves one phase and no owner is a Move of the contract.
LEMMA PhaseMoved ==
    ASSUME NEW c \in Challenges, NEW from, NEW to, PhaseOf(c) = from, PhaseOf(c)' = to,
           \A d \in Challenges : d # c => PhaseOf(d)' = PhaseOf(d)
    PROVE  Contract!Move(c, from, to)
  <1>1. AbstractPhase[c] = from
    BY DEF AbstractPhase
  <1>2. AbstractPhase' = [AbstractPhase EXCEPT ![c] = to]
    BY DEF AbstractPhase
  <1> QED
    BY <1>1, <1>2 DEF Contract!Move

\* Initially every challenge of the contract is unissued.
LEMMA InitRefines == Init => Contract!Init
  <1> SUFFICES ASSUME Init PROVE Contract!Init
    OBVIOUS
  <1>1. \A c \in Challenges : record[c] = Unminted /\ ~Minted(c)
    BY DEF Init, Unminted, Minted
  <1>2. AbstractPhase = [c \in Challenges |-> "unissued"]
    BY <1>1 DEF AbstractPhase, PhaseOf
  <1>3. AbstractOwner = [c \in Challenges |-> NoSession]
    BY <1>1 DEF AbstractOwner, Unminted
  <1> QED
    BY <1>2, <1>3 DEF Contract!Init

\* Minting is the contract's Issue.
LEMMA MintRefines ==
    ASSUME IInv, NEW c \in Challenges, Mint(c)
    PROVE  \E s \in Sessions : Contract!Issue(c, s)
  <1> PICK s \in Sessions, ttl \in TtlArgs, t \in Readings :
         record' = [record EXCEPT ![c] =
             [session |-> s, minted |-> now, ttl |-> ttl,
              expires |-> t + (IF ttl = NoTtl THEN Lifetime ELSE ttl)]]
    BY DEF Mint
  <1>0. ~Minted(c) /\ request' = request
    BY DEF Mint
  <1>1. \A r \in Requests : request[r].taken => Target(r) # c
    BY <1>0 DEF IInv, TakenInv, RecordInv
  <1>2. record'[c].session = s /\ \A d \in Challenges : d # c => record'[d] = record[d]
    BY DEF IInv, TypeOK
  <1>3. Minted(c)'
    BY <1>2, SessionAssumption DEF Minted
  <1>4. PhaseOf(c) = "unissued"
    BY <1>0, <1>1, PhaseOfUntaken
  <1>5. PhaseOf(c)' = "open"
    <2>1. (TakenBy(c) = {})'
      BY <1>0, <1>1 DEF TakenBy, Target
    <2> QED
      BY <1>3, <2>1 DEF PhaseOf
  <1>6. \A d \in Challenges : d # c => PhaseOf(d)' = PhaseOf(d)
    BY <1>0, <1>2, PhaseOfSame
  <1>7. Contract!Move(c, "unissued", "open")
    BY <1>4, <1>5, <1>6, PhaseMoved
  <1>8. AbstractOwner' = [AbstractOwner EXCEPT ![c] = s]
    <2>1. \A d \in Challenges :
            record'[d].session = IF d = c THEN s ELSE record[d].session
      BY <1>2
    <2> QED
      BY <2>1 DEF AbstractOwner
  <1> QED
    BY <1>7, <1>8 DEF Contract!Issue

\* Storing the key and the passing of time are invisible in the contract.
LEMMA QuietRefines ==
    ASSUME UNCHANGED <<record, request>>
    PROVE  UNCHANGED Contract!vars
  BY PhasesSame, PhaseOfSame

\* So is a request that has not taken its challenge.
LEMMA SubmitRefines ==
    ASSUME IInv, NEW r \in Requests, Submit(r)
    PROVE  UNCHANGED Contract!vars
  <1>1. record' = record /\ ~request[r].taken
    BY DEF Submit, IInv, ProgressInv
  <1>2. ~request'[r].taken /\ \A q \in Requests : q # r => request'[q] = request[q]
    BY DEF Submit, IInv, TypeOK
  <1> QED
    BY <1>1, <1>2, PhasesSame, PhaseOfSame

\* A request that ends untaken changes nothing; one that ends with the challenge
\* in hand refuses it.
LEMMA EndRefines ==
    ASSUME IInv, IInv', NEW r \in Requests, record' = record,
           request[r].pc \in {"sent", "judge"},
           request' = [request EXCEPT ![r].pc = "refused"]
    PROVE  \/ UNCHANGED Contract!vars
           \/ \E c \in Challenges : Contract!Refuse(c)
  <1>1. \A q \in Requests :
          /\ request'[q].taken = request[q].taken
          /\ request'[q].challenge = request[q].challenge
          /\ q # r => request'[q].pc = request[q].pc
    BY DEF IInv, TypeOK, RequestStates
  <1>2. request'[r].pc = "refused"
    BY DEF IInv, TypeOK, RequestStates
  <1>3. CASE ~request[r].taken
    BY <1>1, <1>3, PhasesSame, PhaseOfSame
  <1>4. CASE request[r].taken
    <2> PICK c \in Challenges : c = request[r].challenge
      BY <1>4 DEF IInv, TakenInv, Target
    <2>1. request[r].pc = "judge"
      BY <1>4 DEF IInv, ProgressInv
    <2>2. PhaseOf(c) = "taken"
      BY <1>4, <2>1, PhaseOfTaken DEF Target
    <2>3. PhaseOf(c)' = "refused"
      <3>1. (TakenBy(c) = {r})'
        BY <1>1, <1>4 DEF IInv, SingleTaker, TakenBy, Target
      <3>2. Minted(c)'
        BY <1>4 DEF IInv, TakenInv, RecordInv, Minted, Target
      <3> QED
        BY <1>2, <3>1, <3>2 DEF PhaseOf, Accepted
    <2>4. \A d \in Challenges : d # c => PhaseOf(d)' = PhaseOf(d)
      BY <1>1, PhaseOfSame DEF Target
    <2>5. Contract!Move(c, "taken", "refused")
      BY <2>1, <2>2, <2>3, <2>4, PhaseMoved
    <2>6. AbstractOwner' = AbstractOwner
      BY DEF AbstractOwner
    <2> QED
      BY <2>1, <2>5, <2>6 DEF Contract!Refuse
  <1> QED
    BY <1>3, <1>4

\* Consuming a challenge is the contract's Take by the bound session.
LEMMA ConsumeRefines ==
    ASSUME IInv, IInv', NEW r \in Requests, Consume(r)
    PROVE  \/ UNCHANGED Contract!vars
           \/ \E c \in Challenges, s \in Sessions : Contract!Take(c, s)
           \/ \E c \in Challenges : Contract!Refuse(c)
  <1> PICK c \in Challenges : c = request[r].challenge
    BY DEF Consume, IInv, ProgressInv, Target
  <1>0. /\ record' = record /\ request[r].pc = "sent" /\ ~request[r].taken
        /\ request[r].session \in Sessions
    BY DEF Consume, IInv, ProgressInv
  <1>1. CASE Consumable(c, request[r].session)
    <2>1. /\ request' = [request EXCEPT ![r].pc = "judge", ![r].taken = TRUE,
                                         ![r].takenAt = now]
          /\ stored[c].state = "set" /\ record[c].session = request[r].session
      BY <1>1 DEF Consume, Consumable, Live
    <2>2. /\ \A q \in Requests : q # r => request'[q] = request[q]
          /\ request'[r].taken /\ request'[r].pc = "judge" /\ request'[r].challenge = c
      BY <2>1 DEF IInv, TypeOK, RequestStates
    <2>3. \A q \in Requests : request[q].taken => Target(q) # c
      BY <2>1 DEF IInv, TakenInv
    <2>4. PhaseOf(c) = "open"
      <3>1. Minted(c)
        BY <1>0, <2>1 DEF IInv, RecordInv
      <3> QED
        BY <1>0, <2>3, <3>1, PhaseOfUntaken
    <2>5. PhaseOf(c)' = "taken"
      <3>1. r \in TakenBy(c)' /\ TakenBy(c)' # {}
        BY <2>2 DEF TakenBy, Target
      <3>2. Minted(c)'
        BY <1>0, <2>1 DEF IInv, RecordInv, Minted
      <3> QED
        BY <2>2, <3>1, <3>2 DEF PhaseOf
    <2>6. \A d \in Challenges : d # c => PhaseOf(d)' = PhaseOf(d)
      BY <1>0, <2>2, PhaseOfSame
    <2>7. Contract!Move(c, "open", "taken")
      BY <1>0, <2>4, <2>5, <2>6, PhaseMoved
    <2>8. AbstractOwner' = AbstractOwner
      BY <1>0 DEF AbstractOwner
    <2>9. request[r].session = AbstractOwner[c]
      BY <1>0, <2>1 DEF AbstractOwner
    <2> QED
      BY <1>0, <2>7, <2>8, <2>9 DEF Contract!Take
  <1>2. CASE ~Consumable(c, request[r].session)
    <2>1. request' = [request EXCEPT ![r].pc = "refused"]
      BY <1>2 DEF Consume
    <2> QED
      BY <1>0, <2>1, EndRefines
  <1> QED
    BY <1>1, <1>2

\* Judging the record in hand is the contract's Accept or Refuse.
LEMMA JudgeRefines ==
    ASSUME IInv, IInv', NEW r \in Requests, Judge(r)
    PROVE  \E c \in Challenges : Contract!Accept(c) \/ Contract!Refuse(c)
  <1> PICK c \in Challenges : c = request[r].challenge
    BY DEF Judge, IInv, ProgressInv, TakenInv, Target
  <1>0. record' = record /\ request[r].pc = "judge" /\ request[r].taken
    BY DEF Judge, IInv, ProgressInv
  <1>1. PICK pc \in {"accepted", "refused"} :
           request' = [request EXCEPT ![r].judgedAt = now, ![r].pc = pc]
    BY DEF Judge
  <1>2. /\ \A q \in Requests :
             /\ request'[q].taken = request[q].taken
             /\ request'[q].challenge = request[q].challenge
             /\ q # r => request'[q].pc = request[q].pc
        /\ request'[r].pc = pc
    BY <1>1 DEF IInv, TypeOK, RequestStates
  <1>3. PhaseOf(c) = "taken"
    BY <1>0, PhaseOfTaken DEF Target
  <1>4. PhaseOf(c)' = pc
    <2>1. (TakenBy(c) = {r})'
      <3>1. TakenBy(c) = {r}
        BY <1>0 DEF IInv, SingleTaker, TakenBy, Target
      <3>2. TakenBy(c)' = TakenBy(c)
        BY <1>2 DEF TakenBy, Target
      <3> QED
        BY <3>1, <3>2
    <2>2. Minted(c)'
      BY <1>0 DEF IInv, TakenInv, RecordInv, Minted, Target
    <2> QED
      BY <1>2, <2>1, <2>2 DEF PhaseOf, Accepted
  <1>5. \A d \in Challenges : d # c => PhaseOf(d)' = PhaseOf(d)
    <2> SUFFICES ASSUME NEW d \in Challenges, d # c PROVE PhaseOf(d)' = PhaseOf(d)
      OBVIOUS
    <2>1. \A q \in Requests :
            /\ (request'[q].taken /\ request'[q].challenge = d)
                  <=> (request[q].taken /\ request[q].challenge = d)
            /\ (request[q].taken /\ request[q].challenge = d)
                  => request'[q].pc = request[q].pc
      BY <1>2
    <2> QED
      BY <1>0, <2>1, PhaseOfSame
  <1>6. Contract!Move(c, "taken", pc)
    BY <1>0, <1>3, <1>4, <1>5, PhaseMoved
  <1>7. AbstractOwner' = AbstractOwner
    BY <1>0 DEF AbstractOwner
  <1> QED
    BY <1>0, <1>6, <1>7 DEF Contract!Accept, Contract!Refuse

\* Every step of the store is a step of the contract or a stutter.
LEMMA NextRefines == IInv /\ IInv' /\ [Next]_vars => [Contract!Next]_(Contract!vars)
  <1> SUFFICES ASSUME IInv, IInv', [Next]_vars PROVE [Contract!Next]_(Contract!vars)
    OBVIOUS
  <1> USE DEF Contract!Next
  <1>1. ASSUME NEW c \in Challenges, Mint(c) PROVE Contract!Next
    BY <1>1, MintRefines
  <1>2. ASSUME NEW c \in Challenges, Store(c) PROVE UNCHANGED Contract!vars
    BY <1>2, QuietRefines DEF Store
  <1>3. ASSUME NEW r \in Requests, Submit(r) PROVE UNCHANGED Contract!vars
    BY <1>3, SubmitRefines
  <1>4. ASSUME NEW r \in Requests, Consume(r) PROVE [Contract!Next]_(Contract!vars)
    BY <1>4, ConsumeRefines
  <1>5. ASSUME NEW r \in Requests, Judge(r) PROVE Contract!Next
    BY <1>5, JudgeRefines
  <1>6. ASSUME NEW r \in Requests, Fail(r) PROVE [Contract!Next]_(Contract!vars)
    BY <1>6, EndRefines DEF Fail
  <1>7. CASE Tick
    BY <1>7, QuietRefines DEF Tick
  <1>8. CASE UNCHANGED vars
    BY <1>8, QuietRefines DEF vars
  <1> QED
    BY <1>1, <1>2, <1>3, <1>4, <1>5, <1>6, <1>7, <1>8 DEF Next

\* The Redis challenge store implements the challenge contract, for any number
\* of workers, requests and challenges.
THEOREM Refinement == Spec => ImplementsContract
  <1>1. Init => Contract!Init
    BY InitRefines
  <1>2. IInv /\ IInv' /\ [Next]_vars => [Contract!Next]_(Contract!vars)
    BY NextRefines
  <1> QED
    BY <1>1, <1>2, Invariant, PTL DEF Spec, Contract!Spec, ImplementsContract
=============================================================================
