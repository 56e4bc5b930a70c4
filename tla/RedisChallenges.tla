-------------------------- MODULE RedisChallenges --------------------------
(***************************************************************************)
(* RedisChallenges of distributed.py under several gateway workers: a      *)
(* challenge is minted by one worker's clock and then stored; a verifying  *)
(* worker takes the key with one Lua call and judges the record it got by  *)
(* its own clock.  Worker clocks stay within MaxSkew of Redis' time.       *)
(***************************************************************************)
EXTENDS Integers

CONSTANTS
    Challenges,     \* challenge ids that can be minted
    Sessions,       \* session ids browsers present
    NoSession,      \* the absent cookie
    Requests,       \* verification requests, each made once
    Lifetime,       \* default lifetime of a challenge (ttl_seconds=300)
    NoTtl,          \* ttl_seconds=None
    TtlArgs,        \* the ttl_seconds callers of create() pass
    MaxSkew,        \* bound on |worker clock - Redis time|
    MaxTime         \* bound on the time a run explores

ASSUME LifetimeAssumption == Lifetime \in Nat /\ MaxSkew \in Nat /\ MaxTime \in Nat
ASSUME TtlAssumption == TtlArgs \subseteq Nat \cup {NoTtl} /\ NoTtl \notin Int
ASSUME SessionAssumption == NoSession \notin Sessions

VARIABLES
    now,        \* Redis' time
    record,     \* record[c]: what create() minted for c
    stored,     \* stored[c]: the Redis key of c
    request     \* request[r]: progress of a verification request

vars == <<now, record, stored, request>>

Unminted == [session |-> NoSession, expires |-> 0, minted |-> 0, ttl |-> NoTtl]
NoKey == [state |-> "unset", since |-> 0, expires |-> NoTtl]
Idle == [pc |-> "idle", challenge |-> NoSession, session |-> NoSession,
         nonce |-> FALSE, taken |-> FALSE, takenAt |-> 0, judgedAt |-> 0]

Records == [session : Sessions \cup {NoSession}, expires : Int, minted : Nat,
            ttl : Nat \cup {NoTtl}]
Keys == [state : {"unset", "set", "deleted"}, since : Nat,
         expires : Nat \cup {NoTtl}]

PCs == {"idle", "sent", "judge", "accepted", "refused"}

RequestStates == [pc : PCs, challenge : Challenges \cup {NoSession},
                  session : Sessions \cup {NoSession}, nonce : BOOLEAN,
                  taken : BOOLEAN, takenAt : Nat, judgedAt : Nat]

TypeOK ==
    /\ now \in Nat
    /\ record \in [Challenges -> Records]
    /\ stored \in [Challenges -> Keys]
    /\ request \in [Requests -> RequestStates]

Init ==
    /\ now = 0
    /\ record = [c \in Challenges |-> Unminted]
    /\ stored = [c \in Challenges |-> NoKey]
    /\ request = [r \in Requests |-> Idle]

-----------------------------------------------------------------------------
\* What some worker's clock may read.
Readings == (now - MaxSkew)..(now + MaxSkew)

Minted(c) == record[c].session # NoSession

\* The key is there and Redis has not expired it.
Live(c) ==
    /\ stored[c].state = "set"
    /\ stored[c].expires = NoTtl \/ now < stored[c].expires

\* The in-memory half of create(): the expiry is set by the worker's clock.
\* ttl_seconds=None means the default lifetime here ...
Mint(c) ==
    /\ ~Minted(c)
    /\ \E s \in Sessions, ttl \in TtlArgs, t \in Readings :
           record' = [record EXCEPT ![c] =
               [session |-> s, minted |-> now, ttl |-> ttl,
                expires |-> t + (IF ttl = NoTtl THEN Lifetime ELSE ttl)]]
    /\ UNCHANGED <<now, stored, request>>

\* ... and a key without an expiry here (SET with ex=None).
KeyExpiry(ttl) == IF ttl = NoTtl THEN NoTtl ELSE now + ttl

\* The SET follows the minting at any distance, or never: the worker may die.
Store(c) ==
    /\ Minted(c) /\ stored[c].state = "unset"
    /\ stored' = [stored EXCEPT ![c] =
           [state |-> "set", since |-> now, expires |-> KeyExpiry(record[c].ttl)]]
    /\ UNCHANGED <<now, record, request>>

\* A browser submits a challenge with the session of its cookie and a nonce.
\* verify_challenge refuses an empty session before any Redis call.
Submit(r) ==
    /\ request[r].pc = "idle"
    /\ \E c \in Challenges, s \in Sessions \cup {NoSession}, nonce \in BOOLEAN :
           request' = [request EXCEPT ![r] =
               [pc |-> IF s = NoSession THEN "refused" ELSE "sent",
                challenge |-> c, session |-> s, nonce |-> nonce,
                taken |-> FALSE, takenAt |-> 0, judgedAt |-> 0]]
    /\ UNCHANGED <<now, record, stored>>

\* Slips: the script forgets whom the challenge is bound to, or to delete it.
AnyBrowser(c, s) == Live(c)
NotDeleted(c) == stored

\* The guard of the CONSUME script.
Consumable(c, s) == Live(c) /\ record[c].session = s

\* What the script leaves of the key it handed out.
Consumed(c) == [stored EXCEPT ![c].state = "deleted"]

\* CONSUME runs atomically in Redis: GET, session check and DEL.
Consume(r) ==
    LET c == request[r].challenge IN
    /\ request[r].pc = "sent"
    /\ IF Consumable(c, request[r].session)
       THEN /\ stored' = Consumed(c)
            /\ request' = [request EXCEPT ![r].pc = "judge", ![r].taken = TRUE,
                                                ![r].takenAt = now]
       ELSE /\ request' = [request EXCEPT ![r].pc = "refused"]
            /\ UNCHANGED stored
    /\ UNCHANGED <<now, record>>

\* Slip: the worker forgets the expiry.
ExpiryIgnored(r, clock) == request[r].nonce

\* The worker's own judgement of the record it holds, by its own clock.
Acceptable(r, clock) ==
    record[request[r].challenge].expires > clock /\ request[r].nonce

Judge(r) ==
    /\ request[r].pc = "judge"
    /\ \E clock \in Readings :
           request' = [request EXCEPT ![r].judgedAt = now, ![r].pc =
               IF Acceptable(r, clock) THEN "accepted" ELSE "refused"]
    /\ UNCHANGED <<now, record, stored>>

\* The Redis call fails, its reply is lost after the script ran, or the worker
\* dies: the request ends without a verdict, and what it took is gone.
Fail(r) ==
    /\ request[r].pc \in {"sent", "judge"}
    /\ request' = [request EXCEPT ![r].pc = "refused"]
    /\ UNCHANGED <<now, record, stored>>

Tick ==
    /\ now < MaxTime
    /\ now' = now + 1
    /\ UNCHANGED <<record, stored, request>>

Next ==
    \/ \E c \in Challenges : Mint(c) \/ Store(c)
    \/ \E r \in Requests : Submit(r) \/ Consume(r) \/ Judge(r) \/ Fail(r)
    \/ Tick

Spec == Init /\ [][Next]_vars

-----------------------------------------------------------------------------
Accepted(r) == request[r].pc = "accepted"

Target(r) == request[r].challenge

\* However many workers verify one challenge at once, only one of them ever
\* holds its record, so a wrong nonce or a crash is as final as an acceptance.
SingleTaker ==
    \A q, r \in Requests :
        (request[q].taken /\ request[r].taken /\ Target(q) = Target(r)) => q = r

\* A challenge disappears from Redis only through its own lapse or an attempt
\* of the session it is bound to: another browser cannot burn it.
OnlyTheOwnerSpends ==
    \A c \in Challenges : stored[c].state = "deleted" =>
        \E r \in Requests :
            request[r].taken /\ Target(r) = c /\ request[r].session = record[c].session

\* The age at which a challenge can still be accepted, in Redis' time, counted
\* to the judgement: its lifetime and what two worker clocks can differ by.
AcceptanceAge ==
    \A r \in Requests : Accepted(r) =>
        LET rec == record[Target(r)] IN
            request[r].judgedAt - rec.minted
                < (IF rec.ttl = NoTtl THEN Lifetime ELSE rec.ttl) + 2 * MaxSkew

\* An acceptance is earned: the bound session, the right nonce, a record that
\* was stored before it was taken, and the key gone.
AcceptanceIsEarned ==
    \A r \in Requests : Accepted(r) =>
        /\ request[r].nonce
        /\ request[r].session = record[Target(r)].session
        /\ stored[Target(r)].state = "deleted"
        /\ stored[Target(r)].since <= request[r].takenAt
        /\ request[r].takenAt <= request[r].judgedAt

\* The abstract challenge this store implements.
TakenBy(c) == {r \in Requests : request[r].taken /\ Target(r) = c}

PhaseOf(c) ==
    IF ~Minted(c) THEN "unissued"
    ELSE IF TakenBy(c) = {} THEN "open"
    ELSE IF \E r \in TakenBy(c) : request[r].pc = "judge" THEN "taken"
    ELSE IF \E r \in TakenBy(c) : Accepted(r) THEN "accepted"
    ELSE "refused"

AbstractPhase == [c \in Challenges |-> PhaseOf(c)]

AbstractOwner == [c \in Challenges |-> record[c].session]

Contract == INSTANCE ChallengeContract WITH owner <- AbstractOwner, phase <- AbstractPhase

\* RedisChallenges is a challenge store in the sense of ChallengeContract.
ImplementsContract == Contract!Spec

-----------------------------------------------------------------------------
\* distributed.py: "Expiry is enforced by Redis, not worker clocks."  But
\* create_challenge passes ttl_seconds=None on, and SET ex=None leaves the key for
\* ever: a worker whose clock is behind accepts a challenge that has lapsed.
AcceptedWithinTtl ==
    \A r \in Requests : Accepted(r) =>
        request[r].takenAt < stored[Target(r)].since + Lifetime
=============================================================================
