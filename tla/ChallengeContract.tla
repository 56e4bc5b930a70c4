------------------------- MODULE ChallengeContract -------------------------
(***************************************************************************)
(* What a challenge store promises, whichever store is behind it: a        *)
(* challenge is bound to one session, the first attempt of that session    *)
(* takes it for good, and that attempt is judged once.                     *)
(***************************************************************************)
CONSTANTS Challenges, Sessions, NoSession

VARIABLES
    owner,      \* the session each challenge was issued to, NoSession before
    phase       \* how far each challenge has come

vars == <<owner, phase>>

Phases == {"unissued", "open", "taken", "accepted", "refused"}

TypeOK ==
    /\ owner \in [Challenges -> Sessions \cup {NoSession}]
    /\ phase \in [Challenges -> Phases]

Init ==
    /\ owner = [c \in Challenges |-> NoSession]
    /\ phase = [c \in Challenges |-> "unissued"]

Move(c, from, to) ==
    phase[c] = from /\ phase' = [phase EXCEPT ![c] = to]

Issue(c, s) == Move(c, "unissued", "open") /\ owner' = [owner EXCEPT ![c] = s]

\* Only an attempt on behalf of the bound session takes the challenge.
Take(c, s) == s = owner[c] /\ Move(c, "open", "taken") /\ UNCHANGED owner

Accept(c) == Move(c, "taken", "accepted") /\ UNCHANGED owner

\* A wrong nonce, a late answer, or a worker that died with the challenge.
Refuse(c) == Move(c, "taken", "refused") /\ UNCHANGED owner

Next ==
    \E c \in Challenges :
        \/ \E s \in Sessions : Issue(c, s) \/ Take(c, s)
        \/ Accept(c)
        \/ Refuse(c)

Spec == Init /\ [][Next]_vars
=============================================================================
