# Verification of the StopIn gateway

StopIn puts an access gateway in front of a web application.  A browser obtains a
challenge, answers it, receives a signed session token, and only then is its
request forwarded to the protected origin.  While it does so, hidden traps, a
request rate and a few facts the browser reports are collected as evidence, and
two independent groups of evidence deny access.  The gateway runs as several
worker processes over one Redis, so almost everything that matters happens
between two calls to Redis made by workers that know nothing of one another.

This directory models that system in TLA+, checks the models with TLC on small
instances, and proves the most important results with TLAPS for instances of any
size.  Source lines below are relative to `src/gateway/`.

## 1. The system

| component | state | operations | who calls it |
|---|---|---|---|
| access policy (`policies/evaluator.py`, `dashboard.py:70`) | none | `evaluate_signals`, `evaluate_dashboard` | verifier and catch-all route |
| signals (`detection/engine.py`, `signals.py`, `crawler_identity.py`) | none | `collect_signals`: token, session, evidence, headers | the same two |
| challenge store (`challenges/`, `distributed.py:34`) | one Redis key per challenge | create (mint, then SET), verify (CONSUME script, then judgement) | `POST /challenge`, `POST /challenge/verify` |
| evidence store (`detection/store.py`, `distributed.py:76`) | one record per session: traps, counters, a window of events | create, expose, activate, observe, report, lifecycle, failure | every endpoint |
| sessions and tokens (`sessions/`, `distributed.py:15`) | one Redis key per session; signed tokens are held by browsers | issue, valid, revoke; create and verify a token | verifier, catch-all route, traps, operator |
| endpoints (`app.py`) | none of their own | issue, tripwire and experiments, verify, catch-all | clients |
| request controls (`hardening.py`) | counters of fixed windows, counters of answers | allow, observe, the boundary middleware | every request |
| hosted evaluation (`hosted_agent_evaluation.py`) | runs and their events, under one lock | create, enter, public dispatch, finalize | evaluator and agents |
| pre-application lab (`pre_application.py`) | sessions and their flags, events, on one event loop | start, report, optional route, completion, protected routes with an awaited origin | agents |
| evaluation harness (`real_agent_evaluation.py`) | a lock, whether the entry was used, whether the run is finished | entry, passing through, finish | agents, evaluator |
| measurement (`measurement.py`) | runs, their copied events and what they have seen | start, event, evidence, finish, label, export | middleware and endpoints, operator |
| dashboard database (`dashboard.py`, `database.py`) | SQLite | configuration, record, prune, backup | endpoints, operator |
| origin, proxy, configuration, logging | none | forwarding, validation | - |

How they interact.  `POST /challenge` draws a session id, mints and stores a
challenge bound to it, creates its evidence record and exposes the traps, three
separate calls, and only then tells the browser the id in a cookie.  A trap
request names a session by that cookie, or by a token, and updates its record.
`POST /challenge/verify` compares the cookie with the body, consumes the
challenge, reports, observes, reads the record, reads the configuration, decides,
issues the session, logs, and hands out the token: eight calls between which any
other request of the same or another browser may run, or the worker may die.  The
catch-all route reads the configuration, verifies the token, looks up the session,
observes, reads the record, decides, and forwards.  Every request first passes the
boundary middleware, which charges one or two rate limits and counts the answer.

What makes it hard.  Two workers act on one key at once (double submission of a
challenge, activation of one trap, concurrent updates of one record).  What a
worker read may be out of date when it uses it (signals read, then a session
issued; a record read, then written).  Keys lapse at Redis' time while records
carry times of a worker's clock.  Any call may fail before or after it took
effect, and the handler stops there: nothing is rolled back.  An operator revokes
sessions at any moment.  Without Redis the same endpoints run in threads of one
process over stores that lock little: the challenge store takes no lock at all, the
evidence store takes one to write and none to read.  In the lab a handler gives way
to others exactly while it awaits the origin.

What correctness means.  A challenge is taken once, by its own browser, and judged
once, in time.  Access is earned by an answered challenge, bounded in time, and a
refusal or a revocation is final.  No evidence is lost, contradictory or told to
two callers.  Evidence known when a request arrives counts in its decision.
Rate limits bound what gets through and punish only what exceeded them.  A hosted
run that explored early is never released anything and its report stands; in the
lab, that holds for each session although requests overtake one another.  What an
operator measures is each event once, in order, and nothing of it changes after the
run is completed.
`PROJECT.json` lists each hazard at its line with the properties that cover it,
and those no property covers yet, with the reason.

## 2. The modules

| module | models | its variables are |
|---|---|---|
| `AccessPolicy` | `evaluate_signals`, `evaluate_dashboard`, and what the verifier does to the signals before it asks | (operators) |
| `Policy` | the two places that decide | one request and its decision |
| `PolicyProofs` | | |
| `ChallengeContract` | what any challenge store promises (abstract) | owner and phase of each challenge |
| `RedisChallenges` | `RedisChallenges` of `distributed.py` with several workers | Redis' time, minted records, keys, verification requests |
| `RedisChallengesProofs` | | |
| `EvidenceRecord` | the operations of the evidence stores on one record | (operators) |
| `EvidenceService` | what an evidence store promises (abstract) | time, record, calls |
| `RedisEvidence` | `RedisEvidence.update`: WATCH, GET, MULTI, EXEC, ten attempts | those, and each call's transaction |
| `RedisEvidenceProofs` | | |
| `Gateway` | issue, trap, verify and protected requests of `app.py`, one action per call to shared state | time, challenges, evidence, sessions, tokens, and each request's place, input and locals |
| `GatewayProofs` | | |
| `RequestControls` | the boundary middleware over `RequestControls` in Redis | time, windows, counters, requests |
| `RequestControlsProofs` | | |
| `HostedEvaluation` | the hosted pilot | clock, flags and events of each run |
| `HostedEvaluationProofs` | | |
| `PreApplicationLab` | the routes of the lab | clock, flags of each session, events of all, each request's place |
| `EvaluationRun` | the lab served bare, or behind the harness | those, and the harness's state and report |
| `EvaluationRunProofs` | | |
| `Measurement` | the recorder of measurement runs | clock, runs |
| `LocalProcess` | the gateway in one process without Redis: its threads, its challenge store, the events of one session and the recorder they are copied to | those, the challenge, the count of events, the session, and each request's place and locals |
| `LocalProcessProofs` | | |

`MC...` modules hold the small instances.  `Gateway` composes the components: it
instantiates `AccessPolicy` for its decisions, and takes the consumption of a
challenge and the update of a record as single steps, which is what
`RedisChallenges` (with its proved refinement of `ChallengeContract`) and
`RedisEvidence` (with its proved refinement of `EvidenceService`) justify.
`EvaluationRun` composes the lab with its harness, `LocalProcess` the in-memory
stores with the recorder.

Conventions.

- An action is named after the handler's step.  `pc` tells the next step of a
  request; the name is that of the call the code is about to make.
- Some fields are history that the code does not keep: `taken`, `takenAt`,
  `issuedAt`, `checkedAt`, `trapped`, `automated`, `overtaken`, `unheard`, `broken`,
  `charged`, `passed`, `refused`, `sent`, `revoked`, `late`, `wrote`.  No guard reads them.
- A definition introduced by a comment that says "Slip" is not used by the model.  It
  is the neighbouring definition with a plausible mistake in it (a missing delete,
  a forgotten expiry, an off-by-one), kept to test that a property notices:
  `PROJECT.json` "mutants" says which property refutes which slip.

Correspondence worth knowing.

- **Mint and Store** (`RedisChallenges`) are two actions because `create()` computes
  the expiry by the worker's clock and then does the SET.  `ttl_seconds=None` means
  the default lifetime in the first and no expiry in the second; the model has
  both.  `Consume` is the CONSUME script, `Judge` what the worker does with the
  record it got.  Worker clocks are anywhere within `MaxSkew` of Redis' time at
  every reading.
- **Watch, Read, Exec, Abort, Exhaust** (`RedisEvidence`) are the calls of one attempt
  of `update()` and its end.  `dirty` is Redis' mark on a watched key, `deadline` the
  key's expiry, which SET keepttl keeps and which a SET on a key that is gone would not
  set.  A key that expires after WATCH makes EXEC fail.
- **ExecUnheard, Break, Fail** (`RedisEvidence`) are what a connection can do to it.
  redis-py reports any connection lost while a key is watched as a `WatchError`, so
  `update()` tries again: after an EXEC that ran and whose answer is lost
  (`ExecUnheard`), and after a GET or an EXEC that never ran (`Break`), which uses up an
  attempt with nobody's write behind it.  A WATCH that does not reach Redis, or an error
  that Redis answers, is another exception, and ends the call at once (`Fail`).
- **Gateway** uses one clock; skew is the subject of `RedisChallenges`.  A session id
  stands for its challenge and its token too, as they are created for it and never
  for another.  A request carries any combination of the ids that were told to
  some browser.  `Fail` ends a request wherever it is.  The rate is counted to the
  first request that is a burst, the only one the policy sees.
- **RequestControls**: one action for each Redis call of the boundary.  `ChargeFails`
  covers a script that ran and whose answer was lost.  Retry-After is left out: it
  decides nothing, and the TTL that Redis answers is rounded to seconds.
- **HostedEvaluation**: every handler holds one lock, hence one action per handler.
  Events recorded together under the lock are represented by the one that says
  what came of the request.
- **PreApplicationLab**: one action for what a handler does up to its `await`, another
  for the rest.  A request's content is drawn when it is handled, as waiting requests
  are alike.  Requests that come to nothing are recorded by the code and left out
  here, except that a full list of events makes `/start` answer 503.
- **EvaluationRun**: the lock of the harness is an `asyncio.Lock`, which is granted in
  the order of the requests (`Turn`).  `Finish` happens when every accepted request is
  answered: the evaluator stops uvicorn, which drains, before it calls `finish()`.
  An answer of the origin's that is lost is an action of the bare lab only, as the
  harness's origin is a mock in the same process.
- **LocalProcess**: a step ends wherever a thread may be switched and that matters:
  between the check and the mark of the challenge, between an event and the copying
  of evidence.  `Walk` stands for the whole unlocked walk over the list of events: the
  list is walked by position, so each event cut off its front meanwhile makes it miss
  one, and any may be the missed ones.  `Refuse` is a
  forged verification that is turned down before it reaches the challenge, `DecideFails`
  the 503 of a verification whose configuration cannot be read.  `Issue` is one step because its session is
  unknown to anyone until it is answered.
- **Measurement**: `Ingest` is `evidence()`, under the recorder's lock.  `Room` is what
  the events of the requests themselves leave of the 2000.

## 3. The runs

| run | instance | shows |
|---|---|---|
| `policy` | all coherent signals with at most one rule, and lists of up to three overlapping rules on two paths | release is earned, one group never denies, the verifier never answers with a bootstrap, more evidence never helps |
| `challenges` | 1 challenge, 2 sessions, 3 attempts, lifetime 1, skew 1, time 3, with and without a TTL | the owner spends, age bound, refinement of the contract |
| `challenges_clock` (violation) | 2 attempts, lifetime 2, skew 1, time 4, no TTL as deployed | a worker whose clock is behind accepts a challenge that Redis would have dropped |
| `evidence` | 2 workers, trap visits, a submission and a protected request, connections broken at every call, Redis failing, 2 attempts, window of 5 events, lifetime 1, weak fairness | the record tells one story, answers account for it, the attempts of a call that gives up were used up, refinement of the service, a record lapses on time and for good, every call is answered |
| `evidence_lost_answer` (violation) | 2 workers, lost answers | the only visit of a trap is answered 410 and counted as a replay |
| `gateway` | 1 issue, 2 verifications, 1 protected request, 1 session, time 2 | access earned, bounded, final when denied or revoked, covered by evidence, never extended |
| `gateway_taint` | 1 issue, 1 verification, 1 trap, 1 protected request, time 2 | evidence known on arrival is never lost before the decision |
| `hosted_evaluation` | 2 runs, lifetime 1, 4 events each, time 1 | early exploration precludes release, release follows the one authorization and comes in the time of the one entry, frozen report |
| `lab` | 5 requests, 2 sessions, lifetime 1, time 1, bare and behind the harness, weak fairness | early exploration precludes release for each session, a late one overtakes only answers on their way, the harness's order and outcome are sound, every request is answered |
| `local_process` | 3 requests, two at a time, window of 4 events, 2 runs of 5 events, lifetimes 1, time 1 | late attempts are refused, events are copied once and in order, none is missing, a completed run is frozen |
| `local_concurrent` (violation) | the same without runs | two threads take the same challenge |
| `request_controls` | 3 requests, of one address or of none that parses, limits 2 and 1, window 2, time 3 | less than twice the limit in any stretch as long as a window, refusals are earned, counters overstate nothing |

Why the bounds are enough.  Each property relates two or three actors, and each
instance has as many: every mutation listed in `PROJECT.json` is found in it.
Three attempts let one taker, one loser and one failure meet on a challenge.
Two workers with two attempts reach contention failure, as one of them can complete
two calls while the other tries, or connections break twice.  Lifetimes are in
the code's ratio, 1:1:2 for 300:300:600, and time reaches the last of the deadlines
that start at time 0, so that a challenge can lapse before it is answered, a
session before it is used and the evidence before either.  A window of five
events overflows in `evidence` (three are there from the start), one of four in
`local_process`, where a run also has less room than there are events.  Two windows of
the rate limit fit in `request_controls`.  Five requests are a start, a completion, a
protected request, an exploration that overtakes its answer, and one more; with two
sessions they can belong to different ones.  `gateway` has one browser: how the
cookies and tokens of several can be mixed is covered by the proof of
`AccessIsEarned`, which is for any number.
Challenges, sessions, requests and runs are interchangeable where a run
declares symmetry; the runs with liveness have none.  In every run the requests are
served once and time is bounded, so the models may stop, and deadlock is not
checked.  For what section 4 lists the proofs remove the bounds.

Fairness.  Two properties need it.  For `EveryCallAnswered`, `RFairness` is weak
fairness of each worker's own next step of an update it began: a worker process is
scheduled and redis-py's calls return or raise.  It holds because attempts are
counted, not because contention ends.  For `EveryRequestAnswered`, `Fairness` is weak
fairness of what serves each request: the event loop runs every handler that is ready,
and an awaited origin answers or its client raises.  It holds because the lock is
handed on in order and released however its holder ends.  Nothing forces a caller to
call, a message to be lost, an evaluator to finish, or time to pass.

## 4. What the proofs show

All theorems hold for every value of the constants that satisfies the named
assumptions: lifetimes and bounds are natural numbers, `EvidenceTtl >= 2 * Lifetime`
(600 and 300 in `detection/store.py` and `app.py`), absent ids are not ids, the calls
of an evidence store are operations on its records (`Calls \subseteq Operations`: the
gateway calls no others).  Finite, but of any size, are the families of traps, the requests of
the lab and of the local process, the sessions of the lab and the runs of the hosted
evaluation.  Nothing else has to be finite: not the workers and challenges, nor the
requests and sessions of `Gateway`.

Every safety invariant, action property and refinement of the passing runs is a theorem.

**PolicyProofs.** `DecidedInv` says that an outcome is the decision of its input; each
property is then a fact about `Decision`, by the order of the exits of
`evaluate_signals` and the cases of `RoutedDecision`.  Proved: the decision is one of
the three, `ReleaseIsEarned` and `BadCredentialBlocks` under every list of rules,
`NoSingleGroupDenial`, `VerifierNeverChallenges`, `StrictnessIsInert`, and
`EvidenceNeverHelps`, by showing that a larger set of groups leaves each exit as it
is or turns it into a denial, first for the signals and then for the rules.

**RedisChallengesProofs.** The properties are not inductive alone.  `TakenInv` adds
that what a request took is deleted and had been stored before, `ProgressInv` that
the program counter tells whether a request holds a record, `RecordInv` that a
record's expiry is at most one clock error beyond its lifetime.  `SingleTaker`
follows as taking needs a live key and leaves a deleted one.  `AcceptanceAge`
is `Lifetime + 2 * MaxSkew`: one error when minting, one when judging.  The
refinement maps the phase of a challenge to its key and to the one request that
took it; every step is a step of `ChallengeContract` or a stutter, which needs
`SingleTaker` before and after.

**GatewayProofs.** `IInv` follows the life of a session:

- `Place`: which steps a request of each kind can be at;
- `Born`, `Telling`: a session id that a browser was told has a challenge and an
  evidence record no older than it;
- `Attempt`: a verifier past its challenge took it itself, with the right nonce, in
  time, for its own cookie, and the challenge is spent;
- `Sole`: a challenge is taken by one verifier;
- `Fruit`: whatever the session table holds, is handed out as a token, or was
  revoked, goes back to a verifier that issued it, with that verifier's expiry;
- `Reader`: a protected request that found a valid session found such a one, and
  looked while it lived.

`AccessIsEarned`, `AccessWindow`, `VerdictIsFinal`, `RevocationIsFinal`,
`NoSessionIsExtended` and `EvidenceCoversSession` follow for any number of sessions
and requests in flight, with failures at every step.  `RevocationIsFinal` needs `Sole`:
a second verification of the same challenge could otherwise issue the revoked
session again.

The two taint properties are about what a decision read: a session that was trapped,
and automated, when a request arrived must be treated so by that request, whatever runs
in between.  They need a second invariant over the first, `TInv`:

- `Sourced`: a record exists only of a minted session, and says "automated" only
  because of the one verification that took the challenge.  No second report can
  take it back, as a report needs the challenge;
- `Creating`, `SoleCreator`: the record about to be created has no predecessor, so
  creating it wipes out nothing;
- `OnRecord`: what was held against a session when a request arrived still is;
- `Heeded`: from the report to the decision it is on record, then among the signals
  read, then acted on, unless the evidence lapsed before the record was read.

`TaintHolds` and `TaintDenies` follow with a lemma about `AccessPolicy`: two groups of
evidence deny, whatever the other signals say.

**RedisEvidenceProofs.** Three parts.

*Which record.*  The operations on a record are opaque; what counts is on which record
one was computed.  `IInv` says of every call that its transaction lasts exactly as long
(`Accompanies`), that a draft EXEC could still publish was computed on the record as it
is, by a clock read since the call began (`CleanDraft`), and that each attempt wasted
while the record lives was overtaken by a write, or broken, or wrote itself and went
unheard (`Progress`).  `ContentionIsEarned` follows: without broken connections a store
whose callers give up made progress.  `Typed` includes that the key keeps the deadline
it was created with; with a draft never published late this is why a record lapses on
time and nothing brings it back, and with `TooLate`, that a call begun after
the lapse is told of no record, `RecordLapsesForGood`.  The refinement maps an EXEC that
is answered to `Serve`, one whose answer is lost to `Repeat`, the GET of a record that is
gone to `Missing`, the tenth failure and an error of Redis' to `GiveUp`, and all else, a
broken connection included, to a stutter.

*What the operations make of it.*  `RecordTellsOneStory` is not preserved by the
operations alone: the phase of a trap comes from the flag `started`, the order of events
from the window.  `StartedFollowsEvents` ties them: a record not yet started has no
submission in its window and no trap marked as later, a started one whose window lost
nothing has the submission in it, and activations in the window are of activated traps.
With it `OneStory` holds of the record `issue_challenge` leaves (`FirstStory`) and is kept
by each operation (`ApplyStory`, from one lemma on appending to a window and one per
operation).  This is proved of the abstract service, where an operation is one step,
and carried to the transactions by the refinement (`StoryHolds`): that is what the
refinement is for.

*The answers.*  `ApplyStory` also says which answer goes with which change (`Outcome`):
204 activates the caller's trap and no other, 410 counts a replay, and any other answer
does neither.  `Attempts` bounds the lost answers of a call by its attempts, so that
each has a number.  A step then gives no answer (`Quiet`), gives one (`Heard`) or loses
one (`Lost`), and the sums of `AnswersAccountForRecord` go on by one on both sides; up to
`Cap` for the replays, where both saturate (`AccountHolds`).

**RequestControlsProofs.** A window that is over leaves no trace in Redis but the requests
it was charged for, so `IInv` speaks of the last window of each address and of any
stretch of time.  `WindowHolds`: the last window was opened at some `o` by a request it
counted; less than the limit passed in the part of a window's length before `o`, and in
the window at most as many as it counted, one less without its opening.
`Bounded` is the property for every stretch: two windows meet it, and the opening of at
most one of them.  `Earned`: what a refusal was earned by stays in its stretch.
Failures are part of it: a script that ran and whose answer was lost has charged a
request that is then answered 503.  `MetricsReflectAnswers` follows as a
request is counted in one step, after its answer is fixed.

**HostedEvaluationProofs.** The properties read the history of a run, the handlers its
flags.  `IInv` ties them: a run is tainted, or consumed, exactly if it has the event
(`FlagsFollowHistory`), is authorized once (`AuthorizedOnce`) and before any
exploration (`AuthorizedUnexplored`), and releases only under the grant in between
(`ReleasedUnderGrant`).  `ClockedByEntry` ties the clock to the history: the one entry of
a run started it and no release is later than its lifetime.

**EvaluationRunProofs.** The same idea with requests that overtake one another, session
by session (`FlagsFollowHistory`, `HistoryIsLawful`), and with counting: releases and
answers still awaited are together no more than dispatches (`Balanced`).  Behind the
harness, `Serialized` says that requests are served in order, that there is one
session, and that nobody explored while an answer is awaited; `Concluded` that a
finished run has nothing in flight and a sound report.  All five safety properties of
the run follow.

**LocalProcessProofs.** The unlocked store overwrites marks, so that a challenge may be
accepted twice; still the first mark ends the status in which a check passes
(`MarkSpends`), and a request that came after it never gets past the check
(`LateFails`).  For the recorder, `RunsInv` says what kind of sequence `runs` is; every
step rewrites one run or appends one, and none rewrites a completed one.

What the recorder copies is the subject of `DInv`.  `RunOK`: a run has room for what
it holds, its events ascend and are no later than the last order it looked at, and as
long as the window of events has not overflowed and the run is not full they are all
events up to there.  `JobOK`: a thread about to copy holds, under the same condition, a
snapshot without gaps that includes its own last event; other threads append
meanwhile, which takes nothing from it.  That a snapshot copied in order keeps this
(`CopiedRun`) rests on lemmas about `InOrder`, the sequence of a set of orders, which
is defined by counting instead of by recursion so that they can be proved.
`CopiedOnceInOrder` needs no more than the order in `RunOK`; `NothingIsMissing` is an
action property, of the step that answers a request.  It promises nothing once the
window of events has overflowed: a walk can then miss events that are still there, and
what is promised of them is the order and the single copy alone.

A few theorems state properties that no run checks, as others that do are closer to
what could go wrong: `SingleTaker`, `AcceptanceIsEarned`, `BadCredentialBlocks`,
`StrictnessIsInert`.

What stays with TLC: liveness (`EveryCallAnswered`, `EveryRequestAnswered`), which TLAPS
does not cover here, as fairness needs ENABLED; and the three disagreements of section 5,
which are counterexamples.

## 5. What disagreed with the documentation

- `tests/adversarial/test_agents.py:57` says that of concurrent verifications of one
  challenge exactly one is answered 200.  Without Redis they run in threads, and
  `challenges/store.py` checks the status (line 110) and marks the record (line 119)
  without a lock: two can pass the check before either marks (`local_concurrent`).
  What holds instead is `LateAttemptsAreRefused`.
- `distributed.py:1` says that Redis, not worker clocks, enforces expiry.  Challenges are
  stored without a TTL, because `ttl_seconds=None` reaches the SET; only the judging
  worker's clock enforces the lifetime.
- `docs/agent-interaction-challenge.md:33` says that the first bound GET of a trap
  returns 204 and later ones 410.  When the answer to EXEC is lost, `update()` applies
  the activation again and the first GET is answered 410.
- Not the subject of a run: the repository's README (line 204) says that two groups of
  evidence challenge a navigation again, and `evaluate_signals` blocks it
  (`NoSingleGroupDenial` and `EvidenceNeverHelps` are about what it does).

## 6. Assumptions about what is not in this repository

- Scripts and EXEC are atomic in Redis, and an expired watched key aborts EXEC (Redis
  6.0.9 and later).  Redis does not lose what it acknowledged.
- redis-py raises `WatchError` when a connection breaks while a key is watched, whichever
  call met it, and another error when WATCH itself fails or Redis answers with one.  It
  repeats no call by itself, as `from_url` configures no retry.
- Identifiers are drawn from a space large enough that they neither collide nor are
  guessed; signatures of tokens verify only what the gateway signed.
- Worker clocks are within a known distance of Redis' time.
- Threads of one process may be switched between any two steps of `LocalProcess`.
- An `asyncio.Lock` is granted in the order it was asked for, and uvicorn answers the
  requests it accepted before it stops.

## 7. What is not modelled, and why

- `hit()` and `activate()`'s branch for a record without experiments: nothing calls the
  first, and the gateway creates no such record.
- Crawler names, strictness and the development token inside `Gateway`: they do not
  depend on what runs concurrently; `Policy` covers them.
- Revoking an id that was never issued: it deletes nothing.  A revocation that comes
  before the issue in flight is therefore not promised to last.
- In-memory stores: the eviction of the oldest record at capacity, which a small
  instance would meet long before 10000 records do; the deque of request times, where
  two threads can meet an empty one and a request fails; the counters of failures and
  reports, changed without the lock; the session table's own pop and insert, as one
  session is followed.
- The rate buckets and counters of a process without Redis (`hardening.py:33-43`), whose
  table is shared by threads without a lock: planned.
- Measurement: labels, cohorts and the export, which read completed runs; the events of
  the requests themselves, which only take room.
- Harness: `summarize()` and the command line, which format finished reports.
- Dashboard database: SQLite serializes its transactions; what a stored configuration
  means is in `AccessPolicy`.
- Scripts in `test-agents/`: clients, whose requests the models enumerate.
- Origin proxy, protection helper, pages, logging, start-up validation: pure input and
  output, or string handling, without state that operations race for.

## 8. Plan

Done: policy, challenges, evidence, gateway, hosted evaluation, request controls, in
this order, as access control is the system's purpose and everything else serves it;
then the lab with its harness, and the process without Redis with its recorder.

Next, models:

1. In-memory buckets of `hardening.py` at their thread-switch points: two threads can
   open the same window, or purge one that is live; what bounds remain.
2. Dashboard database: transactions of configuration and record, prune, backup.
3. Several sessions in `LocalProcess`, with eviction.

Next, proofs: with several sessions in `LocalProcess`, the isolation of one session's
events from those of another; for the in-memory buckets, what remains of `WindowLimit`
when threads share the table; from `Gateway`, a refinement of an abstract access
contract (earned once, bounded, revocable) that its six access theorems already
amount to.
