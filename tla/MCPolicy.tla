------------------------------ MODULE MCPolicy ------------------------------
(***************************************************************************)
(* Bounded inputs for Policy.  The signals are coherent as collect_signals *)
(* builds them: an invalid token is not a valid session, and trap details  *)
(* exist only once a trap was activated.                                   *)
(***************************************************************************)
EXTENDS Policy

\* Credentials: none, a valid session, or a token that does not verify.
Credentials == {[valid |-> FALSE, invalid |-> FALSE],
                [valid |-> TRUE, invalid |-> FALSE],
                [valid |-> FALSE, invalid |-> TRUE]}

TrapStates ==
    {[activated |-> FALSE, phase |-> "none", replays |-> 0, families |-> 0]}
    \cup [activated : {TRUE}, phase : Phases \ {"none"}, replays : 0..1, families : 1..2]

SignalsOf(crawlers, traps, flags) ==
    {[invalid_token |-> c.invalid, development |-> d, valid |-> c.valid,
      crawler |-> crawler, activated |-> t.activated, phase |-> t.phase,
      replays |-> t.replays, families |-> t.families, burst |-> f[1],
      header_inconsistent |-> f[2], webdriver |-> f[3],
      browser_navigation |-> f[4]] :
        c \in Credentials, d \in BOOLEAN, crawler \in crawlers, t \in traps, f \in flags}

Flags == BOOLEAN \X BOOLEAN \X BOOLEAN \X BOOLEAN

\* Every coherent signal, with at most one route rule, on one path.
OneRule == {<< >>} \cup {<<[pattern |-> {"/a"}, action |-> a]>> : a \in RouteActions}

AllSignals ==
    [endpoint : Endpoints, signals : SignalsOf(Crawlers, TrapStates, Flags),
     routes : OneRule, strictness : {"balanced", "strict"}, path : {"/a"}]

\* Route rules of up to three entries, on two paths, with fewer signals.
Rules == [pattern : {{"/a"}, {"/a", "/b"}}, action : RouteActions]

RuleLists == {<< >>} \cup {<<r>> : r \in Rules}
             \cup {<<r, s>> : r, s \in Rules} \cup {<<r, s, t>> : r, s, t \in Rules}

FewTraps == {t \in TrapStates : t.phase # "before_verification" /\ t.replays = 0
                                /\ t.families < 2}

RuleSignals ==
    [endpoint : {"gateway"},
     signals : SignalsOf({"ai", "unknown"}, FewTraps, {<<FALSE, FALSE, FALSE, TRUE>>,
                                                        <<TRUE, FALSE, FALSE, TRUE>>}),
     routes : RuleLists, strictness : {"balanced"}, path : {"/a", "/b"}]

Considered == AllSignals \cup RuleSignals
=============================================================================
