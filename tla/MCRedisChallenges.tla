------------------------- MODULE MCRedisChallenges -------------------------
(***************************************************************************)
(* Small instances of RedisChallenges for TLC.  Requests are made once and *)
(* are interchangeable, so they may be permuted; so may the challenges.    *)
(***************************************************************************)
EXTENDS RedisChallenges, TLC

\* The deployed gateway: create_challenge passes ttl_seconds=None on.
GatewayTtl == {NoTtl}

\* A caller of the store that uses its default, as the tests do.
StoreTtl == {NoTtl, 1}

Symmetry == Permutations(Challenges) \cup Permutations(Requests)
             \cup Permutations(Sessions)
=============================================================================
