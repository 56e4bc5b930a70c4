----------------------------- MODULE MCGateway -----------------------------
(***************************************************************************)
(* Small instances of Gateway: a few requests of each kind, served once.   *)
(***************************************************************************)
EXTENDS Gateway, TLC

CONSTANTS Issues, Verifies, Traps, Gets     \* the requests of each kind

AllHandlers == Issues \cup Verifies \cup Traps \cup Gets

Kind ==
    [h \in AllHandlers |->
        CASE h \in Issues -> "issue"
          [] h \in Verifies -> "verify"
          [] h \in Traps -> "trap"
          [] h \in Gets -> "get"]

Symmetry == Permutations(Sessions) \cup Permutations(Issues)
             \cup Permutations(Verifies) \cup Permutations(Gets)
=============================================================================
