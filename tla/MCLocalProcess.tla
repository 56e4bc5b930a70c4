-------------------------- MODULE MCLocalProcess --------------------------
(***************************************************************************)
(* Small instances of LocalProcess.                                        *)
(***************************************************************************)
EXTENDS LocalProcess, TLC

Symmetry == Permutations(Requests)
=============================================================================
