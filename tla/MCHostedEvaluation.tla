------------------------- MODULE MCHostedEvaluation -------------------------
(***************************************************************************)
(* Small instances of HostedEvaluation: two runs whose agents may exchange *)
(* what they learn.                                                        *)
(***************************************************************************)
EXTENDS HostedEvaluation, TLC

Symmetry == Permutations(Runs)
=============================================================================
