------------------------- MODULE MCRequestControls -------------------------
(***************************************************************************)
(* Small instances of RequestControls: a burst of requests of one address  *)
(* around two windows.                                                     *)
(***************************************************************************)
EXTENDS RequestControls, TLC

CONSTANT Client     \* the one address

OneClient == {Client}

SmallLimits == [rate |-> 2, challenge |-> 1]

Burst == {[kind |-> "plain", client |-> Client], [kind |-> "challenge", client |-> Client],
          [kind |-> "probe", client |-> Client], [kind |-> "plain", client |-> NoClient]}

Symmetry == Permutations(Requests)
=============================================================================
