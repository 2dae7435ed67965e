---------------------------- MODULE MCTransport ----------------------------
(***************************************************************************)
(* Instances of Transport for TLC: two callers, the fewest that can wait   *)
(* on one socket while the other replaces it.                              *)
(***************************************************************************)
EXTENDS Transport, TLC

CONSTANTS c1, c2

TwoCallers == {c1, c2}
CallerSymmetry == Permutations(TwoCallers)
=============================================================================
