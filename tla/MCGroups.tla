------------------------------ MODULE MCGroups ------------------------------
(***************************************************************************)
(* An instance of Groups for TLC.                                          *)
(***************************************************************************)
EXTENDS Groups, TLC

CONSTANTS h1, h2, alice, bob, n1, n2

TwoHandlers == {h1, h2}
TwoMembers == {alice, bob}
TwoNames == {n1, n2}
Symmetry == Permutations(Handlers) \cup Permutations(Members) \cup Permutations(Names)
=============================================================================
