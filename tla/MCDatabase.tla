----------------------------- MODULE MCDatabase -----------------------------
(***************************************************************************)
(* Instances of Database for TLC: a profile that is removed and added      *)
(* again, and two handlers.                                                *)
(***************************************************************************)
EXTENDS Database, TLC

CONSTANTS t1, t2, c1, c2, c3, c4

TwoTasks == {t1, t2}
FourConnections == {c1, c2, c3, c4}
Symmetry == Permutations(TwoTasks) \cup Permutations(FourConnections)
=============================================================================
