---------------------------- MODULE MCSecureJoin ----------------------------
(***************************************************************************)
(* Instances of SecureJoin for TLC: two accounts, so that two joins are    *)
(* either two of one account or one of each towards the other.             *)
(***************************************************************************)
EXTENDS SecureJoin, TLC

CONSTANTS alice, bob, j1, j2, h1, h2

TwoAccounts == {alice, bob}
TwoJoins == {j1, j2}
OneJoin == {j1}
OneHandler == {h1}
TwoHandlers == {h1, h2}
JoinSymmetry ==
    Permutations(TwoAccounts) \cup Permutations(TwoJoins) \cup Permutations(TwoHandlers)
=============================================================================
