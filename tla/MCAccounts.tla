----------------------------- MODULE MCAccounts -----------------------------
(***************************************************************************)
(* An instance of Accounts for TLC: two emails, one of which may have a    *)
(* profile in the database when the page opens, restored by the host or    *)
(* not, with the stored password or another one.                           *)
(***************************************************************************)
EXTENDS Accounts, TLC

CONSTANTS p1, p2, alice, bob, old, new

TwoProcs == {p1, p2}
TwoEmails == {alice, bob}
TwoPasswords == {old, new}
Restores == {<<>>, <<[email |-> alice, pw |-> new], [email |-> alice, pw |-> old]>>}
Stored == {[e \in TwoEmails |-> IF e = alice THEN s ELSE None] : s \in {None, [pw |-> old, key |-> 0]}}
Symmetry == Permutations(Procs)
=============================================================================
