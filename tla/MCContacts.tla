----------------------------- MODULE MCContacts -----------------------------
(***************************************************************************)
(* An instance of Contacts for TLC.                                        *)
(***************************************************************************)
EXTENDS Contacts, TLC

CONSTANTS alice, bob, k1, k2, h1, h2, s1, s2

TwoPeers == {alice, bob}
TwoKeys == {k1, k2}
TwoHandlers == {h1, h2}
TwoSavers == {s1, s2}
Symmetry == Permutations(TwoPeers) \cup Permutations(TwoKeys) \cup Permutations(Savers) \cup Permutations(Handlers)
=============================================================================
