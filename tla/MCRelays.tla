------------------------------ MODULE MCRelays ------------------------------
(***************************************************************************)
(* Instances of Relays for TLC: two servers and two identities, so that a  *)
(* relay can be moved, replaced or removed while another one is left.      *)
(***************************************************************************)
EXTENDS Relays, TLC

Symmetric == Permutations(Sites) \cup Permutations(Emails)
                 \cup Permutations(Transports) \cup Permutations(Loads)
=============================================================================
