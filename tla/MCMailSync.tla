---------------------------- MODULE MCMailSync ----------------------------
(***************************************************************************)
(* The instance of MailSync for TLC.  A push handler and backgroundFetch   *)
(* race for one mail and finish two in any order; two mails are enough for *)
(* a gap behind the cursor: a chat message and one handled without a       *)
(* bubble.  MailSyncProofs covers any number of handlers and mails.        *)
(***************************************************************************)
EXTENDS MailSync

CONSTANTS h1, l1, idA, idB

OnePusher == {h1}
OneLoader == {l1}
MixedKinds == [u \in Uids |-> IF u = 2 THEN "control" ELSE "chat"]
DistinctIds == [u \in Uids |-> IF u = 1 THEN idA ELSE idB]
=============================================================================
