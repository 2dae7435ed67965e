---------------------------- MODULE MCMailboxes ----------------------------
(***************************************************************************)
(* Instances of Mailboxes for TLC: the primary relay has an Inbox and one  *)
(* more folder, and there may be a second relay.                           *)
(***************************************************************************)
EXTENDS Mailboxes, TLC

CONSTANTS sent, other

OneFolder == {sent}
OneRelay == {other}
=============================================================================
