------------------------------ MODULE MCChats ------------------------------
(***************************************************************************)
(* An instance of Chats for TLC.                                           *)
(***************************************************************************)
EXTENDS Chats, TLC

CONSTANTS h1, h2

TwoHandlers == {h1, h2}
HandlerSymmetry == Permutations(Handlers)
=============================================================================
