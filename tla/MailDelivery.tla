---------------------------- MODULE MailDelivery ----------------------------
(***************************************************************************)
(* What the inbound pipeline of one account promises, said without relays, *)
(* sockets, handlers or cursors: within one run of the program (a session) *)
(* every mail is announced at most once, and a message only reaches the    *)
(* message store after some mail that carries it was announced.  A restart *)
(* forgets the announcements and keeps the store.  MailSync implements it. *)
(***************************************************************************)
EXTENDS Naturals

CONSTANTS
    Mails,      \* the mails of the mailbox
    MsgId       \* MsgId[m]: the Message-ID mail m carries

VARIABLES
    notices,    \* notices[m]: times m was announced to the application in this session
    stored      \* the Message-IDs in the message store

dvars == <<notices, stored>>

DInit ==
    /\ notices = [m \in Mails |-> 0]
    /\ stored = {}

\* The application hears of mail m for the first time in this session.
Announce(m) ==
    /\ notices[m] = 0
    /\ notices' = [notices EXCEPT ![m] = 1]
    /\ UNCHANGED stored

\* The message that an announced mail carries becomes durable.
Keep(m) ==
    /\ notices[m] = 1
    /\ stored' = stored \cup {MsgId[m]}
    /\ UNCHANGED notices

NewSession ==
    /\ notices' = [m \in Mails |-> 0]
    /\ UNCHANGED stored

DNext ==
    \/ \E m \in Mails : Announce(m) \/ Keep(m)
    \/ NewSession

DSpec == DInit /\ [][DNext]_dvars
=============================================================================
