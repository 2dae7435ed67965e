----------------------------- MODULE Mailboxes -----------------------------
(***************************************************************************)
(* One cursor and one set of seen UIDs for every mailbox and relay:        *)
(*   account/base.ts      handlePushMessage, connect                       *)
(*   account/inbox.ts     processIncomingRaw up to its first await         *)
(*   account/features.ts  backgroundFetch, setWatchedMailboxes             *)
(* A UID names a mail of one mailbox of one relay.  MailSync has a single  *)
(* mailbox and what becomes of a mail; here a mail counts as processed     *)
(* once its UID is marked, and nothing is persisted.                       *)
(***************************************************************************)
EXTENDS Naturals, Sequences, SequencesExt

CONSTANTS
    Inbox,    \* the mailbox the primary relay announces
    Folders,  \* the other mailboxes of the primary relay
    Relays,   \* the other relays, with a mailbox each
    MaxUid,   \* bound: mails per mailbox
    Pushers   \* bound: pushes being handled at once

ASSUME PlaceAssumption == Inbox \notin Folders \cup Relays /\ Folders \cap Relays = {}
ASSUME UidAssumption == MaxUid \in Nat

Boxes == {Inbox} \cup Folders
Announced == {Inbox} \cup Relays
Uids == 1..MaxUid
Mails == [box : Boxes \cup Relays, uid : Uids]
Watchable == {w \in UNION {[1..n -> Boxes] : n \in {1, 2}} : IsInjective(w)}

VARIABLES
    top,        \* relays: highest UID of every mailbox
    pushed,     \* relays: highest UID announced on each socket
    seenUIDs, lastSeenUid,
    push,       \* the mail a push announced, for the handler that fetches it
    loop,       \* backgroundFetch: its await point, mailboxes left, list, cursor it began with
    processed,  \* history: how often a mail was taken for processing
    missed,     \* history: mails of the primary relay whose fetch failed
    owed        \* history: mails in the watched mailboxes when the loop began

boxVars == <<top, pushed, seenUIDs, lastSeenUid, push, loop, processed, missed, owed>>
account == <<seenUIDs, lastSeenUid, processed>>

Nobody == [box |-> Inbox, uid |-> 0]
Resting == [at |-> "idle", boxes |-> <<>>, todo |-> {}, uid |-> 0, since |-> 0]
Lowest(S) == CHOOSE u \in S : \A v \in S : u <= v

BoxInit ==
    /\ top = [b \in Boxes \cup Relays |-> 0] /\ pushed = [a \in Announced |-> 0]
    /\ seenUIDs = {} /\ lastSeenUid = 0
    /\ push = [h \in Pushers |-> Nobody] /\ loop = Resting
    /\ processed = [m \in Mails |-> 0] /\ missed = {} /\ owed = {}

\* Mutant: only a UID above the cursor is marked.
MarksAboveCursor(m) ==
    IF m.uid \in seenUIDs THEN UNCHANGED account
    ELSE /\ seenUIDs' = IF m.uid > lastSeenUid THEN seenUIDs \cup {m.uid} ELSE seenUIDs
         /\ lastSeenUid' = IF m.uid > lastSeenUid THEN m.uid ELSE lastSeenUid
         /\ processed' = [processed EXCEPT ![m] = @ + 1]

\* processIncomingRaw: a UID that was seen is dropped, any other is marked.
ProcessIncomingRaw(m) ==
    IF m.uid \in seenUIDs THEN UNCHANGED account
    ELSE /\ seenUIDs' = seenUIDs \cup {m.uid}
         /\ lastSeenUid' = IF m.uid > lastSeenUid THEN m.uid ELSE lastSeenUid
         /\ processed' = [processed EXCEPT ![m] = @ + 1]

Deliver(b) ==
    /\ top[b] < MaxUid /\ top' = [top EXCEPT ![b] = @ + 1]
    /\ UNCHANGED <<pushed, account, push, loop, missed, owed>>

\* A socket is opened again, and the relay announces what is above the cursor
\* connect() read some time ago.
Reconnect(a) ==
    /\ \E u \in 0..lastSeenUid : pushed' = [pushed EXCEPT ![a] = u]
    /\ UNCHANGED <<top, account, push, loop, missed, owed>>

\* handlePushMessage up to its fetch.
PushArrives(h, a) ==
    /\ push[h] = Nobody /\ pushed[a] < top[a]
    /\ pushed' = [pushed EXCEPT ![a] = @ + 1]
    /\ push' = [push EXCEPT ![h] = [box |-> a, uid |-> pushed[a] + 1]]
    /\ UNCHANGED <<top, account, loop, missed, owed>>

\* Whatever relay announced the mail, the primary relay's mailbox is asked.
PushFetched(h) ==
    LET m == [box |-> Inbox, uid |-> push[h].uid] IN
    /\ push[h] # Nobody /\ m.uid <= top[Inbox]
    /\ ProcessIncomingRaw(m)
    /\ push' = [push EXCEPT ![h] = Nobody]
    /\ UNCHANGED <<top, pushed, loop, missed, owed>>

\* It has no such mail, or both requests fail.
PushFails(h) ==
    /\ push[h] # Nobody
    /\ missed' = missed \cup ({push[h]} \ {m \in Mails : m.box \in Relays})
    /\ push' = [push EXCEPT ![h] = Nobody]
    /\ UNCHANGED <<top, pushed, account, loop, owed>>

\* backgroundFetch: the cursor is read once, and so is watchedMailboxes, which
\* setWatchedMailboxes sets to any list at any time and nothing else reads.
BgStart(w) ==
    /\ loop.at = "idle"
    /\ loop' = [Resting EXCEPT !.at = "list", !.boxes = w, !.since = lastSeenUid]
    /\ owed' = {m \in Mails : m.box \in ToSet(w) /\ m.uid <= top[m.box]}
    /\ UNCHANGED <<top, pushed, account, push, missed>>

\* The mailbox is listed, above the cursor; or the request fails.
BgListed ==
    LET b == Head(loop.boxes) IN
    /\ loop.at = "list" /\ loop.boxes # <<>>
    /\ \/ /\ loop' = [loop EXCEPT !.at = "next", !.todo = {u \in Uids : loop.since < u /\ u <= top[b]}]
          /\ UNCHANGED missed
       \/ /\ loop' = [loop EXCEPT !.boxes = Tail(@)]
          /\ missed' = missed \cup {m \in owed : m.box = b}
    /\ UNCHANGED <<top, pushed, account, push, owed>>

\* Mutant: what the cursor has passed is taken for seen.
BgNextPassed ==
    /\ loop.at = "next" /\ loop.todo # {}
    /\ LET u == Lowest(loop.todo) IN
       loop' = [loop EXCEPT !.todo = @ \ {u}, !.uid = IF u <= lastSeenUid THEN 0 ELSE u,
                            !.at = IF u <= lastSeenUid THEN "next" ELSE "fetch"]
    /\ UNCHANGED <<top, pushed, account, push, missed, owed>>

\* The next UID of the list, skipped when a mail with it was seen.
BgNext ==
    /\ loop.at = "next" /\ loop.todo # {}
    /\ LET u == Lowest(loop.todo) IN
       loop' = [loop EXCEPT !.todo = @ \ {u}, !.uid = IF u \in seenUIDs THEN 0 ELSE u,
                            !.at = IF u \in seenUIDs THEN "next" ELSE "fetch"]
    /\ UNCHANGED <<top, pushed, account, push, missed, owed>>

\* The mail's body is there and it is processed, or the request fails.
BgFetched ==
    LET m == [box |-> Head(loop.boxes), uid |-> loop.uid] IN
    /\ loop.at = "fetch"
    /\ \/ ProcessIncomingRaw(m) /\ UNCHANGED missed
       \/ missed' = missed \cup {m} /\ UNCHANGED account
    /\ loop' = [loop EXCEPT !.at = "next", !.uid = 0]
    /\ UNCHANGED <<top, pushed, push, owed>>

\* The list of a mailbox is through.
BgNextBox ==
    /\ loop.at = "next" /\ loop.todo = {}
    /\ loop' = [loop EXCEPT !.at = "list", !.boxes = Tail(@)]
    /\ UNCHANGED <<top, pushed, account, push, missed, owed>>

BgDone ==
    /\ loop.at = "list" /\ loop.boxes = <<>>
    /\ loop' = Resting /\ owed' = {}
    /\ UNCHANGED <<top, pushed, account, push, missed>>

BoxNext ==
    \/ \E b \in Boxes \cup Relays : Deliver(b)
    \/ \E a \in Announced : Reconnect(a) \/ \E h \in Pushers : PushArrives(h, a)
    \/ \E h \in Pushers : PushFetched(h) \/ PushFails(h)
    \/ \E w \in Watchable : BgStart(w)
    \/ BgListed \/ BgNext \/ BgFetched \/ BgNextBox \/ BgDone

BoxSpec == BoxInit /\ [][BoxNext]_boxVars

-----------------------------------------------------------------------------
(* Properties *)

\* A UID the account has seen stands for one mail that was processed once:
\* overlapping pushes and the loop never take a UID twice, of whatever mailbox.
OneMailPerUid ==
    \A u \in Uids :
        LET taken == {m \in Mails : m.uid = u /\ processed[m] > 0} IN
        /\ u \in seenUIDs <=> taken # {}
        /\ \A m, n \in taken : m = n /\ processed[m] = 1

\* An owed mail was processed, or passed over for a cause.
CauseKnown ==
    \A m \in owed \ missed :
        \/ processed[m] > 0 \/ m.uid <= loop.since
        \/ \E n \in Mails : n.uid = m.uid /\ n # m /\ processed[n] > 0

\* What a fetch of the watched mailboxes leaves out has a cause: a request
\* failed, its UID was at or below the cursor the fetch began with, or a mail
\* of another mailbox has the same UID.
LossIsAClash == [][BgDone => CauseKnown]_boxVars

-----------------------------------------------------------------------------
(* What comments and docs say and the code does not keep. *)

\* "Fetch new messages from all watched mailboxes and process them into the
\* store" (features.ts:193): when it is done, every mail that was there when it
\* began was processed, unless its fetch failed or a push is still fetching it.
WatchedAreFetched ==
    [][BgDone => \A m \in owed \ missed : processed[m] > 0 \/ \E h \in Pushers : push[h] = m]_boxVars

\* "Handle a WS push message" (base.ts:1014): a mail that was announced and
\* fetched without a failure was processed.
PushedIsProcessed ==
    [][\A h \in Pushers : PushFetched(h) => processed'[push[h]] > 0]_boxVars
-----------------------------------------------------------------------------
\* What the sockets, the pushes and the loop are about: mails that may exist, in
\* mailboxes that do.
Filed ==
    /\ top \in [Boxes \cup Relays -> 0..MaxUid] /\ pushed \in [Announced -> Nat]
    /\ seenUIDs \subseteq Uids /\ lastSeenUid \in Nat
    /\ push \in [Pushers -> Mails \cup {Nobody}]
    /\ loop \in [at : {"idle", "list", "next", "fetch"}, boxes : Seq(Boxes), todo : SUBSET Uids,
                 uid : 0..MaxUid, since : Nat]
    /\ loop.at \in {"next", "fetch"} => loop.boxes # <<>>
    /\ loop.at = "fetch" => loop.uid # 0
    /\ processed \in [Mails -> Nat] /\ owed \subseteq Mails

\* Why LossIsAClash holds: an owed mail is in a mailbox that is still to be listed,
\* or on the list of the one the loop is at, until its UID is seen.
Ahead == IF loop.at = "list" THEN loop.boxes ELSE Tail(loop.boxes)
Waits(m) ==
    \/ m.box \in ToSet(Ahead)
    \/ /\ loop.at \in {"next", "fetch"} /\ m.box = Head(loop.boxes)
       /\ m.uid \in loop.todo \/ (loop.at = "fetch" /\ m.uid = loop.uid)
Owing ==
    /\ \A m \in owed : m.uid <= top[m.box]
    /\ loop.at = "idle" \/ \A m \in owed \ missed :
          m.uid <= loop.since \/ m.uid \in seenUIDs \/ Waits(m)

BInv == Filed /\ OneMailPerUid /\ Owing
=============================================================================
