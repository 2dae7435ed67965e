------------------------------- MODULE Chats -------------------------------
(***************************************************************************)
(* One 1:1 chat of one account, its messages, and everything that reads    *)
(* and writes their rows across awaits:                                    *)
(*   account/inbox.ts      storeIncomingMessage, applyReadReceipt,         *)
(*                         deleteChat, deleteLocalMessage, markChatRead,   *)
(*                         markMessageSeen, drafts, chat flags and sweep   *)
(*   account/messaging.ts  sendX, persistOutgoing                          *)
(*   store.ts              MemoryStore and IndexedDBStore                  *)
(* MemoryStore hands out the row objects themselves, so that whoever holds *)
(* one sees and makes every change at once; IndexedDBStore hands out       *)
(* copies.  A row carries the identity of its object in `id' for that.  Of *)
(* a chat row the unread counter is kept, of a message row its state.  The *)
(* others fields ride along: a handler that changes one of them writes     *)
(* back the row it read.                                                   *)
(***************************************************************************)
EXTENDS Naturals, FiniteSets

CONSTANTS
    Incoming,   \* messages of the peer, by the order of their timestamps
    Outgoing,   \* messages of this account, likewise
    Handlers,   \* operations that may be under way at once
    Copies,     \* bound: times the mail of one message is delivered
    MaxOps,     \* bound: operations of the application, requests of the peer
    Page,       \* getChatMessages' default limit
    NoRow       \* what the store returns for a key it does not have

Msgs == Incoming \cup Outgoing

ASSUME MsgsAssumption == Msgs \subseteq Nat /\ Incoming \cap Outgoing = {}
ASSUME BoundsAssumption == Copies \in Nat /\ MaxOps \in Nat /\ Page \in Nat
ChatRows == [id : Nat, unread : Nat]
MsgRows == [id : Nat, seen : BOOLEAN]

ASSUME NoRowAssumption == NoRow \notin ChatRows /\ NoRow \notin MsgRows

\* Mail of the peer: a message, a receipt for one of ours, a request to delete
\* one, a reaction to one.
Mails == {"chat", "receipt", "delete", "reaction"}
\* Operations of the application.
Calls == {"send", "sendDelete", "sendAmend", "deleteLocal", "deleteChat", "markRead",
          "markSeen", "set", "flag", "sweep"}
NoJob == [op |-> "none", msg |-> 0]

VARIABLES
    shared,   \* TRUE: MemoryStore, FALSE: IndexedDBStore
    chat,     \* the row of the chat
    row,      \* row[m]: the row of message m
    objects,  \* row objects created so far
    pc,       \* pc[h]: what operation h does when its await is over
    job,      \* job[h]: the operation and its message
    cbuf,     \* cbuf[h]: the chat row h holds
    mbuf,     \* mbuf[h][m]: the row of m h holds
    inbox,    \* inbox[m]: copies of the mail of m still on their way
    mdns,     \* outgoing messages whose receipt is on its way
    ops,      \* operations and requests so far
    accepted, \* outgoing messages the relay took
    peerRead, \* outgoing messages the peer has read
    ownSeen,  \* outgoing messages the application has marked seen itself
    counted,  \* history: arrivals counted since the counter was last reset
    filed,    \* history: filed[m]: how often an arrival of m was stored
    receipts, \* history: receipts[m]: read receipts sent for m
    missed,   \* history: outgoing messages with a receipt that found no row
    stray     \* history: messages written back after the row had gone, stored by
              \* an operation that had found no chat, or beyond the page of deleteChat

store == <<chat, row, objects>>
bufs == <<cbuf, mbuf>>
world == <<inbox, mdns, accepted, peerRead, ownSeen>>
history == <<counted, filed, receipts, missed, stray>>
vars == <<shared, store, pc, job, bufs, ops, world, history>>

NoMsgs == [m \in Msgs |-> NoRow]

Init ==
    /\ shared \in BOOLEAN
    /\ chat = NoRow /\ row = NoMsgs /\ objects = 0
    /\ pc = [h \in Handlers |-> "idle"] /\ job = [h \in Handlers |-> NoJob]
    /\ cbuf = [h \in Handlers |-> NoRow] /\ mbuf = [h \in Handlers |-> NoMsgs]
    /\ inbox = [m \in Incoming |-> Copies] /\ mdns = {}
    /\ ops = 0
    /\ accepted = {} /\ peerRead = {} /\ ownSeen = {}
    /\ counted = 0 /\ missed = {} /\ stray = {}
    /\ filed = [m \in Incoming |-> 0] /\ receipts = [m \in Incoming |-> 0]

-----------------------------------------------------------------------------
\* The store

\* Mutant: MemoryStore hands out copies too.
SameNever(b, r) == FALSE

\* b is the object that is now written as r: in MemoryStore its holder sees r.
Same(b, r) == shared /\ b # NoRow /\ b.id = r.id

Fresh == IF shared THEN objects + 1 ELSE 0
NewChat == [id |-> Fresh, unread |-> 0]
NewMsg == [id |-> Fresh, seen |-> FALSE]

\* Operation h goes on to l; one that ends lets go of its rows.
Goto(h, l) ==
    /\ pc' = [pc EXCEPT ![h] = l]
    /\ job' = [job EXCEPT ![h] = IF l = "idle" THEN NoJob ELSE @]
Kept(l, b) == IF l = "idle" THEN NoRow ELSE b
KeptAll(l, b) == IF l = "idle" THEN NoMsgs ELSE b

\* Continue at l with the chat row c and the message rows b in hand.
Hold(h, l, c, b) ==
    /\ Goto(h, l)
    /\ cbuf' = [cbuf EXCEPT ![h] = Kept(l, c)] /\ mbuf' = [mbuf EXCEPT ![h] = KeptAll(l, b)]
Skip(h, l) == Hold(h, l, cbuf[h], mbuf[h])

\* saveChat(c), then l.  n is how many arrivals the row should count afterwards;
\* an object that is not the one in the store brings its own counter along.
SaveChat(h, c, n, l) ==
    /\ chat' = c
    /\ counted' = IF chat # NoRow /\ chat.id = c.id THEN n ELSE c.unread
    /\ cbuf' = [g \in Handlers |-> IF g = h THEN Kept(l, c)
                                   ELSE IF Same(cbuf[g], c) THEN c ELSE cbuf[g]]
    /\ mbuf' = [mbuf EXCEPT ![h] = KeptAll(l, @)]
    /\ Goto(h, l)
    /\ UNCHANGED row

\* saveMessage(r) for message m, with b the message rows h keeps, then l.
SaveMessage(h, m, r, b, l) ==
    /\ row' = [row EXCEPT ![m] = r]
    /\ mbuf' = [g \in Handlers |-> IF g = h THEN KeptAll(l, b)
                                   ELSE IF Same(mbuf[g][m], r) THEN [mbuf[g] EXCEPT ![m] = r]
                                   ELSE mbuf[g]]
    /\ cbuf' = [cbuf EXCEPT ![h] = Kept(l, @)]
    /\ pc' = [pc EXCEPT ![h] = l]
    /\ job' = [job EXCEPT ![h] = IF l = "idle" THEN NoJob ELSE [@ EXCEPT !.msg = m]]
    /\ UNCHANGED chat

\* A row written back after it was deleted strays.
WriteBack(h, m, r, b, l) ==
    /\ SaveMessage(h, m, r, b, l)
    /\ stray' = IF row[m] = NoRow THEN stray \cup {m} ELSE stray
    /\ UNCHANGED objects

\* getChatMessages(chatId, limit, 0): the oldest rows first.
Stored == {m \in Msgs : row[m] # NoRow}
Oldest(n) == {m \in Stored : Cardinality({k \in Stored : k < m}) < n}
Listed(ms) == [m \in Msgs |-> IF m \in ms THEN row[m] ELSE NoRow]
Held(h) == {m \in Msgs : mbuf[h][m] # NoRow}
Without(h, m) == [mbuf[h] EXCEPT ![m] = NoRow]
First(ms) == {m \in ms : \A k \in ms : m <= k}

-----------------------------------------------------------------------------
\* Steps several operations share

\* getChat, the first half of getOrCreateChat and of every change of the row.
ReadChat(h, found, missing) ==
    Hold(h, IF chat = NoRow THEN missing ELSE found, chat, mbuf[h]) /\ UNCHANGED store

\* Where getOrCreateChat returns to.
AfterOpen(op) ==
    CASE op = "chat" -> "ephemeral" [] op = "delete" -> "erase"
      [] op \in {"receipt", "reaction"} -> "target" [] op = "send" -> "lookup"

\* The second half of getOrCreateChat: another operation may have created the
\* row in between, it is overwritten.
CreateChat(h) ==
    /\ pc[h] \in {"create", "recreate"}
    /\ SaveChat(h, NewChat, 0, IF pc[h] = "create" THEN AfterOpen(job[h].op) ELSE "idle")
    /\ objects' = Fresh
    /\ UNCHANGED <<shared, ops, world, filed, receipts, missed, stray>>

\* getMessage of the message a handler is about; without a row it ends.
ReadTarget(h) ==
    /\ pc[h] = "target"
    /\ LET m == job[h].msg IN
       /\ Hold(h, IF row[m] = NoRow THEN "idle" ELSE "amend", cbuf[h], [mbuf[h] EXCEPT ![m] = row[m]])
       /\ missed' = IF job[h].op = "receipt" /\ row[m] = NoRow THEN missed \cup {m} ELSE missed
    /\ UNCHANGED <<shared, store, ops, world, counted, filed, receipts, stray>>

\* Mutant: the test of the direction is inverted.
AmendInverted(h) ==
    /\ pc[h] = "amend"
    /\ LET m == job[h].msg
           r == mbuf[h][m]
       IN IF job[h].op = "receipt" /\ m \in Outgoing
          THEN Skip(h, "idle") /\ UNCHANGED <<store, stray>>
          ELSE WriteBack(h, m, r, mbuf[h], "idle")
    /\ UNCHANGED <<shared, ops, world, counted, filed, receipts, missed>>

\* applyReadReceipt sets the state of an outgoing message; a reaction or an edit
\* changes other fields and writes the row back with the state it has read.
Amend(h) ==
    /\ pc[h] = "amend"
    /\ LET m == job[h].msg
           r == mbuf[h][m]
       IN IF job[h].op = "receipt"
          THEN IF m \in Outgoing
               THEN WriteBack(h, m, [r EXCEPT !.seen = TRUE], mbuf[h], "idle")
               ELSE Skip(h, "idle") /\ UNCHANGED <<store, stray>>
          ELSE WriteBack(h, m, r, mbuf[h], "idle")
    /\ UNCHANGED <<shared, ops, world, counted, filed, receipts, missed>>

\* deleteMessage of one message.
Erase(h) ==
    /\ pc[h] = "erase"
    /\ row' = [row EXCEPT ![job[h].msg] = NoRow]
    /\ Skip(h, CASE job[h].op = "delete" -> "rewrite"
                 [] job[h].op = "deleteLocal" -> "preview"
                 [] OTHER -> "idle")
    /\ UNCHANGED <<shared, chat, objects, ops, world, history>>

\* deleteLocalMessage reads the chat, to refresh its preview if that was the message.
PreviewDeleted(h) ==
    /\ pc[h] = "preview"
    /\ \E l \in {"rewrite", "idle"} : ReadChat(h, l, "idle")
    /\ UNCHANGED <<shared, ops, world, history>>

\* A setting is written with the row that was read, or with a new one.
WriteSetting(h, l) ==
    /\ SaveChat(h, IF cbuf[h] = NoRow THEN NewChat ELSE cbuf[h], counted, l)
    /\ objects' = IF cbuf[h] = NoRow THEN Fresh ELSE objects

\* The chat row is written back with another preview, draft, flag or timer.
Rewrite(h) ==
    /\ pc[h] = "rewrite"
    /\ \E l \in IF job[h].op = "send" THEN {"idle", "reply"} ELSE {"idle"} :
          SaveChat(h, cbuf[h], counted, l)
    /\ UNCHANGED <<shared, objects, ops, world, filed, receipts, missed, stray>>

\* Deletes the listed messages one by one (deleteChat, sweepEphemeralMessages).
EraseListed(h) ==
    /\ pc[h] = "erasing"
    /\ IF Held(h) = {} THEN Skip(h, "idle") /\ UNCHANGED row
       ELSE \E m \in First(Held(h)) :
               /\ row' = [row EXCEPT ![m] = NoRow]
               /\ Hold(h, "erasing", cbuf[h], Without(h, m))
    /\ UNCHANGED <<shared, chat, objects, ops, world, history>>

-----------------------------------------------------------------------------
\* Incoming mail: storeIncomingMessage

Start(h, op, m) ==
    /\ pc[h] = "idle"
    /\ job' = [job EXCEPT ![h] = [op |-> op, msg |-> m]]

\* The mail is parsed; getOrCreateChat reads the row of the sender's chat.
Deliver(h, op, m) ==
    /\ Start(h, op, m)
    /\ pc' = [pc EXCEPT ![h] = IF chat = NoRow THEN "create" ELSE AfterOpen(op)]
    /\ cbuf' = [cbuf EXCEPT ![h] = chat]
    /\ UNCHANGED <<shared, store, mbuf, accepted, peerRead, ownSeen, history>>

ChatMail(h, m) ==
    /\ inbox[m] > 0
    /\ inbox' = [inbox EXCEPT ![m] = @ - 1]
    /\ Deliver(h, "chat", m)
    /\ UNCHANGED <<mdns, ops>>

ReceiptMail(h, m) ==
    /\ m \in mdns
    /\ mdns' = mdns \ {m}
    /\ Deliver(h, "receipt", m)
    /\ UNCHANGED <<inbox, ops>>

\* A peer may name any message it can know.
PeerRequest(h, op, m) ==
    /\ op \in {"delete", "reaction"}
    /\ ops < MaxOps /\ ops' = ops + 1
    /\ m \in Outgoing => m \in accepted
    /\ Deliver(h, op, m)
    /\ UNCHANGED <<inbox, mdns>>

\* A message that changes the timer writes the chat row first, and creates it if
\* need be.
ReadTimer(h) ==
    /\ pc[h] = "ephemeral"
    /\ \/ ReadChat(h, "timer", "timer")
       \/ Skip(h, "dedup") /\ UNCHANGED store
    /\ UNCHANGED <<shared, ops, world, history>>

SaveTimer(h) ==
    /\ pc[h] = "timer"
    /\ WriteSetting(h, "dedup")
    /\ UNCHANGED <<shared, ops, world, filed, receipts, missed, stray>>

\* The duplicate test.
Dedup(h) ==
    /\ pc[h] = "dedup"
    /\ Skip(h, IF row[job[h].msg] = NoRow THEN "save" ELSE "idle")
    /\ UNCHANGED <<shared, store, ops, world, history>>

SaveIncoming(h) ==
    /\ pc[h] = "save"
    /\ SaveMessage(h, job[h].msg, NewMsg, mbuf[h], "summary")
    /\ objects' = Fresh
    /\ filed' = [filed EXCEPT ![job[h].msg] = @ + 1]
    /\ UNCHANGED <<shared, ops, world, counted, receipts, missed, stray>>

\* Mutant: a chat that went meanwhile is not opened again.
ReadSummaryOnce(h) ==
    /\ pc[h] = "summary"
    /\ ReadChat(h, "count", "idle")
    /\ UNCHANGED <<shared, ops, world, history>>

\* The chat row is read again; if it went, getOrCreateChat starts over.
ReadSummary(h) ==
    /\ pc[h] = "summary"
    /\ ReadChat(h, "count", "reopen")
    /\ UNCHANGED <<shared, ops, world, history>>

Reopen(h) ==
    /\ pc[h] = "reopen"
    /\ ReadChat(h, "idle", "recreate")
    /\ UNCHANGED <<shared, ops, world, history>>

Count(h) ==
    /\ pc[h] = "count"
    /\ SaveChat(h, [cbuf[h] EXCEPT !.unread = @ + 1], counted + 1, "idle")
    /\ UNCHANGED <<shared, objects, ops, world, filed, receipts, missed, stray>>

-----------------------------------------------------------------------------
\* Outgoing mail: sendX, persistOutgoing

Call(h, op, m) == Start(h, op, m) /\ ops < MaxOps /\ ops' = ops + 1

Send(h, m) ==
    /\ Call(h, "send", m)
    /\ m \in Outgoing \ accepted /\ \A g \in Handlers : job[g] # [op |-> "send", msg |-> m]
    /\ pc' = [pc EXCEPT ![h] = "sending"]
    /\ UNCHANGED <<shared, store, bufs, world, history>>

\* The relay takes the mail while the send is pending.
Accept(h) ==
    /\ pc[h] = "sending" /\ job[h].op = "send" /\ job[h].msg \notin accepted
    /\ accepted' = accepted \cup {job[h].msg}
    /\ UNCHANGED <<shared, store, pc, job, bufs, ops, inbox, mdns, peerRead, ownSeen, history>>

\* A send resolves: a message goes through getOrCreateChat.
SentMessage(h) ==
    /\ pc[h] = "sending" /\ job[h].op = "send" /\ job[h].msg \in accepted
    /\ ReadChat(h, "lookup", "create")
    /\ UNCHANGED <<shared, ops, world, history>>

\* A delete request was sent: the message goes here, too.
SentDelete(h) ==
    /\ pc[h] = "sending" /\ job[h].op = "sendDelete"
    /\ Skip(h, "erase")
    /\ UNCHANGED <<shared, store, ops, world, history>>

\* A reaction or an edit was sent: its target is looked up.
SentAmend(h) ==
    /\ pc[h] = "sending" /\ job[h].op = "sendAmend"
    /\ Skip(h, "target")
    /\ UNCHANGED <<shared, store, ops, world, history>>

\* Mutant: a message is persisted although its send rejected.
SendFailsPersists(h) ==
    /\ pc[h] = "sending"
    /\ IF job[h].op = "send" THEN ReadChat(h, "lookup", "create")
       ELSE Skip(h, "idle") /\ UNCHANGED store
    /\ UNCHANGED <<shared, ops, world, history>>

\* A send rejects, whether or not the relay took the mail: nothing is written.
SendFails(h) ==
    /\ pc[h] = "sending"
    /\ Skip(h, "idle")
    /\ UNCHANGED <<shared, store, ops, world, history>>

\* persistOutgoing reads the chat it will write back after the message.
Lookup(h) ==
    /\ pc[h] = "lookup"
    /\ ReadChat(h, "persist", "persist")
    /\ UNCHANGED <<shared, ops, world, history>>

PersistOutgoing(h) ==
    /\ pc[h] = "persist"
    /\ \E l \in IF cbuf[h] = NoRow THEN {"idle", "reply"} ELSE {"rewrite"} :
          SaveMessage(h, job[h].msg, NewMsg, [mbuf[h] EXCEPT ![job[h].msg] = NewMsg], l)
    /\ objects' = Fresh
    /\ stray' = IF cbuf[h] = NoRow THEN stray \cup {job[h].msg} ELSE stray
    /\ UNCHANGED <<shared, ops, world, counted, filed, receipts, missed>>

\* applyReplyTo: a reply that is no text is saved once more, with its parent.
Reply(h) ==
    /\ pc[h] = "reply"
    /\ WriteBack(h, job[h].msg, mbuf[h][job[h].msg], mbuf[h], "idle")
    /\ UNCHANGED <<shared, ops, world, counted, filed, receipts, missed>>

\* sendDelete, sendReaction and sendEdit send first.
SendControl(h, op, m) ==
    /\ op \in {"sendDelete", "sendAmend"} /\ row[m] # NoRow
    /\ Call(h, op, m)
    /\ pc' = [pc EXCEPT ![h] = "sending"]
    /\ UNCHANGED <<shared, store, bufs, world, history>>

\* The peer reads a message it got and its client sends a receipt.
PeerReads(m) ==
    /\ m \in accepted \ peerRead
    /\ peerRead' = peerRead \cup {m} /\ mdns' = mdns \cup {m}
    /\ UNCHANGED <<shared, store, pc, job, bufs, ops, inbox, accepted, ownSeen, history>>

-----------------------------------------------------------------------------
\* Operations of the application on the store

DeleteLocal(h, m) ==
    /\ row[m] # NoRow
    /\ Call(h, "deleteLocal", m)
    /\ pc' = [pc EXCEPT ![h] = "erase"]
    /\ UNCHANGED <<shared, store, bufs, world, history>>

\* The row goes first, then the first page of the messages.
DeleteChat(h) ==
    /\ Call(h, "deleteChat", 0)
    /\ chat' = NoRow
    /\ pc' = [pc EXCEPT ![h] = "relist"]
    /\ UNCHANGED <<shared, row, objects, bufs, world, history>>

ListForDelete(h) ==
    /\ pc[h] = "relist"
    /\ Hold(h, "erasing", cbuf[h], Listed(Oldest(Page)))
    /\ stray' = stray \cup (Stored \ Oldest(Page))
    /\ UNCHANGED <<shared, store, ops, world, counted, filed, receipts, missed>>

\* sweepEphemeralMessages: some of the stored messages have expired.
Sweep(h) ==
    /\ Call(h, "sweep", 0)
    /\ \E ms \in SUBSET Stored :
          ms # {} /\ pc' = [pc EXCEPT ![h] = "erasing"] /\ mbuf' = [mbuf EXCEPT ![h] = Listed(ms)]
    /\ UNCHANGED <<shared, store, cbuf, world, history>>

\* A draft, the timer and the image create the row if need be (set); archive,
\* pin, mute and removeDraft do not (flag).  Each writes back the row it read.
Change(h, op) ==
    /\ op \in {"set", "flag"}
    /\ op = "flag" => chat # NoRow
    /\ Call(h, op, 0)
    /\ pc' = [pc EXCEPT ![h] = "change"] /\ cbuf' = [cbuf EXCEPT ![h] = chat]
    /\ UNCHANGED <<shared, store, mbuf, world, history>>

SaveChange(h) ==
    /\ pc[h] = "change"
    /\ WriteSetting(h, "idle")
    /\ UNCHANGED <<shared, ops, world, filed, receipts, missed, stray>>

MarkChatRead(h) ==
    /\ chat # NoRow
    /\ Call(h, "markRead", 0)
    /\ pc' = [pc EXCEPT ![h] = "reset"] /\ cbuf' = [cbuf EXCEPT ![h] = chat]
    /\ UNCHANGED <<shared, store, mbuf, world, history>>

ResetUnread(h) ==
    /\ pc[h] = "reset"
    /\ SaveChat(h, [cbuf[h] EXCEPT !.unread = 0], 0, "list")
    /\ UNCHANGED <<shared, objects, ops, world, filed, receipts, missed, stray>>

ListForRead(h) ==
    /\ pc[h] = "list"
    /\ Hold(h, "reading", NoRow, Listed(Stored))
    /\ UNCHANGED <<shared, store, ops, world, history>>

\* The next listed incoming message that is not seen yet.
ReadNext(h) ==
    /\ pc[h] = "reading"
    /\ LET unseen == {m \in Held(h) \cap Incoming : ~mbuf[h][m].seen} IN
       IF unseen = {} THEN Skip(h, "idle") /\ UNCHANGED <<store, stray>>
       ELSE \E m \in First(unseen) :
               LET r == [mbuf[h][m] EXCEPT !.seen = TRUE]
               IN WriteBack(h, m, r, [mbuf[h] EXCEPT ![m] = r], "mdn")
    /\ UNCHANGED <<shared, ops, world, counted, filed, receipts, missed>>

\* markMessageSeen looks at the direction only for the receipt: it marks a message
\* of ours seen, too.
MarkSeen(h, m) ==
    /\ row[m] # NoRow
    /\ Call(h, "markSeen", m)
    /\ pc' = [pc EXCEPT ![h] = "see"] /\ mbuf' = [mbuf EXCEPT ![h][m] = row[m]]
    /\ ownSeen' = ownSeen \cup ({m} \cap Outgoing)
    /\ UNCHANGED <<shared, store, cbuf, inbox, mdns, accepted, peerRead, history>>

\* Mutant: a receipt is sent whether or not the message was seen before.
SaveSeenAlways(h) ==
    /\ pc[h] = "see"
    /\ LET m == job[h].msg
           r == mbuf[h][m]
       IN WriteBack(h, m, [r EXCEPT !.seen = TRUE], NoMsgs,
                    IF m \in Incoming THEN "mdn" ELSE "idle")
    /\ UNCHANGED <<shared, ops, world, counted, filed, receipts, missed>>

SaveSeen(h) ==
    /\ pc[h] = "see"
    /\ LET m == job[h].msg
           r == mbuf[h][m]
       IN WriteBack(h, m, [r EXCEPT !.seen = TRUE], NoMsgs,
                    IF m \in Incoming /\ ~r.seen THEN "mdn" ELSE "idle")
    /\ UNCHANGED <<shared, ops, world, counted, filed, receipts, missed>>

\* The receipt goes out; whether it arrives changes nothing here.
SendReceipt(h) ==
    /\ pc[h] = "mdn"
    /\ receipts' = [receipts EXCEPT ![job[h].msg] = @ + 1]
    /\ Skip(h, IF job[h].op = "markRead" THEN "reading" ELSE "idle")
    /\ UNCHANGED <<shared, store, ops, world, counted, filed, missed, stray>>

-----------------------------------------------------------------------------
Resume(h) ==
    \/ CreateChat(h) \/ ReadTarget(h) \/ Amend(h) \/ Erase(h) \/ PreviewDeleted(h)
    \/ Rewrite(h) \/ EraseListed(h)
    \/ ReadTimer(h) \/ SaveTimer(h) \/ Dedup(h) \/ SaveIncoming(h) \/ ReadSummary(h)
    \/ Reopen(h) \/ Count(h)
    \/ SentMessage(h) \/ SentDelete(h) \/ SentAmend(h) \/ SendFails(h)
    \/ Lookup(h) \/ PersistOutgoing(h) \/ Reply(h)
    \/ ListForDelete(h) \/ SaveChange(h) \/ ResetUnread(h) \/ ListForRead(h)
    \/ ReadNext(h) \/ SaveSeen(h) \/ SendReceipt(h)

Begin(h) ==
    \/ DeleteChat(h) \/ Sweep(h) \/ MarkChatRead(h)
    \/ \E op \in {"set", "flag"} : Change(h, op)
    \/ \E m \in Incoming : ChatMail(h, m)
    \/ \E m \in Outgoing : ReceiptMail(h, m) \/ Send(h, m)
    \/ \E m \in Msgs : MarkSeen(h, m) \/ DeleteLocal(h, m)
    \/ \E op \in {"delete", "reaction"}, m \in Msgs : PeerRequest(h, op, m)
    \/ \E op \in {"sendDelete", "sendAmend"}, m \in Msgs : SendControl(h, op, m)

Next ==
    \/ \E h \in Handlers : Resume(h) \/ Begin(h) \/ Accept(h)
    \/ \E m \in Outgoing : PeerReads(m)

Spec == Init /\ [][Next]_vars

-----------------------------------------------------------------------------
Labels == {"idle", "create", "recreate", "target", "amend", "erase", "preview", "rewrite",
           "erasing", "ephemeral", "timer", "dedup", "save", "summary", "reopen", "count",
           "sending", "lookup", "persist", "reply", "relist", "change", "reset", "list", "reading",
           "see", "mdn"}
Jobs == [op : Mails \cup Calls \cup {"none"}, msg : Nat]

StoreType ==
    /\ shared \in BOOLEAN /\ objects \in Nat
    /\ chat \in ChatRows \cup {NoRow} /\ row \in [Msgs -> MsgRows \cup {NoRow}]
BufType ==
    /\ cbuf \in [Handlers -> ChatRows \cup {NoRow}]
    /\ mbuf \in [Handlers -> [Msgs -> MsgRows \cup {NoRow}]]
ControlType == pc \in [Handlers -> Labels] /\ job \in [Handlers -> Jobs] /\ ops \in 0 .. MaxOps
WorldType ==
    /\ inbox \in [Incoming -> Nat] /\ mdns \subseteq Outgoing
    /\ accepted \subseteq Outgoing /\ peerRead \subseteq Outgoing /\ ownSeen \subseteq Outgoing
HistoryType ==
    /\ counted \in Nat /\ filed \in [Incoming -> Nat] /\ receipts \in [Incoming -> Nat]
    /\ missed \subseteq Outgoing /\ stray \subseteq Msgs

\* Type invariant of the store, the rows in hand, the operations and the world.
TypeOK == StoreType /\ BufType /\ ControlType /\ WorldType /\ HistoryType

Idle == \A h \in Handlers : pc[h] = "idle"

\* What the chat shows of our own messages is true of the peer, whichever stale
\* rows were written back in between: a row exists for mail the relay took only,
\* and it says seen only if the peer read the message or the application marked it
\* seen itself.
OutgoingHonest ==
    \A m \in Outgoing : row[m] # NoRow =>
        m \in accepted /\ (row[m].seen => m \in peerRead \cup ownSeen)

\* Not kept, and checked by no run: seen means read by the peer, which is what
\* jsonrpc/compat.ts reports of such a row (OUT_MDN_RCVD).  MarkSeen of a message
\* of ours breaks it.
SeenByPeer == \A m \in Outgoing : row[m] # NoRow /\ row[m].seen => m \in peerRead

\* No message is left without a chat that lists it, when every operation is over:
\* not by a chat deleted under an arrival, only by a write that came too late.
NoOrphan == Idle => \A m \in Stored : chat # NoRow \/ m \in stray

\* The peer gets one receipt for each time its message was stored, however often
\* and from where the application marks it read (MemoryStore).
ReceiptOnce == shared => \A m \in Incoming : receipts[m] <= filed[m]

\* Nothing that arrives is lost from the counter, and nothing that was reset comes
\* back, while other operations write the same row (MemoryStore).
UnreadIsExact == shared /\ chat # NoRow => chat.unread = counted

\* A receipt takes effect, unless it came before the message was stored or after
\* it was deleted (MemoryStore).
ReceiptTakesEffect ==
    shared => \A m \in peerRead \ (mdns \cup missed \cup stray) :
        (\A h \in Handlers : job[h] # [op |-> "receipt", msg |-> m])
            => row[m] = NoRow \/ row[m].seen

\* The mail of m was stored once: no second copy of it was past the duplicate test
\* when the first was saved.
StoredOnce(m) == m \in Incoming => filed'[m] <= 1
KeepsSeen(m) == StoredOnce(m) /\ row[m] # NoRow /\ row[m].seen /\ row'[m] # NoRow => row'[m].seen

\* A message that was seen stays seen while it exists, whoever reacts to it, edits
\* it or reads it meanwhile (MemoryStore).
SeenIsFinal == [][shared => \A m \in Msgs : KeepsSeen(m)]_row

-----------------------------------------------------------------------------
\* Why OutgoingHonest holds.  An operation is at an await of its own code, about
\* a message of its kind, and holds the rows it will write back.
About(h) ==
    LET op == job[h].op IN
    /\ op = "chat" => job[h].msg \in Incoming
    /\ op = "markSeen" => job[h].msg \in Incoming \cup ownSeen
    /\ op \in {"receipt", "send"} => job[h].msg \in Outgoing
    /\ op \in {"delete", "reaction", "deleteLocal", "sendDelete", "sendAmend"} => job[h].msg \in Msgs
    /\ pc[h] = "mdn" => op \in {"markRead", "markSeen"} /\ job[h].msg \in Incoming

At(h) ==
    LET op == job[h].op IN
    /\ pc[h] = "create" => op \in {"chat", "delete", "receipt", "reaction", "send"}
    /\ pc[h] \in {"ephemeral", "timer", "dedup", "save", "summary"} => op = "chat"
    /\ pc[h] \in {"target", "amend"} => op \in {"receipt", "reaction", "sendAmend"}
    /\ pc[h] = "erase" => op \in {"delete", "deleteLocal", "sendDelete"}
    /\ pc[h] = "sending" => op \in {"send", "sendDelete", "sendAmend"}
    /\ pc[h] \in {"lookup", "persist", "reply"} => op = "send"
    /\ pc[h] = "preview" => op = "deleteLocal"
    /\ pc[h] = "see" => op = "markSeen"
    /\ pc[h] \in {"list", "reading", "reset"} => op = "markRead"

Holds(h) ==
    LET op == job[h].op IN
    /\ pc[h] \in {"rewrite", "count", "reset"} => cbuf[h] # NoRow
    /\ pc[h] = "erase" /\ op = "delete" => cbuf[h] # NoRow
    /\ pc[h] \in {"amend", "see", "reply"} => mbuf[h][job[h].msg] # NoRow
    /\ pc[h] = "rewrite" /\ op = "send" => mbuf[h][job[h].msg] # NoRow

\* What any row of our own messages says, stored or in hand, is true.
Honest(m, r) == r # NoRow => m \in accepted /\ (r.seen => m \in peerRead \cup ownSeen)

Truthful ==
    /\ mdns \subseteq peerRead /\ peerRead \subseteq accepted
    /\ \A m \in Outgoing : Honest(m, row[m]) /\ \A h \in Handlers : Honest(m, mbuf[h][m])
    /\ \A h \in Handlers :
          /\ job[h].op = "receipt" => job[h].msg \in peerRead
          /\ job[h].op = "send" /\ pc[h] # "sending" => job[h].msg \in accepted

IInv == TypeOK /\ Truthful /\ \A h \in Handlers : About(h) /\ At(h) /\ Holds(h)
-----------------------------------------------------------------------------
\* Why NoOrphan holds: while there is no chat, whatever is stored waits for an
\* operation that writes the chat, or that erases the message.
WritesChat == {"summary", "reopen", "recreate", "count", "rewrite"}
Settles(h, m) ==
    pc[h] \in WritesChat \cup {"relist"} \/ (pc[h] = "erasing" /\ mbuf[h][m] # NoRow)
Settled == chat = NoRow => \A m \in Stored \ stray : \E h \in Handlers : Settles(h, m)

\* Why UnreadIsExact holds: the rows of the chat that operations have in hand are
\* objects, and who holds the stored one holds it as it is.
OneCounter ==
    shared =>
        /\ chat # NoRow => chat.id \in 1 .. objects /\ chat.unread = counted
        /\ \A h \in Handlers : cbuf[h] # NoRow =>
              /\ cbuf[h].id \in 1 .. objects
              /\ chat # NoRow /\ chat.id = cbuf[h].id => cbuf[h] = chat
              /\ \A g \in Handlers : cbuf[g] # NoRow /\ cbuf[g].id = cbuf[h].id => cbuf[g] = cbuf[h]

\* The rows of m that are stored or in hand.  A message that was stored once has
\* one object, and one that was not has none.
Alive(m) == ({row[m]} \cup {mbuf[h][m] : h \in Handlers}) \ {NoRow}
Unsaved(h, m) == job[h] = [op |-> "send", msg |-> m] /\ pc[h] \in {"sending", "create", "lookup", "persist"}
Objects(m) ==
    /\ \A r \in Alive(m) : r.id \in 1 .. objects
    /\ \A r, s \in Alive(m) : r.id = s.id => r = s
    /\ (m \in Incoming => filed[m] <= 1) => \A r, s \in Alive(m) : r = s
    /\ m \in Incoming /\ filed[m] = 0 => Alive(m) = {}
    /\ (\E h \in Handlers : Unsaved(h, m)) => Alive(m) = {}
Errand(h) ==
    /\ pc[h] = "idle" => job[h] = NoJob
    /\ job[h].op = "receipt" => pc[h] \in {"create", "target", "amend"}
OneSend ==
    \A g, h \in Handlers : job[g].op = "send" /\ job[h].op = "send" /\ g # h => job[g].msg # job[h].msg

\* Why ReceiptOnce holds: every arrival that was stored is an object still unseen,
\* a receipt on its way out or one that was sent, or nothing any more.
Unseen(m) == {r.id : r \in {s \in Alive(m) : ~s.seen}}
Receipting(m) == {h \in Handlers : pc[h] = "mdn" /\ job[h].msg = m}
Accounted(m) ==
    /\ IsFiniteSet(Receipting(m))
    /\ receipts[m] + Cardinality(Receipting(m)) + Cardinality(Unseen(m)) <= filed[m]

\* Why ReceiptTakesEffect holds: a receipt is not lost before the message is stored.
Receiving(m) == \E h \in Handlers : job[h] = [op |-> "receipt", msg |-> m]
Effective(m) ==
    m \in peerRead \ (mdns \cup missed) /\ ~Receiving(m) =>
        /\ \A h \in Handlers : ~Unsaved(h, m)
        /\ m \in stray \/ row[m] = NoRow \/ row[m].seen

MInv ==
    shared =>
        /\ \A m \in Msgs : Objects(m)
        /\ \A m \in Incoming : Accounted(m)
        /\ \A m \in Outgoing : Effective(m)
CInv ==
    /\ IInv /\ \A h \in Handlers : Errand(h)
    /\ Settled /\ OneCounter /\ OneSend /\ MInv
=============================================================================
