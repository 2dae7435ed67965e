------------------------------ MODULE MailSync ------------------------------
(***************************************************************************)
(* How the mail of one relay mailbox (INBOX of the primary relay) reaches  *)
(* the message store of an account: WebSocket pushes and backgroundFetch   *)
(* run concurrently on one event loop, every "await" is a point where the  *)
(* other handlers may run, the mailbox cursor is persisted by a debounced  *)
(* snapshot and restored by loadFromStore in an account that is in use     *)
(* already, and the page can be closed at any moment.                      *)
(*   account/base.ts      connect, handlePushMessage, schedulePersist,     *)
(*                        saveToStore, loadFromStore                       *)
(*   account/inbox.ts     processIncomingRaw, storeIncomingMessage         *)
(*   account/features.ts  backgroundFetch                                  *)
(* An action is the code between two awaits.  The chat row that            *)
(* storeIncomingMessage keeps beside the message is not modelled here.     *)
(***************************************************************************)
EXTENDS Naturals, FiniteSets

CONSTANTS
    MaxUid,     \* bound: the relay assigns the UIDs 1 .. MaxUid, in order
    MsgId,      \* MsgId[u]: the Message-ID of mail u
    Kind,       \* Kind[u]: what parsing mail u yields, see Kinds
    Pushers,    \* concurrent invocations of handlePushMessage
    Fetcher,    \* the backgroundFetch loop
    Loaders,    \* loads of the account row under way at once
    MaxLoads    \* bound: loads of the row that begin in one session

Uids == 1 .. MaxUid
Procs == Pushers \cup {Fetcher}

\* "chat": a bubble for the chat; "control": read by the SDK, never a bubble;
\* "dropped": processIncomingRaw returns null (blocked sender, own echo).
Kinds == {"chat", "control", "dropped"}

ASSUME BoundsAssumption == MaxUid \in Nat /\ MaxLoads \in Nat
ASSUME MailAssumption == Kind \in [Uids -> Kinds] /\ MsgId = [u \in Uids |-> MsgId[u]]
ASSUME ProcAssumption == Fetcher \notin Pushers

VARIABLES
    top,        \* relay: highest UID delivered to the mailbox
    transport,  \* RAM: no Transport, one without a push handler, one with
    online,     \* the socket of the Transport is opening or open
    pushed,     \* relay: highest UID announced on this socket
    orphans,    \* the same for each socket with a push handler whose Transport a
                \* load has replaced, while it has mail to announce: nobody closes it
    up,         \* the program is running
    seenUIDs,   \* RAM: this.seenUIDs
    lastSeenUid,\* RAM: this.lastSeenUid
    pc,         \* pc[p]: the await handler p is suspended at
    uid,        \* uid[p]: the mail handler p works on
    todo,       \* backgroundFetch: UIDs listed and not yet looked at
    since,      \* backgroundFetch: the cursor a list under way is asked for
    load,       \* load[l]: the await loadFromStore is suspended at, and the cursor
                \* of the row it holds
    loads,      \* loads begun in this session
    diskCursor, \* disk: lastSeenUid of the account row
    stored,     \* disk: Message-IDs of the message rows
    notices,    \* history: notices[u] announcements of u in this session
    done,       \* history: mails whose processing ran to its end
    faulted     \* history: mails a failure made the program give up, and not done since

relayVars == <<top, transport, online, pushed, orphans>>
cursorVars == <<seenUIDs, lastSeenUid>>
loopVars == <<todo, since>>
loadVars == <<load, loads>>
histVars == <<notices, done, faulted>>
vars == <<relayVars, up, cursorVars, pc, uid, loopVars, loadVars, diskCursor, stored,
          histVars>>

\* Stages after processIncomingRaw took the mail: past the seenUIDs test.
Claimed == {"parse", "dedup", "save"}
Fetching == {"fetch", "refetch"}
Busy == Fetching \cup Claimed
Stages == Busy \cup {"idle", "list", "next"}

Working(p, u) == pc[p] \in Busy /\ uid[p] = u
InFlight(u) == u \in todo \/ \E p \in Procs : Working(p, u)

NoLoad == [at |-> "idle", cursor |-> 0]

Init ==
    /\ top = 0 /\ transport = "deaf" /\ online = FALSE /\ pushed = 0 /\ orphans = {}
    /\ up = TRUE
    /\ seenUIDs = {} /\ lastSeenUid = 0
    /\ pc = [p \in Procs |-> "idle"]
    /\ uid = [p \in Procs |-> 0]
    /\ todo = {} /\ since = 0
    /\ load = [l \in Loaders |-> NoLoad] /\ loads = 0
    /\ diskCursor = 0 /\ stored = {}
    /\ notices = [u \in Uids |-> 0]
    /\ done = {} /\ faulted = {}

-----------------------------------------------------------------------------
(* The relay and the socket.                                               *)

Deliver ==
    /\ top < MaxUid
    /\ top' = top + 1
    /\ UNCHANGED <<transport, online, pushed, orphans, up, cursorVars, pc, uid,
                   loopVars, loadVars, diskCursor, stored, histVars>>

\* Mutant: the socket asks for what is above the next UID, not the last.
ConnectsPastNext ==
    /\ up
    /\ transport' = "listening"
    /\ \/ UNCHANGED <<online, pushed>>
       \/ ~online /\ online' = TRUE /\ pushed' = lastSeenUid + 1
    /\ UNCHANGED <<top, orphans, up, cursorVars, pc, uid, loopVars, loadVars,
                   diskCursor, stored, histVars>>

\* connect() installs the push handler; unless the socket is open already it
\* opens one that asks for what is above the cursor.
Connect ==
    /\ up
    /\ transport' = "listening"
    /\ \/ UNCHANGED <<online, pushed>>
       \/ ~online /\ online' = TRUE /\ pushed' = lastSeenUid
    /\ UNCHANGED <<top, orphans, up, cursorVars, pc, uid, loopVars, loadVars,
                   diskCursor, stored, histVars>>

\* Transport.send finds the socket closed and opens one that asks from 0.  The
\* Transport that register() made has no push handler yet.
SendOpens ==
    /\ up /\ transport # "none" /\ ~online
    /\ online' = TRUE /\ pushed' = 0
    /\ UNCHANGED <<top, transport, orphans, up, cursorVars, pc, uid, loopVars,
                   loadVars, diskCursor, stored, histVars>>

\* The socket breaks; or disconnect() closes it and forgets the Transport.
SocketCloses ==
    /\ up /\ transport # "none"
    /\ online' = FALSE /\ pushed' = 0
    /\ \/ online /\ UNCHANGED transport
       \/ transport' = "none"
    /\ UNCHANGED <<top, orphans, up, cursorVars, pc, uid, loopVars, loadVars,
                   diskCursor, stored, histVars>>

-----------------------------------------------------------------------------
(* Helpers of the handlers.                                                *)

\* Handler p is through with its mail: the loop goes on, a push handler returns.
Return(p) ==
    /\ pc' = [pc EXCEPT ![p] = IF p = Fetcher THEN "next" ELSE "idle"]
    /\ uid' = [uid EXCEPT ![p] = 0]

\* Mails are given up, or mail is done with after all.
GiveUp(us) == faulted' = faulted \cup (us \ done)

Finish(p) ==
    /\ done' = done \cup {uid[p]}
    /\ faulted' = faulted \ {uid[p]}
    /\ Return(p)

Goto(p, stage) == pc' = [pc EXCEPT ![p] = stage] /\ UNCHANGED uid

\* The part of processIncomingRaw before its first await: a UID seen in this
\* session is dropped, any other is remembered and moves the cursor up.
ProcessIncomingRaw(p, u) ==
    IF u \in seenUIDs
    THEN Return(p) /\ UNCHANGED <<cursorVars>>
    ELSE /\ seenUIDs' = seenUIDs \cup {u}
         /\ IF u > lastSeenUid
            THEN lastSeenUid' = u
            ELSE UNCHANGED lastSeenUid
         /\ Goto(p, "parse")

-----------------------------------------------------------------------------
(* handlePushMessage: one invocation per new_message push, in UID order.   *)

PushArrives(p) ==
    /\ up /\ online /\ transport = "listening" /\ pushed < top
    /\ p \in Pushers /\ pc[p] = "idle"
    /\ pushed' = pushed + 1
    /\ pc' = [pc EXCEPT ![p] = "fetch"]
    /\ uid' = [uid EXCEPT ![p] = pushed + 1]
    /\ UNCHANGED <<top, transport, online, orphans, up, cursorVars, loopVars,
                   loadVars, diskCursor, stored, histVars>>

\* A push on a socket without a push handler is not even logged, and this
\* socket will not repeat it.
PushUnheard ==
    /\ up /\ online /\ transport = "deaf" /\ pushed < top
    /\ pushed' = pushed + 1
    /\ GiveUp({pushed + 1} \ seenUIDs)
    /\ UNCHANGED <<top, transport, online, orphans, up, cursorVars, pc, uid, loopVars,
                   loadVars, diskCursor, stored, notices, done>>

\* A socket whose Transport was replaced announces to the handler it was given,
\* which asks the new Transport for the body and returns at once without one.
OrphanPush(n) ==
    /\ up /\ n \in orphans /\ n < top
    /\ orphans' = ((orphans \ {n}) \cup {n + 1}) \ {MaxUid}
    /\ \/ /\ transport # "none"
          /\ \E p \in Pushers :
                /\ pc[p] = "idle"
                /\ pc' = [pc EXCEPT ![p] = "fetch"] /\ uid' = [uid EXCEPT ![p] = n + 1]
          /\ UNCHANGED faulted
       \/ /\ transport = "none"
          /\ GiveUp({n + 1} \ seenUIDs)
          /\ UNCHANGED <<pc, uid>>
    /\ UNCHANGED <<top, transport, online, pushed, up, cursorVars, loopVars, loadVars,
                   diskCursor, stored, notices, done>>

\* The body arrives, over the socket or by the REST fallback.
FetchOk(p) ==
    /\ up /\ pc[p] \in Fetching
    /\ ProcessIncomingRaw(p, uid[p])
    /\ UNCHANGED <<relayVars, up, loopVars, loadVars, diskCursor, stored,
                   histVars>>

\* Mutant: the push handler lets go of a mail when its socket request rejects.
NoFallback(p) ==
    /\ up /\ pc[p] = "fetch"
    /\ Return(p)
    /\ UNCHANGED <<relayVars, up, cursorVars, loopVars, loadVars, diskCursor, stored,
                   histVars>>

\* wsRequest('fetch') rejects: the catch asks again through fetchMessage.
WsFetchFails(p) ==
    /\ up /\ pc[p] = "fetch"
    /\ Goto(p, "refetch")
    /\ UNCHANGED <<relayVars, up, cursorVars, loopVars, loadVars, diskCursor, stored,
                   histVars>>

\* fetchMessage rejects, or yields an empty body to the loop: nobody retries.
FetchFails(p) ==
    /\ up /\ pc[p] = "refetch"
    /\ GiveUp({uid[p]})
    /\ Return(p)
    /\ UNCHANGED <<relayVars, up, cursorVars, loopVars, loadVars, diskCursor, stored,
                   notices, done>>

-----------------------------------------------------------------------------
(* processIncomingRaw after parseIncoming, and storeIncomingMessage.       *)

\* Mutant: storeIncomingMessage runs before the event is emitted.
StoresUnannounced(p) ==
    /\ up /\ pc[p] = "parse"
    /\ IF Kind[uid[p]] = "chat"
       THEN Goto(p, "dedup") /\ UNCHANGED <<done, notices>>
       ELSE done' = done \cup {uid[p]} /\ Return(p) /\ UNCHANGED notices
    /\ UNCHANGED <<relayVars, up, cursorVars, loopVars, loadVars, diskCursor,
                   stored, faulted>>

\* Parsed: drop it, handle it as control traffic, or announce it and go on to store it.
Parsed(p) ==
    /\ up /\ pc[p] = "parse"
    /\ IF Kind[uid[p]] = "chat"
       THEN /\ notices' = [notices EXCEPT ![uid[p]] = @ + 1]
            /\ Goto(p, "dedup")
            /\ UNCHANGED <<done, faulted>>
       ELSE /\ Finish(p)
            /\ UNCHANGED notices
    /\ UNCHANGED <<relayVars, up, cursorVars, loopVars, loadVars, diskCursor,
                   stored>>

\* store.getMessage(msgId): an existing row ends the work on this mail.
Dedup(p) ==
    /\ up /\ pc[p] = "dedup"
    /\ IF MsgId[uid[p]] \in stored
       THEN Finish(p)
       ELSE Goto(p, "save") /\ UNCHANGED <<done, faulted>>
    /\ UNCHANGED <<relayVars, up, cursorVars, loopVars, loadVars, diskCursor,
                   stored, notices>>

SaveMessage(p) ==
    /\ up /\ pc[p] = "save"
    /\ stored' = stored \cup {MsgId[uid[p]]}
    /\ Finish(p)
    /\ UNCHANGED <<relayVars, up, cursorVars, loopVars, loadVars, diskCursor, notices>>

\* Parsing, an application callback or the store throws: the push handler's
\* promise rejects unheard, the loop logs and goes on.  The UID stays seen.
HandlerThrows(p) ==
    /\ up /\ pc[p] \in Claimed
    /\ GiveUp({uid[p]})
    /\ Return(p)
    /\ UNCHANGED <<relayVars, up, cursorVars, loopVars, loadVars, diskCursor, stored,
                   notices, done>>

-----------------------------------------------------------------------------
(* backgroundFetch.                                                        *)

BgStart ==
    /\ up /\ pc[Fetcher] = "idle" /\ transport # "none"
    /\ since' = lastSeenUid
    /\ Goto(Fetcher, "list")
    /\ UNCHANGED <<relayVars, up, cursorVars, todo, loadVars, diskCursor, stored,
                   histVars>>

\* list_messages answers with the UIDs above since, or rejects (nothing to do).
BgListed ==
    /\ up /\ pc[Fetcher] = "list"
    /\ todo' \in {(since + 1) .. top, {}} /\ since' = 0
    /\ Goto(Fetcher, "next")
    /\ UNCHANGED <<relayVars, up, cursorVars, loadVars, diskCursor, stored,
                   histVars>>

\* The next listed UID, in order: skipped when already seen, given up when there
\* is no Transport any more, fetched otherwise.
BgNext ==
    /\ up /\ pc[Fetcher] = "next" /\ todo # {}
    /\ \E u \in todo :
        /\ \A v \in todo : u <= v
        /\ todo' = todo \ {u}
        /\ IF u \in seenUIDs
           THEN UNCHANGED <<pc, uid, faulted>>
           ELSE IF transport = "none"
           THEN GiveUp({u}) /\ UNCHANGED <<pc, uid>>
           ELSE /\ pc' = [pc EXCEPT ![Fetcher] = "refetch"]
                /\ uid' = [uid EXCEPT ![Fetcher] = u]
                /\ UNCHANGED faulted
    /\ UNCHANGED <<relayVars, up, cursorVars, since, loadVars, diskCursor, stored,
                   notices, done>>

BgDone ==
    /\ up /\ pc[Fetcher] = "next" /\ todo = {}
    /\ Goto(Fetcher, "idle")
    /\ UNCHANGED <<relayVars, up, cursorVars, loopVars, loadVars, diskCursor, stored,
                   histVars>>

-----------------------------------------------------------------------------
(* Persistence, crash and restart.                                         *)

\* Mutant: the snapshot holds the next UID, not the last.
PersistsNext ==
    /\ up
    /\ diskCursor' \in {lastSeenUid + 1, diskCursor}
    /\ UNCHANGED <<relayVars, up, cursorVars, pc, uid, loopVars, loadVars, stored, histVars>>

\* saveToStore writes the snapshot it takes at once.  schedulePersist calls it
\* 250 ms after the cursor moved, and flushPersist and the settings at any
\* time, so the timer is no guard.  A failing write is logged and forgotten.
Persist ==
    /\ up
    /\ diskCursor' \in {lastSeenUid, diskCursor}
    /\ UNCHANGED <<relayVars, up, cursorVars, pc, uid, loopVars, loadVars, stored,
                   histVars>>

\* The page is closed: RAM, the sockets and every suspended handler are gone.
\* Mail at or below the persisted cursor that was being worked on is given up,
\* because a connect() after the next load asks for what is above the cursor.
Crash ==
    /\ up
    /\ up' = FALSE /\ transport' = "none" /\ online' = FALSE /\ pushed' = 0 /\ orphans' = {}
    /\ GiveUp({u \in 1 .. diskCursor : InFlight(u)})
    /\ seenUIDs' = {} /\ lastSeenUid' = 0
    /\ pc' = [p \in Procs |-> "idle"]
    /\ uid' = [p \in Procs |-> 0]
    /\ todo' = {} /\ since' = 0
    /\ load' = [l \in Loaders |-> NoLoad] /\ loads' = 0
    /\ notices' = [u \in Uids |-> 0]
    /\ UNCHANGED <<top, diskCursor, stored, done>>

\* addAccount or restoreAccount makes the account, with a Transport that has no
\* push handler and no cursor yet.
Restart ==
    /\ ~up
    /\ up' = TRUE /\ transport' = "deaf"
    /\ UNCHANGED <<top, online, pushed, orphans, cursorVars, pc, uid, loopVars, loadVars,
                   diskCursor, stored, histVars>>

-----------------------------------------------------------------------------
(* loadFromStore, on an account that may be connected and persisted already. *)

\* The row is read.  (A load that finds no row changes nothing.)
LoadReads(l) ==
    /\ up /\ load[l].at = "idle" /\ loads < MaxLoads /\ loads' = loads + 1
    /\ load' = [load EXCEPT ![l] = [at |-> "keys", cursor |-> diskCursor]]
    /\ UNCHANGED <<relayVars, up, cursorVars, pc, uid, loopVars, diskCursor,
                   stored, histVars>>

\* The keys are parsed: the cursor is the one of the row, whatever it was, and
\* of the UIDs of earlier sessions it alone counts as seen.
LoadCursor(l) ==
    /\ up /\ load[l].at = "keys"
    /\ lastSeenUid' = load[l].cursor
    /\ seenUIDs' = seenUIDs \cup ({load[l].cursor} \ {0})
    /\ load' = [load EXCEPT ![l] = [at |-> "contacts", cursor |-> 0]]
    /\ UNCHANGED <<relayVars, up, pc, uid, loopVars, loads, diskCursor, stored,
                   histVars>>

\* The contacts are read: a new Transport without a push handler takes the place
\* of the one there was, whose socket stays open, or opens all the same.
LoadTransport(l) ==
    /\ up /\ load[l].at = "contacts"
    /\ load' = [load EXCEPT ![l] = NoLoad]
    /\ orphans' = IF online /\ transport = "listening"
                THEN orphans \cup ({pushed} \ {MaxUid})
                ELSE orphans
    /\ transport' = "deaf" /\ online' = FALSE /\ pushed' = 0
    /\ UNCHANGED <<top, up, cursorVars, pc, uid, loopVars, loads, diskCursor,
                   stored, histVars>>

\* A key does not parse, or the contacts cannot be read.
LoadRejects(l) ==
    /\ up /\ load[l].at # "idle"
    /\ load' = [load EXCEPT ![l] = NoLoad]
    /\ UNCHANGED <<relayVars, up, cursorVars, pc, uid, loopVars, loads,
                   diskCursor, stored, histVars>>

-----------------------------------------------------------------------------
Handle(p) ==
    \/ FetchOk(p) \/ WsFetchFails(p) \/ FetchFails(p)
    \/ Parsed(p) \/ Dedup(p) \/ SaveMessage(p) \/ HandlerThrows(p)

Next ==
    \/ Deliver \/ Connect \/ SendOpens \/ SocketCloses \/ PushUnheard
    \/ \E p \in Pushers : PushArrives(p)
    \/ \E n \in orphans : OrphanPush(n)
    \/ \E p \in Procs : Handle(p)
    \/ BgStart \/ BgListed \/ BgNext \/ BgDone
    \/ Persist \/ Crash \/ Restart
    \/ \E l \in Loaders : LoadReads(l) \/ LoadCursor(l) \/ LoadTransport(l) \/ LoadRejects(l)

Spec == Init /\ [][Next]_vars

-----------------------------------------------------------------------------
(* What the pipeline must guarantee.                                       *)

Flags == online \in BOOLEAN /\ up \in BOOLEAN

Ranges ==
    /\ transport \in {"none", "deaf", "listening"}
    /\ top \in 0 .. MaxUid /\ pushed \in 0 .. MaxUid /\ orphans \subseteq 0 .. MaxUid
    /\ seenUIDs \in SUBSET Uids /\ lastSeenUid \in 0 .. MaxUid
    /\ pc \in [Procs -> Stages] /\ uid \in [Procs -> 0 .. MaxUid]
    /\ todo \in SUBSET Uids /\ since \in 0 .. MaxUid
    /\ load \in [Loaders -> [at : {"idle", "keys", "contacts"}, cursor : 0 .. MaxUid]]
    /\ diskCursor \in 0 .. MaxUid /\ stored \in SUBSET {MsgId[u] : u \in Uids}
    /\ loads \in 0 .. MaxLoads
    /\ notices \in [Uids -> Nat]
    /\ done \in SUBSET Uids /\ faulted \in SUBSET Uids

\* Every variable ranges over the values the code can give it.
TypeOK == Flags /\ Ranges

\* The message mail u carries is in the store, or u needed no row and was handled.
Settled(u) == IF Kind[u] = "chat" THEN MsgId[u] \in stored ELSE u \in done

\* No mail disappears behind the cursor on its own: every mail at or below
\* lastSeenUid is settled, or still being worked on or queued in the loop, or
\* a failure of its own (its fetch failed, its handler threw, the page closed
\* over it, nobody listened to its push) made the program give it up.
\* Handlers finish in any order and the cursor jumps to the highest UID they
\* took (inbox.ts:37-40).
NoSilentGap ==
    \A u \in 1 .. lastSeenUid : Settled(u) \/ InFlight(u) \/ u \in faulted

\* A push and backgroundFetch that race for one mail, or two sockets that push
\* it twice, announce it to the application once per session: the seenUIDs test
\* and its insert have no await between them (inbox.ts:32-37).
AnnouncedOnce == \A u \in Uids : notices[u] <= 1

\* The same of the cursor on disk, which the next session starts from: snapshots
\* written at any time, of a cursor that loads set back too, and a crash over the
\* handlers leave no mail below it that nothing accounts for (base.ts:517).
NoGapOnDisk ==
    \A u \in 1 .. diskCursor : Settled(u) \/ InFlight(u) \/ u \in faulted

-----------------------------------------------------------------------------
(* What comments say and the code does not keep. *)

\* "Highest processed mailbox UID (for reconnect sync)" (store.ts:132): the cursor
\* on disk does not move back.
DiskCursorNeverBack == [][diskCursor' >= diskCursor]_vars

\* "Highest mailbox UID processed" (base.ts:51): the cursor of a running program is
\* not below a UID it has seen.
CursorIsHighestSeen == \A u \in seenUIDs : u <= lastSeenUid

-----------------------------------------------------------------------------
(* The inductive invariant behind the safety properties.                   *)

\* At most one handler owns a mail past the seenUIDs test, and what was
\* announced is what handlers took in this session.
Ownership ==
    /\ \A p \in Procs : pc[p] \in Busy => uid[p] \in Uids
    /\ \A p \in Procs : pc[p] \in Claimed => uid[p] \in seenUIDs
    /\ \A p, q \in Procs :
          p # q /\ pc[p] \in Claimed /\ pc[q] \in Claimed => uid[p] # uid[q]
    /\ \A p \in Procs : pc[p] = "parse" => notices[uid[p]] = 0
    /\ \A p \in Procs :
          pc[p] \in {"dedup", "save"} => notices[uid[p]] = 1 /\ Kind[uid[p]] = "chat"
    /\ \A u \in Uids : notices[u] \in {0, 1} /\ (notices[u] = 1 => u \in seenUIDs)
    /\ \A u \in done : Kind[u] = "chat" => MsgId[u] \in stored
    /\ pc[Fetcher] \in {"idle", "list"} => todo = {}

Owned(u) == \E p \in Procs : pc[p] \in Claimed /\ uid[p] = u
Covered(u) == Settled(u) \/ InFlight(u) \/ u \in faulted
Accounted(u) == Settled(u) \/ Owned(u) \/ u \in faulted

\* How the cursors relate, and what a stopped program has left.
Cursors ==
    /\ lastSeenUid \in {0} \cup seenUIDs
    /\ ~up => /\ ~online /\ pushed = 0 /\ orphans = {} /\ todo = {} /\ lastSeenUid = 0 /\ since = 0
              /\ seenUIDs = {} /\ load = [l \in Loaders |-> NoLoad]
              /\ \A p \in Procs : pc[p] = "idle"
              /\ \A u \in Uids : notices[u] = 0

\* The points the pipeline has reached, in memory, on the sockets, on disk and in
\* the rows that loads hold: below each of them no mail is unaccounted for.
LoadCursors == {load[l].cursor : l \in Loaders}
WorkedOn == {uid[p] : p \in {q \in Procs : pc[q] \in Busy}}
Reached ==
    seenUIDs \cup todo \cup orphans \cup LoadCursors \cup WorkedOn \cup {since, pushed, diskCursor}

\* A UID that counts as seen, or will after a load, is nobody's to take any more.
Remembered == seenUIDs \cup (({diskCursor} \cup LoadCursors) \ {0})

Coverage ==
    /\ \A u \in Remembered : Accounted(u)
    /\ \A n \in Reached : \A u \in 1 .. n : Covered(u)

IInv == TypeOK /\ Ownership /\ Cursors /\ Coverage

-----------------------------------------------------------------------------
\* The pipeline implements what it promises (see MailDelivery).
Delivery == INSTANCE MailDelivery WITH Mails <- Uids
DeliveryPromise == Delivery!DSpec

-----------------------------------------------------------------------------
(* Liveness.  The relay pushes what it owes while the socket is open, a    *)
(* request it was sent is answered or rejected, and the event loop resumes *)
(* every handler; nothing obliges anybody to connect, or to fetch.         *)

Push == PushUnheard \/ \E p \in Pushers : PushArrives(p)
Resume(p) == Handle(p) \/ (p = Fetcher /\ (BgListed \/ BgNext \/ BgDone))

Fairness == WF_vars(Push) /\ \A p \in Procs : WF_vars(Resume(p))

FairSpec == Spec /\ Fairness

\* Mail a socket owes, or a handler works on, ends settled or given up for a
\* failure of its own, unless the socket or the program goes first.
OwedMailSettles ==
    \A u \in Uids :
        ((online /\ pushed < u /\ u <= top) \/ InFlight(u))
            ~> (Settled(u) \/ u \in faulted \/ (~online /\ ~InFlight(u)))
=============================================================================
