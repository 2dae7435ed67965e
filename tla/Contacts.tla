------------------------------ MODULE Contacts ------------------------------
(***************************************************************************)
(* The people an account knows, kept four times over:                      *)
(*   account/base.ts       knownKeys; emailToContactId and contacts (the   *)
(*                         registry); blockedEmails; the snapshot          *)
(*   account/contacts.ts   create, block, unblock, delete                  *)
(*   account/inbox.ts      keys and avatars that come with mail            *)
(*   account/securejoin.ts the contact a finished handshake writes         *)
(* and the contact rows of the IndexedDB, which is all a reload has.  The  *)
(* code changes an object and puts its row in one go; what takes several   *)
(* steps is the snapshot (a row at a time, from keys copied beforehand),   *)
(* an avatar (row read, row written) and a handshake (key, then contact).  *)
(* A peer stands for a mailbox, whatever the spelling of its address.      *)
(***************************************************************************)
EXTENDS Naturals

CONSTANTS
    Peers,     \* other people's mailboxes
    Keys,      \* armored public keys
    Handlers,  \* mails and handshakes that may be under way at once
    Savers,    \* saveToStore calls that may be under way at once
    MaxOps,    \* bound: calls, mails and reloads
    None       \* no key, no contact, no peer

Contact == [key : Keys \cup {None}, blocked : BOOLEAN]
Stub == [key |-> None, blocked |-> TRUE]

ASSUME NoneAssumption == None \notin Contact \cup Keys \cup Peers
ASSUME BoundAssumption == MaxOps \in Nat

VARIABLES
    known,     \* knownKeys
    reg,       \* the contact that emailToContactId leads to
    stray,     \* peers with a contact that it does not lead to
    blocked,   \* blockedEmails
    row,       \* contact rows
    timer,     \* persistTimer is set
    saver,     \* await point of a saveToStore
    todo,      \* the keys it has yet to write
    copied,    \* the peers it has copied a key of
    ahead,     \* savers before it among their rows, which it cannot pass
    pc,        \* what handler h does next
    from,      \* whose mail or handshake h handles
    key,       \* the key a handshake has looked up
    buf,       \* the row an avatar has read
    ops,       \* bound
    wish,      \* history: peers the user wants blocked
    frail,     \* history: peers whose row does not say whether they are blocked
    lost,      \* history: those of the last load
    stale,     \* history: peers whose row an avatar wrote last, over a newer one
    torn       \* history: peers whose key createContact set behind a writer's back, or
               \* a snapshot wrote ahead of an older one

book == <<known, reg, stray, blocked, row, timer>>
saving == <<saver, todo, copied, ahead>>
handling == <<pc, from, key, buf>>
wishes == <<wish, frail, lost>>
vars == <<book, saving, handling, ops, wishes, stale, torn>>

NoKeys == [p \in Peers |-> None]
IsBlocked(p) == p \in blocked \/ (reg[p] # None /\ reg[p].blocked)

Init ==
    /\ known = NoKeys /\ reg = NoKeys /\ stray = {} /\ blocked = {} /\ row = NoKeys
    /\ timer = FALSE
    /\ saver = [s \in Savers |-> "idle"] /\ todo = [s \in Savers |-> NoKeys]
    /\ copied = [s \in Savers |-> {}] /\ ahead = [s \in Savers |-> {}]
    /\ pc = [h \in Handlers |-> "idle"] /\ from = [h \in Handlers |-> None]
    /\ key = [h \in Handlers |-> None] /\ buf = [h \in Handlers |-> None]
    /\ ops = 0 /\ wish = {} /\ frail = {} /\ lost = {} /\ stale = {} /\ torn = {}

Asked == ops < MaxOps /\ ops' = ops + 1

\* saveContact of the registry's contact of p.
Save(p, c) ==
    /\ reg' = [reg EXCEPT ![p] = c]
    /\ row' = [row EXCEPT ![p] = c]
    /\ stale' = stale \ {p}

\* upsertPeerContactKey
Upserted(p, k) ==
    IF reg[p] = None THEN [key |-> k, blocked |-> FALSE] ELSE [reg[p] EXCEPT !.key = k]
Upsert(p, k) == Save(p, Upserted(p, k))

\* The row of p goes, or makes way for one without a mark.
Unmarked(p) == frail' = IF p \in wish THEN frail \cup {p} ELSE frail \ {p}
\* That is what upserting does for a peer without a contact.
MarkKept(p) == IF reg[p] = None THEN Unmarked(p) ELSE UNCHANGED frail

\* Mutant: without the snapshot that schedulePersist arranges.
RememberUnscheduled(p, k) ==
    /\ known' = [known EXCEPT ![p] = k]
    /\ Upsert(p, k)
    /\ UNCHANGED timer

\* rememberPeerKey
Remember(p, k) ==
    /\ known' = [known EXCEPT ![p] = k]
    /\ Upsert(p, k)
    /\ timer' = TRUE

-----------------------------------------------------------------------------
\* Calls of the application

\* Somebody is about to write another key of p.
Behind(p, k) ==
    \/ \E s \in Savers : todo[s][p] \notin {None, k}
    \/ \E h \in Handlers : pc[h] = "join" /\ from[h] = p /\ key[h] \notin {None, k}

\* createContact, also of a contact that exists; k is None for an empty key.
CreateContact(p, k) ==
    /\ Asked
    /\ known' = [known EXCEPT ![p] = k]
    /\ Upsert(p, k)
    /\ torn' = (IF Behind(p, k) THEN torn \cup {p} ELSE torn)
    /\ MarkKept(p)
    /\ UNCHANGED <<stray, blocked, timer, saving, handling, wish, lost>>

\* importKey, and keys that come as Autocrypt gossip.
ImportKey(p, k) ==
    /\ Asked
    /\ Remember(p, k) /\ MarkKept(p)
    /\ UNCHANGED <<stray, blocked, saving, handling, wish, lost, torn>>

\* Mutant: without a contact to mark, nothing is saved.
BlockContactUnsaved(p) ==
    /\ Asked
    /\ blocked' = blocked \cup {p}
    /\ IF reg[p] # None
       THEN Save(p, [reg[p] EXCEPT !.blocked = TRUE])
       ELSE UNCHANGED <<reg, row, stale>>
    /\ wish' = wish \cup {p} /\ frail' = frail \ {p} /\ lost' = lost \ {p}
    /\ UNCHANGED <<known, stray, timer, saving, handling, torn>>

\* blockContact: without a contact to mark, a stub is saved that
\* emailToContactId does not learn of.
BlockContact(p) ==
    /\ Asked
    /\ blocked' = blocked \cup {p}
    /\ IF reg[p] # None
       THEN Save(p, [reg[p] EXCEPT !.blocked = TRUE]) /\ UNCHANGED stray
       ELSE /\ stray' = stray \cup {p}
            /\ row' = [row EXCEPT ![p] = Stub]
            /\ stale' = stale \ {p}
            /\ UNCHANGED reg
    /\ wish' = wish \cup {p} /\ frail' = frail \ {p} /\ lost' = lost \ {p}
    /\ UNCHANGED <<known, timer, saving, handling, torn>>

\* unblockContact: a stub is not found, its row stays marked.
UnblockContact(p) ==
    /\ Asked
    /\ blocked' = blocked \ {p}
    /\ IF reg[p] # None
       THEN Save(p, [reg[p] EXCEPT !.blocked = FALSE])
       ELSE UNCHANGED <<reg, row, stale>>
    /\ frail' = IF reg[p] = None /\ row[p] # None THEN frail \cup {p} ELSE frail \ {p}
    /\ wish' = wish \ {p} /\ lost' = lost \ {p}
    /\ UNCHANGED <<known, stray, timer, saving, handling, torn>>

\* deleteContact of the contact found by address, or by id of a stray one; the
\* key and the block of the address stay.
DeleteContact(p) ==
    /\ Asked
    /\ \/ reg[p] # None /\ UNCHANGED stray
       \/ p \in stray /\ (stray' = stray \/ (reg[p] = None /\ stray' = stray \ {p}))
    /\ reg' = [reg EXCEPT ![p] = None]
    /\ row' = [row EXCEPT ![p] = None]
    /\ stale' = stale \ {p} /\ Unmarked(p)
    /\ UNCHANGED <<known, blocked, timer, saving, handling, wish, lost, torn>>

-----------------------------------------------------------------------------
\* saveToStore

\* The timer fires, or flushPersist clears it.
SaveBegins(s) ==
    /\ saver[s] = "idle"
    /\ \/ timer /\ UNCHANGED ops
       \/ Asked
    /\ timer' = FALSE
    /\ saver' = [saver EXCEPT ![s] = "account"]
    /\ UNCHANGED <<known, reg, stray, blocked, row, todo, copied, ahead, handling, wishes, stale, torn>>

\* Of the keys ks the one of p is put, the others wait for that.  All savers go
\* through knownKeys in one order and a row at a time, so that none passes one before
\* it whose keys it has all copied too.
PutRow(s, ks, before, p) ==
    /\ ks[p] # None
    /\ \A i \in before : todo[i][p] = None
    /\ Upsert(p, ks[p]) /\ MarkKept(p)
    /\ todo' = [todo EXCEPT ![s] = [ks EXCEPT ![p] = None]]
    /\ saver' = [saver EXCEPT ![s] = "rows"]

SaverEnds(s) ==
    /\ saver' = [saver EXCEPT ![s] = "idle"]
    /\ copied' = [copied EXCEPT ![s] = {}]
    /\ ahead' = [i \in Savers |-> IF i = s THEN {} ELSE ahead[i] \ {s}]
    /\ UNCHANGED <<reg, row, frail, stale, todo>>

Keyholders == {p \in Peers : known[p] # None}

\* The savers among their rows that a new one stays behind.  An empty key is skipped:
\* who does not have to wait for a row may pass those that do.
Before == {i \in Savers : saver[i] = "rows" /\ copied[i] \subseteq Keyholders}

\* The peers whose older key one of the savers passed has yet to write.
Passed(before) == {p \in Peers : \E i \in Savers \ before : todo[i][p] \notin {None, known[p]}}

\* The account row is saved: the keys are copied, the first row follows at once.
SaveRows(s) ==
    /\ saver[s] = "account"
    /\ \/ known = NoKeys /\ SaverEnds(s) /\ UNCHANGED torn
       \/ /\ \E p \in Peers : PutRow(s, known, Before, p)
          /\ copied' = [copied EXCEPT ![s] = Keyholders]
          /\ ahead' = [ahead EXCEPT ![s] = Before]
          /\ torn' = torn \cup Passed(Before)
    /\ UNCHANGED <<known, stray, blocked, timer, handling, ops, wish, lost>>

NextRow(s) ==
    /\ saver[s] = "rows"
    /\ \/ todo[s] = NoKeys /\ SaverEnds(s)
       \/ (\E p \in Peers : PutRow(s, todo[s], ahead[s], p)) /\ UNCHANGED <<copied, ahead>>
    /\ UNCHANGED <<known, stray, blocked, timer, handling, ops, wish, lost, torn>>

-----------------------------------------------------------------------------
\* Mail

Start(h, p, stage) ==
    /\ pc[h] = "idle"
    /\ pc' = [pc EXCEPT ![h] = stage]
    /\ from' = [from EXCEPT ![h] = p]

Finish(h) ==
    /\ pc' = [pc EXCEPT ![h] = "idle"]
    /\ from' = [from EXCEPT ![h] = None]
    /\ key' = [key EXCEPT ![h] = None]
    /\ buf' = [buf EXCEPT ![h] = None]

\* A mail of p comes.  Parsing it remembers the key of its Autocrypt header, if it
\* has one, before anybody asks whether p is blocked.
MailArrives(h, p, k) ==
    /\ Asked /\ Start(h, p, "parsed")
    /\ IF k = None
       THEN UNCHANGED <<known, reg, row, timer, frail, stale>>
       ELSE Remember(p, k) /\ MarkKept(p)
    /\ UNCHANGED <<stray, blocked, saving, key, buf, wish, lost, torn>>

\* processIncomingRaw drops mail of blocked senders, storeIncomingMessage goes on
\* to the row of the contact if the mail has an avatar.
Check(h) ==
    /\ pc[h] = "parsed"
    /\ \/ Finish(h)
       \/ /\ ~IsBlocked(from[h])
          /\ pc' = [pc EXCEPT ![h] = "read"] /\ UNCHANGED <<from, key, buf>>
    /\ UNCHANGED <<book, saving, ops, wishes, stale, torn>>

ReadContact(h) ==
    /\ pc[h] = "read"
    /\ IF row[from[h]] = None
       THEN Finish(h)
       ELSE /\ buf' = [buf EXCEPT ![h] = row[from[h]]]
            /\ pc' = [pc EXCEPT ![h] = "avatar"]
            /\ UNCHANGED <<from, key>>
    /\ UNCHANGED <<book, saving, ops, wishes, stale, torn>>

\* The row goes back with the avatar, and as it was read otherwise.
WriteContact(h) ==
    /\ pc[h] = "avatar"
    /\ row' = [row EXCEPT ![from[h]] = buf[h]]
    /\ stale' = (IF row[from[h]] = buf[h] THEN stale ELSE stale \cup {from[h]})
    /\ Finish(h)
    /\ UNCHANGED <<known, reg, stray, blocked, timer, saving, ops, wishes, torn>>

\* The contact a handshake makes: a new one, which is not blocked.
Joined(p, k) ==
    [key |-> IF k = None /\ reg[p] # None THEN reg[p].key ELSE k, blocked |-> FALSE]

\* A handshake with p has ended: its key, if known, is saved once more, and the
\* contact after that.
Join(h, p) ==
    /\ Asked
    /\ IF known[p] # None
       THEN Start(h, p, "join") /\ Remember(p, known[p]) /\ MarkKept(p)
       ELSE /\ Start(h, p, "joined") /\ Save(p, Joined(p, None)) /\ Unmarked(p)
            /\ UNCHANGED <<known, timer>>
    /\ key' = [key EXCEPT ![h] = known[p]]
    /\ UNCHANGED <<stray, blocked, saving, buf, wish, lost, torn>>

\* Mutant: the registry gets the new contact, the row is left to the snapshot.
JoinSavesLater(h) ==
    /\ pc[h] = "join" /\ pc' = [pc EXCEPT ![h] = "joined"]
    /\ reg' = [reg EXCEPT ![from[h]] = Joined(from[h], key[h])]
    /\ key' = [key EXCEPT ![h] = None]
    /\ UNCHANGED <<known, row, stray, blocked, timer, saving, from, buf, ops, wishes, stale, torn>>

JoinSaves(h) ==
    /\ pc[h] = "join" /\ pc' = [pc EXCEPT ![h] = "joined"]
    /\ Save(from[h], Joined(from[h], key[h])) /\ Unmarked(from[h])
    /\ key' = [key EXCEPT ![h] = None]
    /\ UNCHANGED <<known, stray, blocked, timer, saving, from, buf, ops, wish, lost, torn>>

\* The chat row is written; a snapshot is arranged.
JoinEnds(h) ==
    /\ pc[h] = "joined"
    /\ timer' = TRUE
    /\ Finish(h)
    /\ UNCHANGED <<known, reg, stray, blocked, row, saving, ops, wishes, stale, torn>>

-----------------------------------------------------------------------------
\* The page is closed at any time; loadFromStore makes everything from the rows.
Reload ==
    /\ Asked
    /\ reg' = row
    /\ known' = [p \in Peers |-> IF row[p] = None THEN None ELSE row[p].key]
    /\ blocked' = {p \in Peers : row[p] # None /\ row[p].blocked}
    /\ stray' = {} /\ timer' = FALSE
    /\ saver' = [s \in Savers |-> "idle"] /\ todo' = [s \in Savers |-> NoKeys]
    /\ copied' = [s \in Savers |-> {}] /\ ahead' = [s \in Savers |-> {}]
    /\ pc' = [h \in Handlers |-> "idle"] /\ from' = [h \in Handlers |-> None]
    /\ key' = [h \in Handlers |-> None] /\ buf' = [h \in Handlers |-> None]
    /\ frail' = frail \cup stale /\ lost' = frail \cup stale
    /\ stale' = {} /\ torn' = {}
    /\ UNCHANGED <<row, wish>>

Call(p) ==
    \/ \E k \in Keys \cup {None} : CreateContact(p, k)
    \/ \E k \in Keys : ImportKey(p, k)
    \/ BlockContact(p)
    \/ UnblockContact(p)
    \/ DeleteContact(p)

SaveStep(s) == SaveBegins(s) \/ SaveRows(s) \/ NextRow(s)

MailStep(h) ==
    \/ \E p \in Peers, k \in Keys \cup {None} : MailArrives(h, p, k)
    \/ Check(h)
    \/ ReadContact(h)
    \/ WriteContact(h)
    \/ \E p \in Peers : Join(h, p)
    \/ JoinSaves(h)
    \/ JoinEnds(h)

Next ==
    \/ \E p \in Peers : Call(p)
    \/ \E s \in Savers : SaveStep(s)
    \/ \E h \in Handlers : MailStep(h)
    \/ Reload

Spec == Init /\ [][Next]_vars

-----------------------------------------------------------------------------
\* The shape of the state, with what each await point implies: a saver that is not
\* among its rows has none left, a handler knows whose mail it has, an avatar has
\* read a row.
TypeOK ==
    /\ known \in [Peers -> Keys \cup {None}]
    /\ reg \in [Peers -> Contact \cup {None}]
    /\ row \in [Peers -> Contact \cup {None}]
    /\ stray \subseteq Peers /\ blocked \subseteq Peers /\ timer \in BOOLEAN
    /\ saver \in [Savers -> {"idle", "account", "rows"}]
    /\ todo \in [Savers -> [Peers -> Keys \cup {None}]]
    /\ copied \in [Savers -> SUBSET Peers] /\ ahead \in [Savers -> SUBSET Savers]
    /\ pc \in [Handlers -> {"idle", "parsed", "read", "avatar", "join", "joined"}]
    /\ from \in [Handlers -> Peers \cup {None}]
    /\ key \in [Handlers -> Keys \cup {None}]
    /\ buf \in [Handlers -> Contact \cup {None}]
    /\ ops \in 0 .. MaxOps
    /\ wish \subseteq Peers /\ frail \subseteq Peers /\ lost \subseteq Peers
    /\ stale \subseteq Peers /\ torn \subseteq Peers
    /\ \A s \in Savers : saver[s] # "rows" => todo[s] = NoKeys
    /\ \A h \in Handlers : /\ pc[h] = "idle" <=> from[h] = None
                           /\ pc[h] = "avatar" <=> buf[h] # None

\* What a reload would find of a registered contact is what the registry holds,
\* whatever creations, keys, blocks, handshakes and half-done snapshots came in
\* between; a row nobody can find by address is a stub.  Only an avatar that wrote
\* back a row it had read earlier breaks this, until the next save of that contact
\* (every mutation in contacts.ts, base.ts and securejoin.ts saves its contact).
RowIsRecord ==
    \A p \in Peers \ stale :
        IF reg[p] # None THEN row[p] = reg[p] ELSE row[p] \in {None, Stub}

\* isBlocked says what the user asked for last, through deletions, new contacts,
\* handshakes that replace the marked contact, and reloads: the set and the mark,
\* which contacts.ts keeps apart, and the row never contradict the call.  The rows
\* that carry no answer over a reload are those of contacts made anew or deleted
\* while they were blocked, stubs that unblocking did not find, and rows an avatar
\* wrote back.
BlockInForce == \A p \in Peers \ lost : IsBlocked(p) <=> p \in wish

AtRest ==
    ~timer /\ (\A s \in Savers : saver[s] = "idle") /\ \A h \in Handlers : pc[h] # "joined"

\* Once no snapshot is due or under way, the contact of a peer has the key that
\* mail to it is encrypted with, however keys and snapshots overlapped.  Two
\* exceptions: createContact arranges no snapshot, so that a writer that still held
\* an older key has the last word; and a snapshot that skips an empty key may pass
\* an earlier one, whose older keys come last then.
KeysSettle ==
    AtRest =>
        \A p \in Peers \ torn : reg[p] # None => reg[p].key = known[p]

-----------------------------------------------------------------------------
\* Why BlockInForce holds: a peer whose load went well is in the set just if the
\* user wants it blocked, and the marks of contact and row agree with that except
\* for the peers of `frail', whose marks nobody sets right.
Marked(c) == c # None /\ c.blocked

Marks ==
    \A p \in Peers :
        /\ p \notin lost => (p \in blocked <=> p \in wish) /\ (Marked(reg[p]) => p \in wish)
        /\ p \notin frail /\ reg[p] # None => (Marked(reg[p]) <=> p \in wish)
        /\ p \notin frail \cup stale => (Marked(row[p]) <=> p \in wish)

\* Why KeysSettle holds: whoever still has to write an older key of a peer is
\* followed by somebody who has the last one, or by a snapshot that will have it.
Fixing ==
    timer \/ (\E s \in Savers : saver[s] = "account") \/ \E h \in Handlers : pc[h] = "joined"
Off(p) == reg[p] # None /\ reg[p].key # known[p]

KeyGone(p) ==
    /\ ~Off(p)
    /\ \A s \in Savers : todo[s][p] = None
    /\ \A h \in Handlers : pc[h] = "join" /\ from[h] = p => key[h] = None

LastWriter(p) ==
    /\ Off(p) => \E t \in Savers : todo[t][p] = known[p]
    /\ \A s \in Savers : todo[s][p] \notin {None, known[p]} =>
          \E t \in Savers : todo[t][p] = known[p] /\ s \in ahead[t]

Keyed ==
    \A p \in Peers \ torn :
        IF known[p] = None THEN KeyGone(p) ELSE Fixing \/ LastWriter(p)

Books == TypeOK /\ RowIsRecord /\ Marks
IInv == Books /\ Keyed
=============================================================================
