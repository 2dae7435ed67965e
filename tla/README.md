# Verification of madcore

madcore is a Delta Chat SDK for browsers: an account object that registers with
a relay, exchanges OpenPGP mail over REST and one WebSocket per relay, keeps
chats and messages in a store (memory or IndexedDB) and tells the application
what happened through `DC_EVENT_*` events. It is one thread. What makes it hard
is that every `await` lets other handlers run, that sockets, timers and the
relay answer in any order, and that the page can be closed between any two
awaits.

The TLA+ modules beside this file model the parts below, TLC checks them on small instances and
TLAPS proves the main safety properties for every value of the constants.

## Inventory

| Component | State | Operations | What is hard | What makes it correct | Modules |
|---|---|---|---|---|---|
| Mail pipeline (`account/base.ts`, `inbox.ts`, `features.ts`) | `seenUIDs`, `lastSeenUid`, message rows, snapshot on disk | `connect`, `handlePushMessage`, `backgroundFetch`, `processIncomingRaw`, `storeIncomingMessage`, `schedulePersist`, `loadFromStore` | pushes handled concurrently, cursor moved before the mail is stored, debounced persistence, page closed, one cursor for every mailbox | no mail lost silently behind the cursor, none announced twice, no gap behind the cursor on disk | `MailSync`, `MailDelivery`, `Mailboxes` |
| Transport (`lib/transport.ts`) | `ws`, `pendingRequests`, `reqCounter`, handshake timer | `connect`, `send`, `fetchMessage(s)`, `wsRequest`, `disconnect`, socket events | old sockets whose handlers stay attached, early return of `connect`, timer against late answer | one live socket, no lost or misdirected waiter, failure leaves nothing live | `Transport` |
| SecureJoin (`lib/securejoin.ts`, `account/securejoin.ts`) | invite tokens, active join, waiters, verified flag | `secureJoin`, `handleIncomingSecureJoin`, invite creation | answer before the waiter is registered, timeouts, concurrent joins | verified at the joiner only after the inviter checked its auth; both sides agree; every join ends | `SecureJoin` |
| Chat rows and receipts, outgoing messages (`account/inbox.ts`, `account/messaging.ts`, `lib/messaging.ts`) | chat rows (unread, preview), message states | `storeIncomingMessage`, `markChatRead`, `markMessageSeen`, `deleteChat`, `deleteLocalMessage`, `applyReadReceipt`, sends, edit, delete, react | read-modify-write across awaits, over two kinds of store | the counter counts, receipts go once and take effect, no row claims a send that failed, no message without its chat | `Chats` |
| Store (`store.ts`) | rows; `this.db`, IndexedDB's connections and requests | `getDB`, `tx`, `reopenForAccount`, `wipeAccount` | two opens at once, blocked deletions, re-login over a pending wipe | no closed handle, no secret after the wipe, no row of a later profile lost | `Chats`, `Database` |
| Contacts (`account/contacts.ts`) | contact registry, `blockedEmails`, `knownKeys`, rows | block, unblock, create, delete, remember key, avatars | RAM and rows updated in separate steps | rows and registry agree, blocked stays blocked over a restart | `Contacts` |
| Groups and channels (`lib/group.ts`, `account/groups.ts`) | member lists, name, registry, chat row | create, add, remove, leave, rename, describe, send | fan-out over sends that fail one by one | members agree once the mail is delivered, no update lost, snapshot and row follow | `Groups` |
| Account snapshot and relays (`account/base.ts`, `account/utils.ts`) | relays, primary relay, transports, account row | `register`, `setCredentials`, `addRelay`, `removeRelay`, `connect`, `disconnect`, save, load, `destroyProfile` | a load replaces relays and transports under other calls | one primary relay, relays survive a reload | `Relays`, `Database` |
| Account manager and facade (`account/manager.ts`, `jsonrpc/compat.ts`) | account objects, slots, order, selection, event handlers | add, configure, register, restore, order, select, remove | background restore, removal and configuration at once | slots listed once, events once, password and key kept | `Accounts` |
| Features (`account/features.ts`, `lib/location.ts`, `calls.ts`, `webxdc.ts`) | device labels, expiry, location streams, calls | device messages, sweep, location, calls | label and message written in two steps | each label announced once | sweep in `Chats`, fetch loop in `MailSync` |
| MIME, OpenPGP, backup, profile, entry point, logger | little | conversions and adapters | | see *Not modelled* | none |

How they interact: the Transport calls the account's push handler and resolves
promises of its requests; the push handler and `backgroundFetch` both end in
`processIncomingRaw`, which calls the SecureJoin handler for control mail and
`storeIncomingMessage` for the rest; groups mirror themselves into chat rows;
state that is not a row of the store goes to disk in the snapshot `saveToStore`
writes, contacts included; the manager makes accounts and their stores, and the
facade maps its slots to them. The modules meet at these seams: `MailSync`
stops where a message is saved and `Chats` begins there; `Accounts` deletes a
database in one step that `Database` takes apart; `Relays` has a socket where
`Transport` has its life; `Contacts` has the row a handshake of `SecureJoin`
writes.

## Modules

`X` is the specification of a component, `MCX` its instance for TLC, `XProofs`
its theorems; `MailDelivery` is the abstract specification `MailSync` implements.
`TransportProofs` proves what concerns an account's relays, so it extends `Mailboxes`
and `Relays` too, whose names differ from each other's and from `Transport`'s.

| Module | What it is | Proofs |
|---|---|---|
| `MailDelivery` | each mail announced at most once per session, a message is kept only after it was announced | |
| `MailSync` | the inbound pipeline over one mailbox, with crashes | `MailSyncProofs` |
| `Mailboxes` | several mailboxes and relays over the one cursor and set of UIDs | `TransportProofs` |
| `Transport` | `lib/transport.ts`, one action per caller step and per socket event | `TransportProofs` |
| `SecureJoin` | the handshake between accounts that play both parts | `SecureJoinProofs` |
| `Chats` | the rows of one chat and its messages, in memory and in IndexedDB | `ChatsProofs` |
| `Groups` | one group or channel, its fan-outs, its chat row and its snapshot | `GroupsProofs` |
| `Contacts` | contacts in RAM, in rows, in the block list and in the key ring | `ContactsProofs` |
| `Accounts` | slots, account objects, restores and stored secrets | `AccountsProofs` |
| `Database` | the IndexedDB of one email: connections, requests, deletion | `DatabaseProofs` |
| `Relays` | relays, transports and the account row around a load | `TransportProofs` |
| `Lists` | `Array.filter`, as a recursive function | |

In every module a process stands at one of the awaits of the code it runs, an
action is the code from one await to the next, and actions of different
processes interleave freely. JavaScript runs what follows a settled promise
before other events, so some interleavings of the models cannot happen in a
browser: what the properties say of them is on the safe side. A definition
whose comment begins with *Mutant* is a wrong version of the definition after
it, against which the properties were tried.

### MailSync

One mailbox of the primary relay. The relay assigns the UIDs `1 .. MaxUid` in
order; `top`, `pushed` are the relay's, `seenUIDs`, `lastSeenUid`, `transport`
are the account's memory, `diskCursor` and `stored` are the disk. A process of
`Pushers` is one invocation of `handlePushMessage`, `Fetcher` is the
`backgroundFetch` loop; `pc` says which await it is suspended at:

- `fetch` / `refetch`: the socket request, then the fallback of the `catch`
  (the loop has the second only);
- `parse`: `parseIncoming`, after the part of `processIncomingRaw` that tests
  and marks the UID in one go (`ProcessIncomingRaw`);
- `dedup`, `save`: `getMessage` and `saveMessage` of `storeIncomingMessage`;
- `list`, `next`: the loop waiting for the list, and between two UIDs.

Mail has a kind, which stands for what parsing it yields: a chat message,
control traffic (SecureJoin, calls, receipts, ...) or mail that is dropped
(blocked sender). A handler may throw at every await. A crash clears the
memory; the page that is opened again has an account that is in use at once, with
the cursor 0. `load[l]` is one `loadFromStore` on it, at its awaits: it reads the row
(`LoadReads`), sets the cursor and adds it to `seenUIDs` (`LoadCursor`), and makes
Transports that have no push handler until `connect()` installs one
(`LoadTransport`); it may reject. Pushes, the loop, snapshots and another load go on
in between, and the cursor may go back: at the second load of a session (`restoreAccount`
for an account that is there), and on disk, by a snapshot taken before a load has
restored it. `orphans` says how far each socket whose Transport a load dropped has
announced: its handler stays attached.
`Persist` is the snapshot: the 250 ms debounce is not a guard, because
`flushPersist` and every setting may write at any time; a write may fail.

`notices`, `done` and `faulted` are history variables. `faulted` collects the
mail a failure of its own made the program give up: a fetch that failed twice, a
handler that threw, a push nobody listened to, a page closed over a mail below
the persisted cursor. `NoSilentGap` says that nothing else can disappear.

`NoGapOnDisk` says the same of the cursor on disk, wherever the loads and snapshots
have put it. That neither cursor goes back does not hold, see *Findings*.

Properties: `NoSilentGap`, `NoGapOnDisk`; `DeliveryPromise` (`MailSync` implements
`MailDelivery` with `Mails <- Uids`, which says among other things that no mail is
announced twice in a session);
`OwedMailSettles` (liveness). `TypeOK` and `AnnouncedOnce` are proved.

### Transport

`sock[s]` is the `readyState` of the s-th WebSocket ever created, `ws` the one
`this.ws` names, `promise[s]` what the `connect()` that created it returned.
`pending` is `pendingRequests`, with the socket a request went out on and who
asked as history. Callers run `connect`, `send`, `fetchMessage(s)`; the
browser's events `Opens`, `Closed`, `Answered`, `AuthTimeout` run between any
two of their awaits. The relay answers any request it was asked, in any order,
repeatedly or never. Kept exactly: `onclose` of any socket rejects every pending
request; a rejected handshake closes `this.ws`, whichever socket that is by now;
`disconnect` clears `this.ws` first; `connect` joins an open or opening socket
with a promise that is resolved at once.

From the browser the model assumes that a message is only delivered on an OPEN
socket, that `error` is followed by `close` without other events between, and
that a CLOSING socket ends in a `close` event.

Properties: `OneLiveSocket`, `NoLostWaiter`, `FailedIsNotLive`,
`AnswerReachesAsker`; `CallsSettle` (liveness). `TypeOK`, `PendingHasSocket` and
`TimerHasHandshake` are proved.

### SecureJoin

Every account may invite and join. An invite is the generation `g` of the
token pair, so `token[a]` stands for `myInviteNumber` and `myAuthToken` together
and `saved[a]` for the pair in the account row. A join `j` is one call of
`secureJoin`; `pc[j]` says what it awaits: the send of phase 1 (`requesting`),
the waiter of phase 2, the send of the proof (`proving`), the waiter of phase 4,
the contact row (`saving`). A handler `h` is one call of
`handleIncomingSecureJoin` that is past its first send; `job[h]` is the send it
awaits or the mark it is about to write. `net` holds the mails on the way: taking
one out is delivery, leaving it is loss, and any may be taken, which is delay and
reordering. A mail leaves before its send settles, so the answer can be there
before the waiter is registered, and a send can reject although the mail left.

Kept exactly: a mail wakes every waiter whose predicate it meets, before the
inviter's side handles it; a `pubkey` mail is recognised only while its auth is
the active one, which any ending join of the account clears; phase 2 without
the inviter's key ends the join unconfirmed; a time-out throws only without the
key; the proof with a wrong auth is refused without an error and the caller
marks the peer all the same; an unconfirmed join overwrites a verified contact.

`answered`, `accepted`, `broken` are history variables. `broken` collects the
pairs whose inviter lost its page or a send, or saved an unconfirmed join of its
own: what `MutualVerification` excepts.

Properties: `NoPhaseSkipped`, `ConfirmedMeansAccepted`, `MutualVerification`;
`JoinSettles` (liveness). `TypeOK` is proved.

### Mailboxes

`MailSync` has one mailbox; here the primary relay has `Inbox` and `Folders`, and
every other relay a mailbox of its own, each with UIDs from 1 on, while
`seenUIDs` and `lastSeenUid` are still one set and one number. `push[h]` is the
mail a handler was told of, `loop` is `backgroundFetch` over the watched
mailboxes, whose list it reads once. A push of another relay is answered by
fetching that UID from the primary relay's `Inbox`, as the code does. A mail counts
as processed once its UID is marked; nothing is persisted and there is no reload.
`Reconnect` lets a relay announce again from any UID up to the cursor.
`missed` and `owed` are histories: fetches that failed, and what was in the
watched mailboxes when the loop began.

Properties: `OneMailPerUid`; `LossIsAClash` (action property): what a fetch
leaves out has a failed request, the cursor, or a mail of another mailbox with
its UID for a cause. That clashes lose mail is a defect, see *Findings*.

### Chats

One 1:1 chat and its messages. Of the chat row the unread counter is kept, of
a message row whether it was seen; the other fields ride along, for an operation
that changes one of them writes back the row it read. `shared` chooses the store:
`MemoryStore` hands out the row objects themselves (`id` is the object, and
`Same` says who else sees a change), `IndexedDBStore` hands out copies.
`markMessageSeen` looks at the direction of a message only before it sends a receipt:
called for a message of ours (`markseen_msgs` passes any id) it marks that seen.
`ownSeen` collects these messages, and `OutgoingHonest` tells them from the ones the
peer read. An
operation is incoming mail (message, receipt, request to delete, reaction) or a
call of the application (`Calls`); `pc[h]` is the await it stands at, `cbuf[h]`
and `mbuf[h]` are the rows it holds.

`UnreadIsExact`, `ReceiptOnce`, `ReceiptTakesEffect` and `SeenIsFinal` are claimed
of `MemoryStore` only: with IndexedDB two overlapping operations overwrite each
other's row, and an increment, a read or a receipt is lost. `NoOrphan` excepts
what `stray` records: a row that was written back after it was deleted, one
stored by an operation that had found no chat, and messages beyond the first page
`deleteChat` reads.

Properties: `OutgoingHonest`, `NoOrphan`, `ReceiptOnce`, `UnreadIsExact`,
`ReceiptTakesEffect`; `SeenIsFinal` (action property). `TypeOK` is proved.

### Groups

One group or channel that the account creates and administers. Every operation
changes the one `GroupInfo` of the registry and then awaits a send per member
(`fan`, the members still to be told), so that operations overlap in the middle of
their fan-outs, and a send that rejects ends its operation on the spot. `view[m]`
is what m was told of the members. The chat row follows through `mirror[h]`,
which is `persistGroupChat`, not awaited by its callers; the snapshot through
`timer` and `disk`. A reload replaces memory by the snapshot.

What the properties except, and the code does: removals that overlap other
changes of the membership may tell a member lists of different moments (`torn`); a
creation, addition or renaming whose send fails leaves memory other than snapshot
or row (`loose`), and `createGroup` then leaves members told of a group that
was never registered; a group that is left before its snapshot was written is
back after a reload; a call may still use the object of a group that was left.

Properties: `NoLostUpdate`, `ViewsAgree`, `SnapshotFollows`, `RowMirrorsGroup`
(for `MemoryStore`). `TypeOK` is proved.

### Contacts

What the account knows of a peer is kept four times: `known` (the key ring),
`reg` (contact of the registry), the block list `blocked`, and `row` in
IndexedDB. A mutation and the put that follows it are one step. Several steps
are taken by a snapshot (`saver`: a row at a time, from keys copied beforehand),
by an avatar (row read, row written back) and by a handshake (key, then contact).
Spellings of an address, the verified flag and the other fields are dropped; a
load is awaited by its callers. Two snapshots end in the order they began in when the
later one copied a row for every peer the earlier one did (`copied`, `Before`); one
that skipped an empty key, which `createContact` may set, has fewer rows to put and
may pass the other.

`stale`, `lost` and `torn` collect the peers one of the named causes befell: an
avatar that wrote back an older row; a contact made anew or deleted while
blocked, a stub row that unblocking did not find or a key replaced; a contact
created, without a snapshot, while a saver held its older key, and the keys a
snapshot still had to put when another one passed it.

Properties: `RowIsRecord`, `BlockInForce`, `KeysSettle`. `TypeOK` is proved.

### Accounts

From the facade to the database. `slots`, `order`, `selected`, `account[s]` and
`unsubs[s]` are the facade's, `accounts` is the manager's map, `email`, `cred`,
`key`, `timer` belong to an account object, `disk[e]` is the account row of an
email. A request of the application is a process (`pc`, `job`); `restore[a]` is
the background restore `addAccount` starts. A configuration reads the row, may
make keys, sets the password and flushes; a removal takes the slot out, wipes
and goes on. An email stands for its address, server and database; sockets and
`start_io`/`stop_io` are left to `Transport`; requests come after `ensureReady`;
`select_account` is given slots that exist; the database answers in order, and
a deletion may be blocked.

`spoilt` collects the emails whose account was configured while it was loading or
making its keys, or whose load failed: there the key or the password may be
replaced. A slot that is removed a second time during its wipe has no email any
more, and the store is cleared instead of deleted (`ClearsOthers`): that takes the rows
of a profile of the same email that was added meanwhile, which is `spoilt`, too.

Properties: `TypeOK`, `SlotsListed`, `EventsOnce`, `PasswordPinned`; `KeyKept`
(action property).

### Database

The IndexedDB of one email while its profile is removed and added again. `queue`
holds the requests to open or delete it, which IndexedDB answers in order; a
deletion waits until no connection is open. `handle[o]` is `this.db` of the store
of account object o. `getDB` asks for a connection also while another open is
pending, so that one of two is overwritten and stays open until it is collected;
`reopenForAccount` closes and asks again; `wipeAccount` closes and deletes, and
after 750 ms of a blocked deletion goes on (`GivesUp`) while the deletion stays in the
queue. `stage[o]` is how far the removal is: wiping in `destroyProfile`, the
registry entry, and the second wipe by the manager. Handlers go on where they
stood when their profile was destroyed. A second removal during the wipe
(`DestroyAgain`) clears the rows, over the connection of the store or over one it asks
for (`Clears`). A transaction takes effect when it starts.

`revived` collects objects that got credentials again from a restore that
outlived the wipe, `crossed` those that were added while another was still in
`destroyProfile`.

Properties: `HandleIsOpen`, `SecretsGone`, `NobodyForgotten`; `LiveRowsKept`
(action property). `TypeOK` is proved.

### Relays

One account's relays in the order of their map, `primary`, the transport under
each key of `transports`, the server a transport has a socket to (`socket`), and
the account rows (`disk[d][e]`: database and email, for the snapshot is filed
under the email of the primary relay while the database keeps its name). A
server is spelt with or without a final slash. `load[l]` is a `loadFromStore` at
its awaits, with what its caller sets afterwards. It replaces relays and
transports by those of the row it read. Rows are deduplicated by server on saving
and on loading. Passwords, keys and the configuration of transports are dropped;
two transports of one server stay in either order. An account begins with one
relay and its background restore under way. A load may reject at each of its reads
(`LoadRejects`): `addAccount` then sets the credentials but has nothing written. A
snapshot may fail (`PersistFails`), after which no timer is armed.

`RelaysSurvive` speaks of an account at rest whose database is named after its
primary identity, and excepts `stale`: a load that put an older row into memory
than the disk has, a load that rejected when it would have replaced the relays or had
them written, and a write that failed. The next write that succeeds ends it. So the
property does not say that a relay added during a load, or an account whose row could
not be read or written, survives: these are lost (`AddedStays` in *Findings*). What it
says is that nothing else comes between the relays and their row. Other relays keep their server, and one of the account's
identities there: two identities on one server are merged. The last relay's
removal is never written, for without an email nothing is.

Properties: `RelaysTypeOK`, `OnePrimary`, `RelaysSurvive`.

## Runs

| Run | Instance | Distinct states | Shows |
|---|---|---|---|
| `MailSync` | 2 mails (one chat, one control), 1 push handler and the loop, 1 load a session, any number of crashes | 572,696 | safety, the refinement, and `OwedMailSettles` under `FairSpec` |
| `Mailboxes` | 2 mailboxes and another relay, 2 mails each, 1 push handler and the loop | 2,673,527 | mail is left out for the named causes only |
| `Transport` | 3 sockets, 2 sends or fetches, 2 callers | 233,055 | safety, and `CallsSettle` under `FairSpec` |
| `SecureJoin` | 2 accounts, 2 joins, 2 invites, 1 handler, symmetry | 269,558 | safety, for two joins of one account and for crossing joins |
| `SecureJoinReload` | 2 accounts, 1 join, 1 invite, 2 handlers, 1 reload, 1 mail of another client | 110,158 | `JoinSettles` under `FairSpec` |
| `Chats` | 1 incoming message delivered twice, 1 outgoing, 2 operations at once, 2 calls, both stores | 285,932 | what overlapping operations do to rows |
| `Groups` | 2 members, 2 operations at once, 3 calls, both stores, symmetry | 896,733 | members, snapshot and chat row |
| `GroupsSent` | as above | | counterexample, see *Findings* |
| `Contacts` | 2 peers, 2 keys, 2 handlers, 2 snapshots at once, 4 calls, symmetry | 230,245 | rows, registry, blocks and keys |
| `Accounts` | 2 emails, 2 passwords, 2 slots, 2 account objects, 2 requests at once, 3 calls | 1,790,925 | slots, events, passwords, keys |
| `Database` | 2 account objects of one email, 2 handlers, 4 connections, 4 handlers ever, symmetry | 2,233,768 | handles, secrets, later rows, waiters |
| `Relays` | 2 servers, 2 identities, 3 transports, 1 load, 3 calls, symmetry | 1,138,094 | the primary relay, what a reload gives back |

Why the bounds are enough. Two processes are what it takes for a state read before
an await to be stale after it, and two of whatever they work on (mails,
members, peers, objects) for the work of one to disturb the other's; three calls
let one operation prepare what two others race for. `MailSync`: a push
handler and the loop race for one mail and finish two in any order; that the cursor jumps
over a mail another push handler still holds takes a second one, and is left to the
proofs, which hold for any number; any number of sessions follow each other, and each
may run one load (`MaxLoads`), beside which everything else goes on. `Transport`: three sockets
let one close late while a second is replaced by a third; calls are bounded because
request ids would grow forever. `SecureJoin`: two accounts and two joins give the
joins of one account that share its active auth and the joins that cross; two invites
let the tokens change between two mails; no code relates mails of different
peers except through the active auth. `Chats`: the copies of one message race
with each other, a page of one message is the smallest that leaves one out.
`Database`: one profile is removed, the second is added after or during that,
and a fourth connection is open while three are in use or lost. `Relays`: with a
third transport one can be replaced while two have sockets; two loads at
once were explored with two calls and agree. What the proofs cover they cover
for every value of these bounds.

An idle account has nothing to do and calls are bounded, so that only `MailSync`,
`Mailboxes` and `Relays`, where something can always happen, check deadlock.

Fairness. `MailSync`: the event loop resumes every handler and the loop, a request is
answered or rejected, a relay with an open socket pushes what it owes. Nobody is
obliged to connect or to call `backgroundFetch`, and no failure is excluded.
`Transport`: the browser ends an opening or closing socket and fires timers; the
relay is not obliged to answer, and nothing closes an open socket. A request on
an open socket with a silent relay therefore waits forever (`wsRequest` has no
timeout), and no property claims otherwise. `SecureJoin`: the steps of a join
happen, for timers fire and sends settle (the exception is the open socket with
the silent relay just named); the relay is not obliged to deliver anything, nor is
the inviter obliged to answer. The other modules state no fairness:
`NobodyForgotten` says of `Database` that the request somebody waits for is there,
not that IndexedDB answers it, which a deletion blocked by a lost connection
prevents.

## Proofs

For every component an inductive invariant, defined at the end of its module, is
proved of the specification, and from it the theorems listed in `PROJECT.json`, for
any number of processes and any value of the bounds. Every safety property a passing
run checks is stated by a theorem.

- `MailSyncProofs`: `IInv == TypeOK /\ Ownership /\ Cursors /\ Coverage`.
  `NoSilentGap` alone is not inductive: the cursor jumps to the UID a handler
  holds, so `Coverage` says of every point the cursor may jump to (the UIDs of
  busy handlers, the queue of the loop, the pushes of the sockets, the cursor on disk
  and in the rows loads hold: `Reached`) that everything below it is accounted for, so
  that the cursor may as well go back. A UID that counts as seen or will after a load
  (`Remembered`) is accounted for itself, for nobody will take it any more.
  `Ownership` says that one handler at most owns a mail past the `seenUIDs` test and
  counts its announcements. From it follow also `Once`, `NoGapBehindDisk` and
  `Implements` (every step is a step of `MailDelivery` or a stutter).
- `TransportProofs`: `TypeOK`, `Ids` (request ids are never reused), `Lifecycle`
  and the safety properties themselves; an entry has a socket whose close event
  is still to come (`PendingHasSocket`), an armed timer a pending handshake.
  For `Mailboxes`, `BInv == Filed /\ OneMailPerUid /\ Owing`: a mail that
  was there when the loop began is not above the cursor it began with, or its UID was
  seen, or its fetch failed, or it waits in a mailbox still to be listed or on the
  list at hand (`Owing`); the loop moves
  on from the lowest UID of a list, and every list has one. For `Relays`, `RInv`:
  `Listed` and `Loading` say that ids are unique and none is made twice, in memory, on
  disk (`Stored`) and in the hands of a load, whence `OnePrimary`; `Synced`: unless a
  write is due, a load will replace the relays or have them written, or the two were
  left to differ (`stale`: an older row loaded, a load that rejected, a write that
  failed), the row of the account's database `Matches` the relays, whence
  `RelaysSurvive`. The lemmas on
  lists (`DedupeSpec`, `RebuiltSpec`, `UpsertedSpec`, `RemovedSpec`) say what
  deduplication, a load, an upsert and a removal leave in the list.
- `SecureJoinProofs`: the properties speak of joins that have read a mail, so
  the invariant adds `MailsKept`, which says the same of every mail on its way, and
  `HasUri`. `NextEffect`: a step that moves a join on has read a mail of its
  inviter, and a new mail is accounted for; `BackedStays`: what backs a verified
  join is only replaced by something that backs it too.
- `ChatsProofs`: `TypeOK` needs that an operation has the rows it goes on with;
  `Placed` (`About`, `At`, `Holds`) says at which awaits an operation may
  stand, about which kind of message and with which rows in hand. `Honest` says
  `OutgoingHonest` of the rows in hand too, which operations write back. `CInv` adds
  one part for each of the other properties. That a row says seen only if the peer
  read the message or the application marked it seen needs that `markSeen` of a message
  of ours is on record (`ownSeen`) while its operation holds the row. `Settled`: what is stored while there is
  no chat has an operation that will write the chat or erase the message, whence
  `NoOrphan`. The rest is what `MemoryStore` owes to handing out its row
  objects. `OneCounter`: who holds the stored chat row holds it as it is, and two who hold
  one object hold the same, so that no draft writes an old counter back
  (`UnreadIsExact`). `Objects`: a message that was stored once is one object in
  the store and in every hand; `SeenIsFinal`, an action property, follows from it.
  `Accounted`: receipts sent, receipts on their way out and unseen objects are
  together no more than the arrivals stored, whence `ReceiptOnce`; it counts
  finite sets, and each action moves one element from one to the other.
  `Effective`: a message whose receipt is over is not still to be stored, for no
  operation is about to persist it (`Unsaved`, `OneSend`, `Errand`).
- `GroupsProofs`: `Placed` for the operations; `Alone` says that a member somebody
  is settling is not settled for good, whence `NoLostUpdate`; `Saved` and
  `LastWord` say that memory differs from the snapshot only while a timer, an
  operation or a failure accounts for it, whence `SnapshotFollows`. `GInv` adds
  `RowsNumbered` and `Mirrored` (a name that is not the group's has a mirror under
  way, or an operation that ends in one) for `RowMirrorsGroup`, and `Agreed`
  for `ViewsAgree`: a member knows of another, or is owed a mail whose list will
  say so when it is built, and nobody believes in more members than there are.
- `ContactsProofs`: `Marks` says that set, mark and row of a peer agree unless the
  peer is among the lost, `Keyed` that a key other than the ring's has a saver or a
  timer behind that will fix it: a saver with an older key still to write has one
  behind it with the ring's, which passes no one, unless the peer is `torn`.
- `AccountsProofs`: `SlotsMade`, `JobsMade` and `Heard` give `EventsOnce`: a slot
  gets account and handlers in one step, never before it exists, and an object
  leaves the map before the end of its wipe is forgotten. `PInv` is proved one
  object at a time, for a step concerns one object and leaves what it says of the
  others: which password and key an object, its background restore and every request
  under way carry, and what the account row then holds (`PasswordPinned`,
  `KeyKept`). `SlotsListed` needs that filtering `order` drops one slot and
  no other. `Filter` is a recursive function, as `DedupeRelays` of `Relays` is, and
  what it returns is shown by the least length at which it could be wrong
  (`NatLessThanWellFounded`, `WFMin`), for the induction theorems themselves take
  an operator.
- `DatabaseProofs`: every object is in order with respect to the queue. `Kept(o)`:
  before the first connection or row of a live profile no deletion is left
  or clearing (unless it crossed another removal), whence `LiveRowsKept`; `Shed(o)`:
  whatever still writes the account row of a destroyed profile stands before a
  deletion, whence `SecretsGone`; `OneStoreEach` and `Queued` for
  `HandleIsOpen`. Inductive beside it are `Clearing` (only a profile that is being
  destroyed is cleared) and `NobodyForgotten`.

The assumptions are the named `ASSUME`s of the modules: bounds are natural
numbers, the values that mean nobody, nothing and no row are not values of
anything else, sets that stand for different things are disjoint, `Kind` assigns a
kind to every mail and `MsgId` a Message-ID.

Only model-checked: the liveness properties `OwedMailSettles`, `CallsSettle` and
`JoinSettles` (fairness and `ENABLED` are beyond TLAPS here), and the violation
found by `GroupsSent`.

## Findings

Run `GroupsSent` (`SentInGroupChat`): `store.ts:19` says a chat's id is "peerEmail (1:1) or group-id".
`persistOutgoing` (`account/messaging.ts:12`) lower-cases it, while group ids have
letters of both cases and `persistGroupChat` and incoming mail keep them: what the
account sends to a group is filed in a chat of another name.

The modules also state what comments and docs say and the code does not keep.
These definitions do not hold and belong to no run; each is violated when it replaces
the properties of the configuration named.

| Statement | Configuration | What is said | What happens |
|---|---|---|---|
| `DiskCursorNeverBack` | `MailSync` | `store.ts:132`: "Highest processed mailbox UID (for reconnect sync)" | while a load reads the row, the account is in use and its cursor 0 until `base.ts:425`; `compat.ts:1683-1689` sets credentials, makes keys and flushes meanwhile, and `base.ts:517` writes the lower cursor. A reconnect then fetches mail again, no mail is lost (`NoGapOnDisk`) |
| `CursorIsHighestSeen` | `MailSync` | `base.ts:51`: "Highest mailbox UID processed" | a second load (`restoreAccount` for an account that is there, `manager.ts:191`) sets the cursor below UIDs that were seen since |
| `SeenByPeer` | `Chats` | `compat.ts:725`: a message of ours that is seen is `DC_STATE_OUT_MDN_RCVD`, the peer's receipt came | `markseen_msgs` of a message of ours marks it seen, for `inbox.ts:664` does not look at the direction: it is reported as read though nobody read it |
| `OnlyProvenIsUsed` | `Transport` | `transport.ts:186`: prove credentials "before treating as connected" | `isConnected` and the early return of `connect` look at `readyState` only: a request goes out on a socket whose handshake is unanswered |
| `MarkedAfterProof` | `SecureJoin` | `account/securejoin.ts:102`: "After joiner proves auth, mark peer verified" | `lib/securejoin.ts:666` returns without an error when the auth does not match, and the caller marks the peer |
| `WatchedAreFetched` | `Mailboxes` | `features.ts:193`: "Fetch new messages from all watched mailboxes" | a mail is skipped when another mailbox had one with its UID, or one above it |
| `PushedIsProcessed` | `Mailboxes` | `docs/parity.md:24`: "multi-WS" is done | the push of a second relay is answered with the primary relay's mail of that number |
| `NothingRewritten` | `Database` | `base.ts:746`: "Stop I/O first so nothing rewrites the DB while we wipe it" | handlers that were suspended write their rows while the wipe waits |
| `DisconnectDisconnects` | `Relays` | `base.ts:720`: "Disconnect all transports" | a load has replaced the transports: the socket of the old one stays open |
| `RemovedIsDisconnected` | `Relays` | `base.ts:992`: "Remove a relay by ID (disconnects its transport)" | `connect` moved the transport to the URL without the slash, removal looks under the one with it |
| `AddedStays` | `Relays` | `docs/examples.md:329`: relays "are included in the account snapshot" | a relay added while the account is being restored is replaced by the row's |
| `RemovedStaysRemoved` | `Relays` | `base.ts:992`: "Remove a relay by ID" | the snapshot goes under the email of the new primary relay; the database's own row still lists the old one |

Three more. `docs/security.md:92` and `docs/parity.md:85` say that passwords are not
written to IndexedDB; `base.ts:503` writes the password into the account row, as `disk`
of `Accounts` has it, and `PasswordPinned` is about what a restore reads there. Seen in
traces: the cursor `store.ts:132` describes moves before the mail is processed (in
`MailSync` such mail is in `faulted`); `account/securejoin.ts:23` calls the invite's tokens
stable over a reload, but the URI is returned while they are being flushed (`token`
against `saved` in `SecureJoin`). And `store.ts:451` lets `wipeAccount` "still
proceed after a short wait" for other tabs: a connection the same page lost to an
overlapping `getDB` blocks the deletion too, and then whoever opens the database
next waits behind it.

## Not modelled

- `MailSync`, `Mailboxes`: `sinceUID` given explicitly to `connect` or
  `backgroundFetch`, several `backgroundFetch` calls at once.
- `SecureJoin`: the names of the vg- steps (the same transitions) and
  the group a vg- join grants, mail delivered again after a crash, blocked
  senders, the parsing of URIs and QR codes, the chat row opened at the end.
- `Chats`: group chats and the device chat, the other fields of the rows, the
  text of drafts and previews, a page closed between two steps.
- `Groups`: two groups at once, `joinGroup` (it never registers the group), receivers,
  who do not apply membership mails, reactions and media (the fan-out of a send).
- `Contacts`, `Relays`, `Accounts`: `importBackup`, the manager's own wrappers the
  facade does not call, the vault of the host.
- `Database`: requests that fail, other tabs, the registry database, a second removal
  of an account that a restore has given its relay back during the first.
- Features: device-message labels, location streams, calls, webxdc: each a small
  map written in one step. A device message is lost if the page closes between its
  label and its row.
- MIME parsing and building, OpenPGP, backup, profile, the message, chat and contact
  methods of the facade, entry point and logger: computation and adapters with
  little state of their own.

## Plan

Done: the mail pipeline with its refinement, the transport, the handshake, chats,
groups, contacts, accounts, the database and relays, and a proof of every safety
property they are checked for. Left, in order of importance:

1. An abstract specification of a store that `Database` implements for a caller
   whose profile lives, and one of a relay's connection for `Transport`.
2. Pure algorithms against reference definitions: e-mail key variants, preview
   recomputation.
