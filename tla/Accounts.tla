------------------------------ MODULE Accounts ------------------------------
(***************************************************************************)
(* The accounts of one page, from the facade down to the database:         *)
(*   jsonrpc/compat.ts   slots, their order and selection; add, remove,    *)
(*                       configure, register, the restore at start-up      *)
(*   account/manager.ts  the account objects and their background restore  *)
(*   account/base.ts     credentials, loadFromStore, generateKeys, the     *)
(*                       debounced snapshot, destroyProfile                *)
(* A configuration and a removal span several awaits, and requests of the  *)
(* application interleave there.  The store is IndexedDB, one database per *)
(* email; an email stands for its address, server and database.  What an   *)
(* account does once it is connected is left to the other modules.         *)
(***************************************************************************)
EXTENDS Naturals, Sequences, FiniteSets, Lists

CONSTANTS
    Procs,        \* requests that may be under way at once
    Emails,       \* addresses
    Passwords,    \* passwords
    Metas,        \* restoreAccounts: the sequences the host may pass
    Disks,        \* what the databases may hold when the page opens
    MaxSlots,     \* bound: slots ever made
    MaxAccounts,  \* bound: account objects ever made
    MaxCalls,     \* bound: requests of the application
    None          \* no account, no slot, no key, no password, no snapshot

Slots == 1..MaxSlots
Objects == 1..MaxAccounts
Keys == 0..MaxCalls      \* 0: the key of the stored profile, others: made here

Steps == {"idle", "read", "rest", "keys", "attach", "io", "wipe", "rewipe"}
Jobs == [op : {"none", "restore", "configure", "remove"}, slot : Slots \cup {None},
         acc : Objects \cup {None}, key : Keys \cup {None}, call : Keys]

NoJob == [op |-> "none", slot |-> None, acc |-> None, key |-> None, call |-> 0]

ASSUME NoneAssumption ==
    /\ None \notin Slots \cup Objects \cup Keys
    /\ None \notin Passwords \cup [pw : Passwords, key : Keys \cup {None}]
ASSUME BoundAssumption == MaxSlots \in Nat \ {0} /\ MaxAccounts \in Nat /\ MaxCalls \in Nat
ASSUME EmailsAssumption == Emails # {}
ASSUME MetasAssumption ==
    \A m \in Metas : m \in Seq([email : Emails, pw : Passwords]) /\ Len(m) <= MaxSlots
ASSUME DisksAssumption ==
    \A d \in Disks : d \in [Emails -> {None} \cup [pw : Passwords, key : {0}]]

VARIABLES
    metas,     \* restoreAccounts
    ready,     \* ensureReady is over: requests are served
    slots,     \* keys of slots
    order,     \* order
    selected,  \* selectedAccountId
    nextId,    \* nextAccountId
    account,   \* slot.account; a slot has one when it is configured
    unsubs,    \* the account on which the slot's handlers were registered
    accounts,  \* the manager's map
    made,      \* account objects made so far
    email,     \* whose database the object uses
    cred,      \* the password of its relay, None when it has no relay
    key,       \* its private key
    timer,     \* persistTimer is set
    hears,     \* eventHandlers: the slots that hear the object
    first,     \* the password addAccount got, which its background restore sets
    restore,   \* that restore: "none", "read" or "rest"
    held,      \* the key of the snapshot the restore has read
    disk,      \* the stored snapshot of each email
    pc,        \* await point of a request
    job,       \* what the request is about
    calls,     \* bound, and supply of keys
    asked,     \* history: the last password a caller gave for the object
    loaded,    \* history: objects whose last loadFromStore has returned
    spoilt     \* history: emails with a failed load, overlapping configurations, or rows
               \* that a second removal of a slot cleared under another object

facade == <<slots, order, selected, nextId, account, unsubs>>
object == <<made, email, cred, key, timer, hears, accounts>>
background == <<first, restore, held>>
process == <<pc, job>>
history == <<asked, loaded, spoilt>>
vars == <<metas, ready, facade, object, background, disk, process, calls, history>>

ToSet(s) == {s[i] : i \in 1..Len(s)}

Init ==
    /\ metas \in Metas /\ ready = FALSE
    /\ slots = {} /\ order = <<>> /\ selected = None /\ nextId = 1
    /\ account = [s \in Slots |-> None] /\ unsubs = [s \in Slots |-> None]
    /\ accounts = {} /\ made = 0 /\ email \in [Objects -> {CHOOSE e \in Emails : TRUE}]
    /\ cred = [a \in Objects |-> None] /\ key = [a \in Objects |-> None]
    /\ timer = [a \in Objects |-> FALSE] /\ hears = [a \in Objects |-> {}]
    /\ first = [a \in Objects |-> None] /\ restore = [a \in Objects |-> "none"]
    /\ held = [a \in Objects |-> None]
    /\ disk \in Disks
    /\ pc = [p \in Procs |-> "idle"] /\ job = [p \in Procs |-> NoJob] /\ calls = 0
    /\ asked = [a \in Objects |-> None] /\ loaded = {} /\ spoilt = {}

-----------------------------------------------------------------------------
(* What the account object does *)

\* setCredentials: the relay's row; a change schedules a snapshot.
SetCredentials(a, w) ==
    /\ cred' = [cred EXCEPT ![a] = w]
    /\ timer' = [timer EXCEPT ![a] = @ \/ cred[a] # w]

\* saveToStore: an object without credentials writes nothing.
SavedWith(a, k) ==
    IF cred[a] = None THEN disk
    ELSE [disk EXCEPT ![email[a]] = [pw |-> cred[a], key |-> k]]

\* The snapshot's key replaces the one in memory, if the snapshot has one.
KeyOf(a, k) == IF k = None THEN key ELSE [key EXCEPT ![a] = k]

\* wipeAccount: deleteDatabase waits for every open connection, so another
\* object on that database, or a handle getDB has lost, blocks it.
WipeAccount(a) ==
    \/ /\ \A b \in Objects \ {a} : email[b] = email[a] => cred[b] = None
       /\ disk' = [disk EXCEPT ![email[a]] = None]
    \/ UNCHANGED disk

TimerFires(a) ==
    /\ timer[a]
    /\ timer' = [timer EXCEPT ![a] = FALSE]
    /\ disk' = SavedWith(a, key[a])
    /\ UNCHANGED <<metas, ready, facade, made, email, cred, key, hears, accounts, background, process, calls, history>>

-----------------------------------------------------------------------------
(* The background restore of addAccount.  Its database requests were made   *)
(* before those of the configuration that called addAccount, so each is     *)
(* answered before its counterpart there.                                   *)

RestoreReads(a) ==
    /\ restore[a] = "read"
    /\ IF disk[email[a]] = None
       THEN /\ cred' = [cred EXCEPT ![a] = first[a]]
            /\ timer' = [timer EXCEPT ![a] = TRUE]
            /\ restore' = [restore EXCEPT ![a] = "none"] /\ first' = [first EXCEPT ![a] = None]
            /\ loaded' = loaded \cup {a}
            /\ UNCHANGED held
       ELSE /\ cred' = [cred EXCEPT ![a] = disk[email[a]].pw]
            /\ restore' = [restore EXCEPT ![a] = "rest"]
            /\ held' = [held EXCEPT ![a] = disk[email[a]].key]
            /\ UNCHANGED <<timer, loaded, first>>
    /\ UNCHANGED <<metas, ready, facade, made, email, key, hears, accounts, disk, process, calls, asked, spoilt>>

\* Mutant: the snapshot's password stays.
RestoreEndsUnpinned(a) ==
    /\ restore[a] = "rest"
    /\ \A p \in Procs : ~(pc[p] = "read" /\ job[p].acc = a)
    /\ key' = KeyOf(a, held[a])
    /\ restore' = [restore EXCEPT ![a] = "none"] /\ held' = [held EXCEPT ![a] = None]
    /\ first' = [first EXCEPT ![a] = None]
    /\ loaded' = loaded \cup {a}
    /\ UNCHANGED <<metas, ready, facade, made, email, cred, timer, hears, accounts, disk, process, calls, asked, spoilt>>

RestoreEnds(a) ==
    /\ restore[a] = "rest"
    /\ \A p \in Procs : ~(pc[p] = "read" /\ job[p].acc = a)
    /\ key' = KeyOf(a, held[a])
    /\ SetCredentials(a, first[a])
    /\ restore' = [restore EXCEPT ![a] = "none"] /\ held' = [held EXCEPT ![a] = None]
    /\ first' = [first EXCEPT ![a] = None]
    /\ loaded' = loaded \cup {a}
    /\ UNCHANGED <<metas, ready, facade, made, email, hears, accounts, disk, process, calls, asked, spoilt>>

RestoreFails(a) ==
    /\ restore[a] # "none"
    /\ SetCredentials(a, first[a])
    /\ restore' = [restore EXCEPT ![a] = "none"] /\ held' = [held EXCEPT ![a] = None]
    /\ first' = [first EXCEPT ![a] = None]
    /\ spoilt' = spoilt \cup {email[a]}
    /\ UNCHANGED <<metas, ready, facade, made, email, key, hears, accounts, disk, process, calls, asked, loaded>>

-----------------------------------------------------------------------------
(* Slots *)

Serve == ready /\ calls < MaxCalls /\ calls' = calls + 1

\* Request p goes on at step with slot s and object a; n is its number.
Goto(p, step, op, s, a, n) ==
    /\ pc' = [pc EXCEPT ![p] = step]
    /\ job' = [job EXCEPT ![p] = [op |-> op, slot |-> s, acc |-> a, key |-> None, call |-> n]]
Ends(p) == pc' = [pc EXCEPT ![p] = "idle"] /\ job' = [job EXCEPT ![p] = NoJob]

AddAccount ==
    /\ Serve
    /\ nextId \in Slots
    /\ nextId' = nextId + 1
    /\ slots' = slots \cup {nextId} /\ order' = Append(order, nextId)
    /\ UNCHANGED <<metas, ready, selected, account, unsubs, object, background, disk, process, history>>

\* Mutant: slots the host does not name are forgotten.
SetAccountsOrderOnly(ids) ==
    /\ Serve
    /\ order' = Filter(ids, ToSet(order))
    /\ UNCHANGED <<metas, ready, slots, selected, nextId, account, unsubs, object, background, disk, process, history>>

SetAccountsOrder(ids) ==
    /\ Serve
    /\ order' = Filter(ids, ToSet(order)) \o Filter(order, ToSet(order) \ ToSet(ids))
    /\ UNCHANGED <<metas, ready, slots, selected, nextId, account, unsubs, object, background, disk, process, history>>

SelectAccount(s) ==
    /\ Serve
    /\ s \in slots
    /\ selected' = s
    /\ UNCHANGED <<metas, ready, slots, order, nextId, account, unsubs, object, background, disk, process, history>>

\* Mutant: no slot is 0, not null.
SelectedAfterZero(s, rest) ==
    IF selected # s THEN selected ELSE IF rest = <<>> THEN 0 ELSE Head(rest)

SelectedAfter(s, rest) ==
    IF selected # s THEN selected ELSE IF rest = <<>> THEN None ELSE Head(rest)

\* The end of remove_account.
Drop(s) ==
    /\ hears' = [a \in Objects |-> IF a = unsubs[s] THEN hears[a] \ {s} ELSE hears[a]]
    /\ slots' = slots \ {s}
    /\ order' = Filter(order, ToSet(order) \ {s})
    /\ selected' = SelectedAfter(s, order')
    /\ UNCHANGED <<nextId, account, unsubs>>

\* clear, instead of the wipe, when the address is gone already: it waits for nobody
\* and takes the rows of an object that was made for the address meanwhile.
ClearsOthers(a) ==
    /\ cred[a] = None /\ \E b \in Objects \ {a} : email[b] = email[a] /\ cred[b] # None
    /\ disk' = [disk EXCEPT ![email[a]] = None]
    /\ spoilt' = spoilt \cup {email[a]}

\* destroyProfile, up to its wait for the wipe.
Destroy(a) ==
    /\ timer' = [timer EXCEPT ![a] = FALSE]
    /\ cred' = [cred EXCEPT ![a] = None]
    /\ key' = [key EXCEPT ![a] = None]
    /\ hears' = [hears EXCEPT ![a] = {}]
    /\ (WipeAccount(a) /\ UNCHANGED spoilt) \/ ClearsOthers(a)

RemoveAccount(p, s) ==
    /\ Serve
    /\ pc[p] = "idle" /\ s \in slots
    /\ LET a == account[s] IN
       \/ /\ a = None
          /\ Drop(s)
          /\ UNCHANGED <<made, email, cred, key, timer, accounts, disk, process, spoilt>>
       \/ /\ a # None /\ a \in accounts
          /\ Destroy(a)
          /\ Goto(p, "wipe", "remove", s, a, 0)
          /\ UNCHANGED <<facade, made, email, accounts>>
       \/ /\ a # None /\ a \notin accounts
          /\ Goto(p, "rewipe", "remove", s, a, 0)
          /\ UNCHANGED <<facade, object, disk, spoilt>>
    /\ UNCHANGED <<metas, ready, background, asked, loaded>>

\* removeAccount after destroyProfile: the root store wipes the database again.
Deregister(p) ==
    /\ pc[p] = "wipe"
    /\ accounts' = accounts \ {job[p].acc}
    /\ WipeAccount(job[p].acc)
    /\ pc' = [pc EXCEPT ![p] = "rewipe"]
    /\ UNCHANGED <<metas, ready, facade, made, email, cred, key, timer, hears, background, job, calls, history>>

RemoveEnds(p) ==
    /\ pc[p] = "rewipe"
    /\ Drop(job[p].slot)
    /\ Ends(p)
    /\ UNCHANGED <<metas, ready, made, email, cred, key, timer, accounts, background, disk, calls, history>>

-----------------------------------------------------------------------------
(* Configuration *)

\* findAccountByEmail: a destroyed object has no address any more.
Found(e) == {a \in accounts : email[a] = e /\ cred[a] # None}
\* The first of them: a set of one object, or of none.
FindAccountByEmail(e) == {a \in Found(e) : \A b \in Found(e) : a <= b}

\* new DeltaChatAccount, in the manager's map
Construct(a, e, w) ==
    /\ made' = a
    /\ email' = [email EXCEPT ![a] = e] /\ cred' = [cred EXCEPT ![a] = w]
    /\ accounts' = accounts \cup {a}
    /\ asked' = [asked EXCEPT ![a] = w]
    /\ UNCHANGED <<key, timer>>

\* Mutant: the handlers on the account before stay.
WireEventsAgain(s, a) ==
    /\ account' = [account EXCEPT ![s] = a]
    /\ unsubs' = [unsubs EXCEPT ![s] = a]
    /\ hears' = [hears EXCEPT ![a] = @ \cup {s}]

\* wireEvents, with the account in the slot
WireEvents(s, a) ==
    /\ account' = [account EXCEPT ![s] = a]
    /\ unsubs' = [unsubs EXCEPT ![s] = a]
    /\ hears' = [b \in Objects |-> IF b = a THEN hears[b] \cup {s}
                                   ELSE IF b = unsubs[s] THEN hears[b] \ {s} ELSE hears[b]]

\* The slot gets the account; startIo throws when the slot has gone from the
\* list, connect when the object has no relay.
Attach(p, s, a, live) ==
    /\ WireEvents(s, a)
    /\ IF s \in slots /\ live THEN Goto(p, "io", "configure", s, a, 0) ELSE Ends(p)

\* Mutant: keys are made in any case.
GoOnAnew(p, s, a, n, k, live) ==
    Goto(p, "keys", "configure", s, a, n) /\ UNCHANGED <<account, unsubs, hears>>

\* Keys are made for an account that has none.
GoOn(p, s, a, n, k, live) ==
    IF k = None
    THEN Goto(p, "keys", "configure", s, a, n) /\ UNCHANGED <<account, unsubs, hears>>
    ELSE Attach(p, s, a, live)

BeingConfigured(a) == \E q \in Procs : pc[q] \in {"read", "rest", "keys"} /\ job[q].acc = a

ConfigureCredentials(p, s, e, w) ==
    /\ Serve
    /\ pc[p] = "idle" /\ s \in slots
    /\ IF Found(e) = {}
       THEN LET a == made + 1 IN
            /\ a \in Objects
            /\ Construct(a, e, w)
            /\ first' = [first EXCEPT ![a] = w] /\ restore' = [restore EXCEPT ![a] = "read"]
            /\ Goto(p, "read", "configure", s, a, calls + 1)
            /\ UNCHANGED <<account, unsubs, hears, spoilt>>
       ELSE \E a \in FindAccountByEmail(e) :
            /\ SetCredentials(a, w)
            /\ asked' = [asked EXCEPT ![a] = w]
            /\ spoilt' = IF a \in loaded /\ ~BeingConfigured(a) THEN spoilt ELSE spoilt \cup {e}
            /\ GoOn(p, s, a, calls + 1, key[a], TRUE)
            /\ UNCHANGED <<made, email, key, accounts, first, restore>>
    /\ UNCHANGED <<metas, ready, slots, order, selected, nextId, held, disk, loaded>>

\* The relay has made an account for addTransportFromQr; its address is new.
Register(p, s, e, w) ==
    /\ Serve
    /\ pc[p] = "idle" /\ s \in Slots /\ s < nextId
    /\ disk[e] = None /\ \A a \in 1..made : email[a] # e
    /\ LET a == made + 1 IN
       /\ a \in Objects
       /\ Construct(a, e, w)
       /\ loaded' = loaded \cup {a}
       /\ Goto(p, "keys", "configure", s, a, calls + 1)
    /\ UNCHANGED <<metas, ready, facade, hears, background, disk, spoilt>>

\* restoreAccount for the next entry of restoreAccounts
RestoreAccount(p) ==
    /\ ~ready /\ \A q \in Procs : pc[q] = "idle"
    /\ nextId <= Len(metas)
    /\ LET s == nextId
           e == metas[s].email
       IN /\ slots' = slots \cup {s} /\ order' = Append(order, s) /\ nextId' = s + 1
          /\ \E a \in IF Found(e) = {} THEN {made + 1} \cap Objects ELSE FindAccountByEmail(e) :
                /\ IF a = made + 1 THEN Construct(a, e, metas[s].pw)
                   ELSE UNCHANGED <<made, email, cred, key, timer, accounts, asked>>
                /\ Goto(p, "read", "restore", s, a, 0)
    /\ UNCHANGED <<metas, ready, selected, account, unsubs, hears, background, disk, calls, loaded, spoilt>>

Ready ==
    /\ ~ready /\ \A p \in Procs : pc[p] = "idle"
    /\ nextId = Len(metas) + 1
    /\ ready' = TRUE
    /\ IF metas = <<>> THEN slots' = {1} /\ order' = <<1>> /\ nextId' = 2
       ELSE UNCHANGED <<slots, order, nextId>>
    /\ selected' = Head(order')
    /\ UNCHANGED <<metas, account, unsubs, object, background, disk, process, calls, history>>

-----------------------------------------------------------------------------
(* The awaits of a configuration or of a restore *)

\* loadFromStore has the snapshot: relays at once, keys after more awaits.
Read(p) ==
    /\ pc[p] = "read"
    /\ LET a == job[p].acc
           snapshot == disk[email[a]]
       IN /\ restore[a] # "read"
          /\ IF snapshot # None
             THEN /\ cred' = [cred EXCEPT ![a] = snapshot.pw]
                  /\ pc' = [pc EXCEPT ![p] = "rest"]
                  /\ job' = [job EXCEPT ![p].key = snapshot.key]
                  /\ UNCHANGED <<timer, loaded, account, unsubs, hears, asked>>
             ELSE /\ loaded' = loaded \cup {a}
                  /\ IF job[p].op = "restore"
                     THEN /\ cred' = [cred EXCEPT ![a] = metas[job[p].slot].pw]
                          /\ asked' = [asked EXCEPT ![a] = metas[job[p].slot].pw]
                          /\ timer' = [timer EXCEPT ![a] = TRUE]
                          /\ WireEvents(job[p].slot, a) /\ Ends(p)
                     ELSE /\ GoOn(p, job[p].slot, a, job[p].call, key[a], cred[a] # None)
                          /\ UNCHANGED <<cred, timer, asked>>
    /\ UNCHANGED <<metas, ready, slots, order, selected, nextId, made, email, key, accounts, background, disk, calls, spoilt>>

Rest(p) ==
    /\ pc[p] = "rest"
    /\ LET a == job[p].acc IN
       /\ restore[a] = "none"
       /\ key' = KeyOf(a, job[p].key)
       /\ loaded' = loaded \cup {a}
       /\ IF job[p].op = "restore"
          THEN /\ SetCredentials(a, metas[job[p].slot].pw)
               /\ asked' = [asked EXCEPT ![a] = metas[job[p].slot].pw]
               /\ WireEvents(job[p].slot, a) /\ Ends(p)
          ELSE /\ GoOn(p, job[p].slot, a, job[p].call, key'[a], cred[a] # None)
               /\ UNCHANGED <<cred, timer, asked>>
    /\ UNCHANGED <<metas, ready, slots, order, selected, nextId, made, email, accounts, background, disk, calls, spoilt>>

\* generateKeys: the new keys are flushed.
GenerateKeys(p) ==
    /\ pc[p] = "keys"
    /\ LET a == job[p].acc IN
       /\ key' = [key EXCEPT ![a] = job[p].call]
       /\ timer' = [timer EXCEPT ![a] = FALSE]
       /\ disk' = SavedWith(a, job[p].call)
    /\ pc' = [pc EXCEPT ![p] = "attach"]
    /\ UNCHANGED <<metas, ready, facade, made, email, cred, hears, accounts, background, job, calls, history>>

Attached(p) ==
    /\ pc[p] = "attach"
    /\ Attach(p, job[p].slot, job[p].acc, cred[job[p].acc] # None)
    /\ UNCHANGED <<metas, ready, slots, order, selected, nextId, made, email, cred, key, timer, accounts, background, disk, calls, history>>

\* The database or the key generator fails: the configuration throws, a
\* restore leaves its slot unconfigured.
Fails(p) ==
    /\ pc[p] \in {"read", "rest", "keys"}
    /\ Ends(p)
    /\ IF pc[p] = "keys" THEN UNCHANGED <<loaded, spoilt>>
       ELSE loaded' = loaded \ {job[p].acc} /\ spoilt' = spoilt \cup {email[job[p].acc]}
    /\ UNCHANGED <<metas, ready, facade, object, background, disk, calls, asked>>

\* connect, then updateDeviceChats with its flush
Configured(p) ==
    /\ pc[p] = "io"
    /\ Ends(p)
    /\ LET a == job[p].acc IN
       \/ timer' = [timer EXCEPT ![a] = FALSE] /\ disk' = SavedWith(a, key[a])
       \/ UNCHANGED <<timer, disk>>
    /\ UNCHANGED <<metas, ready, facade, made, email, cred, key, hears, accounts, background, calls, history>>

Call(p) ==
    \/ \E s \in Slots : RemoveAccount(p, s)
    \/ \E s \in Slots, e \in Emails, w \in Passwords :
          ConfigureCredentials(p, s, e, w) \/ Register(p, s, e, w)

Step(p) == Deregister(p) \/ RemoveEnds(p) \/ Read(p) \/ Rest(p) \/ GenerateKeys(p)
           \/ Attached(p) \/ Fails(p) \/ Configured(p)

Next ==
    \/ Ready
    \/ AddAccount
    \/ \E s \in Slots : SetAccountsOrder(<<s>>) \/ SelectAccount(s)
    \/ \E p \in Procs : RestoreAccount(p) \/ Call(p) \/ Step(p)
    \/ \E a \in Objects : TimerFires(a) \/ RestoreReads(a) \/ RestoreEnds(a) \/ RestoreFails(a)

Spec == Init /\ [][Next]_vars

-----------------------------------------------------------------------------
(* Properties *)

FacadeOK ==
    /\ metas \in Metas /\ ready \in BOOLEAN
    /\ slots \subseteq Slots /\ order \in Seq(Slots) /\ selected \in Slots \cup {None}
    /\ nextId \in 1..MaxSlots + 1
    /\ account \in [Slots -> Objects \cup {None}] /\ unsubs \in [Slots -> Objects \cup {None}]
ObjectOK ==
    /\ accounts \subseteq 1..made /\ made \in 0..MaxAccounts
    /\ email \in [Objects -> Emails] /\ cred \in [Objects -> Passwords \cup {None}]
    /\ key \in [Objects -> Keys \cup {None}] /\ timer \in [Objects -> BOOLEAN]
    /\ hears \in [Objects -> SUBSET Slots]
BackgroundOK ==
    /\ first \in [Objects -> Passwords \cup {None}]
    /\ restore \in [Objects -> {"none", "read", "rest"}] /\ held \in [Objects -> Keys \cup {None}]
DiskOK == disk \in [Emails -> {None} \cup [pw : Passwords, key : Keys \cup {None}]]
ProcessOK == pc \in [Procs -> Steps] /\ job \in [Procs -> Jobs] /\ calls \in 0..MaxCalls
HistoryOK ==
    /\ asked \in [Objects -> Passwords \cup {None}]
    /\ loaded \subseteq 1..made /\ spoilt \subseteq Emails

\* Type invariant of the slots, the account objects and the database.
TypeOK == FacadeOK /\ ObjectOK /\ BackgroundOK /\ DiskOK /\ ProcessOK /\ HistoryOK

\* get_all_account_ids lists every slot once, and the selected account is one
\* of them: what remove_account does after its wipe fits the slots that were
\* added, ordered and selected meanwhile.
SlotsListed ==
    /\ ToSet(order) = slots /\ Len(order) = Cardinality(slots)
    /\ selected \in slots \cup {None}

\* The events of an account reach a listed slot once, and only from the
\* account that the slot holds now, however often it was configured; a
\* registered account that nobody is removing is heard by its slots.
EventsOnce ==
    \A s \in slots, a \in Objects :
        /\ s \in hears[a] => a = account[s]
        /\ account[s] = a /\ a \in accounts /\ (\A p \in Procs : ~(pc[p] = "wipe" /\ job[p].acc = a))
           => s \in hears[a]

\* An account whose load is over uses the password its caller gave last,
\* whatever password the stored snapshot and the background restore had;
\* only configurations that overlapped, a load that failed or rows that a second
\* removal cleared end otherwise.
PasswordPinned ==
    \A a \in loaded :
        cred[a] # None /\ restore[a] = "none" /\ email[a] \notin spoilt
            /\ (\A p \in Procs : pc[p] \in {"read", "rest"} => job[p].acc # a)
        => cred[a] = asked[a]

\* A stored private key goes only with its profile: no restore, configuration
\* or snapshot replaces or blanks it, unless an account was configured while
\* it was loading or making its keys, a load of it failed, or a removal asked for twice
\* cleared its rows.
KeyKept ==
    [][\A e \in Emails :
         disk[e] # None /\ disk[e].key # None /\ disk'[e] # None /\ e \notin spoilt
         => disk'[e].key = disk[e].key]_vars

-----------------------------------------------------------------------------
\* Why EventsOnce holds: a slot gets its account and its handlers in one step,
\* and never before it exists; a request knows a slot and an object that were
\* made; and an object is out of the map before the end of its wipe is forgotten.
Shaped(j) == j = [op |-> j.op, slot |-> j.slot, acc |-> j.acc, key |-> j.key, call |-> j.call]

MadeSlots == {s \in Slots : s < nextId}
SlotsMade ==
    /\ metas \in Metas /\ nextId \in Nat \ {0} /\ made \in 0..MaxAccounts
    /\ slots \subseteq MadeSlots /\ accounts \subseteq 1..made
    /\ account \in [Slots -> Objects \cup {None}] /\ unsubs = account
    /\ \A s \in Slots : account[s] # None => s \in MadeSlots /\ account[s] \in 1..made

JobsMade ==
    /\ pc \in [Procs -> Steps]
    /\ job = [p \in Procs |-> job[p]] /\ \A p \in Procs : Shaped(job[p])
    /\ \A p \in Procs : pc[p] # "idle" => job[p].slot \in MadeSlots /\ job[p].acc \in 1..made

Wiped(a) == \E p \in Procs : pc[p] = "wipe" /\ job[p].acc = a
Heard ==
    /\ hears \in [Objects -> SUBSET Slots]
    /\ \A a \in Objects : \A s \in hears[a] : a = account[s]
    /\ \A s \in slots : account[s] \in accounts /\ ~Wiped(account[s]) => s \in hears[account[s]]

IInv == SlotsMade /\ JobsMade /\ Heard

-----------------------------------------------------------------------------
\* Why SlotsListed holds: nothing is listed twice, and nothing is removed before
\* the restored slots are all there.
Injective(s) == \A i, j \in 1..Len(s) : s[i] = s[j] => i = j
Booting ==
    /\ \A p \in Procs : ~ready => pc[p] \in {"idle", "read", "rest"}
    /\ \A p \in Procs : pc[p] \in {"read", "rest"} => (job[p].op = "restore" <=> ~ready)
    /\ ~ready => /\ slots = MadeSlots /\ nextId <= Len(metas) + 1
                 /\ \A a \in Objects : restore[a] = "none"
Listed ==
    /\ Injective(order) /\ ToSet(order) = slots /\ selected \in slots \cup {None}
    /\ slots \subseteq 1..(nextId - 1)

-----------------------------------------------------------------------------
\* Why PasswordPinned and KeyKept hold, for the emails that nothing has spoilt.
Clean == {a \in 1..made : email[a] \notin spoilt}
Reads(p, a) == pc[p] \in {"read", "rest"} /\ job[p].acc = a
Configures(p, a) == pc[p] \in {"read", "rest", "keys"} /\ job[p].acc = a
Loading(a) == restore[a] # "none" \/ \E p \in Procs : Reads(p, a)

\* One request loads or makes keys for an object at a time; an object that is in
\* a slot, or about to get there, is loaded.
OneByOne(a) ==
    /\ \A p, q \in Procs : Configures(p, a) /\ Configures(q, a) => p = q
    /\ ready /\ Loading(a) =>
          /\ \A s \in Slots : account[s] # a
          /\ \A p \in Procs : pc[p] \in {"keys", "attach", "io"} => job[p].acc # a

\* A live object is in the map, and a destroyed one stays dead.
Lives(a) ==
    /\ asked[a] # None
    /\ Loading(a) => cred[a] # None
    /\ cred[a] # None => a \in accounts
    /\ \A p \in Procs : pc[p] = "wipe" /\ job[p].acc = a => cred[a] = None

\* A background restore is behind a request that reads, has the snapshot and
\* will set the password; what a request has read, it or the restore corrects.
Corrected(a) ==
    /\ restore[a] # "none" =>
          /\ first[a] = asked[a] /\ ~timer[a] /\ key[a] = None
          /\ \E p \in Procs : Reads(p, a) /\ (restore[a] = "read" => pc[p] = "read")
    /\ restore[a] = "rest" => disk[email[a]] # None /\ held[a] = disk[email[a]].key
    /\ \A p \in Procs : ready /\ Reads(p, a) /\ restore[a] = "none" =>
          /\ cred[a] = asked[a]
          /\ pc[p] = "read" /\ disk[email[a]] # None => disk[email[a]].pw = asked[a]

\* The stored key is the one in memory or is on its way there, and keys are made
\* where there is none.
KeyFollows(a) ==
    LET stored == disk[email[a]] IN
    /\ cred[a] # None /\ (Loading(a) \/ ~ready) /\ key[a] # None =>
          stored # None /\ stored.key = key[a]
    /\ cred[a] # None /\ stored # None /\ stored.key # None =>
          key[a] = stored.key \/ (~timer[a] /\ key[a] = None /\ Loading(a))
    /\ \A p \in Procs : pc[p] = "rest" /\ job[p].acc = a =>
          stored # None /\ job[p].key = stored.key
    /\ \A p \in Procs : pc[p] = "keys" /\ job[p].acc = a /\ cred[a] # None =>
          key[a] = None /\ (stored # None => stored.key = None)

Pinned(a) ==
    a \in loaded /\ cred[a] # None /\ ~Loading(a) => cred[a] = asked[a]

Sound(a) == OneByOne(a) /\ Lives(a) /\ Corrected(a) /\ KeyFollows(a) /\ Pinned(a)

\* An object that is not made yet is blank.
Unmade ==
    \A a \in Objects : a > made =>
        cred[a] = None /\ key[a] = None /\ ~timer[a] /\ restore[a] = "none"

\* A database has one live object.
OneLives ==
    \A a, b \in Clean : email[a] = email[b] /\ cred[a] # None /\ cred[b] # None => a = b

PInv ==
    /\ TypeOK /\ IInv /\ Booting /\ Listed
    /\ Unmade /\ OneLives /\ \A a \in Clean : Sound(a)
=============================================================================
