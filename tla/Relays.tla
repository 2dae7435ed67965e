------------------------------- MODULE Relays -------------------------------
(***************************************************************************)
(* The relays of one account, their sockets and the account row:           *)
(*   account/base.ts     register, setCredentials, upsertRelay, addRelay,  *)
(*                       removeRelay, connect, disconnect, saveToStore,    *)
(*                       loadFromStore                                     *)
(*   account/utils.ts    normalizeServerUrl, dedupeRelaysByServerUrl       *)
(*   account/manager.ts  addAccount and restoreAccount around a load       *)
(* A server has two spellings, with and without a final slash.  The        *)
(* database of an account is named after an email and keeps a row per      *)
(* email.  What a transport does with its socket is in Transport: here     *)
(* the socket is there from connect() until it is closed.                  *)
(***************************************************************************)
EXTENDS Naturals, Sequences, SequencesExt, Lists

CONSTANTS
    Sites,       \* servers
    Emails,      \* identities
    Transports,  \* bound: transports that are held or have a socket at once
    Loads,       \* bound: loads under way at once
    MaxIds,      \* bound: relay ids ever made
    MaxOps,      \* bound: calls of the application and failures of the store
    None

Urls == [site : Sites, slash : BOOLEAN]
RelayIds == 1..MaxIds
RelayRows == [id : RelayIds, url : Urls, email : Emails]
Credentials == [site : Sites, email : Emails]
Snapshots == [site : Sites, email : Emails, relays : Seq(RelayRows)]

\* What the caller of a load sets after it; made: the call made the account.
Pins == [site : Sites, email : Emails, made : BOOLEAN]
Points == {"idle", "find", "scoped", "read", "keys", "pin", "caught"}

ASSUME NoneAssumption ==
    None \notin Transports \cup Sites \cup Emails /\ None \notin Pins /\ None \notin Snapshots
ASSUME RelayBoundAssumption == MaxIds \in Nat \ {0, 1} /\ MaxOps \in Nat

VARIABLES
    relays,      \* the Map of relays, in its order
    primary,     \* primaryRelayId, 0 for ''
    ids,         \* relay ids made
    transports,  \* the transport under each key of the Map, or None
    socket,      \* the server a transport has a socket to, or None
    db,          \* the database the store names
    disk,        \* the account row of every database and email, or None
    persistTimer, \* a write of the account row is due
    load,        \* a loadFromStore: its await point, its row, what is pinned after it
    ops,
    stale        \* history: the relays and their row were left to differ: a load put
                 \* an older row into memory than the disk has, or rejected with the
                 \* relays neither replaced nor written, or a write failed

rows == <<relays, primary, ids>>
wires == <<transports, socket>>
store == <<db, disk, stale>>
relaysVars == <<rows, wires, store, persistTimer, load, ops>>

-----------------------------------------------------------------------------
(* Relay rows *)

NormalizeServerUrl(u) == [u EXCEPT !.slash = FALSE]
Plain(s) == [site |-> s, slash |-> FALSE]
Slashed(s) == [site |-> s, slash |-> TRUE]

At(s, list) == {i \in DOMAIN list : list[i].url.site = s}
First(s, list) == CHOOSE i \in At(s, list) : \A k \in At(s, list) : i <= k
SitesOf(list) == {r.url.site : r \in ToSet(list)}
Row(s, list) == list[First(s, list)]

\* dedupeRelaysByServerUrl: the first row of a server gives the id, the last
\* one the identity.
Merge(list, r) ==
    IF r.url.site \in SitesOf(list)
    THEN [list EXCEPT ![First(r.url.site, list)].email = r.email]
    ELSE Append(list, [r EXCEPT !.url = NormalizeServerUrl(@)])
DedupeRelays(list) ==
    LET byUrl[i \in 0..Len(list)] == IF i = 0 THEN <<>> ELSE Merge(byUrl[i - 1], list[i])
    IN byUrl[Len(list)]

\* get primaryRelay, when there is a relay at all.
PrimaryOf(list, id) ==
    LET here == {i \in DOMAIN list : list[i].id = id}
    IN list[IF here = {} THEN 1 ELSE CHOOSE i \in here : TRUE]
PrimaryRelay == PrimaryOf(relays, primary)

\* saveToStore: the account row.
Snapshot ==
    [site |-> PrimaryRelay.url.site, email |-> PrimaryRelay.email, relays |-> DedupeRelays(relays)]

\* Mutant: the identity of the row comes before the relays of the row.
RebuiltFirst(acct, list, new) ==
    LET own(id) == [id |-> id, url |-> Plain(acct.site), email |-> acct.email]
        here == Filter(list, {r \in ToSet(list) : r.url.site = acct.site})
    IN DedupeRelays(<<own(new)>> \o [i \in DOMAIN here |-> own(here[i].id)] \o acct.relays)

\* loadFromStore: the relays of a row, then its own identity, for a new relay
\* and for the ones in memory of its server.
Rebuilt(acct, list, new) ==
    LET own(id) == [id |-> id, url |-> Plain(acct.site), email |-> acct.email]
        here == Filter(list, {r \in ToSet(list) : r.url.site = acct.site})
    IN DedupeRelays(acct.relays \o <<own(new)>> \o [i \in DOMAIN here |-> own(here[i].id)])

\* upsertRelay: the first row of the server is rewritten and the others dropped.
Upserted(list, c, k) ==
    LET row == [id |-> k, url |-> Plain(c.site), email |-> c.email]
        kept == Filter(list, {r \in ToSet(list) : r.url.site = c.site => r.id = k})
    IN IF c.site \in SitesOf(list)
       THEN [i \in DOMAIN kept |-> IF kept[i].id = k THEN row ELSE kept[i]]
       ELSE Append(list, row)

-----------------------------------------------------------------------------
(* Transports *)

\* What nobody holds and has no socket is collected.
Unused == {t \in Transports : socket[t] = None /\ \A u \in Urls : transports[u] # t}

\* The transport that answers for a server, found under either spelling or new.
For(s) ==
    IF transports[Plain(s)] # None THEN {transports[Plain(s)]}
    ELSE IF transports[Slashed(s)] # None THEN {transports[Slashed(s)]}
    ELSE Unused

\* upsertRelay takes the first one of the Map, whose order is not kept here.
AnyFor(s) ==
    LET here == {transports[Plain(s)], transports[Slashed(s)]} \ {None}
    IN IF here = {} THEN Unused ELSE here

Counted == ops < MaxOps /\ ops' = ops + 1

\* schedulePersist
SchedulePersist == persistTimer' = (persistTimer \/ relays' # <<>>)

-----------------------------------------------------------------------------
NoLoad == [at |-> "idle", acct |-> None, then |-> None]

\* An account that addAccount or restoreAccount made, whose load is under way.
\* The disk is empty or has the row an earlier session left, with its own id.
RelaysInit ==
    \E c \in Credentials, l \in Loads, t \in Transports, s \in Sites :
        /\ relays = <<[id |-> 1, url |-> Plain(c.site), email |-> c.email]>>
        /\ primary = 1 /\ ids = 2 /\ ops = 0 /\ persistTimer = FALSE /\ stale = FALSE
        /\ transports = [u \in Urls |-> IF u = Plain(c.site) THEN t ELSE None]
        /\ socket = [x \in Transports |-> None]
        /\ db = c.email
        /\ \E acct \in {None, [site |-> s, email |-> c.email,
                               relays |-> <<[id |-> 2, url |-> Plain(s), email |-> c.email]>>]} :
              disk = [d \in Emails |-> [e \in Emails |-> IF d = e /\ e = c.email THEN acct ELSE None]]
        /\ load = [x \in Loads |->
                     IF x = l THEN [at |-> "find", acct |-> None,
                                    then |-> [site |-> c.site, email |-> c.email, made |-> TRUE]]
                     ELSE NoLoad]

\* setCredentials: upsertRelay, as the primary relay; found: the account
\* is not to be written because a load found no row.
SetCredentials(c, found) ==
    LET known == c.site \in SitesOf(relays)
        k == IF known THEN Row(c.site, relays).id ELSE ids + 1
        same == known /\ primary = k /\ Row(c.site, relays).email = c.email
    IN /\ known \/ ids < MaxIds
       /\ relays' = Upserted(relays, c, k)
       /\ primary' = k
       /\ ids' = IF known THEN ids ELSE k
       /\ \E t \in AnyFor(c.site) :
             transports' = [transports EXCEPT ![Plain(c.site)] = t, ![Slashed(c.site)] = None]
       /\ persistTimer' = (persistTimer \/ ~same \/ ~found)
       /\ UNCHANGED socket

\* setCredentials by the application, or by addAccount for the same email.
Repins(c) ==
    /\ Counted
    /\ SetCredentials(c, TRUE)
    /\ UNCHANGED <<store, load>>

\* A new row and a new transport under the spelling given.
Adds(u, e) ==
    /\ Counted /\ ids < MaxIds /\ ids' = ids + 1
    /\ relays' = Append(relays, [id |-> ids', url |-> u, email |-> e])
    /\ primary' = IF primary = 0 THEN ids' ELSE primary
    /\ \E t \in Unused : transports' = [transports EXCEPT ![u] = t]
    /\ SchedulePersist
    /\ UNCHANGED <<socket, disk, stale, load>>

AddRelay(u, e) == Adds(u, e) /\ UNCHANGED db

\* register: the server is spelt without a slash, and the store goes over to
\* the database of the new identity.
Register(s, e) == Adds(Plain(s), e) /\ db' = e

\* Mutant: the row goes and the primary id stays.
RemoveKeepsPrimary(i) ==
    /\ Counted
    /\ relays' = RemoveAt(relays, i)
    /\ LET u == relays[i].url IN
       /\ transports' = [transports EXCEPT ![u] = None]
       /\ socket' = [t \in Transports |-> IF t = transports[u] THEN None ELSE socket[t]]
    /\ SchedulePersist
    /\ UNCHANGED <<primary, ids, store, load>>

\* removeRelay: the transport is looked up under the spelling of the row.
RemoveRelay(i) ==
    /\ Counted
    /\ relays' = RemoveAt(relays, i)
    /\ primary' = IF relays[i].id # primary THEN primary
                  ELSE IF relays' = <<>> THEN 0 ELSE relays'[1].id
    /\ LET u == relays[i].url IN
       /\ transports' = [transports EXCEPT ![u] = None]
       /\ socket' = [t \in Transports |-> IF t = transports[u] THEN None ELSE socket[t]]
    /\ SchedulePersist
    /\ UNCHANGED <<ids, store, load>>

\* Mutant: the transport stays under the spelling it was found by.
ConnectKeepsKey(s) ==
    /\ Counted
    /\ \E t \in For(s) :
          /\ transports' = [transports EXCEPT ![Plain(s)] = t]
          /\ socket' = [socket EXCEPT ![t] = s]
    /\ UNCHANGED <<rows, store, persistTimer, load>>

\* connect to a server: the transport goes under the normalized key.
ConnectTo(s) ==
    /\ Counted
    /\ \E t \in For(s) :
          /\ transports' = [u \in Urls |->
                               IF u = Plain(s) THEN t
                               ELSE IF transports[u] = t THEN None ELSE transports[u]]
          /\ socket' = [socket EXCEPT ![t] = s]
    /\ UNCHANGED <<rows, store, persistTimer, load>>

\* The handshake fails, or the relay or the network closes the socket.
SocketCloses(t) ==
    /\ socket[t] # None /\ socket' = [socket EXCEPT ![t] = None]
    /\ UNCHANGED <<rows, transports, store, persistTimer, load, ops>>

\* disconnect: all transports, or the one under a key.
DisconnectFrom(keys) ==
    /\ Counted
    /\ transports' = [u \in Urls |-> IF u \in keys THEN None ELSE transports[u]]
    /\ socket' = [t \in Transports |-> IF \E u \in keys : transports[u] = t THEN None ELSE socket[t]]
    /\ UNCHANGED <<rows, store, persistTimer, load>>

-----------------------------------------------------------------------------
(* The account row *)

\* The timer fires, or flushPersist clears it.  An account without relays is
\* not written.
Persist ==
    /\ persistTimer' = FALSE
    /\ disk' = IF relays = <<>> THEN disk ELSE [disk EXCEPT ![db][PrimaryRelay.email] = Snapshot]
    /\ stale' = (stale /\ relays = <<>>)
    /\ UNCHANGED <<rows, wires, db, load, ops>>

\* The write rejects: that is logged, or thrown at the caller of flushPersist, and
\* nothing writes again.
PersistFails ==
    /\ Counted /\ relays # <<>>
    /\ persistTimer' = FALSE /\ stale' = TRUE
    /\ UNCHANGED <<rows, wires, db, disk, load>>

\* restoreAccount for an account that is there, or loadFromStore itself.
LoadBegins(l, then) ==
    /\ load[l].at = "idle" /\ Counted
    /\ then # None => relays # <<>> /\ then.email = PrimaryRelay.email /\ ~then.made
    /\ load' = [load EXCEPT ![l] = [at |-> "find", acct |-> None, then |-> then]]
    /\ UNCHANGED <<rows, wires, store, persistTimer>>

Written(d) == {e \in Emails : disk[d][e] # None}

\* getAccountByEmail, then getAccount: the row of an email, or one that is there.
Found(e) == IF e \in Written(db) THEN {e} ELSE Written(db)

After(l) == IF load[l].then = None THEN "idle" ELSE "pin"

\* Load l will replace the relays, or will have them written.
Rebuilding(l) ==
    \/ load[l].at \in {"scoped", "read"}
    \/ /\ load[l].at \in {"find", "pin"} /\ load[l].acct = None
       /\ load[l].then # None /\ load[l].then.made

\* Without a row the load is over.
LoadFindsNone(l) ==
    /\ load[l].at = "find" /\ Written(db) = {}
    /\ load' = [load EXCEPT ![l].at = After(l)]
    /\ UNCHANGED <<rows, wires, store, persistTimer, ops>>

\* The store goes over to the database of the row.
LoadFinds(l) ==
    /\ load[l].at = "find"
    /\ \E e \in Found(IF relays = <<>> THEN None ELSE PrimaryRelay.email) :
          /\ load' = [load EXCEPT ![l].at = "scoped", ![l].acct = disk[db][e]]
          /\ db' = e
    /\ UNCHANGED <<rows, wires, disk, stale, persistTimer, ops>>

\* The row is read again there, if there is one.
LoadReadsAgain(l) ==
    /\ load[l].at = "scoped"
    /\ IF Written(db) = {} THEN load' = [load EXCEPT ![l].at = "read"]
       ELSE \E e \in Found(load[l].acct.email) :
               load' = [load EXCEPT ![l].at = "read", ![l].acct = disk[db][e]]
    /\ UNCHANGED <<rows, wires, store, persistTimer, ops>>

\* The relays are rebuilt.
LoadRelays(l) ==
    LET acct == load[l].acct IN
    /\ load[l].at = "read" /\ ids < MaxIds /\ ids' = ids + 1
    /\ relays' = Rebuilt(acct, relays, ids')
    /\ primary' = Row(acct.site, relays').id
    /\ stale' = (stale \/ acct # disk[db][acct.email])
    /\ load' = [load EXCEPT ![l].at = "keys"]
    /\ UNCHANGED <<wires, db, disk, persistTimer, ops>>

\* After the keys and the contacts the transports are made again: the ones that
\* were there are forgotten, with their sockets.
LoadTransports(l) ==
    /\ load[l].at = "keys"
    /\ \E f \in [Sites -> Transports \cup {None}] :
          /\ \A s \in Sites : IF s \in SitesOf(relays) THEN f[s] \in {t \in Transports : socket[t] = None} ELSE f[s] = None
          /\ \A s, x \in SitesOf(relays) : f[s] = f[x] => s = x
          /\ transports' = [u \in Urls |-> IF u.slash THEN None ELSE f[u.site]]
    /\ load' = [load EXCEPT ![l].at = After(l)]
    /\ UNCHANGED <<rows, socket, store, persistTimer, ops>>

\* A read of the store, a stored key or a read of the contacts rejects.  Only
\* addAccount catches that; restoreAccount does not pin then.
LoadRejects(l) ==
    LET c == load[l].then IN
    /\ load[l].at \in {"find", "scoped", "keys"} /\ Counted
    /\ stale' = (stale \/ Rebuilding(l))
    /\ \/ load' = [load EXCEPT ![l] = NoLoad]
       \/ c # None /\ c.made /\ load' = [load EXCEPT ![l].at = "caught"]
    /\ UNCHANGED <<rows, wires, db, disk, persistTimer>>

\* The caller pins its credentials, and sees that a new account is written, but
\* not after a load that rejected.
LoadPins(l) ==
    LET c == load[l].then
        found == load[l].at = "caught" \/ load[l].acct # None \/ ~c.made
    IN
    /\ load[l].at \in {"pin", "caught"}
    /\ SetCredentials([site |-> c.site, email |-> c.email], found)
    /\ load' = [load EXCEPT ![l] = NoLoad]
    /\ UNCHANGED <<store, ops>>

-----------------------------------------------------------------------------
RelaysNext ==
    \/ Persist \/ PersistFails
    \/ \E c \in Credentials : Repins(c)
    \/ \E u \in Urls, e \in Emails : AddRelay(u, e)
    \/ \E s \in Sites, e \in Emails : Register(s, e)
    \/ \E i \in DOMAIN relays : RemoveRelay(i)
    \/ \E s \in Sites : ConnectTo(s)
    \/ \E t \in Transports : SocketCloses(t)
    \/ DisconnectFrom(Urls) \/ \E u \in Urls : DisconnectFrom({u})
    \/ \E l \in Loads :
          \/ \E then \in Pins \cup {None} : LoadBegins(l, then)
          \/ LoadFindsNone(l) \/ LoadFinds(l) \/ LoadReadsAgain(l)
          \/ LoadRelays(l) \/ LoadTransports(l)
          \/ LoadRejects(l) \/ LoadPins(l)

RelaysSpec == RelaysInit /\ [][RelaysNext]_relaysVars

-----------------------------------------------------------------------------
(* Properties *)

\* A transport is under one key only, and has a socket only to the server of
\* the key it is under.
Wired ==
    /\ transports \in [Urls -> Transports \cup {None}]
    /\ socket \in [Transports -> Sites \cup {None}]
    /\ \A u, v \in Urls : transports[u] = transports[v] => u = v \/ transports[u] = None
    /\ \A u \in Urls : transports[u] # None => socket[transports[u]] \in {u.site, None}

\* Types: what the variables hold, and the keys and sockets of the transports.
RelaysTypeOK ==
    /\ relays \in Seq(RelayRows) /\ primary \in RelayIds \cup {0} /\ ids \in RelayIds
    /\ Wired
    /\ db \in Emails /\ persistTimer \in BOOLEAN /\ stale \in BOOLEAN /\ ops \in 0..MaxOps
    /\ \A d, e \in Emails : disk[d][e] # None => disk[d][e] \in Snapshots /\ disk[d][e].email = e
    /\ \A l \in Loads : /\ load[l].at \in Points
                        /\ load[l].acct # None => load[l].acct \in Snapshots
                        /\ load[l].then # None => load[l].then \in Pins

\* An account that has relays has exactly one primary relay, whatever was
\* removed, set or loaded: credentials and every send go by it.
OnePrimary ==
    relays # <<>> => \E i \in DOMAIN relays : \A k \in DOMAIN relays : relays[k].id = primary <=> i = k

\* The relays are at rest: no write is due and no load under way, and the
\* primary identity is the one the database is named after.
AtRest ==
    /\ ~persistTimer /\ \A l \in Loads : load[l].at = "idle"
    /\ relays # <<>> /\ db = PrimaryRelay.email

\* What a page reload that asks for the primary identity would find.
Reloaded == Rebuilt(disk[db][db], <<>>, 0)

\* What is on disk at rest gives the relays back: the same servers, the primary
\* identity on its server, and on every other one an identity the account had there.
RelaysSurvive ==
    AtRest /\ ~stale =>
        /\ disk[db][db] # None
        /\ disk[db][db].site = PrimaryRelay.url.site
        /\ SitesOf(Reloaded) = SitesOf(relays)
        /\ Row(PrimaryRelay.url.site, Reloaded).email = PrimaryRelay.email
        /\ \A s \in SitesOf(relays) : Row(s, Reloaded).email \in {relays[i].email : i \in At(s, relays)}

-----------------------------------------------------------------------------
(* What comments and docs say and the code does not keep. *)

\* "Disconnect all transports" (base.ts:720): afterwards no socket is there.
DisconnectDisconnects ==
    [][DisconnectFrom(Urls) => \A t \in Transports : socket'[t] = None]_relaysVars

\* "Remove a relay by ID (disconnects its transport)" (base.ts:992): unless
\* another relay is on its server, no socket to the server is left.
RemovedIsDisconnected ==
    [][\A i \in DOMAIN relays : RemoveRelay(i) /\ relays[i].url.site \notin SitesOf(relays')
          => \A t \in Transports : socket'[t] # relays[i].url.site]_relaysVars

\* "Relays are included in the account snapshot" (docs/examples.md:329): a relay
\* beside the primary one stays listed until the application removes it.
AddedStays ==
    [][\A i \in DOMAIN relays :
          relays[i].id # primary /\ relays[i].url.site \notin SitesOf(relays')
             => \E k \in DOMAIN relays : RemoveRelay(k)]_relaysVars

\* "Remove a relay by ID" (base.ts:992): when nothing is due or under way, the
\* row a reload of the account's database starts from lists no other server
\* than its relays are on.
RemovedStaysRemoved ==
    ~persistTimer /\ ~stale /\ relays # <<>> /\ (\A l \in Loads : load[l].at = "idle") =>
        (disk[db][db] # None => SitesOf(disk[db][db].relays) \subseteq SitesOf(relays))
-----------------------------------------------------------------------------
(* Why they hold. *)

\* A row is known by its id, and no id will be made twice.
Unique(list) == \A i, k \in DOMAIN list : list[i].id = list[k].id => i = k
UpTo(list, n) == \A i \in DOMAIN list : list[i].id <= n
Deduped(list) == \A i, k \in DOMAIN list : list[i].url.site = list[k].url.site => i = k

\* The relays in memory.
Listed ==
    /\ relays \in Seq(RelayRows) /\ ids \in RelayIds
    /\ Unique(relays) /\ UpTo(relays, ids)
    /\ IF relays = <<>> THEN primary = 0 ELSE \E i \in DOMAIN relays : relays[i].id = primary

\* The rows on disk and the ones loads have read are as saveToStore wrote them.
Sound(acct, n) ==
    acct # None => Unique(acct.relays) /\ UpTo(acct.relays, n) /\ Deduped(acct.relays)
Stored ==
    /\ disk \in [Emails -> [Emails -> Snapshots \cup {None}]]
    /\ \A d, e \in Emails : Sound(disk[d][e], ids) /\ (disk[d][e] # None => disk[d][e].email = e)
Loading ==
    /\ load \in [Loads -> [at : Points, acct : Snapshots \cup {None}, then : Pins \cup {None}]]
    /\ \A l \in Loads :
          /\ Sound(load[l].acct, ids)
          /\ load[l].at \in {"scoped", "read"} => load[l].acct # None
          /\ load[l].at \in {"pin", "caught"} => load[l].then # None
Ranges == db \in Emails /\ persistTimer \in BOOLEAN /\ stale \in BOOLEAN /\ ops \in 0..MaxOps

\* The row acct gives the relays back.
Matches(acct) ==
    /\ acct # None /\ acct.site = PrimaryRelay.url.site
    /\ SitesOf(acct.relays) \cup {acct.site} = SitesOf(relays)
    /\ \A i \in DOMAIN acct.relays : acct.relays[i].url.site # acct.site =>
          \E k \in DOMAIN relays : /\ relays[k].url.site = acct.relays[i].url.site
                                 /\ relays[k].email = acct.relays[i].email

Synced ==
    \/ persistTimer \/ stale \/ relays = <<>>
    \/ \E l \in Loads : Rebuilding(l)
    \/ db # PrimaryRelay.email \/ Matches(disk[db][db])

RInv == Wired /\ Ranges /\ Listed /\ Stored /\ Loading /\ Synced
=============================================================================
