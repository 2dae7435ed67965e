------------------------------ MODULE Database ------------------------------
(***************************************************************************)
(* The database of one email, the connections to it and its deletion:      *)
(*   store.ts            getDB, tx, clear, reopenForAccount, wipeAccount   *)
(*   account/base.ts     saveToStore, loadFromStore, destroyProfile        *)
(*   account/manager.ts  addAccount, removeAccount                         *)
(* IndexedDB answers the requests to open or delete a database one after   *)
(* the other, and a deletion waits for every connection to be closed.      *)
(* Handlers of a profile that is being destroyed go on where they were     *)
(* suspended.  A transaction takes effect when it starts.                  *)
(***************************************************************************)
EXTENDS Naturals, Sequences

CONSTANTS
    Tasks,        \* handlers that may be under way at once
    Connections,  \* bound: connections open at once
    MaxObjects,   \* bound: account objects made for the email
    MaxCalls,     \* bound: handlers and second removals ever started
    None          \* no connection

Objects == 1..MaxObjects
Loads == {"restore", "load"}
Kinds == Loads \cup {"mail", "save"}
Finds == {"get", "any"}                        \* loadFromStore looks for an account row
Writes == {"account", "contact", "message", "chat"}
Places == Finds \cup {"again", "rest"} \cup Writes
Jobs == [kind : Kinds, obj : Objects, at : Places, found : BOOLEAN]
Rows == [kind : {"account", "other"}, by : Objects]
Requests == [kind : {"open"}, by : Tasks] \cup [kind : {"wiping", "rewiping", "clear"}, by : Objects]
Stages == {"unmade", "live", "wiping", "forget", "rewiping", "gone"}

ASSUME NoneAssumption == None \notin Connections
ASSUME BoundAssumption == MaxObjects \in Nat \ {0} /\ MaxCalls \in Nat

VARIABLES
    queue,    \* IndexedDB: requests to open or delete the database
    conns,    \* IndexedDB: connections that are open
    rows,     \* IndexedDB: rows, and the object that wrote them
    handle,   \* this.db of each object's store
    stage,    \* how far removeAccount is with the object
    creds,    \* the object has a relay, hence an email
    pc,       \* what a handler awaits: PGP or MIME ("busy"), a connection, an answer
    job,      \* what it does
    calls,    \* how many were started
    revived,  \* history: objects that got a relay after destroyProfile
    crossed   \* history: objects made while another was being destroyed

idb == <<queue, conns, rows>>
tasks == <<pc, job>>
history == <<revived, crossed>>
vars == <<idb, handle, stage, creds, tasks, calls, history>>

Init ==
    /\ queue = <<>> /\ conns = {} /\ rows = {}
    /\ handle = [o \in Objects |-> None] /\ stage = [o \in Objects |-> "unmade"]
    /\ creds = [o \in Objects |-> FALSE]
    /\ pc = [t \in Tasks |-> "idle"]
    /\ job = [t \in Tasks |-> [kind |-> "load", obj |-> 1, at |-> "get", found |-> FALSE]]
    /\ calls = 0 /\ revived = {} /\ crossed = {}

-----------------------------------------------------------------------------
(* Store calls of a handler *)

\* The row a call puts, none for a read.
Puts(j) ==
    CASE j.at = "account" -> {[kind |-> "account", by |-> j.obj]}
      [] j.at \in Writes \ {"account"} -> {[kind |-> "other", by |-> j.obj]}
      [] OTHER -> {}

\* What a call reads: whether there is an account row.
Answered(j) == [j EXCEPT !.found = \E r \in rows : r.kind = "account"]

\* tx: with this.db the transaction starts, else getDB asks for a connection,
\* also while another call waits for one.
Access(t, j) ==
    IF handle[j.obj] # None
    THEN /\ rows' = rows \cup Puts(j)
         /\ job' = [job EXCEPT ![t] = Answered(j)] /\ pc' = [pc EXCEPT ![t] = "answer"]
         /\ UNCHANGED queue
    ELSE /\ queue' = Append(queue, [kind |-> "open", by |-> t])
         /\ job' = [job EXCEPT ![t] = j] /\ pc' = [pc EXCEPT ![t] = "open"]
         /\ UNCHANGED rows

Ends(t) == pc' = [pc EXCEPT ![t] = "idle"] /\ UNCHANGED <<queue, rows, job>>

Starts(t) == pc[t] = "idle" /\ calls < MaxCalls /\ calls' = calls + 1

\* The object has a relay again.
GetsRelay(o) ==
    /\ creds' = [creds EXCEPT ![o] = TRUE]
    /\ revived' = IF stage[o] = "live" THEN revived ELSE revived \cup {o}

\* The end of a load; a restore sets the credentials again.
LoadEnds(t) ==
    /\ Ends(t)
    /\ IF job[t].kind = "restore" THEN GetsRelay(job[t].obj) ELSE UNCHANGED <<creds, revived>>

-----------------------------------------------------------------------------
(* Handlers *)

\* addAccount: an object with the email and a store of its own, restored in
\* the background.  Objects without a relay are not found by their email.
AddAccount(o, t) ==
    /\ stage[o] = "unmade"
    /\ \A p \in Objects : stage[p] \in {"live", "wiping", "forget"} => ~creds[p]
    /\ Starts(t)
    /\ stage' = [stage EXCEPT ![o] = "live"] /\ creds' = [creds EXCEPT ![o] = TRUE]
    /\ Access(t, [kind |-> "restore", obj |-> o, at |-> "get", found |-> FALSE])
    /\ crossed' = IF \E p \in Objects : stage[p] \in {"wiping", "forget"}
                  THEN crossed \cup {o} ELSE crossed
    /\ UNCHANGED <<conns, handle, revived>>

\* loadFromStore of a configuration, and saveToStore, which needs an email.
Load(o, t) ==
    /\ stage[o] = "live" /\ Starts(t)
    /\ Access(t, [kind |-> "load", obj |-> o, at |-> "get", found |-> FALSE])
    /\ UNCHANGED <<conns, handle, stage, creds, history>>

\* Mutant: a snapshot is written without an email, too.
SaveAnyway(o, t) ==
    /\ stage[o] # "unmade" /\ Starts(t)
    /\ Access(t, [kind |-> "save", obj |-> o, at |-> "account", found |-> FALSE])
    /\ UNCHANGED <<conns, handle, stage, creds, history>>

Save(o, t) ==
    /\ creds[o] /\ Starts(t)
    /\ Access(t, [kind |-> "save", obj |-> o, at |-> "account", found |-> FALSE])
    /\ UNCHANGED <<conns, handle, stage, creds, history>>

\* A mail is pushed, and parsed before the store is asked for anything.
MailArrives(o, t) ==
    /\ stage[o] = "live" /\ Starts(t)
    /\ pc' = [pc EXCEPT ![t] = "busy"]
    /\ job' = [job EXCEPT ![t] = [kind |-> "mail", obj |-> o, at |-> "message", found |-> FALSE]]
    /\ UNCHANGED <<idb, handle, stage, creds, history>>

\* Mail may turn out to be dropped.
Computed(t) ==
    /\ pc[t] = "busy"
    /\ Access(t, job[t]) \/ (job[t].kind = "mail" /\ Ends(t))
    /\ UNCHANGED <<conns, handle, stage, creds, calls, history>>

\* loadFromStore has found an account row: the store is opened anew, and the
\* row read again.
Reopens(t) ==
    /\ pc[t] = "answer" /\ job[t].at \in Finds /\ job[t].found
    /\ LET o == job[t].obj IN
       /\ conns' = conns \ {handle[o]} /\ handle' = [handle EXCEPT ![o] = None]
    /\ queue' = Append(queue, [kind |-> "open", by |-> t])
    /\ job' = [job EXCEPT ![t].at = "again"] /\ pc' = [pc EXCEPT ![t] = "open"]
    /\ UNCHANGED <<rows, stage, creds, calls, history>>

\* Without a row of the email any will do; without any the load ends.
NotFound(t) ==
    /\ pc[t] = "answer" /\ job[t].at \in Finds /\ ~job[t].found
    /\ IF job[t].at = "get"
       THEN Access(t, [job[t] EXCEPT !.at = "any"]) /\ UNCHANGED <<creds, revived>>
       ELSE LoadEnds(t)
    /\ UNCHANGED <<conns, handle, stage, calls, crossed>>

\* The relays are rebuilt; keys are parsed before the contacts are read.
RelaysRebuilt(t) ==
    /\ pc[t] = "answer" /\ job[t].at = "again"
    /\ GetsRelay(job[t].obj)
    /\ job' = [job EXCEPT ![t].at = "rest"] /\ pc' = [pc EXCEPT ![t] = "busy"]
    /\ UNCHANGED <<idb, handle, stage, calls, crossed>>

Loaded(t) ==
    /\ pc[t] = "answer" /\ job[t].at = "rest"
    /\ LoadEnds(t)
    /\ UNCHANGED <<conns, handle, stage, calls, crossed>>

\* The chat row follows the message, a contact the account row.
GoesOn(t) ==
    /\ pc[t] = "answer"
    /\ \/ job[t].at = "message" /\ Access(t, [job[t] EXCEPT !.at = "chat"])
       \/ job[t].at = "account" /\ Access(t, [job[t] EXCEPT !.at = "contact"])
    /\ UNCHANGED <<conns, handle, stage, creds, calls, history>>

Stops(t) ==
    /\ pc[t] = "answer" /\ job[t].at \in Writes
    /\ Ends(t)
    /\ UNCHANGED <<conns, handle, stage, creds, calls, history>>

-----------------------------------------------------------------------------
(* The removal *)

\* Mutant: the store keeps the connection it has closed.
WipeKeepsHandle(o) ==
    /\ conns' = conns \ {handle[o]} /\ UNCHANGED handle
    /\ queue' = Append(queue, [kind |-> "wiping", by |-> o])

\* wipeAccount of the store of o: this.db is closed first.
WipeAccount(o) ==
    /\ conns' = conns \ {handle[o]} /\ handle' = [handle EXCEPT ![o] = None]
    /\ queue' = Append(queue, [kind |-> "wiping", by |-> o])

\* destroyProfile: RAM is cleared, then the store is wiped.
DestroyProfile(o) ==
    /\ stage[o] = "live"
    /\ stage' = [stage EXCEPT ![o] = "wiping"] /\ creds' = [creds EXCEPT ![o] = FALSE]
    /\ WipeAccount(o)
    /\ UNCHANGED <<rows, tasks, calls, history>>

\* A second removal while the first is in destroyProfile: there is no email by
\* which to delete the database, so that the rows of all stores are cleared
\* over a connection of o.
ClearsNow(o) == handle[o] # None /\ rows' = {} /\ UNCHANGED queue
AsksToClear(o) ==
    handle[o] = None /\ queue' = Append(queue, [kind |-> "clear", by |-> o]) /\ UNCHANGED rows

DestroyAgain(o) ==
    /\ stage[o] \in {"wiping", "forget"} /\ ~creds[o]
    /\ calls < MaxCalls /\ calls' = calls + 1
    /\ ClearsNow(o) \/ AsksToClear(o)
    /\ UNCHANGED <<conns, handle, stage, creds, tasks, history>>

After(s) == IF s = "wiping" THEN "forget" ELSE "gone"
Resolves(s, o) == stage' = [stage EXCEPT ![o] = IF @ = s THEN After(s) ELSE @]

\* Mutant: the root store wipes again after the removal has returned.
ForgetAgain(o) ==
    /\ stage[o] \in {"forget", "gone"}
    /\ stage' = [stage EXCEPT ![o] = "rewiping"]
    /\ queue' = Append(queue, [kind |-> "rewiping", by |-> o])
    /\ UNCHANGED <<conns, rows, handle, creds, tasks, calls, history>>

\* Mutant: the root store waits for the deletion that is pending already.
ForgetShares(o) ==
    /\ stage[o] = "forget"
    /\ stage' = [stage EXCEPT ![o] = "rewiping"]
    /\ queue' = IF \E i \in 1..Len(queue) : queue[i].kind = "wiping" THEN queue
                ELSE Append(queue, [kind |-> "rewiping", by |-> o])
    /\ UNCHANGED <<conns, rows, handle, creds, tasks, calls, history>>

\* forgetAccount, in a database of its own, then the wipe of the root store,
\* which has no connection to close.
Forget(o) ==
    /\ stage[o] = "forget"
    /\ stage' = [stage EXCEPT ![o] = "rewiping"]
    /\ queue' = Append(queue, [kind |-> "rewiping", by |-> o])
    /\ UNCHANGED <<conns, rows, handle, creds, tasks, calls, history>>

\* onblocked: the promise resolves after 750 ms, the deletion stays.
GivesUp(o) ==
    /\ queue # <<>> /\ Head(queue) = [kind |-> stage[o], by |-> o] /\ conns # {}
    /\ Resolves(stage[o], o)
    /\ UNCHANGED <<idb, handle, creds, tasks, calls, history>>

-----------------------------------------------------------------------------
(* IndexedDB *)

Opens ==
    /\ queue # <<>> /\ Head(queue).kind = "open"
    /\ LET t == Head(queue).by
           j == job[t]
       IN \E c \in Connections \ conns :
             /\ conns' = conns \cup {c} /\ handle' = [handle EXCEPT ![j.obj] = c]
             /\ rows' = rows \cup Puts(j)
             /\ job' = [job EXCEPT ![t] = Answered(j)] /\ pc' = [pc EXCEPT ![t] = "answer"]
    /\ queue' = Tail(queue)
    /\ UNCHANGED <<stage, creds, calls, history>>

\* The connection a clear() asked for is there.
Clears ==
    /\ queue # <<>> /\ Head(queue).kind = "clear"
    /\ \E c \in Connections \ conns :
          conns' = conns \cup {c} /\ handle' = [handle EXCEPT ![Head(queue).by] = c]
    /\ rows' = {} /\ queue' = Tail(queue)
    /\ UNCHANGED <<stage, creds, tasks, calls, history>>

Deletes ==
    /\ queue # <<>> /\ Head(queue).kind \in {"wiping", "rewiping"} /\ conns = {}
    /\ rows' = {} /\ queue' = Tail(queue)
    /\ Resolves(Head(queue).kind, Head(queue).by)
    /\ UNCHANGED <<conns, handle, creds, tasks, calls, history>>

\* Nothing goes on in the name of the object any more.
Abandoned(o) ==
    /\ stage[o] = "gone"
    /\ \A t \in Tasks : job[t].obj = o => pc[t] = "idle"
    /\ \A i \in 1..Len(queue) : queue[i] # [kind |-> "clear", by |-> o]

\* A connection that nobody refers to any more may be collected.
Collected ==
    /\ \E c \in conns :
          /\ \A o \in Objects : handle[o] = c => Abandoned(o)
          /\ conns' = conns \ {c}
          /\ handle' = [o \in Objects |-> IF handle[o] = c THEN None ELSE handle[o]]
    /\ UNCHANGED <<queue, rows, stage, creds, tasks, calls, history>>

Continue(t) ==
    \/ Computed(t) \/ Reopens(t) \/ NotFound(t) \/ RelaysRebuilt(t) \/ Loaded(t)
    \/ GoesOn(t) \/ Stops(t)

Next ==
    \/ \E o \in Objects, t \in Tasks : AddAccount(o, t) \/ Load(o, t) \/ Save(o, t) \/ MailArrives(o, t)
    \/ \E t \in Tasks : Continue(t)
    \/ \E o \in Objects : DestroyProfile(o) \/ DestroyAgain(o) \/ Forget(o) \/ GivesUp(o)
    \/ Opens \/ Clears \/ Deletes \/ Collected

Spec == Init /\ [][Next]_vars

-----------------------------------------------------------------------------
(* Properties *)

\* Type invariant of the database, the stores and the handlers.
TypeOK ==
    /\ queue \in Seq(Requests) /\ conns \subseteq Connections /\ rows \subseteq Rows
    /\ handle \in [Objects -> Connections \cup {None}] /\ stage \in [Objects -> Stages]
    /\ creds \in [Objects -> BOOLEAN]
    /\ pc \in [Tasks -> {"idle", "busy", "open", "answer"}] /\ job \in [Tasks -> Jobs]
    /\ calls \in 0..MaxCalls /\ revived \subseteq Objects /\ crossed \subseteq Objects

\* No store holds a connection that was closed, on which every transaction
\* would throw: not while loads reopen the store under each other's calls, nor
\* after a wipe that handlers outlive.
HandleIsOpen == \A o \in Objects : handle[o] # None => handle[o] \in conns

\* Once a profile was wiped its account row, with password and private key, is
\* not in the database, whatever its handlers write later: only a deletion
\* that is still pending, or a restore that outlived the wipe, leaves or brings
\* it back.
SecretsGone ==
    \A o \in Objects :
        /\ stage[o] \in {"forget", "rewiping", "gone"} /\ o \notin revived
        /\ \A i \in 1..Len(queue) : queue[i].kind = "open"
        => [kind |-> "account", by |-> o] \notin rows

\* A removal never takes a row of a profile that was added after it, unless it
\* was added before destroyProfile had returned.
LiveRowsKept ==
    [][\A r \in rows : stage[r.by] = "live" /\ r.by \notin crossed => r \in rows']_vars

\* Nobody waits for the database for nothing: whoever waits for a connection or
\* for a deletion still has its request before IndexedDB, however the requests
\* were answered or given up, which answers it when the ones before are through.
NobodyForgotten ==
    /\ \A t \in Tasks : pc[t] = "open" =>
          \E i \in 1..Len(queue) : queue[i] = [kind |-> "open", by |-> t]
    /\ \A o \in Objects : stage[o] \in {"wiping", "rewiping"} =>
          \E i \in 1..Len(queue) : queue[i] = [kind |-> stage[o], by |-> o]

-----------------------------------------------------------------------------
(* What the comments say and the code does not keep. *)

\* base.ts:746: "Stop I/O first so nothing rewrites the DB while we wipe it".
NothingRewritten ==
    [][\A r \in rows' \ rows : stage[r.by] # "wiping"]_vars

-----------------------------------------------------------------------------
(* What keeps these invariants *)

\* A request that empties the database when it is answered.
Deletion(i) == queue[i].kind # "open"

\* Only the second removal of a profile clears its rows.
Clearing ==
    \A i \in 1..Len(queue) : queue[i].kind = "clear" =>
        stage[queue[i].by] \in {"wiping", "forget", "rewiping", "gone"}

\* Stores do not share a connection.
OneStoreEach ==
    \A o, p \in Objects : handle[o] # None /\ handle[o] = handle[p] => o = p

\* An open request belongs to a handler that waits for it, and to no other.
Queued ==
    \A i \in 1..Len(queue) : ~Deletion(i) =>
        /\ pc[queue[i].by] = "open"
        /\ \A k \in 1..Len(queue) : queue[k] = queue[i] => k = i

\* Only mail and the second half of a load wait for PGP or MIME.
BusyAt == \A t \in Tasks : pc[t] = "busy" => job[t].at \in {"message", "rest"}

\* An object that was not made yet has nothing.
Unmade(o) ==
    stage[o] = "unmade" =>
        /\ handle[o] = None /\ ~creds[o] /\ o \notin revived
        /\ \A r \in rows : r.by # o
        /\ \A t \in Tasks : pc[t] # "idle" => job[t].obj # o

\* While a profile lives no other is being destroyed, unless they crossed, and
\* deletions are due only before its first connection.
Kept(o) ==
    stage[o] = "live" =>
        /\ creds[o]
        /\ o \notin crossed =>
              /\ \A p \in Objects \ {o} : stage[p] \in {"unmade", "rewiping", "gone"}
              /\ handle[o] # None \/ (\E r \in rows : r.by = o) =>
                    \A i \in 1..Len(queue) : ~Deletion(i)
              /\ \A i \in 1..Len(queue) : ~Deletion(i) /\ job[queue[i].by].obj = o =>
                    \A k \in i..Len(queue) : ~Deletion(k)

\* Once a profile is destroyed, whatever wrote or will write its account row
\* stands before a deletion.
Shed(o) ==
    stage[o] \in {"wiping", "forget", "rewiping", "gone"} /\ o \notin revived =>
        /\ ~creds[o]
        /\ [kind |-> "account", by |-> o] \in rows => \E k \in 1..Len(queue) : Deletion(k)
        /\ \A i \in 1..Len(queue) :
              ~Deletion(i) /\ job[queue[i].by].obj = o /\ job[queue[i].by].at = "account"
              => \E k \in i..Len(queue) : Deletion(k)

IInv ==
    /\ TypeOK /\ HandleIsOpen /\ OneStoreEach /\ Queued /\ BusyAt
    /\ \A o \in Objects : Unmade(o) /\ Kept(o) /\ Shed(o)
=============================================================================
