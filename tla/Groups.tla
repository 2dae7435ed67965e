------------------------------- MODULE Groups -------------------------------
(***************************************************************************)
(* One group or channel that this account creates and administers:         *)
(*   lib/group.ts        the fan-outs: a mail per member, one await each   *)
(*   account/groups.ts   the registry, the mirror of a group in the chats  *)
(*   account/base.ts     the debounced snapshot that holds the registry    *)
(* Every operation works on the one GroupInfo object of the registry and   *)
(* awaits a send per member, so that operations overlap in mid fan-out.    *)
(* A send that rejects ends its operation on the spot.  Of a mail only     *)
(* what it says of the membership is kept, and the account itself, which   *)
(* is always a member, is left out of the sets.                            *)
(***************************************************************************)
EXTENDS Naturals, FiniteSets

CONSTANTS
    Members,   \* the other people
    Names,     \* names and descriptions
    Handlers,  \* operations that may be under way at once
    GroupId,   \* grpId, as generateId makes it: letters of both cases
    LowerId,   \* grpId.toLowerCase()
    MaxOps,    \* bound: operations, incoming mails and keys, reloads
    None       \* no group, no row, no member

GroupInfos == [members : SUBSET Members, name : Names, description : Names \cup {None}]
Rows == [id : Nat, name : Names]

ASSUME NoneAssumption == None \notin GroupInfos \cup Rows \cup Members \cup Names
ASSUME BoundAssumption == MaxOps \in Nat

Announce == {"create", "add"}           \* sendGroupMemberAdded
Expel == {"remove", "leave"}            \* sendGroupMemberRemoved
Ops == Announce \cup Expel \cup {"channel", "rename", "describe", "send", "mail"}

VARIABLES
    shared,    \* TRUE: MemoryStore, FALSE: IndexedDBStore
    broadcast, \* the group is a channel: its mails list no members
    known,     \* members in knownKeys
    group,     \* the GroupInfo object
    listed,    \* the registry has it
    disk,      \* the group of the saved snapshot
    timer,     \* persistTimer is set
    row,       \* the group's chat row
    objects,   \* chat rows created so far
    pc,        \* what operation h does next
    job,       \* its kind and argument
    rest,      \* createGroup: members it has not announced yet
    todo,      \* recipients the fan-out has not come to
    mail,      \* the mail h is sending: its recipient and the members it lists
    cbuf,      \* the chat row an incoming mail has read
    mirror,    \* persistGroupChat of h, which nobody awaits
    mbuf,      \* the chat row it has read
    filed,     \* chat ids of the messages this account sent
    ops,       \* how many of them so far
    view,      \* view[m]: who is in the group, as far as m was told
    missed,    \* history: members passed over for want of a key
    settled,   \* history: settled[m]: how the last operation about m ended
    torn,      \* history: a fan-out was cut short, or a removal overlapped
    loose      \* history: what a change cut short has left behind

reg == <<group, listed>>
saved == <<disk, timer>>
chats == <<row, objects, cbuf, mirror, mbuf>>
fan == <<pc, job, rest, todo, mail>>
history == <<missed, settled, torn, loose>>
vars == <<shared, broadcast, known, reg, saved, chats, fan, filed, ops, view, history>>

NoJob == [op |-> "none", arg |-> None]
NoMail == [to |-> None, lists |-> {}]

Init ==
    /\ shared \in BOOLEAN /\ broadcast \in BOOLEAN
    /\ known \in SUBSET Members
    /\ group = None /\ listed = FALSE /\ disk = None /\ timer = FALSE
    /\ row = None /\ objects = 0
    /\ pc = [h \in Handlers |-> "idle"] /\ job = [h \in Handlers |-> NoJob]
    /\ rest = [h \in Handlers |-> {}] /\ todo = [h \in Handlers |-> {}]
    /\ mail = [h \in Handlers |-> NoMail]
    /\ cbuf = [h \in Handlers |-> None] /\ mbuf = [h \in Handlers |-> None]
    /\ mirror = [h \in Handlers |-> "none"]
    /\ filed = {} /\ ops = 0
    /\ view = [m \in Members |-> {}] /\ missed = {}
    /\ settled = [m \in Members |-> "open"] /\ torn = FALSE /\ loose = {}

Busy == {h \in Handlers : pc[h] # "idle"}
About(m) == {h \in Busy : job[h].op \in Announce \cup Expel /\ (job[h].arg = m \/ m \in rest[h])}

-----------------------------------------------------------------------------
\* Beginning an operation

Start(h, op, x) ==
    /\ pc[h] = "idle" /\ mirror[h] = "none"
    /\ ops < MaxOps /\ ops' = ops + 1
    /\ job' = [job EXCEPT ![h] = [op |-> op, arg |-> x]]
    /\ UNCHANGED <<shared, broadcast, known, saved, filed, view, missed, loose>>

\* The recipients are the members of the moment.
FanOut(h, g) ==
    /\ pc' = [pc EXCEPT ![h] = "fan"]
    /\ todo' = [todo EXCEPT ![h] = g.members]
    /\ UNCHANGED mail

\* Operations find the group in the registry, or are given the object.
Call(h, op, x, g) ==
    /\ group # None /\ \A i \in Busy : job[i].op \notin {"create", "channel"}
    /\ Start(h, op, x)
    /\ FanOut(h, g)
    /\ group' = g
    /\ UNCHANGED <<listed, rest, chats>>

\* An operation about m has begun: how it ends is open.
Opens(ms) == settled' = [m \in Members |-> IF m \in ms THEN "open" ELSE settled[m]]

Overlaps(op) ==
    \E i \in Busy : job[i].op \in Announce \cup Expel /\ (op \in Expel \/ job[i].op \in Expel)

\* createGroup: the first member is announced to all of them.  The object is not
\* in the registry until everyone was told.
Create(h) ==
    /\ group = None
    /\ \E ms \in SUBSET Members, n \in Names :
          /\ group' = [members |-> ms, name |-> n, description |-> None]
          /\ IF ms = {}
             THEN Start(h, "create", None) /\ rest' = rest /\ FanOut(h, group')
             ELSE \E x \in ms :
                     Start(h, "create", x) /\ rest' = [rest EXCEPT ![h] = ms \ {x}]
                     /\ FanOut(h, group')
          /\ Opens(ms)
    /\ UNCHANGED <<listed, chats, torn>>

\* Mutant: the members to tell are listed before the new one is pushed.
AddTellsOthers(h, x) ==
    /\ Call(h, "add", x, group)
    /\ Opens({x}) /\ torn' = (torn \/ Overlaps("add"))

\* sendGroupMemberAdded pushes the member before it sends.
Add(h, x) ==
    /\ Call(h, "add", x, [group EXCEPT !.members = @ \cup {x}])
    /\ Opens({x}) /\ torn' = (torn \/ Overlaps("add"))

\* sendGroupMemberRemoved tells the member that goes as well.
Remove(h, x) ==
    /\ Call(h, "remove", x, group)
    /\ Opens({x}) /\ torn' = (torn \/ Overlaps("remove"))

Leave(h) ==
    /\ Call(h, "leave", None, group)
    /\ torn' = (torn \/ Overlaps("leave"))
    /\ UNCHANGED settled

\* renameGroup and updateGroupDescription change the object before they send.
Rename(h, n) ==
    Call(h, "rename", n, [group EXCEPT !.name = n]) /\ UNCHANGED <<settled, torn>>

Describe(h, n) ==
    Call(h, "describe", n, [group EXCEPT !.description = n]) /\ UNCHANGED <<settled, torn>>

\* sendToGroupMembers, which throws without recipients: messages, and reactions,
\* edits, deletions, avatars and timers.
SendAll(h) ==
    /\ group # None /\ group.members # {}
    /\ Call(h, "send", None, group) /\ UNCHANGED <<settled, torn>>

-----------------------------------------------------------------------------
\* The fan-out

\* A member without a key is passed over.
PassOver(h, m) ==
    /\ pc[h] = "fan" /\ m \in todo[h] \ known
    /\ todo' = [todo EXCEPT ![h] = @ \ {m}]
    /\ missed' = missed \cup {m}
    /\ UNCHANGED <<shared, broadcast, known, reg, saved, chats, pc, job, rest, mail, filed, ops, view,
                   settled, torn, loose>>

\* The mail is built with the members of this moment, then encrypted and sent.
Post(h, m) ==
    /\ pc[h] = "fan" /\ m \in todo[h] \cap known
    /\ pc' = [pc EXCEPT ![h] = "post"]
    /\ todo' = [todo EXCEPT ![h] = @ \ {m}]
    /\ mail' = [mail EXCEPT ![h] = [to |-> m, lists |-> IF broadcast THEN {} ELSE group.members]]
    /\ UNCHANGED <<shared, broadcast, known, reg, saved, chats, job, rest, filed, ops, view, history>>

\* What the recipient makes of a mail that adds or removes somebody; who does not
\* think to be a member starts from the list of the mail.
Seen(h) ==
    LET m == mail[h].to
        before == IF m \in view[m] THEN view[m] ELSE {}
        x == job[h].arg
    IN CASE job[h].op \in Announce -> before \cup mail[h].lists \cup {x}
         [] job[h].op = "remove" -> (before \cup mail[h].lists) \ {x}
         [] OTHER -> view[m]
Arrives(h) == view' = [view EXCEPT ![mail[h].to] = Seen(h)]

Sent(h) ==
    /\ pc[h] = "post"
    /\ Arrives(h)
    /\ pc' = [pc EXCEPT ![h] = "fan"] /\ mail' = [mail EXCEPT ![h] = NoMail]
    /\ UNCHANGED <<shared, broadcast, known, reg, saved, chats, job, rest, todo, filed, ops, history>>

Stop(h) ==
    /\ pc' = [pc EXCEPT ![h] = "idle"] /\ job' = [job EXCEPT ![h] = NoJob]
    /\ rest' = [rest EXCEPT ![h] = {}] /\ todo' = [todo EXCEPT ![h] = {}]
    /\ mail' = [mail EXCEPT ![h] = NoMail]

\* The send rejects, whether or not the relay took the mail: the operation ends,
\* what it did to the object stays.
SendFails(h) ==
    /\ pc[h] = "post"
    /\ Arrives(h) \/ UNCHANGED view
    /\ Stop(h)
    /\ group' = IF job[h].op \in {"create", "channel"} THEN None ELSE group
    /\ torn' = (torn \/ job[h].op \in Announce \cup Expel)
    /\ loose' = loose \cup (IF job[h].op \in {"add", "rename", "describe"} THEN {"disk"} ELSE {})
                       \cup (IF job[h].op = "rename" THEN {"row"} ELSE {})
    /\ UNCHANGED <<shared, broadcast, known, listed, saved, chats, filed, ops, missed, settled>>

-----------------------------------------------------------------------------
\* The end of an operation

Done(h, op) == pc[h] = "fan" /\ todo[h] = {} /\ job[h].op = op

\* createGroup goes on with the next member.
AnnounceNext(h) ==
    /\ Done(h, "create")
    /\ \E x \in rest[h] :
          /\ job' = [job EXCEPT ![h].arg = x]
          /\ rest' = [rest EXCEPT ![h] = @ \ {x}]
    /\ FanOut(h, group)
    /\ UNCHANGED <<shared, broadcast, known, reg, saved, chats, filed, ops, view, history>>

\* createChannel with a description.
DescribeChannel(h) ==
    /\ Done(h, "create") /\ rest[h] = {} /\ broadcast
    /\ \E n \in Names : group' = [group EXCEPT !.description = n]
    /\ job' = [job EXCEPT ![h] = [op |-> "channel", arg |-> None]]
    /\ FanOut(h, group)
    /\ UNCHANGED <<shared, broadcast, known, listed, saved, chats, rest, filed, ops, view, history>>

\* An operation about m is over: no other one about m decides how it stands.
Closes(h, m, how) ==
    settled' = IF About(m) \ {h} = {} /\ m # None THEN [settled EXCEPT ![m] = how] ELSE settled

Mirror(h) == mirror' = [mirror EXCEPT ![h] = "get"]

\* registerGroup.
Register(h) ==
    /\ Done(h, "create") \/ Done(h, "channel")
    /\ rest[h] = {}
    /\ Stop(h) /\ Mirror(h)
    /\ listed' = TRUE /\ timer' = TRUE
    /\ settled' = [m \in Members |-> IF m \in group.members THEN "in" ELSE settled[m]]
    /\ UNCHANGED <<shared, broadcast, known, group, disk, row, objects, cbuf, mbuf, filed, ops, view,
                   missed, torn, loose>>

\* persistOutgoing files the system message under the lower-cased id.
Files == filed' = filed \cup {LowerId}

Added(h) ==
    /\ Done(h, "add")
    /\ group' = [group EXCEPT !.members = @ \cup {job[h].arg}]
    /\ Stop(h) /\ Files /\ timer' = TRUE
    /\ Closes(h, job[h].arg, "in")
    /\ UNCHANGED <<shared, broadcast, known, listed, disk, chats, ops, view, missed, torn, loose>>

\* Mutant: the others are told, the list stays as it is.
RemovedKept(h) ==
    /\ Done(h, "remove")
    /\ Stop(h) /\ Files /\ timer' = TRUE
    /\ Closes(h, job[h].arg, "out")
    /\ UNCHANGED <<shared, broadcast, known, reg, disk, chats, ops, view, missed, torn, loose>>

Removed(h) ==
    /\ Done(h, "remove")
    /\ group' = [group EXCEPT !.members = @ \ {job[h].arg}]
    /\ Stop(h) /\ Files /\ timer' = TRUE
    /\ Closes(h, job[h].arg, "out")
    /\ UNCHANGED <<shared, broadcast, known, listed, disk, chats, ops, view, missed, torn, loose>>

\* Mutant: the registry changes and no snapshot follows.
LeftUnsaved(h) ==
    /\ Done(h, "leave")
    /\ listed' = FALSE
    /\ Stop(h)
    /\ UNCHANGED <<shared, broadcast, known, group, saved, chats, filed, ops, view, history>>

Left(h) ==
    /\ Done(h, "leave")
    /\ listed' = FALSE /\ timer' = TRUE
    /\ Stop(h)
    /\ UNCHANGED <<shared, broadcast, known, group, disk, chats, filed, ops, view, history>>

\* Mutant: the name is not mirrored.
RenamedUnmirrored(h) ==
    /\ Done(h, "rename")
    /\ group' = [group EXCEPT !.name = job[h].arg]
    /\ Stop(h) /\ Files /\ timer' = TRUE
    /\ UNCHANGED <<shared, broadcast, known, listed, disk, chats, ops, view, history>>

Renamed(h) ==
    /\ Done(h, "rename")
    /\ group' = [group EXCEPT !.name = job[h].arg]
    /\ Stop(h) /\ Mirror(h) /\ Files /\ timer' = TRUE
    /\ UNCHANGED <<shared, broadcast, known, listed, disk, row, objects, cbuf, mbuf, ops, view, history>>

Described(h) ==
    /\ Done(h, "describe")
    /\ group' = [group EXCEPT !.description = job[h].arg]
    /\ Stop(h) /\ timer' = TRUE
    /\ UNCHANGED <<shared, broadcast, known, listed, disk, chats, filed, ops, view, history>>

\* A message is stored; a control message is not.
SentAll(h) ==
    /\ Done(h, "send")
    /\ Files \/ UNCHANGED filed
    /\ Stop(h)
    /\ UNCHANGED <<shared, broadcast, known, reg, saved, chats, ops, view, history>>

-----------------------------------------------------------------------------
\* The chat row

\* The holder of the stored object changes it as it goes.
Current(b) == shared /\ b # None /\ row # None /\ b.id = row.id

SaveRow(b, n) ==
    IF b = None
    THEN row' = [id |-> objects + 1, name |-> n] /\ objects' = objects + 1
    ELSE row' = [b EXCEPT !.name = n] /\ UNCHANGED objects

\* persistGroupChat.
MirrorGet(h) ==
    /\ mirror[h] = "get"
    /\ mirror' = [mirror EXCEPT ![h] = "put"] /\ mbuf' = [mbuf EXCEPT ![h] = row]
    /\ UNCHANGED <<shared, broadcast, known, reg, saved, row, objects, cbuf, fan, filed, ops, view, history>>

MirrorPut(h) ==
    /\ mirror[h] = "put" /\ group # None
    /\ SaveRow(mbuf[h], group.name)
    /\ mirror' = [mirror EXCEPT ![h] = "none"] /\ mbuf' = [mbuf EXCEPT ![h] = None]
    /\ loose' = loose \ {"row"}
    /\ UNCHANGED <<shared, broadcast, known, reg, saved, cbuf, fan, filed, ops, view, missed, settled,
                   torn>>

\* A member's mail: it counts in the group's row if there is one; one that sets
\* the avatar or the timer creates the row, with the name it gives.
GroupMail(h) ==
    /\ Start(h, "mail", None)
    /\ pc' = [pc EXCEPT ![h] = "row"] /\ cbuf' = [cbuf EXCEPT ![h] = row]
    /\ UNCHANGED <<reg, row, objects, mirror, mbuf, rest, todo, mail, settled, torn>>

WriteRow(h) ==
    /\ pc[h] = "row"
    /\ IF cbuf[h] = None
       THEN (\E n \in Names : SaveRow(None, n)) \/ UNCHANGED <<row, objects>>
       ELSE SaveRow(cbuf[h], IF Current(cbuf[h]) THEN row.name ELSE cbuf[h].name)
    /\ Stop(h) /\ cbuf' = [cbuf EXCEPT ![h] = None]
    /\ UNCHANGED <<shared, broadcast, known, reg, saved, mirror, mbuf, filed, ops, view, history>>

-----------------------------------------------------------------------------
LearnKey(m) ==
    /\ m \notin known /\ known' = known \cup {m}
    /\ ops < MaxOps /\ ops' = ops + 1
    /\ UNCHANGED <<shared, broadcast, reg, saved, chats, fan, filed, view, history>>

\* The snapshot is taken in one go when the timer fires.
Persist ==
    /\ timer /\ timer' = FALSE
    /\ disk' = IF listed THEN group ELSE None
    /\ loose' = loose \ {"disk"}
    /\ UNCHANGED <<shared, broadcast, known, reg, chats, fan, filed, ops, view, missed, settled, torn>>

\* The page goes away and is loaded again; MemoryStore goes with it.
Reload ==
    /\ ~shared
    /\ group' = disk /\ listed' = (disk # None) /\ timer' = FALSE
    /\ pc' = [h \in Handlers |-> "idle"] /\ job' = [h \in Handlers |-> NoJob]
    /\ rest' = [h \in Handlers |-> {}] /\ todo' = [h \in Handlers |-> {}]
    /\ mail' = [h \in Handlers |-> NoMail]
    /\ cbuf' = [h \in Handlers |-> None] /\ mbuf' = [h \in Handlers |-> None]
    /\ mirror' = [h \in Handlers |-> "none"]
    /\ settled' = [m \in Members |-> "open"] /\ torn' = TRUE /\ loose' = {}
    /\ ops < MaxOps /\ ops' = ops + 1
    /\ UNCHANGED <<shared, broadcast, known, disk, row, objects, filed, view, missed>>

Begin(h) ==
    \/ Create(h) \/ Leave(h) \/ SendAll(h) \/ GroupMail(h)
    \/ \E x \in Members : Add(h, x) \/ Remove(h, x)
    \/ \E n \in Names : Rename(h, n) \/ Describe(h, n)

Resume(h) ==
    \/ \E m \in Members : PassOver(h, m) \/ Post(h, m)
    \/ Sent(h) \/ SendFails(h)
    \/ AnnounceNext(h) \/ DescribeChannel(h) \/ Register(h) \/ Added(h) \/ Removed(h) \/ Left(h)
    \/ Renamed(h) \/ Described(h) \/ SentAll(h)
    \/ MirrorGet(h) \/ MirrorPut(h) \/ WriteRow(h)

Next ==
    \/ \E h \in Handlers : Begin(h) \/ Resume(h)
    \/ \E m \in Members : LearnKey(m)
    \/ Persist \/ Reload

Spec == Init /\ [][Next]_vars

-----------------------------------------------------------------------------
RegType ==
    /\ shared \in BOOLEAN /\ broadcast \in BOOLEAN /\ known \subseteq Members
    /\ group \in GroupInfos \cup {None} /\ disk \in GroupInfos \cup {None}
    /\ listed \in BOOLEAN /\ timer \in BOOLEAN
RowType ==
    /\ row \in Rows \cup {None} /\ objects \in Nat
    /\ cbuf \in [Handlers -> Rows \cup {None}] /\ mbuf \in [Handlers -> Rows \cup {None}]
    /\ mirror \in [Handlers -> {"none", "get", "put"}]
FanType ==
    /\ pc \in [Handlers -> {"idle", "fan", "post", "row"}]
    /\ job \in [Handlers -> [op : Ops \cup {"none"}, arg : Members \cup Names \cup {None}]]
    /\ rest \in [Handlers -> SUBSET Members] /\ todo \in [Handlers -> SUBSET Members]
    /\ mail \in [Handlers -> [to : Members \cup {None}, lists : SUBSET Members]]
WorldType ==
    /\ filed \subseteq {GroupId, LowerId} /\ ops \in 0 .. MaxOps
    /\ view \in [Members -> SUBSET Members] /\ missed \subseteq Members
    /\ settled \in [Members -> {"open", "in", "out"}] /\ torn \in BOOLEAN
    /\ loose \subseteq {"disk", "row"}

\* Type invariant of the registry, the chat row, the fan-outs and the members' views.
TypeOK == RegType /\ RowType /\ FanType /\ WorldType

Resting == Busy = {} /\ \A h \in Handlers : mirror[h] = "none"

\* No operation undoes another one's change of the member list, however their
\* fan-outs overlap: who was added is in it, who was removed is not.
NoLostUpdate ==
    group # None => \A m \in Members :
        /\ settled[m] = "in" => m \in group.members
        /\ settled[m] = "out" => m \notin group.members

\* After overlapping operations that all ran to their end, every member of a
\* group believes in the same members as the account, and who is out knows.
ViewsAgree ==
    Resting /\ listed /\ ~torn /\ ~broadcast =>
        \A m \in Members \ missed :
            IF m \in group.members THEN view[m] = group.members ELSE m \notin view[m]

\* What a reload would restore is what the account has, once its timer has fired.
SnapshotFollows ==
    Resting /\ ~timer /\ "disk" \notin loose => disk = IF listed THEN group ELSE None

\* The name of the chat is the name of the group (MemoryStore), while mails of
\* members write the same row.
RowMirrorsGroup ==
    shared /\ Resting /\ listed /\ "row" \notin loose /\ objects = 1 =>
        row # None /\ row.name = group.name

-----------------------------------------------------------------------------
\* store.ts:19, of a chat's id: "peerEmail (1:1) or group-id".
SentInGroupChat == filed \subseteq {GroupId}

-----------------------------------------------------------------------------
\* Why NoLostUpdate and SnapshotFollows hold.  An operation has the group and the
\* argument it needs; a group in the making is nobody else's yet; what the
\* snapshot lacks is due, or will be when an operation ends; and the last word
\* on a member is spoken when no operation about it is under way.
Placed(h) ==
    LET op == job[h].op IN
    /\ pc[h] = "idle" => rest[h] = {}
    /\ pc[h] = "row" <=> pc[h] # "idle" /\ op = "mail"
    /\ pc[h] \in {"fan", "post"} => op # "none" /\ group # None
    /\ pc[h] # "idle" /\ op \in {"add", "remove"} => job[h].arg \in Members
    /\ pc[h] # "idle" /\ op \in {"rename", "describe"} => job[h].arg \in Names
    /\ pc[h] # "idle" /\ op = "create" => job[h].arg \in Members \/ (pc[h] = "fan" /\ todo[h] = {})
    /\ pc[h] # "idle" /\ op # "create" => rest[h] = {}
    /\ pc[h] = "post" => mail[h].to \in Members

Making(h) == pc[h] # "idle" /\ job[h].op \in {"create", "channel"}
Untold == ~listed /\ \A m \in Members : settled[m] = "open"
Alone ==
    /\ group = None => Untold
    /\ \A h \in Handlers : Making(h) => Untold /\ \A i \in Busy \ {h} : job[i].op = "mail"

Unsaved ==
    timer \/ "disk" \in loose \/ \E h \in Busy : job[h].op \in {"add", "rename", "describe"}
Saved == Unsaved \/ disk = IF listed THEN group ELSE None

LastWord == NoLostUpdate /\ \A m \in Members : settled[m] # "open" => About(m) = {}

IInv == TypeOK /\ (\A h \in Handlers : Placed(h)) /\ Alone /\ Saved /\ LastWord
-----------------------------------------------------------------------------
\* Why RowMirrorsGroup holds: every row anybody holds was created here, and a name
\* that is not the group's has a mirror under way, or an operation that ends in one.
Numbered(b) == b # None => b.id \in 1 .. objects
RowsNumbered ==
    /\ row = None <=> objects = 0
    /\ Numbered(row) /\ \A h \in Handlers : Numbered(cbuf[h]) /\ Numbered(mbuf[h])

Mirroring(h) == mirror[h] # "none" \/ (pc[h] # "idle" /\ job[h].op = "rename")
Mirrored ==
    shared /\ listed /\ "row" \notin loose /\ objects < 2 /\ (\A h \in Handlers : ~Mirroring(h)) =>
        row # None /\ row.name = group.name

-----------------------------------------------------------------------------
\* Why ViewsAgree holds.  Announcements overlap one another only, and a mail of
\* theirs lists the members there are: who is told of one newcomer is told of
\* those that joined meanwhile.  A member knows of another one, or is owed a mail
\* that says so, unless one of the two is being removed; and nobody believes in
\* more members than there are.
Doing(h, kinds) == pc[h] # "idle" /\ job[h].op \in kinds
OnItsWay(h, m) == pc[h] = "post" /\ mail[h].to = m

Owes(h, m, y) ==
    /\ Doing(h, Announce)
    /\ m \in todo[h] \/ (OnItsWay(h, m) /\ y \in mail[h].lists)
Told(m, y) ==
    \/ m \in view[m] /\ y \in view[m]
    \/ \E h \in Handlers : Owes(h, m, y) \/ (Doing(h, {"remove"}) /\ job[h].arg \in {m, y})

ExpelsAlone ==
    \A h, i \in Handlers : Doing(h, Expel) /\ i # h => ~Doing(i, Announce \cup Expel)
InHand(h) ==
    /\ Doing(h, {"create"}) => rest[h] \subseteq group.members
    /\ Doing(h, {"channel"}) => broadcast
    /\ Doing(h, Announce \cup {"remove"}) => todo[h] \subseteq group.members
    /\ Doing(h, Announce) => job[h].arg \in group.members \cup {None}
    /\ Doing(h, Announce \cup {"remove"}) /\ pc[h] = "post" =>
           mail[h].to \in mail[h].lists /\ mail[h].lists \subseteq group.members
    /\ Doing(h, {"remove"}) => \A m \in group.members \ missed :
           job[h].arg \in view[m] => m \in todo[h] \/ OnItsWay(h, m)
Views ==
    \A m \in Members \ missed :
        /\ m \in view[m] => m \in group.members /\ view[m] \subseteq group.members
        /\ m \in group.members => \A y \in group.members : Told(m, y)

Agreed ==
    ~torn /\ ~broadcast =>
        /\ group = None => \A m \in Members : m \notin view[m]
        /\ group # None => ExpelsAlone /\ Views /\ \A h \in Handlers : InHand(h)

GInv == IInv /\ RowsNumbered /\ Mirrored /\ Agreed
=============================================================================
