---------------------------- MODULE GroupsProofs ----------------------------
(***************************************************************************)
(* Theorems about Groups, for any number of members, operations and        *)
(* reloads, over both stores.  IInv is inductive; the lemmas say what the  *)
(* three shapes of a step (an operation begins, goes on, ends) do to it.   *)
(* What it says of the operations carries the other two parts of GInv: the *)
(* chat row follows the name, and the members hear of one another.         *)
(***************************************************************************)
EXTENDS Groups, TLAPS

Args == Members \cup Names \cup {None}
JobType == [op : Ops \cup {"none"}, arg : Args]
MailType == [to : Members \cup {None}, lists : SUBSET Members]

\* A step of h leaves the other operations where they are.
Moves(h) ==
    \A g \in Handlers \ {h} :
        /\ pc'[g] = pc[g] /\ job'[g] = job[g] /\ rest'[g] = rest[g]
        /\ todo'[g] = todo[g] /\ mail'[g] = mail[g]

AllPlaced == \A h \in Handlers : Placed(h)

USE NoneAssumption DEF AllPlaced

-----------------------------------------------------------------------------
LEMMA OthersPlaced ==
  ASSUME AllPlaced, Alone, NEW h \in Handlers, Moves(h),
         group = None \/ group' # None \/ Making(h),
         NEW g \in Handlers \ {h}
  PROVE  Placed(g)'
<1>1. Placed(g)
  OBVIOUS
<1>2. /\ pc'[g] = pc[g] /\ job'[g] = job[g] /\ rest'[g] = rest[g]
      /\ todo'[g] = todo[g] /\ mail'[g] = mail[g]
  BY DEF Moves
<1>3. pc[g] \in {"fan", "post"} => group' # None
  BY <1>1 DEF Placed, Alone, Busy
<1> QED
  BY <1>1, <1>2, <1>3 DEF Placed

LEMMA IdlePlaced ==
  ASSUME NEW h \in Handlers, pc'[h] = "idle", rest'[h] = {}
  PROVE  Placed(h)'
BY DEF Placed

\* An operation ends.
LEMMA StopKeeps ==
  ASSUME IInv, NEW h \in Handlers, pc[h] # "idle", Stop(h), group = None \/ group' # None \/ Making(h)
  PROVE  /\ FanType' /\ AllPlaced' /\ Moves(h)
         /\ Busy' = Busy \ {h} /\ pc'[h] = "idle"
         /\ \A g \in Handlers \ {h} : pc'[g] = pc[g] /\ job'[g] = job[g]
         /\ \A m \in Members : About(m)' = About(m) \ {h}
         /\ \A g \in Handlers : Making(g)' => Making(g) /\ g # h
<1>1. FanType
  BY DEF IInv, TypeOK
<1>2. FanType'
  BY <1>1 DEF Stop, FanType, NoJob, NoMail
<1>3. Moves(h)
  BY <1>1 DEF Stop, FanType, Moves
<1>4. pc'[h] = "idle" /\ rest'[h] = {}
  BY <1>1 DEF Stop, FanType
<1>5. AllPlaced'
  BY <1>3, <1>4, OthersPlaced, IdlePlaced DEF IInv
<1>6. Busy' = Busy \ {h}
  BY <1>3, <1>4 DEF Busy, Moves
<1>7. \A m \in Members : About(m)' = About(m) \ {h}
  BY <1>3, <1>6 DEF About, Moves, Busy
<1>8. \A g \in Handlers : Making(g)' => Making(g) /\ g # h
  BY <1>3, <1>4 DEF Making, Moves
<1> QED
  BY <1>2, <1>3, <1>4, <1>5, <1>6, <1>7, <1>8 DEF Moves

\* An operation goes on with the same job.
LEMMA GoesOnKeeps ==
  ASSUME IInv, NEW h \in Handlers, FanType', Moves(h), Placed(h)',
         pc[h] \in {"fan", "post"}, pc'[h] \in {"fan", "post"}, job'[h] = job[h], rest'[h] = rest[h],
         UNCHANGED <<group, listed, disk, timer, loose, settled>>,
         RegType', RowType', WorldType'
  PROVE  IInv'
<1>1. AllPlaced'
  BY OthersPlaced DEF IInv
<1>2. Busy' = Busy /\ \A g \in Handlers : job'[g] = job[g] /\ rest'[g] = rest[g]
  BY DEF Busy, Moves
<1>3. \A m \in Members : About(m)' = About(m)
  BY <1>2 DEF About, Busy
<1>4. Alone'
  BY <1>2 DEF IInv, Alone, Untold, Making, Busy
<1>5. Saved'
  <2>1. Busy \subseteq Handlers
    BY DEF Busy
  <2>2. Unsaved' <=> Unsaved
    BY <1>2, <2>1 DEF Unsaved
  <2> QED
    BY <2>2 DEF IInv, Saved
<1>6. LastWord'
  BY <1>3 DEF IInv, LastWord, NoLostUpdate
<1> QED
  BY <1>1, <1>4, <1>5, <1>6 DEF IInv, TypeOK

\* Nothing happens to the operations, nor to what IInv says of them.
LEMMA AsideKeeps ==
  ASSUME IInv, UNCHANGED <<fan, group, listed, settled>>,
         RegType', RowType', WorldType', Saved'
  PROVE  IInv'
<1>1. UNCHANGED <<pc, job, rest, todo, mail>>
  BY DEF fan
<1>2. FanType' /\ AllPlaced'
  BY <1>1 DEF IInv, TypeOK, FanType, Placed
<1>3. Busy' = Busy /\ \A m \in Members : About(m)' = About(m)
  BY <1>1 DEF Busy, About
<1>4. Alone'
  BY <1>1, <1>3 DEF IInv, Alone, Untold, Making
<1>5. LastWord'
  BY <1>3 DEF IInv, LastWord, NoLostUpdate
<1> QED
  BY <1>2, <1>4, <1>5 DEF IInv, TypeOK

LEMMA OpsBound ==
  ASSUME IInv, ops < MaxOps, ops' = ops + 1
  PROVE  ops' \in 0 .. MaxOps
BY BoundAssumption DEF IInv, TypeOK, WorldType

-----------------------------------------------------------------------------
\* The steps of a fan-out

LEMMA PassOverStep ==
  ASSUME IInv, NEW h \in Handlers, NEW m \in Members, PassOver(h, m)
  PROVE  IInv'
<1>1. /\ pc[h] = "fan" /\ todo' = [todo EXCEPT ![h] = @ \ {m}] /\ missed' = missed \cup {m}
      /\ UNCHANGED <<shared, broadcast, known, reg, saved, chats, pc, job, rest, mail, filed, ops, view,
                   settled, torn, loose>>
  BY DEF PassOver
<1>2. FanType' /\ Moves(h) /\ todo'[h] = todo[h] \ {m}
  BY <1>1 DEF IInv, TypeOK, FanType, Moves
<1>3. Placed(h)'
  BY <1>1, <1>2 DEF IInv, Placed, reg
<1>4. RegType' /\ RowType' /\ WorldType'
  BY <1>1 DEF IInv, TypeOK, RegType, RowType, WorldType, reg, saved, chats
<1> QED
  BY <1>1, <1>2, <1>3, <1>4, GoesOnKeeps DEF reg, saved

LEMMA PostStep ==
  ASSUME IInv, NEW h \in Handlers, NEW m \in Members, Post(h, m)
  PROVE  IInv'
<1> DEFINE e == [to |-> m, lists |-> IF broadcast THEN {} ELSE group.members]
<1>1. /\ pc[h] = "fan" /\ m \in todo[h] /\ pc' = [pc EXCEPT ![h] = "post"]
      /\ todo' = [todo EXCEPT ![h] = @ \ {m}] /\ mail' = [mail EXCEPT ![h] = e]
      /\ UNCHANGED <<shared, broadcast, known, reg, saved, chats, job, rest, filed, ops, view, history>>
  BY DEF Post
<1>2. group \in GroupInfos
  BY <1>1 DEF IInv, Placed, TypeOK, RegType
<1>3. e \in MailType /\ e.to = m
  BY <1>2 DEF MailType, GroupInfos
<1> HIDE DEF e
<1>4. FanType' /\ Moves(h) /\ mail'[h] = e /\ pc'[h] = "post"
  BY <1>1, <1>3 DEF IInv, TypeOK, FanType, Moves, MailType
<1>5. Placed(h)'
  BY <1>1, <1>3, <1>4 DEF IInv, Placed, reg
<1>6. RegType' /\ RowType' /\ WorldType'
  BY <1>1 DEF IInv, TypeOK, RegType, RowType, WorldType, reg, saved, chats, history
<1> QED
  BY <1>1, <1>4, <1>5, <1>6, GoesOnKeeps DEF reg, saved, history

LEMMA ArrivesType ==
  ASSUME IInv, NEW h \in Handlers, pc[h] = "post", Arrives(h)
  PROVE  view' \in [Members -> SUBSET Members]
<1>1. mail[h].to \in Members /\ mail[h].lists \subseteq Members
  BY DEF IInv, Placed, TypeOK, FanType
<1>2. job[h].op \in {"create", "add", "remove"} => job[h].arg \in Members
  BY DEF IInv, Placed
<1>3. view[mail[h].to] \subseteq Members
  BY <1>1 DEF IInv, TypeOK, WorldType
<1>4. Seen(h) \subseteq Members
  BY <1>1, <1>2, <1>3 DEF Seen, Announce
<1> QED
  BY <1>1, <1>4 DEF Arrives, IInv, TypeOK, WorldType

LEMMA SentStep == ASSUME IInv, NEW h \in Handlers, Sent(h) PROVE IInv'
<1>1. /\ pc[h] = "post" /\ Arrives(h)
      /\ pc' = [pc EXCEPT ![h] = "fan"] /\ mail' = [mail EXCEPT ![h] = NoMail]
      /\ UNCHANGED <<shared, broadcast, known, reg, saved, chats, job, rest, todo, filed, ops, history>>
  BY DEF Sent
<1>2. FanType' /\ Moves(h) /\ pc'[h] = "fan"
  BY <1>1 DEF IInv, TypeOK, FanType, Moves, NoMail
<1>3. Placed(h)'
  BY <1>1, <1>2 DEF IInv, Placed, reg
<1>4. RegType' /\ RowType' /\ WorldType'
  BY <1>1, ArrivesType DEF IInv, TypeOK, RegType, RowType, WorldType, reg, saved, chats, history
<1> QED
  BY <1>1, <1>2, <1>3, <1>4, GoesOnKeeps DEF reg, saved, history

LEMMA SendFailsStep == ASSUME IInv, NEW h \in Handlers, SendFails(h) PROVE IInv'
<1>1. /\ pc[h] = "post" /\ (Arrives(h) \/ UNCHANGED view) /\ Stop(h)
      /\ group' = IF job[h].op \in {"create", "channel"} THEN None ELSE group
      /\ torn' = (torn \/ job[h].op \in Announce \cup Expel)
      /\ loose' = loose \cup (IF job[h].op \in {"add", "rename", "describe"} THEN {"disk"} ELSE {})
                        \cup (IF job[h].op = "rename" THEN {"row"} ELSE {})
      /\ UNCHANGED <<shared, broadcast, known, listed, saved, chats, filed, ops, missed, settled>>
  BY DEF SendFails
<1>2. group # None
  BY <1>1 DEF IInv, Placed
<1>3. group = None \/ group' # None \/ Making(h)
  BY <1>1 DEF Making
<1>4. /\ FanType' /\ AllPlaced' /\ Moves(h) /\ Busy' = Busy \ {h} /\ pc'[h] = "idle"
      /\ \A g \in Handlers \ {h} : pc'[g] = pc[g] /\ job'[g] = job[g]
      /\ \A m \in Members : About(m)' = About(m) \ {h}
      /\ \A g \in Handlers : Making(g)' => Making(g) /\ g # h
  BY <1>1, <1>3, StopKeeps
<1>5. RegType' /\ RowType'
  BY <1>1 DEF IInv, TypeOK, RegType, RowType, saved, chats
<1>6. view' \in [Members -> SUBSET Members]
  BY <1>1, ArrivesType DEF IInv, TypeOK, WorldType
<1>7. WorldType'
  BY <1>1, <1>6 DEF IInv, TypeOK, WorldType
<1>8. Alone'
  <2>1. group' = None => Untold'
    BY <1>1, <1>2 DEF IInv, Alone, Making, Untold
  <2>2. ASSUME NEW g \in Handlers, Making(g)' PROVE Untold' /\ \A i \in (Busy \ {g})' : job'[i].op = "mail"
    <3>1. Untold /\ \A i \in Busy \ {g} : job[i].op = "mail"
      BY <1>4, <2>2 DEF IInv, Alone
    <3> QED
      BY <1>1, <1>4, <3>1 DEF Untold, Busy
  <2> QED
    BY <2>1, <2>2 DEF Alone
<1>9. Saved'
  <2>1. CASE Making(h)
    <3>1. ~listed /\ ~listed'
      BY <1>1, <2>1 DEF IInv, Alone, Untold
    <3>2. \A i \in Busy \ {h} : job[i].op = "mail"
      BY <2>1 DEF IInv, Alone
    <3> QED
      BY <1>1, <1>4, <2>1, <3>1, <3>2 DEF IInv, Saved, Unsaved, saved, Making, Busy
  <2>2. CASE ~Making(h)
    BY <1>1, <1>4, <2>2 DEF IInv, Saved, Unsaved, saved, Making, Busy
  <2> QED
    BY <2>1, <2>2
<1>10. LastWord'
  BY <1>1, <1>4 DEF IInv, LastWord, NoLostUpdate
<1> QED
  BY <1>4, <1>5, <1>7, <1>8, <1>9, <1>10 DEF IInv, TypeOK


-----------------------------------------------------------------------------
\* The end of an operation

LEMMA DescribeChannelStep == ASSUME IInv, NEW h \in Handlers, DescribeChannel(h) PROVE IInv'
<1> SUFFICES ASSUME NEW n \in Names, group' = [group EXCEPT !.description = n] PROVE IInv'
  BY DEF DescribeChannel
<1>1. /\ pc[h] = "fan" /\ job[h].op = "create" /\ rest[h] = {}
      /\ job' = [job EXCEPT ![h] = [op |-> "channel", arg |-> None]]
      /\ pc' = [pc EXCEPT ![h] = "fan"] /\ todo' = [todo EXCEPT ![h] = group.members] /\ mail' = mail
      /\ UNCHANGED <<shared, broadcast, known, listed, saved, chats, rest, filed, ops, view, history>>
  BY DEF DescribeChannel, Done, FanOut
<1>2. group \in GroupInfos /\ Making(h)
  BY <1>1 DEF IInv, Placed, TypeOK, RegType, Making
<1>3. group' \in GroupInfos /\ group' # None /\ group.members \subseteq Members
  BY <1>2 DEF GroupInfos
<1>4. FanType'
  BY <1>1, <1>3 DEF IInv, TypeOK, FanType, Ops
<1>5. Moves(h) /\ pc'[h] = "fan" /\ rest'[h] = {} /\ job'[h] = [op |-> "channel", arg |-> None]
  BY <1>1 DEF IInv, TypeOK, FanType, Moves
<1>6. AllPlaced'
  <2>1. Placed(h)'
    BY <1>3, <1>5 DEF Placed
  <2> QED
    BY <1>3, <1>5, <2>1, OthersPlaced DEF IInv
<1>7. RegType' /\ RowType' /\ WorldType'
  BY <1>1, <1>3 DEF IInv, TypeOK, RegType, RowType, WorldType, saved, chats, history
<1>8. Untold /\ Untold' /\ \A i \in Busy \ {h} : job[i].op = "mail"
  BY <1>1, <1>2 DEF IInv, Alone, Untold, history
<1>9. Alone'
  BY <1>5, <1>8 DEF Alone, Making, Busy, Moves
<1>10. Saved'
  <2>1. ~Unsaved => disk = None
    BY <1>8 DEF IInv, Saved, Untold
  <2>2. Unsaved => Unsaved'
    BY <1>1, <1>5, <1>8 DEF Unsaved, saved, history, Busy, Moves
  <2> QED
    BY <1>1, <1>8, <2>1, <2>2 DEF Saved, Untold, saved
<1>11. LastWord'
  BY <1>8 DEF LastWord, NoLostUpdate, Untold
<1> QED
  BY <1>4, <1>6, <1>7, <1>9, <1>10, <1>11 DEF IInv, TypeOK

LEMMA AnnounceNextStep == ASSUME IInv, NEW h \in Handlers, AnnounceNext(h) PROVE IInv'
<1> SUFFICES ASSUME NEW x \in rest[h], job' = [job EXCEPT ![h].arg = x],
                    rest' = [rest EXCEPT ![h] = @ \ {x}]
             PROVE  IInv'
  BY DEF AnnounceNext
<1>1. /\ pc[h] = "fan" /\ job[h].op = "create"
      /\ pc' = [pc EXCEPT ![h] = "fan"] /\ todo' = [todo EXCEPT ![h] = group.members] /\ mail' = mail
      /\ UNCHANGED <<shared, broadcast, known, reg, saved, chats, filed, ops, view, history>>
  BY DEF AnnounceNext, Done, FanOut
<1>2. group \in GroupInfos /\ group # None /\ Making(h) /\ x \in Members
  BY <1>1 DEF IInv, Placed, TypeOK, RegType, FanType, Making
<1>3. group.members \subseteq Members
  BY <1>2 DEF GroupInfos
<1>4. job[h] \in JobType
  BY DEF IInv, TypeOK, FanType, JobType, Args
<1>5. FanType'
  BY <1>1, <1>2, <1>3 DEF IInv, TypeOK, FanType
<1>6. Moves(h) /\ pc'[h] = "fan" /\ job'[h].op = "create" /\ job'[h].arg = x
  BY <1>1, <1>4 DEF IInv, TypeOK, FanType, Moves, JobType
<1>7. AllPlaced'
  <2>1. Placed(h)'
    BY <1>1, <1>2, <1>6 DEF Placed, reg
  <2> QED
    BY <1>1, <1>2, <1>6, <2>1, OthersPlaced DEF IInv, reg
<1>8. RegType' /\ RowType' /\ WorldType'
  BY <1>1 DEF IInv, TypeOK, RegType, RowType, WorldType, reg, saved, chats, history
<1>9. Untold /\ Untold' /\ \A i \in Busy \ {h} : job[i].op = "mail"
  BY <1>1, <1>2 DEF IInv, Alone, Untold, history, reg
<1>10. Alone'
  BY <1>6, <1>9 DEF Alone, Making, Busy, Moves
<1>11. Saved'
  <2>1. Unsaved => Unsaved'
    BY <1>1, <1>6, <1>9 DEF Unsaved, saved, history, Busy, Moves
  <2> QED
    BY <1>1, <2>1 DEF IInv, Saved, saved, reg
<1>12. LastWord'
  BY <1>9 DEF LastWord, NoLostUpdate, Untold
<1> QED
  BY <1>5, <1>7, <1>8, <1>10, <1>11, <1>12 DEF IInv, TypeOK

LEMMA RegisterStep == ASSUME IInv, NEW h \in Handlers, Register(h) PROVE IInv'
<1>1. /\ pc[h] = "fan" /\ job[h].op \in {"create", "channel"} /\ Stop(h)
      /\ mirror' = [mirror EXCEPT ![h] = "get"] /\ listed' = TRUE /\ timer' = TRUE
      /\ settled' = [m \in Members |-> IF m \in group.members THEN "in" ELSE settled[m]]
      /\ UNCHANGED <<shared, broadcast, known, group, disk, row, objects, cbuf, mbuf, filed, ops, view,
                     missed, torn, loose>>
  BY DEF Register, Done, Mirror
<1>2. group # None /\ group' # None /\ Making(h)
  BY <1>1 DEF IInv, Placed, Making
<1>3. /\ FanType' /\ AllPlaced' /\ Busy' = Busy \ {h}
      /\ \A g \in Handlers \ {h} : pc'[g] = pc[g] /\ job'[g] = job[g]
      /\ \A m \in Members : About(m)' = About(m) \ {h}
      /\ \A g \in Handlers : Making(g)' => Making(g) /\ g # h
  BY <1>1, <1>2, StopKeeps
<1>4. RegType' /\ RowType' /\ WorldType'
  BY <1>1 DEF IInv, TypeOK, RegType, RowType, WorldType
<1>5. Untold /\ \A i \in Busy \ {h} : job[i].op = "mail"
  BY <1>2 DEF IInv, Alone
<1>6. Alone'
  BY <1>2, <1>3, <1>5 DEF Alone, Making, Busy
<1>7. \A m \in Members : About(m)' = {}
  <2> SUFFICES ASSUME NEW m \in Members PROVE About(m) \subseteq {h}
    BY <1>3
  <2> QED
    BY <1>5 DEF About, Busy, Announce, Expel
<1>8. LastWord'
  BY <1>1, <1>5, <1>7 DEF LastWord, NoLostUpdate, Untold, IInv, TypeOK, WorldType
<1>9. Saved'
  BY <1>1 DEF Saved, Unsaved
<1> QED
  BY <1>3, <1>4, <1>6, <1>8, <1>9 DEF IInv, TypeOK

\* The end of an operation that is not a making: nobody is making the group.
LEMMA EndKeeps ==
  ASSUME IInv, NEW h \in Handlers, pc[h] = "fan", job[h].op \in Ops \ {"create", "channel", "mail"},
         Stop(h), group' # None
  PROVE  /\ group # None /\ FanType' /\ AllPlaced' /\ Alone' /\ h \in Busy /\ Busy' = Busy \ {h}
         /\ \A g \in Handlers \ {h} : pc'[g] = pc[g] /\ job'[g] = job[g]
         /\ \A m \in Members : About(m)' = About(m) \ {h}
<1>1. h \in Busy /\ ~Making(h) /\ group # None
  BY DEF Busy, Making, IInv, Placed
<1>2. /\ FanType' /\ AllPlaced' /\ Busy' = Busy \ {h}
      /\ \A g \in Handlers \ {h} : pc'[g] = pc[g] /\ job'[g] = job[g]
      /\ \A m \in Members : About(m)' = About(m) \ {h}
      /\ \A g \in Handlers : Making(g)' => Making(g) /\ g # h
  BY StopKeeps
<1>3. \A g \in Handlers : ~Making(g)
  BY <1>1 DEF IInv, Alone
<1>4. Alone'
  BY <1>2, <1>3 DEF Alone
<1> QED
  BY <1>1, <1>2, <1>4

\* The last word on a member is that of the last operation about it.
LEMMA ClosesKeeps ==
  ASSUME IInv, NEW h \in Handlers, h \in Busy, NEW x \in Members, NEW how \in {"in", "out"},
         job[h].arg = x, job[h].op \in {"add", "remove"}, group # None, Closes(h, x, how),
         \A m \in Members \ {x} : m \in group'.members <=> m \in group.members,
         x \in group'.members <=> how = "in",
         \A m \in Members : About(m)' = About(m) \ {h}
  PROVE  LastWord' /\ settled' \in [Members -> {"open", "in", "out"}]
<1>1. settled \in [Members -> {"open", "in", "out"}] /\ x # None
  BY DEF IInv, TypeOK, WorldType
<1>2. h \in About(x)
  BY DEF About, Announce, Expel
<1>3. settled[x] = "open"
  BY <1>2 DEF IInv, LastWord
<1>4. settled' \in [Members -> {"open", "in", "out"}]
  BY <1>1 DEF Closes
<1>5. ASSUME NEW m \in Members, settled'[m] # "open"
      PROVE  /\ About(m)' = {}
             /\ settled'[m] = "in" => m \in group'.members
             /\ settled'[m] = "out" => m \notin group'.members
  <2>1. CASE m = x
    BY <1>1, <1>3, <1>5, <2>1 DEF Closes
  <2>2. CASE m # x
    <3>1. settled'[m] = settled[m]
      BY <1>1, <2>2 DEF Closes
    <3> QED
      BY <1>5, <2>2, <3>1 DEF IInv, LastWord, NoLostUpdate
  <2> QED
    BY <2>1, <2>2
<1>6. LastWord'
  BY <1>5 DEF LastWord, NoLostUpdate
<1> QED
  BY <1>4, <1>6

LEMMA AddedStep == ASSUME IInv, NEW h \in Handlers, Added(h) PROVE IInv'
<1> DEFINE x == job[h].arg
<1>1. /\ pc[h] = "fan" /\ job[h].op = "add" /\ Stop(h) /\ timer' = TRUE
      /\ group' = [group EXCEPT !.members = @ \cup {x}] /\ filed' = filed \cup {LowerId}
      /\ Closes(h, x, "in")
      /\ UNCHANGED <<shared, broadcast, known, listed, disk, chats, ops, view, missed, torn, loose>>
  BY DEF Added, Done, Files
<1>2. x \in Members /\ group \in GroupInfos
  BY <1>1 DEF IInv, Placed, TypeOK, RegType
<1>3. group' \in GroupInfos /\ group' # None /\ group'.members = group.members \cup {x}
  BY <1>1, <1>2 DEF GroupInfos
<1>4. /\ group # None /\ FanType' /\ AllPlaced' /\ Alone' /\ h \in Busy
      /\ \A m \in Members : About(m)' = About(m) \ {h}
  BY <1>1, <1>3, EndKeeps DEF Ops, Announce, Expel
<1>5. LastWord' /\ settled' \in [Members -> {"open", "in", "out"}]
  BY <1>1, <1>2, <1>3, <1>4, ClosesKeeps
<1>6. RegType' /\ RowType' /\ WorldType'
  BY <1>1, <1>3, <1>5 DEF IInv, TypeOK, RegType, RowType, WorldType, chats
<1>7. Saved'
  BY <1>1 DEF Saved, Unsaved
<1> QED
  BY <1>4, <1>5, <1>6, <1>7 DEF IInv, TypeOK

LEMMA RemovedStep == ASSUME IInv, NEW h \in Handlers, Removed(h) PROVE IInv'
<1> DEFINE x == job[h].arg
<1>1. /\ pc[h] = "fan" /\ job[h].op = "remove" /\ Stop(h) /\ timer' = TRUE
      /\ group' = [group EXCEPT !.members = @ \ {x}] /\ filed' = filed \cup {LowerId}
      /\ Closes(h, x, "out")
      /\ UNCHANGED <<shared, broadcast, known, listed, disk, chats, ops, view, missed, torn, loose>>
  BY DEF Removed, Done, Files
<1>2. x \in Members /\ group \in GroupInfos
  BY <1>1 DEF IInv, Placed, TypeOK, RegType
<1>3. group' \in GroupInfos /\ group' # None /\ group'.members = group.members \ {x}
  BY <1>1, <1>2 DEF GroupInfos
<1>4. /\ group # None /\ FanType' /\ AllPlaced' /\ Alone' /\ h \in Busy
      /\ \A m \in Members : About(m)' = About(m) \ {h}
  BY <1>1, <1>3, EndKeeps DEF Ops, Announce, Expel
<1>5. LastWord' /\ settled' \in [Members -> {"open", "in", "out"}]
  BY <1>1, <1>2, <1>3, <1>4, ClosesKeeps
<1>6. RegType' /\ RowType' /\ WorldType'
  BY <1>1, <1>3, <1>5 DEF IInv, TypeOK, RegType, RowType, WorldType, chats
<1>7. Saved'
  BY <1>1 DEF Saved, Unsaved
<1> QED
  BY <1>4, <1>5, <1>6, <1>7 DEF IInv, TypeOK

\* The other ends leave the member list alone.
LEMMA PlainEndKeeps ==
  ASSUME IInv, NEW h \in Handlers, pc[h] = "fan", job[h].op \in Ops \ {"create", "channel", "mail"},
         Stop(h), group' \in GroupInfos, group'.members = group.members,
         UNCHANGED <<shared, broadcast, known, disk, row, objects, cbuf, mbuf, ops, view, history>>,
         listed' \in BOOLEAN, timer' \in BOOLEAN, filed' \subseteq {GroupId, LowerId},
         mirror' \in [Handlers -> {"none", "get", "put"}],
         Saved'
  PROVE  IInv'
<1>1. group' # None
  OBVIOUS
<1>2. /\ group # None /\ FanType' /\ AllPlaced' /\ Alone'
      /\ \A m \in Members : About(m)' = About(m) \ {h}
  BY <1>1, EndKeeps
<1>3. RegType' /\ RowType' /\ WorldType'
  BY DEF IInv, TypeOK, RegType, RowType, WorldType, history
<1>4. LastWord'
  BY <1>2 DEF IInv, LastWord, NoLostUpdate, history
<1> QED
  BY <1>2, <1>3, <1>4 DEF IInv, TypeOK

LEMMA GroupHere ==
  ASSUME IInv, NEW h \in Handlers, pc[h] = "fan"
  PROVE  /\ group \in GroupInfos /\ listed \in BOOLEAN /\ timer \in BOOLEAN
         /\ filed \subseteq {GroupId, LowerId} /\ mirror \in [Handlers -> {"none", "get", "put"}]
         /\ job[h].op \in {"rename", "describe"} => job[h].arg \in Names
BY DEF IInv, Placed, TypeOK, RegType, RowType, WorldType

LEMMA LeftStep == ASSUME IInv, NEW h \in Handlers, Left(h) PROVE IInv'
<1>1. /\ pc[h] = "fan" /\ job[h].op = "leave" /\ Stop(h) /\ listed' = FALSE /\ timer' = TRUE
      /\ UNCHANGED <<shared, broadcast, known, group, disk, row, objects, cbuf, mbuf, mirror, filed, ops,
                     view, history>>
  BY DEF Left, Done, chats
<1>2. Saved'
  BY <1>1 DEF Saved, Unsaved
<1> QED
  BY <1>1, <1>2, GroupHere, PlainEndKeeps DEF Ops, Announce, Expel

LEMMA RenamedStep == ASSUME IInv, NEW h \in Handlers, Renamed(h) PROVE IInv'
<1>1. /\ pc[h] = "fan" /\ job[h].op = "rename" /\ Stop(h) /\ timer' = TRUE
      /\ group' = [group EXCEPT !.name = job[h].arg] /\ filed' = filed \cup {LowerId}
      /\ mirror' = [mirror EXCEPT ![h] = "get"]
      /\ UNCHANGED <<shared, broadcast, known, listed, disk, row, objects, cbuf, mbuf, ops, view, history>>
  BY DEF Renamed, Done, Files, Mirror
<1>2. group' \in GroupInfos /\ group'.members = group.members
  BY <1>1, GroupHere DEF GroupInfos
<1>3. Saved'
  BY <1>1 DEF Saved, Unsaved
<1> QED
  BY <1>1, <1>2, <1>3, GroupHere, PlainEndKeeps DEF Ops, Announce, Expel

LEMMA DescribedStep == ASSUME IInv, NEW h \in Handlers, Described(h) PROVE IInv'
<1>1. /\ pc[h] = "fan" /\ job[h].op = "describe" /\ Stop(h) /\ timer' = TRUE
      /\ group' = [group EXCEPT !.description = job[h].arg]
      /\ UNCHANGED <<shared, broadcast, known, listed, disk, row, objects, cbuf, mbuf, mirror, filed, ops,
                     view, history>>
  BY DEF Described, Done, chats
<1>2. group' \in GroupInfos /\ group'.members = group.members
  BY <1>1, GroupHere DEF GroupInfos
<1>3. Saved'
  BY <1>1 DEF Saved, Unsaved
<1> QED
  BY <1>1, <1>2, <1>3, GroupHere, PlainEndKeeps DEF Ops, Announce, Expel

LEMMA SentAllStep == ASSUME IInv, NEW h \in Handlers, SentAll(h) PROVE IInv'
<1>1. /\ pc[h] = "fan" /\ job[h].op = "send" /\ Stop(h) /\ filed' \in {filed, filed \cup {LowerId}}
      /\ UNCHANGED <<shared, broadcast, known, group, listed, disk, timer, row, objects, cbuf, mbuf,
                     mirror, ops, view, history>>
  BY DEF SentAll, Done, Files, reg, saved, chats
<1>2. group' # None
  BY <1>1 DEF IInv, Placed
<1>3. Busy' = Busy \ {h} /\ \A g \in Handlers \ {h} : pc'[g] = pc[g] /\ job'[g] = job[g]
  BY <1>1, <1>2, EndKeeps DEF Ops, Announce, Expel
<1>4. Saved'
  <2>1. Unsaved => Unsaved'
    BY <1>1, <1>3 DEF Unsaved, history, Busy
  <2> QED
    BY <1>1, <2>1 DEF IInv, Saved
<1> QED
  BY <1>1, <1>4, GroupHere, PlainEndKeeps DEF Ops, Announce, Expel


-----------------------------------------------------------------------------
\* Beginning an operation

\* A call: the handler was idle, nobody is making the group, and the operation
\* has its argument.
LEMMA CallKeeps ==
  ASSUME IInv, NEW h \in Handlers, NEW op \in Ops \ {"create", "channel", "mail"}, NEW x \in Args,
         NEW g \in GroupInfos, Call(h, op, x, g),
         op \in {"add", "remove"} => x \in Members, op \in {"rename", "describe"} => x \in Names
  PROVE  /\ RegType' /\ RowType' /\ FanType' /\ AllPlaced' /\ Alone'
         /\ group # None /\ group' = g /\ ops' \in 0 .. MaxOps
         /\ UNCHANGED <<filed, view, missed, loose, listed, disk, timer>>
         /\ h \notin Busy /\ Busy' = Busy \cup {h} /\ job'[h] = [op |-> op, arg |-> x]
         /\ \A i \in Busy : job'[i] = job[i]
         /\ \A m \in Members : About(m)' = IF op \in Announce \cup Expel /\ x = m
                                           THEN About(m) \cup {h} ELSE About(m)
<1>1. /\ group # None /\ (\A i \in Busy : job[i].op \notin {"create", "channel"})
      /\ pc[h] = "idle" /\ ops < MaxOps /\ ops' = ops + 1
      /\ job' = [job EXCEPT ![h] = [op |-> op, arg |-> x]]
      /\ pc' = [pc EXCEPT ![h] = "fan"] /\ todo' = [todo EXCEPT ![h] = g.members]
      /\ group' = g /\ mail' = mail
      /\ UNCHANGED <<shared, broadcast, known, disk, timer, filed, view, missed, loose, listed, rest,
                     row, objects, cbuf, mirror, mbuf>>
  BY DEF Call, Start, FanOut, saved, chats
<1>2. g.members \subseteq Members /\ g # None
  BY DEF GroupInfos
<1>3. FanType'
  BY <1>1, <1>2 DEF IInv, TypeOK, FanType, Args
<1>4. Moves(h) /\ pc'[h] = "fan" /\ job'[h] = [op |-> op, arg |-> x]
  BY <1>1 DEF IInv, TypeOK, FanType, Moves
<1>5. rest'[h] = {}
  BY <1>1 DEF IInv, Placed
<1>6. Placed(h)'
  <2>1. op # "none" /\ op # "mail" /\ op # "create"
    BY DEF Ops, Announce, Expel
  <2>2. group' # None
    BY <1>1, <1>2
  <2> QED
    BY <1>4, <1>5, <2>1, <2>2 DEF Placed
<1>7. AllPlaced'
  BY <1>1, <1>2, <1>4, <1>6, OthersPlaced DEF IInv
<1>8. \A i \in Handlers : ~Making(i)'
  BY <1>1, <1>4 DEF Making, Busy, Moves
<1>9. Alone'
  BY <1>1, <1>2, <1>8 DEF Alone
<1>10. h \notin Busy /\ Busy' = Busy \cup {h} /\ \A i \in Busy : job'[i] = job[i] /\ rest'[i] = rest[i]
  BY <1>1, <1>4 DEF Busy, Moves
<1>11. ASSUME NEW m \in Members
       PROVE  About(m)' = IF op \in Announce \cup Expel /\ x = m THEN About(m) \cup {h} ELSE About(m)
  BY <1>4, <1>5, <1>10 DEF About
<1>12. RegType' /\ RowType' /\ ops' \in 0 .. MaxOps
  BY <1>1, OpsBound DEF IInv, TypeOK, RegType, RowType
<1> QED
  BY <1>1, <1>3, <1>4, <1>7, <1>9, <1>10, <1>11, <1>12

\* An operation about x opens it.
LEMMA OpensKeeps ==
  ASSUME IInv, NEW x \in Members, NEW h, group # None, Opens({x}),
         \A m \in Members \ {x} : m \in group'.members <=> m \in group.members,
         \A m \in Members : About(m)' = IF x = m THEN About(m) \cup {h} ELSE About(m)
  PROVE  LastWord' /\ settled' \in [Members -> {"open", "in", "out"}]
BY DEF IInv, LastWord, NoLostUpdate, Opens, TypeOK, WorldType

LEMMA AddStep == ASSUME IInv, NEW h \in Handlers, NEW x \in Members, Add(h, x) PROVE IInv'
<1> DEFINE g == [group EXCEPT !.members = @ \cup {x}]
<1>1. Call(h, "add", x, g) /\ Opens({x}) /\ torn' = (torn \/ Overlaps("add"))
  BY DEF Add
<1>2. group \in GroupInfos
  BY <1>1 DEF Call, IInv, TypeOK, RegType
<1>3. g \in GroupInfos /\ g.members = group.members \cup {x}
  BY <1>2 DEF GroupInfos
<1> HIDE DEF g
<1>4. /\ RegType' /\ RowType' /\ FanType' /\ AllPlaced' /\ Alone'
      /\ group # None /\ group' = g /\ ops' \in 0 .. MaxOps
      /\ UNCHANGED <<filed, view, missed, loose, listed, disk, timer>>
      /\ Busy' = Busy \cup {h} /\ job'[h] = [op |-> "add", arg |-> x]
      /\ \A m \in Members : About(m)' = IF x = m THEN About(m) \cup {h} ELSE About(m)
  BY <1>1, <1>3, CallKeeps DEF Ops, Announce, Expel, Args
<1>5. LastWord' /\ settled' \in [Members -> {"open", "in", "out"}]
  BY <1>1, <1>3, <1>4, OpensKeeps
<1>6. WorldType'
  BY <1>1, <1>4, <1>5 DEF IInv, TypeOK, WorldType
<1>7. Saved'
  BY <1>4 DEF Saved, Unsaved
<1> QED
  BY <1>4, <1>5, <1>6, <1>7 DEF IInv, TypeOK

\* A call that leaves the object as it is leaves Saved as it is.
LEMMA SameSaved ==
  ASSUME IInv, NEW h, UNCHANGED <<group, listed, disk, timer, loose>>,
         Busy' = Busy \cup {h}, \A i \in Busy : job'[i] = job[i]
  PROVE  Saved'
<1>1. Unsaved => Unsaved'
  BY DEF Unsaved
<1> QED
  BY <1>1 DEF IInv, Saved

LEMMA RemoveStep == ASSUME IInv, NEW h \in Handlers, NEW x \in Members, Remove(h, x) PROVE IInv'
<1>1. Call(h, "remove", x, group) /\ Opens({x}) /\ torn' = (torn \/ Overlaps("remove"))
  BY DEF Remove
<1>2. group \in GroupInfos
  BY <1>1 DEF Call, IInv, TypeOK, RegType
<1>3. /\ RegType' /\ RowType' /\ FanType' /\ AllPlaced' /\ Alone'
      /\ group # None /\ group' = group /\ ops' \in 0 .. MaxOps
      /\ UNCHANGED <<filed, view, missed, loose, listed, disk, timer>>
      /\ Busy' = Busy \cup {h} /\ \A i \in Busy : job'[i] = job[i]
      /\ \A m \in Members : About(m)' = IF x = m THEN About(m) \cup {h} ELSE About(m)
  BY <1>1, <1>2, CallKeeps DEF Ops, Announce, Expel, Args
<1>4. LastWord' /\ settled' \in [Members -> {"open", "in", "out"}]
  BY <1>1, <1>3, OpensKeeps
<1>5. WorldType'
  BY <1>1, <1>3, <1>4 DEF IInv, TypeOK, WorldType
<1>6. Saved'
  BY <1>3, SameSaved
<1> QED
  BY <1>3, <1>4, <1>5, <1>6 DEF IInv, TypeOK

\* A call that is about no member.
LEMMA PlainCallKeeps ==
  ASSUME IInv, NEW h \in Handlers, NEW op \in {"leave", "rename", "describe", "send"}, NEW x \in Args,
         NEW g \in GroupInfos, Call(h, op, x, g), g.members = group.members,
         op = "leave" => x = None, op \in {"rename", "describe"} => x \in Names,
         op \in {"leave", "send"} => g = group, UNCHANGED settled, torn' \in BOOLEAN
  PROVE  IInv'
<1>1. /\ RegType' /\ RowType' /\ FanType' /\ AllPlaced' /\ Alone'
      /\ group # None /\ group' = g /\ ops' \in 0 .. MaxOps
      /\ UNCHANGED <<filed, view, missed, loose, listed, disk, timer>>
      /\ h \notin Busy /\ Busy' = Busy \cup {h} /\ job'[h] = [op |-> op, arg |-> x]
      /\ \A i \in Busy : job'[i] = job[i]
      /\ \A m \in Members : About(m)' = IF op \in Announce \cup Expel /\ x = m
                                        THEN About(m) \cup {h} ELSE About(m)
  BY CallKeeps DEF Ops, Announce, Expel
<1>2. \A m \in Members : About(m)' = About(m)
  BY <1>1 DEF Announce, Expel
<1>3. WorldType'
  BY <1>1 DEF IInv, TypeOK, WorldType
<1>4. LastWord'
  BY <1>1, <1>2 DEF IInv, LastWord, NoLostUpdate
<1>5. Saved'
  <2>1. CASE op \in {"rename", "describe"}
    BY <1>1, <2>1 DEF Saved, Unsaved
  <2>2. CASE op \in {"leave", "send"}
    BY <1>1, <2>2, SameSaved
  <2> QED
    BY <2>1, <2>2
<1> QED
  BY <1>1, <1>3, <1>4, <1>5 DEF IInv, TypeOK

LEMMA GroupThere ==
  ASSUME IInv, NEW h, NEW op, NEW x, NEW g, Call(h, op, x, g)
  PROVE  group \in GroupInfos /\ torn \in BOOLEAN
BY DEF Call, IInv, TypeOK, RegType, WorldType

LEMMA LeaveStep == ASSUME IInv, NEW h \in Handlers, Leave(h) PROVE IInv'
<1>1. Call(h, "leave", None, group) /\ UNCHANGED settled /\ torn' = (torn \/ Overlaps("leave"))
  BY DEF Leave
<1>2. group \in GroupInfos /\ torn' \in BOOLEAN
  BY <1>1, GroupThere DEF Overlaps
<1> QED
  BY <1>1, <1>2, PlainCallKeeps DEF Args

LEMMA RenameStep == ASSUME IInv, NEW h \in Handlers, NEW n \in Names, Rename(h, n) PROVE IInv'
<1> DEFINE g == [group EXCEPT !.name = n]
<1>1. Call(h, "rename", n, g) /\ UNCHANGED <<settled, torn>>
  BY DEF Rename
<1>2. group \in GroupInfos /\ torn' \in BOOLEAN
  BY <1>1, GroupThere
<1>3. g \in GroupInfos /\ g.members = group.members
  BY <1>2 DEF GroupInfos
<1> HIDE DEF g
<1> QED
  BY <1>1, <1>2, <1>3, PlainCallKeeps DEF Args

LEMMA DescribeStep == ASSUME IInv, NEW h \in Handlers, NEW n \in Names, Describe(h, n) PROVE IInv'
<1> DEFINE g == [group EXCEPT !.description = n]
<1>1. Call(h, "describe", n, g) /\ UNCHANGED <<settled, torn>>
  BY DEF Describe
<1>2. group \in GroupInfos /\ torn' \in BOOLEAN
  BY <1>1, GroupThere
<1>3. g \in GroupInfos /\ g.members = group.members
  BY <1>2 DEF GroupInfos
<1> HIDE DEF g
<1> QED
  BY <1>1, <1>2, <1>3, PlainCallKeeps DEF Args

LEMMA SendAllStep == ASSUME IInv, NEW h \in Handlers, SendAll(h) PROVE IInv'
<1>1. Call(h, "send", None, group) /\ UNCHANGED <<settled, torn>>
  BY DEF SendAll
<1>2. group \in GroupInfos /\ torn' \in BOOLEAN
  BY <1>1, GroupThere
<1> QED
  BY <1>1, <1>2, PlainCallKeeps DEF Args

\* The group in the making is new: nothing was said of its members yet.
LEMMA CreateStep == ASSUME IInv, NEW h \in Handlers, Create(h) PROVE IInv'
<1>1. PICK ms \in SUBSET Members, n \in Names :
         /\ group' = [members |-> ms, name |-> n, description |-> None]
         /\ \/ ms = {} /\ Start(h, "create", None) /\ rest' = rest /\ FanOut(h, group')
            \/ \E x \in ms : Start(h, "create", x) /\ rest' = [rest EXCEPT ![h] = ms \ {x}]
                             /\ FanOut(h, group')
         /\ Opens(ms)
  BY DEF Create
<1>2. PICK x \in Members \cup {None} :
         /\ x \in Members \/ (ms = {} /\ x = None)
         /\ Start(h, "create", x) /\ FanOut(h, group')
         /\ rest' \in {rest, [rest EXCEPT ![h] = ms \ {x}]}
  BY <1>1
<1>3. /\ group = None /\ pc[h] = "idle" /\ ops < MaxOps /\ ops' = ops + 1
      /\ job' = [job EXCEPT ![h] = [op |-> "create", arg |-> x]]
      /\ pc' = [pc EXCEPT ![h] = "fan"] /\ todo' = [todo EXCEPT ![h] = group'.members] /\ mail' = mail
      /\ UNCHANGED <<shared, broadcast, known, disk, timer, filed, view, missed, loose, listed, torn,
                     row, objects, cbuf, mirror, mbuf>>
  BY <1>2 DEF Create, Start, FanOut, saved, chats
<1>4. group' \in GroupInfos /\ group'.members = ms /\ group' # None
  BY <1>1 DEF GroupInfos
<1>5. FanType'
  BY <1>2, <1>3, <1>4 DEF IInv, TypeOK, FanType, Ops, Announce
<1>6. Moves(h) /\ pc'[h] = "fan" /\ job'[h] = [op |-> "create", arg |-> x] /\ todo'[h] = ms
  BY <1>2, <1>3, <1>4 DEF IInv, TypeOK, FanType, Moves
<1>7. Placed(h)'
  BY <1>2, <1>4, <1>6 DEF Placed
<1>8. AllPlaced'
  BY <1>3, <1>6, <1>7, OthersPlaced DEF IInv
<1>9. Untold /\ \A i \in Busy : job[i].op = "mail"
  BY <1>3 DEF IInv, Alone, Placed, Busy, TypeOK, FanType
<1>10. Untold'
  BY <1>1, <1>3, <1>9 DEF Untold, Opens
<1>11. Alone'
  BY <1>4, <1>6, <1>9, <1>10 DEF Alone, Making, Busy, Moves
<1>12. Saved'
  <2>1. Unsaved => Unsaved'
    BY <1>3, <1>6, <1>9 DEF Unsaved, Busy, Moves
  <2> QED
    BY <1>3, <1>9, <1>10, <2>1 DEF IInv, Saved, Untold
<1>13. LastWord'
  BY <1>10 DEF LastWord, NoLostUpdate, Untold
<1>14. RegType' /\ RowType'
  BY <1>3, <1>4 DEF IInv, TypeOK, RegType, RowType
<1>15. settled' \in [Members -> {"open", "in", "out"}]
  BY <1>1 DEF Opens, IInv, TypeOK, WorldType
<1>16. WorldType'
  BY <1>3, <1>15, OpsBound DEF IInv, TypeOK, WorldType
<1> QED
  BY <1>5, <1>8, <1>11, <1>12, <1>13, <1>14, <1>16 DEF IInv, TypeOK

\* A member's mail touches the chat row only.
LEMMA GroupMailStep == ASSUME IInv, NEW h \in Handlers, GroupMail(h) PROVE IInv'
<1>1. /\ pc[h] = "idle" /\ ops < MaxOps /\ ops' = ops + 1
      /\ job' = [job EXCEPT ![h] = [op |-> "mail", arg |-> None]]
      /\ pc' = [pc EXCEPT ![h] = "row"] /\ cbuf' = [cbuf EXCEPT ![h] = row]
      /\ UNCHANGED <<shared, broadcast, known, group, listed, disk, timer, filed, view, missed, loose,
                     row, objects, mirror, mbuf, rest, todo, mail, settled, torn>>
  BY DEF GroupMail, Start, saved, reg
<1>2. FanType'
  BY <1>1 DEF IInv, TypeOK, FanType, Ops
<1>3. Moves(h) /\ pc'[h] = "row" /\ job'[h] = [op |-> "mail", arg |-> None] /\ rest'[h] = {}
  BY <1>1 DEF IInv, TypeOK, FanType, Moves, Placed
<1>4. Placed(h)'
  BY <1>3 DEF Placed
<1>5. AllPlaced'
  BY <1>1, <1>3, <1>4, OthersPlaced DEF IInv
<1>6. h \notin Busy /\ Busy' = Busy \cup {h}
      /\ \A i \in Busy : job'[i] = job[i] /\ rest'[i] = rest[i]
  BY <1>1, <1>3 DEF Busy, Moves
<1>7. \A m \in Members : About(m)' = About(m)
  BY <1>3, <1>6 DEF About, Announce, Expel
<1>8. Alone'
  BY <1>1, <1>3, <1>6 DEF IInv, Alone, Untold, Making, Busy, Moves
<1>9. Saved'
  BY <1>1, <1>6, SameSaved
<1>10. LastWord'
  BY <1>1, <1>7 DEF IInv, LastWord, NoLostUpdate
<1>11. RegType' /\ RowType' /\ WorldType'
  BY <1>1, OpsBound DEF IInv, TypeOK, RegType, RowType, WorldType
<1> QED
  BY <1>2, <1>5, <1>8, <1>9, <1>10, <1>11 DEF IInv, TypeOK

-----------------------------------------------------------------------------
\* The chat row, the keys, the snapshot and the reload

LEMMA SaveRowType ==
  ASSUME IInv, NEW b \in Rows \cup {None}, NEW n \in Names, SaveRow(b, n)
  PROVE  row' \in Rows \cup {None} /\ objects' \in Nat
BY DEF SaveRow, Rows, IInv, TypeOK, RowType

LEMMA MirrorGetStep == ASSUME IInv, NEW h \in Handlers, MirrorGet(h) PROVE IInv'
<1>1. /\ mirror' = [mirror EXCEPT ![h] = "put"] /\ mbuf' = [mbuf EXCEPT ![h] = row]
      /\ UNCHANGED <<shared, broadcast, known, group, listed, disk, timer, row, objects, cbuf, fan,
                     pc, job, filed, ops, view, missed, settled, torn, loose>>
  BY DEF MirrorGet, reg, saved, history, fan
<1>2. RegType' /\ RowType' /\ WorldType'
  BY <1>1 DEF IInv, TypeOK, RegType, RowType, WorldType
<1>3. Saved'
  BY <1>1 DEF IInv, Saved, Unsaved, Busy
<1> QED
  BY <1>1, <1>2, <1>3, AsideKeeps

LEMMA MirrorPutStep == ASSUME IInv, NEW h \in Handlers, MirrorPut(h) PROVE IInv'
<1>1. /\ group # None /\ SaveRow(mbuf[h], group.name)
      /\ mirror' = [mirror EXCEPT ![h] = "none"] /\ mbuf' = [mbuf EXCEPT ![h] = None]
      /\ loose' = loose \ {"row"}
      /\ UNCHANGED <<shared, broadcast, known, group, listed, disk, timer, cbuf, fan, pc, job, filed,
                     ops, view, missed, settled, torn>>
  BY DEF MirrorPut, reg, saved, fan
<1>2. group.name \in Names /\ mbuf[h] \in Rows \cup {None}
  BY <1>1 DEF IInv, TypeOK, RegType, RowType, GroupInfos
<1>3. row' \in Rows \cup {None} /\ objects' \in Nat
  BY <1>1, <1>2, SaveRowType
<1>4. RegType' /\ RowType' /\ WorldType'
  BY <1>1, <1>3 DEF IInv, TypeOK, RegType, RowType, WorldType
<1>5. Saved'
  BY <1>1 DEF IInv, Saved, Unsaved, Busy
<1> QED
  BY <1>1, <1>4, <1>5, AsideKeeps

LEMMA WriteRowStep == ASSUME IInv, NEW h \in Handlers, WriteRow(h) PROVE IInv'
<1>1. /\ pc[h] = "row" /\ Stop(h) /\ cbuf' = [cbuf EXCEPT ![h] = None]
      /\ UNCHANGED <<shared, broadcast, known, group, listed, disk, timer, mirror, mbuf, filed, ops,
                     view, missed, settled, torn, loose>>
  BY DEF WriteRow, reg, saved, history
<1>2. job[h].op = "mail" /\ h \in Busy
  BY <1>1 DEF IInv, Placed, Busy
<1>3. /\ FanType' /\ AllPlaced' /\ Busy' = Busy \ {h}
      /\ \A g \in Handlers \ {h} : pc'[g] = pc[g] /\ job'[g] = job[g]
      /\ \A m \in Members : About(m)' = About(m) \ {h}
      /\ \A g \in Handlers : Making(g)' => Making(g) /\ g # h
  BY <1>1, StopKeeps
<1>4. row' \in Rows \cup {None} /\ objects' \in Nat
  <2>1. cbuf[h] \in Rows \cup {None} /\ row \in Rows \cup {None} /\ objects \in Nat
    BY DEF IInv, TypeOK, RowType
  <2>2. CASE cbuf[h] = None
    BY <2>1, <2>2, SaveRowType DEF WriteRow
  <2>3. CASE cbuf[h] # None
    <3> DEFINE n == IF Current(cbuf[h]) THEN row.name ELSE cbuf[h].name
    <3>1. n \in Names
      BY <2>1, <2>3 DEF Current, Rows
    <3>2. SaveRow(cbuf[h], n)
      BY <2>3 DEF WriteRow
    <3> HIDE DEF n
    <3> QED
      BY <2>1, <3>1, <3>2, SaveRowType
  <2> QED
    BY <2>2, <2>3
<1>5. RegType' /\ RowType' /\ WorldType'
  BY <1>1, <1>4 DEF IInv, TypeOK, RegType, RowType, WorldType
<1>6. Alone'
  BY <1>1, <1>3 DEF IInv, Alone, Untold, Making, Busy
<1>7. Saved'
  <2>1. Unsaved => Unsaved'
    BY <1>1, <1>2, <1>3 DEF Unsaved, Busy
  <2> QED
    BY <1>1, <2>1 DEF IInv, Saved
<1>8. LastWord'
  BY <1>1, <1>3 DEF IInv, LastWord, NoLostUpdate
<1> QED
  BY <1>3, <1>5, <1>6, <1>7, <1>8 DEF IInv, TypeOK

LEMMA LearnKeyStep == ASSUME IInv, NEW m \in Members, LearnKey(m) PROVE IInv'
<1>1. /\ known' = known \cup {m} /\ ops < MaxOps /\ ops' = ops + 1
      /\ UNCHANGED <<shared, broadcast, group, listed, disk, timer, row, objects, cbuf, mirror, mbuf,
                     fan, pc, job, filed, view, missed, settled, torn, loose>>
  BY DEF LearnKey, reg, saved, chats, history, fan
<1>2. RegType' /\ RowType' /\ WorldType'
  BY <1>1, OpsBound DEF IInv, TypeOK, RegType, RowType, WorldType
<1>3. Saved'
  BY <1>1 DEF IInv, Saved, Unsaved, Busy
<1> QED
  BY <1>1, <1>2, <1>3, AsideKeeps

LEMMA PersistStep == ASSUME IInv, Persist PROVE IInv'
<1>1. /\ timer' = FALSE /\ disk' = (IF listed THEN group ELSE None) /\ loose' = loose \ {"disk"}
      /\ UNCHANGED <<shared, broadcast, known, group, listed, row, objects, cbuf, mirror, mbuf,
                     fan, filed, ops, view, missed, settled, torn>>
  BY DEF Persist, reg, chats
<1>2. RegType' /\ RowType' /\ WorldType'
  BY <1>1 DEF IInv, TypeOK, RegType, RowType, WorldType
<1>3. Saved'
  BY <1>1 DEF Saved
<1> QED
  BY <1>1, <1>2, <1>3, AsideKeeps

LEMMA ReloadStep == ASSUME IInv, Reload PROVE IInv'
<1>1. \A h \in Handlers : pc'[h] = "idle" /\ rest'[h] = {}
  BY DEF Reload
<1>2. FanType'
  BY DEF Reload, IInv, TypeOK, FanType, NoJob, NoMail
<1>3. RegType' /\ RowType' /\ WorldType'
  BY OpsBound DEF Reload, IInv, TypeOK, RegType, RowType, WorldType
<1>4. AllPlaced'
  BY <1>1, IdlePlaced
<1>5. \A m \in Members : settled'[m] = "open"
  BY DEF Reload
<1>6. Alone'
  BY <1>1, <1>5 DEF Reload, Alone, Making, Untold
<1>7. Saved'
  BY DEF Reload, Saved
<1>8. LastWord'
  BY <1>5 DEF LastWord, NoLostUpdate
<1> QED
  BY <1>2, <1>3, <1>4, <1>6, <1>7, <1>8 DEF IInv, TypeOK

-----------------------------------------------------------------------------
\* IInv is inductive

LEMMA InitIInv == Init => IInv
<1> SUFFICES ASSUME Init PROVE IInv
  OBVIOUS
<1>1. \A h \in Handlers : pc[h] = "idle" /\ rest[h] = {}
  BY DEF Init
<1>2. TypeOK
  <2>1. RegType /\ RowType
    BY DEF Init, RegType, RowType
  <2>2. FanType
    BY DEF Init, FanType, NoJob, NoMail
  <2>3. WorldType
    <3>1. ops \in 0 .. MaxOps
      <4>1. ops = 0
        BY DEF Init
      <4> QED
        BY <4>1, BoundAssumption
    <3>2. view \in [Members -> SUBSET Members] /\ settled \in [Members -> {"open", "in", "out"}]
      BY DEF Init
    <3> QED
      BY <3>1, <3>2 DEF Init, WorldType
  <2> QED
    BY <2>1, <2>2, <2>3 DEF TypeOK
<1>3. AllPlaced
  BY <1>1 DEF Placed
<1>4. \A m \in Members : settled[m] = "open"
  BY DEF Init
<1>5. Alone
  BY <1>1, <1>4 DEF Init, Alone, Making, Untold
<1>6. Saved
  BY DEF Init, Saved
<1>7. LastWord
  BY <1>4 DEF LastWord, NoLostUpdate
<1> QED
  BY <1>2, <1>3, <1>5, <1>6, <1>7 DEF IInv

LEMMA StutterIInv == IInv /\ UNCHANGED vars => IInv'
<1> SUFFICES ASSUME IInv, UNCHANGED vars PROVE IInv'
  OBVIOUS
<1>1. UNCHANGED <<fan, group, listed, settled, disk, timer, loose, pc, job>>
  BY DEF vars, reg, saved, history, fan
<1>2. RegType' /\ RowType' /\ WorldType'
  BY DEF vars, reg, saved, chats, history, IInv, TypeOK, RegType, RowType, WorldType
<1>3. Saved'
  BY <1>1 DEF IInv, Saved, Unsaved, Busy
<1> QED
  BY <1>1, <1>2, <1>3, AsideKeeps

LEMMA NextIInv == IInv /\ Next => IInv'
<1> SUFFICES ASSUME IInv, Next PROVE IInv'
  OBVIOUS
<1>1. CASE Persist \/ Reload \/ \E m \in Members : LearnKey(m)
  BY <1>1, PersistStep, ReloadStep, LearnKeyStep
<1>2. ASSUME NEW h \in Handlers, Begin(h) PROVE IInv'
  BY <1>2, CreateStep, LeaveStep, SendAllStep, GroupMailStep, AddStep, RemoveStep, RenameStep,
     DescribeStep DEF Begin
<1>3. ASSUME NEW h \in Handlers, Resume(h) PROVE IInv'
  BY <1>3, PassOverStep, PostStep, SentStep, SendFailsStep, AnnounceNextStep, DescribeChannelStep,
     RegisterStep, AddedStep, RemovedStep, LeftStep, RenamedStep, DescribedStep, SentAllStep,
     MirrorGetStep, MirrorPutStep, WriteRowStep DEF Resume
<1> QED
  BY <1>1, <1>2, <1>3 DEF Next

LEMMA Inductive == Spec => []IInv
BY InitIInv, NextIInv, StutterIInv, PTL DEF Spec

-----------------------------------------------------------------------------
\* The registry, the chat row, the fan-outs and the members' views keep their types.
THEOREM TypeCorrect == Spec => []TypeOK
<1>1. IInv => TypeOK
  BY DEF IInv
<1> QED
  BY <1>1, Inductive, PTL

\* Operations that overlap never undo each other's change of the member list:
\* each works on the object of the registry, and not on a copy it read earlier.
THEOREM NoUpdateLost == Spec => []NoLostUpdate
<1>1. IInv => NoLostUpdate
  BY DEF IInv, LastWord
<1> QED
  BY <1>1, Inductive, PTL

\* With every operation over and no timer set, the snapshot is the registry,
\* save for a change whose operation failed before it came to save.
THEOREM SnapshotHolds == Spec => []SnapshotFollows
<1>1. IInv => SnapshotFollows
  BY DEF IInv, Saved, Unsaved, SnapshotFollows, Resting
<1> QED
  BY <1>1, Inductive, PTL

-----------------------------------------------------------------------------
\* The chat row follows the name

\* A step of h in which no row is created or written.
LEMMA MirrorsOn ==
  ASSUME Mirrored, NEW h \in Handlers, UNCHANGED <<shared, row, objects>>,
         \A g \in Handlers \ {h} : pc'[g] = pc[g] /\ job'[g] = job[g] /\ mirror'[g] = mirror[g],
         \/ Mirroring(h)' \/ "row" \in loose' \/ ~listed'
         \/ /\ "row" \in loose => "row" \in loose'
            /\ listed /\ group'.name = group.name /\ ~Mirroring(h)
  PROVE  Mirrored'
<1> SUFFICES ASSUME shared', listed', "row" \notin loose', objects' < 2,
                    \A g \in Handlers : ~Mirroring(g)'
             PROVE  row' # None /\ row'.name = group'.name
  BY DEF Mirrored
<1>1. \A g \in Handlers : ~Mirroring(g)
  BY DEF Mirroring
<1> QED
  BY <1>1 DEF Mirrored

LEMMA NumberedOn ==
  ASSUME RowsNumbered, UNCHANGED <<row, objects>>,
         \A h \in Handlers : /\ cbuf'[h] \in {cbuf[h], row, None}
                             /\ mbuf'[h] \in {mbuf[h], row, None}
  PROVE  RowsNumbered'
<1>1. (Numbered(row))' /\ (row' = None <=> objects' = 0)
  BY DEF RowsNumbered, Numbered
<1>2. ASSUME NEW h \in Handlers PROVE (Numbered(cbuf[h]))' /\ (Numbered(mbuf[h]))'
  BY <1>2 DEF RowsNumbered, Numbered
<1> QED
  BY <1>1, <1>2 DEF RowsNumbered

\* A row is written by h: one that h has read, or a new one.
LEMMA NumberedSaved ==
  ASSUME IInv, RowsNumbered, NEW b \in Rows \cup {None}, NEW n \in Names, Numbered(b), SaveRow(b, n),
         \A h \in Handlers : cbuf'[h] \in {cbuf[h], None} /\ mbuf'[h] \in {mbuf[h], None}
  PROVE  /\ RowsNumbered' /\ row' \in Rows /\ row'.name = n
         /\ b = None => objects' = objects + 1
<1>1. objects \in Nat /\ b \in Rows \cup {None}
  BY DEF IInv, TypeOK, RowType
<1>2. objects' \in Nat /\ objects <= objects' /\ objects' # 0
  BY <1>1 DEF SaveRow, Numbered, Rows
<1>3. row' \in Rows /\ row'.id \in 1 .. objects' /\ row'.name = n
  BY <1>1 DEF SaveRow, Numbered, Rows
<1>4. ASSUME NEW h \in Handlers PROVE (Numbered(cbuf[h]))' /\ (Numbered(mbuf[h]))'
  BY <1>1, <1>2, <1>4 DEF RowsNumbered, Numbered
<1>5. row' # None
  BY <1>3
<1>6. b = None => objects' = objects + 1
  BY DEF SaveRow
<1> QED
  BY <1>2, <1>3, <1>4, <1>5, <1>6 DEF RowsNumbered, Numbered

LEMMA RowsBegin ==
  ASSUME IInv, RowsNumbered, Mirrored, NEW h \in Handlers, Begin(h)
  PROVE  RowsNumbered' /\ Mirrored'
<1>1. /\ pc[h] = "idle" /\ mirror[h] = "none" /\ UNCHANGED <<shared, row, objects, mirror, mbuf, loose, listed>>
      /\ cbuf' = cbuf \/ cbuf' = [cbuf EXCEPT ![h] = row]
      /\ \E op, x : job' = [job EXCEPT ![h] = [op |-> op, arg |-> x]]
      /\ pc' = [pc EXCEPT ![h] = "fan"] \/ pc' = [pc EXCEPT ![h] = "row"]
  BY DEF Begin, Create, Leave, SendAll, GroupMail, Add, Remove, Rename, Describe, Call, Start, FanOut, chats, reg
<1>2. /\ group = None => ~listed
      /\ group' = group \/ group = None \/ (\E n \in Names : Rename(h, n)) \/ group'.name = group.name
  <2>1. group = None => ~listed
    BY DEF IInv, Alone, Untold
  <2>2. group # None => group \in GroupInfos
    BY DEF IInv, TypeOK, RegType
  <2>3. ASSUME NEW x \in Members, Add(h, x) PROVE group'.name = group.name
    BY <2>2, <2>3 DEF Add, Call, GroupInfos
  <2>4. ASSUME NEW n \in Names, Describe(h, n) PROVE group'.name = group.name
    BY <2>2, <2>4 DEF Describe, Call, GroupInfos
  <2> QED
    BY <2>1, <2>3, <2>4 DEF Begin, Create, Leave, SendAll, GroupMail, Remove, Call, reg
<1>3. pc \in [Handlers -> {"idle", "fan", "post", "row"}] /\ cbuf \in [Handlers -> Rows \cup {None}]
      /\ DOMAIN job = Handlers
  BY DEF IInv, TypeOK, FanType, RowType
<1>4. RowsNumbered'
  BY <1>1, <1>3, NumberedOn
<1>5. \A g \in Handlers \ {h} : pc'[g] = pc[g] /\ job'[g] = job[g] /\ mirror'[g] = mirror[g]
  BY <1>1, <1>3
<1>6. (\E n \in Names : Rename(h, n)) => Mirroring(h)'
  BY <1>1, <1>3 DEF Rename, Call, Start, FanOut, Mirroring
<1>7. ~Mirroring(h)
  BY <1>1 DEF Mirroring
<1>8. Mirrored'
  BY <1>1, <1>2, <1>5, <1>6, <1>7, MirrorsOn
<1> QED
  BY <1>4, <1>8

\* The steps of an operation but for those on the row itself.
LEMMA RowsOperation ==
  ASSUME IInv, RowsNumbered, Mirrored, NEW h \in Handlers,
         \/ \E m \in Members : PassOver(h, m) \/ Post(h, m)
         \/ Sent(h) \/ SendFails(h) \/ AnnounceNext(h) \/ DescribeChannel(h) \/ Register(h)
         \/ Added(h) \/ Removed(h) \/ Left(h) \/ Renamed(h) \/ Described(h) \/ SentAll(h)
  PROVE  RowsNumbered' /\ Mirrored'
<1>1. UNCHANGED <<shared, row, objects, cbuf, mbuf>>
  BY DEF PassOver, Post, Sent, SendFails, AnnounceNext, DescribeChannel, Register, Added, Removed, Left,
         Renamed, Described, SentAll, chats
<1>2. RowsNumbered' /\ UNCHANGED <<shared, row, objects>>
  BY <1>1, NumberedOn
<1>3. /\ pc \in [Handlers -> {"idle", "fan", "post", "row"}] /\ mirror \in [Handlers -> {"none", "get", "put"}]
      /\ job \in [Handlers -> JobType] /\ pc[h] \in {"fan", "post"} /\ group \in GroupInfos
  <2>1. pc[h] \in {"fan", "post"}
    BY DEF PassOver, Post, Sent, SendFails, AnnounceNext, DescribeChannel, Register, Added, Removed, Left,
           Renamed, Described, SentAll, Done
  <2> QED
    BY <2>1 DEF IInv, TypeOK, FanType, RowType, RegType, Placed, JobType, Args
<1>4. CASE \/ \E m \in Members : PassOver(h, m) \/ Post(h, m)
           \/ Sent(h)
  <2>1. /\ UNCHANGED <<job, mirror, group, listed, loose>> /\ pc'[h] # "idle"
        /\ \A g \in Handlers \ {h} : pc'[g] = pc[g]
    BY <1>3, <1>4 DEF PassOver, Post, Sent, chats, reg, history
  <2>2. /\ \A g \in Handlers \ {h} : pc'[g] = pc[g] /\ job'[g] = job[g] /\ mirror'[g] = mirror[g]
        /\ Mirroring(h)' <=> Mirroring(h)
    BY <1>3, <2>1 DEF Mirroring
  <2>3. Mirroring(h)' \/ ~listed' \/ (listed /\ group'.name = group.name /\ ~Mirroring(h))
    BY <2>1, <2>2
  <2> QED
    BY <1>2, <2>1, <2>2, <2>3, MirrorsOn
<1>5. CASE AnnounceNext(h) \/ DescribeChannel(h)
  <2>1. /\ UNCHANGED <<mirror, listed, loose, pc>> /\ job[h].op = "create" /\ pc[h] = "fan"
        /\ \A g \in Handlers \ {h} : job'[g] = job[g]
    BY <1>3, <1>5 DEF AnnounceNext, DescribeChannel, FanOut, Done, chats, reg, history
  <2>2. ~listed
    BY <2>1 DEF IInv, Alone, Making, Untold
  <2>3. ~listed' /\ \A g \in Handlers \ {h} : pc'[g] = pc[g] /\ job'[g] = job[g] /\ mirror'[g] = mirror[g]
    BY <2>1, <2>2
  <2> QED
    BY <1>2, <2>3, MirrorsOn
<1>6. CASE \/ SendFails(h) \/ Register(h) \/ Added(h) \/ Removed(h) \/ Left(h) \/ Renamed(h) \/ Described(h)
           \/ SentAll(h)
  <2>1. Stop(h)
    BY <1>6 DEF SendFails, Register, Added, Removed, Left, Renamed, Described, SentAll
  <2>2. pc'[h] = "idle" /\ \A g \in Handlers \ {h} : pc'[g] = pc[g] /\ job'[g] = job[g]
    BY <1>3, <2>1 DEF Stop
  <2>3. CASE SendFails(h)
    <3>1. job[h].op \in {"create", "channel"} => ~listed
      BY <1>3 DEF IInv, Alone, Making, Untold
    <3>2. /\ UNCHANGED <<mirror, listed>> /\ loose \subseteq loose'
          /\ job[h].op = "rename" => "row" \in loose'
          /\ job[h].op \in {"create", "channel"} \/ group' = group
      BY <2>3 DEF SendFails, chats
    <3>3. \A g \in Handlers \ {h} : pc'[g] = pc[g] /\ job'[g] = job[g] /\ mirror'[g] = mirror[g]
      BY <2>2, <3>2
    <3>4. \/ Mirroring(h)' \/ "row" \in loose' \/ ~listed'
          \/ listed /\ group' = group /\ ~Mirroring(h)
      BY <2>2, <3>1, <3>2 DEF Mirroring
    <3> QED
      BY <1>2, <3>2, <3>3, <3>4, MirrorsOn
  <2>4. CASE Register(h) \/ Renamed(h)
    <3>1. mirror'[h] = "get" /\ \A g \in Handlers \ {h} : mirror'[g] = mirror[g]
      BY <1>3, <2>4 DEF Register, Renamed, Mirror
    <3>2. /\ \A g \in Handlers \ {h} : pc'[g] = pc[g] /\ job'[g] = job[g] /\ mirror'[g] = mirror[g]
          /\ Mirroring(h)'
      BY <2>2, <3>1 DEF Mirroring
    <3> QED
      BY <1>2, <3>2, MirrorsOn
  <2>5. CASE Added(h) \/ Removed(h) \/ Left(h) \/ Described(h) \/ SentAll(h)
    <3>1. UNCHANGED <<mirror, loose>> /\ job[h].op # "rename"
      BY <2>5 DEF Added, Removed, Left, Described, SentAll, Done, chats, history
    <3>2. group'.name = group.name /\ (listed' => listed)
      BY <1>3, <2>5 DEF Added, Removed, Left, Described, SentAll, reg, GroupInfos
    <3>3. \A g \in Handlers \ {h} : pc'[g] = pc[g] /\ job'[g] = job[g] /\ mirror'[g] = mirror[g]
      BY <2>2, <3>1
    <3>4. \/ Mirroring(h)' \/ ~listed'
          \/ listed /\ group'.name = group.name /\ ~Mirroring(h)
      BY <2>2, <3>1, <3>2 DEF Mirroring
    <3> QED
      BY <1>2, <3>1, <3>3, <3>4, MirrorsOn
  <2> QED
    BY <1>6, <2>3, <2>4, <2>5
<1> QED
  BY <1>2, <1>4, <1>5, <1>6

\* The steps on the row.
LEMMA RowsGet ==
  ASSUME IInv, RowsNumbered, Mirrored, NEW h \in Handlers, MirrorGet(h)
  PROVE  RowsNumbered' /\ Mirrored'
<1>1. /\ mirror' = [mirror EXCEPT ![h] = "put"] /\ mbuf' = [mbuf EXCEPT ![h] = row]
      /\ UNCHANGED <<shared, row, objects, cbuf, pc, job>>
  BY DEF MirrorGet, fan
<1>2. mirror \in [Handlers -> {"none", "get", "put"}] /\ mbuf \in [Handlers -> Rows \cup {None}]
  BY DEF IInv, TypeOK, RowType
<1>3. RowsNumbered'
  BY <1>1, <1>2, NumberedOn
<1>4. Mirroring(h)' /\ \A g \in Handlers \ {h} : mirror'[g] = mirror[g]
  BY <1>1, <1>2 DEF Mirroring
<1> QED
  BY <1>1, <1>3, <1>4, MirrorsOn

LEMMA RowsPut ==
  ASSUME IInv, RowsNumbered, Mirrored, NEW h \in Handlers, MirrorPut(h)
  PROVE  RowsNumbered' /\ Mirrored'
<1>1. /\ group # None /\ SaveRow(mbuf[h], group.name)
      /\ mbuf' = [mbuf EXCEPT ![h] = None]
      /\ UNCHANGED <<cbuf, group>>
  BY DEF MirrorPut, reg
<1>2. group.name \in Names /\ mbuf \in [Handlers -> Rows \cup {None}]
  BY <1>1 DEF IInv, TypeOK, RegType, RowType, GroupInfos
<1>3. Numbered(mbuf[h])
  BY DEF RowsNumbered
<1>4. RowsNumbered' /\ row' \in Rows /\ row'.name = group.name
  BY <1>1, <1>2, <1>3, NumberedSaved
<1> QED
  BY <1>1, <1>4 DEF Mirrored

LEMMA RowsWrite ==
  ASSUME IInv, RowsNumbered, Mirrored, NEW h \in Handlers, WriteRow(h)
  PROVE  RowsNumbered' /\ Mirrored'
<1>1. /\ pc[h] = "row" /\ Stop(h) /\ cbuf' = [cbuf EXCEPT ![h] = None]
      /\ UNCHANGED <<shared, group, listed, mirror, mbuf, loose>>
  BY DEF WriteRow, reg, history
<1>2. /\ pc \in [Handlers -> {"idle", "fan", "post", "row"}] /\ cbuf \in [Handlers -> Rows \cup {None}]
      /\ job \in [Handlers -> JobType] /\ row \in Rows \cup {None} /\ objects \in Nat
  BY DEF IInv, TypeOK, FanType, RowType, JobType, Args
<1>3. job[h].op = "mail"
  BY <1>1 DEF IInv, Placed
<1>4. /\ pc'[h] = "idle" /\ (~Mirroring(h)' <=> mirror[h] = "none")
      /\ \A g \in Handlers \ {h} : pc'[g] = pc[g] /\ job'[g] = job[g] /\ mirror'[g] = mirror[g]
  BY <1>1, <1>2 DEF Stop, Mirroring
<1>5. ~Mirroring(h) <=> mirror[h] = "none"
  BY <1>3 DEF Mirroring
<1>6. \A g \in Handlers : ~Mirroring(g)' <=> ~Mirroring(g)
  <2>1. \A g \in Handlers \ {h} : ~Mirroring(g)' <=> ~Mirroring(g)
    BY <1>4 DEF Mirroring
  <2> QED
    BY <1>4, <1>5, <2>1
<1>7. CASE UNCHANGED <<row, objects>>
  <2>1. RowsNumbered'
    BY <1>1, <1>2, <1>7, NumberedOn
  <2> QED
    BY <1>1, <1>6, <1>7, <2>1 DEF Mirrored
<1>8. ASSUME NEW b \in Rows \cup {None}, NEW n \in Names, SaveRow(b, n), Numbered(b),
             b = None \/ (b = cbuf[h] /\ n = IF Current(b) THEN row.name ELSE b.name)
      PROVE  RowsNumbered' /\ Mirrored'
  <2>1. RowsNumbered' /\ row' \in Rows /\ row'.name = n /\ (b = None => objects' = objects + 1)
    BY <1>1, <1>2, <1>8, NumberedSaved
  <2>2. SUFFICES ASSUME shared, listed, "row" \notin loose, objects' < 2, \A g \in Handlers : ~Mirroring(g)
                 PROVE  row'.name = group.name
    BY <1>1, <1>6, <2>1 DEF Mirrored
  <2>3. objects' \in Nat /\ objects' >= objects
    BY <1>2, <1>8 DEF SaveRow
  <2>4. row # None /\ row.name = group.name
    BY <1>2, <2>2, <2>3 DEF Mirrored
  <2>5. objects = 1 /\ b # None
    <3>1. objects # 0
      BY <2>4 DEF RowsNumbered
    <3> QED
      BY <1>2, <2>1, <2>2, <2>3, <3>1
  <2>6. b.id = row.id
    <3>1. b.id \in 1 .. 1 /\ row.id \in 1 .. 1
      BY <2>4, <2>5, <1>8 DEF RowsNumbered, Numbered
    <3> QED
      BY <3>1
  <2> QED
    BY <1>8, <2>1, <2>2, <2>4, <2>5, <2>6 DEF Current
<1>9. CASE cbuf[h] = None
  <2>1. Numbered(None)
    BY DEF Numbered
  <2> QED
    BY <1>7, <1>8, <1>9, <2>1 DEF WriteRow
<1>10. CASE cbuf[h] # None
  <2> DEFINE n == IF Current(cbuf[h]) THEN row.name ELSE cbuf[h].name
  <2>1. n \in Names
    BY <1>2, <1>10 DEF Current, Rows
  <2>2. SaveRow(cbuf[h], n) /\ Numbered(cbuf[h])
    BY <1>10 DEF WriteRow, RowsNumbered
  <2>3. cbuf[h] \in Rows \cup {None}
    BY <1>2
  <2> QED
    BY <1>8, <2>1, <2>2, <2>3
<1> QED
  BY <1>9, <1>10

LEMMA RowsReload ==
  ASSUME RowsNumbered, Reload
  PROVE  RowsNumbered' /\ Mirrored'
<1>1. ~shared' /\ UNCHANGED <<row, objects>> /\ \A h \in Handlers : cbuf'[h] = None /\ mbuf'[h] = None
  BY DEF Reload
<1> QED
  BY <1>1, NumberedOn DEF Mirrored

\* The row is left alone, and so is what it follows.
LEMMA RowsAside ==
  ASSUME RowsNumbered, Mirrored, UNCHANGED <<shared, chats, pc, job, group, listed>>,
         "row" \in loose => "row" \in loose'
  PROVE  RowsNumbered' /\ Mirrored'
<1>1. UNCHANGED <<row, objects, cbuf, mirror, mbuf>>
  BY DEF chats
<1>2. RowsNumbered'
  BY <1>1, NumberedOn
<1>3. \A h \in Handlers : Mirroring(h)' <=> Mirroring(h)
  BY <1>1 DEF Mirroring
<1> QED
  BY <1>1, <1>2, <1>3 DEF Mirrored

LEMMA RowsInductive ==
  ASSUME IInv, RowsNumbered, Mirrored, Next \/ UNCHANGED vars
  PROVE  RowsNumbered' /\ Mirrored'
<1>1. CASE Persist \/ (\E m \in Members : LearnKey(m)) \/ UNCHANGED vars
  <2>1. UNCHANGED <<shared, chats, pc, job, group, listed>> /\ ("row" \in loose => "row" \in loose')
    BY <1>1 DEF Persist, LearnKey, vars, reg, fan, history
  <2> QED
    BY <2>1, RowsAside
<1>2. CASE Reload
  BY <1>2, RowsReload
<1>3. CASE \E h \in Handlers : Begin(h) \/ Resume(h)
  BY <1>3, RowsBegin, RowsOperation, RowsGet, RowsPut, RowsWrite DEF Resume
<1> QED
  BY <1>1, <1>2, <1>3 DEF Next

LEMMA RowsInit == Init => RowsNumbered /\ Mirrored
BY DEF Init, RowsNumbered, Numbered, Mirrored

-----------------------------------------------------------------------------
\* The members' views

\* The four facts that make up Agreed while nothing has gone wrong.
InTune == ExpelsAlone /\ Views /\ \A h \in Handlers : InHand(h)
Affairs == Announce \cup Expel

LEMMA Elsewhere ==
  ASSUME NEW h \in Handlers, Moves(h), NEW g \in Handlers \ {h}
  PROVE  /\ \A K : Doing(g, K)' <=> Doing(g, K)
         /\ \A m : OnItsWay(g, m)' <=> OnItsWay(g, m)
         /\ \A m, y : Owes(g, m, y)' <=> Owes(g, m, y)
BY DEF Moves, Doing, OnItsWay, Owes

\* What m was told, or will be, of y stays so unless h took it back.
LEMMA ToldOn ==
  ASSUME NEW h \in Handlers, Moves(h), NEW m \in Members, NEW y \in Members, Told(m, y),
         m \in view[m] /\ y \in view[m] => Told(m, y)',
         Owes(h, m, y) => Told(m, y)',
         Doing(h, {"remove"}) /\ job[h].arg \in {m, y} => Told(m, y)'
  PROVE  Told(m, y)'
<1>1. CASE m \in view[m] /\ y \in view[m]
  BY <1>1
<1>2. ASSUME NEW g \in Handlers, Owes(g, m, y) \/ (Doing(g, {"remove"}) /\ job[g].arg \in {m, y})
      PROVE  Told(m, y)'
  <2>1. CASE g = h
    BY <1>2, <2>1
  <2>2. CASE g # h
    <3>1. g \in Handlers \ {h} /\ job'[g] = job[g]
      BY <2>2 DEF Moves
    <3>2. Owes(g, m, y)' \/ (Doing(g, {"remove"})' /\ job'[g].arg \in {m, y})
      BY <1>2, <3>1, Elsewhere
    <3> QED
      BY <3>2 DEF Told
  <2> QED
    BY <2>1, <2>2
<1> QED
  BY <1>1, <1>2 DEF Told

\* What the other operations have in hand does not change with the members, for
\* these shrink only when h is alone.
LEMMA OthersInHand ==
  ASSUME NEW h \in Handlers, Moves(h), NEW g \in Handlers \ {h}, InHand(g), broadcast' = broadcast,
         missed \subseteq missed', group.members \subseteq group'.members,
         Doing(g, {"remove"}) => view' = view /\ group'.members = group.members
  PROVE  InHand(g)'
<1>1. /\ \A K : Doing(g, K)' <=> Doing(g, K)
      /\ \A m : OnItsWay(g, m)' <=> OnItsWay(g, m)
  BY Elsewhere
<1>2. /\ pc'[g] = pc[g] /\ job'[g] = job[g] /\ rest'[g] = rest[g]
      /\ todo'[g] = todo[g] /\ mail'[g] = mail[g]
  BY DEF Moves
<1> QED
  BY <1>1, <1>2 DEF InHand

\* A step that is no affair of the members.
LEMMA AsideAgreed ==
  ASSUME Agreed, NEW h \in Handlers, Moves(h), ~Doing(h, Affairs), ~Doing(h, Affairs)',
         Doing(h, {"channel"})' => broadcast,
         UNCHANGED <<broadcast, torn, view>>, missed \subseteq missed',
         group = None <=> group' = None, group # None => group'.members = group.members
  PROVE  Agreed'
<1> SUFFICES ASSUME ~torn, ~broadcast, group # None, group' # None PROVE InTune'
  BY DEF Agreed, InTune
<1>1. ExpelsAlone /\ Views /\ \A g \in Handlers : InHand(g)
  BY DEF Agreed
<1>2. \A K : K \subseteq Affairs => ~Doing(h, K) /\ ~Doing(h, K)'
  BY DEF Doing
<1>3. ~Doing(h, Announce) /\ ~Doing(h, Expel) /\ ~Doing(h, {"remove"}) /\ ~Doing(h, {"create"})
  BY <1>2 DEF Affairs, Announce, Expel
<1>4. /\ ~Doing(h, Announce)' /\ ~Doing(h, Expel)' /\ ~Doing(h, {"remove"})' /\ ~Doing(h, {"create"})'
      /\ ~Doing(h, Announce \cup {"remove"})'
  BY <1>2 DEF Affairs, Announce, Expel
<1>5. ExpelsAlone'
  BY <1>1, <1>4, Elsewhere DEF ExpelsAlone, Affairs
<1>6. InHand(h)'
  BY <1>4 DEF InHand
<1>7. \A g \in Handlers : InHand(g)'
  BY <1>1, <1>6, OthersInHand
<1>8. Views'
  <2> SUFFICES ASSUME NEW m \in Members \ missed'
               PROVE  /\ m \in view'[m] => m \in group'.members /\ view'[m] \subseteq group'.members
                      /\ m \in group'.members => \A y \in group'.members : Told(m, y)'
    BY DEF Views
  <2>1. ASSUME m \in group'.members, NEW y \in group'.members PROVE Told(m, y)'
    <3>1. Told(m, y)
      BY <1>1, <2>1 DEF Views
    <3> QED
      BY <1>3, <3>1, Elsewhere DEF Told, Moves, Owes
  <2> QED
    BY <1>1, <2>1 DEF Views
<1> QED
  BY <1>5, <1>7, <1>8 DEF InTune

\* Views', from what is shown of each pair.
LEMMA ViewsFrom ==
  ASSUME NEW S, group'.members = S,
         \A m \in Members \ missed' :
            /\ m \in view'[m] => m \in S /\ view'[m] \subseteq S
            /\ m \in S => \A y \in S : Told(m, y)'
  PROVE  Views'
BY DEF Views

LEMMA AgreedFrom ==
  ASSUME Agreed, IInv, torn => torn', broadcast' = broadcast, group' # None,
         ~torn /\ ~torn' /\ ~broadcast /\ group # None => (InTune => InTune'),
         ~torn /\ ~torn' /\ ~broadcast /\ group = None => InTune'
  PROVE  Agreed'
BY DEF Agreed, InTune

\* h goes on with its job, the members stay the same and nobody's view changes.
LEMMA GoesOnAgreed ==
  ASSUME Agreed, IInv, NEW h \in Handlers, Moves(h), group # None, group' = group,
         pc[h] # "idle", pc'[h] # "idle", job'[h] = job[h], rest'[h] = rest[h],
         UNCHANGED <<broadcast, torn, view>>, missed \subseteq missed',
         InTune /\ ~broadcast => InHand(h)',
         \A m \in Members \ missed', y \in group.members :
            InTune /\ ~broadcast /\ m \in group.members /\ Owes(h, m, y) => Told(m, y)'
  PROVE  Agreed'
<1> SUFFICES ASSUME InTune, ~torn, ~broadcast PROVE InTune'
  BY AgreedFrom
<1>1. group.members \subseteq Members
  BY DEF IInv, TypeOK, RegType, GroupInfos
<1>2. \A g \in Handlers : \A K : Doing(g, K)' <=> Doing(g, K)
  <2>1. \A K : Doing(h, K)' <=> Doing(h, K)
    BY DEF Doing
  <2> QED
    BY <2>1, Elsewhere
<1>3. ExpelsAlone'
  BY <1>2 DEF ExpelsAlone, InTune
<1>4. \A g \in Handlers : InHand(g)'
  BY OthersInHand DEF InTune
<1>5. ASSUME NEW m \in Members \ missed', m \in group.members, NEW y \in group.members
      PROVE  Told(m, y)'
  <2>1. Told(m, y) /\ y \in Members
    BY <1>1, <1>5 DEF InTune, Views
  <2>2. m \in view[m] /\ y \in view[m] => Told(m, y)'
    BY DEF Told
  <2>3. Doing(h, {"remove"}) /\ job[h].arg \in {m, y} => Told(m, y)'
    BY <1>2 DEF Told
  <2>4. Owes(h, m, y) => Told(m, y)'
    BY <1>5
  <2> QED
    BY <2>1, <2>2, <2>3, <2>4, ToldOn
<1>6. Views'
  BY <1>5 DEF Views, InTune
<1> QED
  BY <1>3, <1>4, <1>6 DEF InTune

LEMMA PassOverAgreed ==
  ASSUME Agreed, IInv, NEW h \in Handlers, NEW m \in Members, PassOver(h, m)
  PROVE  Agreed'
<1>1. /\ pc[h] = "fan" /\ todo' = [todo EXCEPT ![h] = @ \ {m}] /\ missed' = missed \cup {m}
      /\ UNCHANGED <<broadcast, group, pc, job, rest, mail, view, torn>>
  BY DEF PassOver, reg
<1>2. group # None /\ Moves(h) /\ todo'[h] = todo[h] \ {m}
  BY <1>1 DEF IInv, Placed, TypeOK, FanType, Moves
<1>3. InTune => InHand(h)'
  BY <1>1, <1>2 DEF InTune, InHand, Doing, OnItsWay
<1>4. \A n \in Members \ missed' : \A y : Owes(h, n, y) => Told(n, y)'
  BY <1>1, <1>2 DEF Told, Owes, OnItsWay, Doing
<1> QED
  BY <1>1, <1>2, <1>3, <1>4, GoesOnAgreed

LEMMA PostAgreed ==
  ASSUME Agreed, IInv, NEW h \in Handlers, NEW m \in Members, Post(h, m)
  PROVE  Agreed'
<1>1. /\ pc[h] = "fan" /\ m \in todo[h] /\ pc' = [pc EXCEPT ![h] = "post"]
      /\ todo' = [todo EXCEPT ![h] = @ \ {m}]
      /\ mail' = [mail EXCEPT ![h] = [to |-> m, lists |-> IF broadcast THEN {} ELSE group.members]]
      /\ UNCHANGED <<broadcast, group, job, rest, view, missed, torn>>
  BY DEF Post, reg, history
<1>2. /\ group # None /\ Moves(h) /\ pc'[h] = "post" /\ todo'[h] = todo[h] \ {m}
      /\ mail'[h].to = m /\ (~broadcast => mail'[h].lists = group.members)
  BY <1>1 DEF IInv, Placed, TypeOK, FanType, Moves
<1>3. InTune /\ ~broadcast => InHand(h)'
  <2> SUFFICES ASSUME InHand(h), ~broadcast PROVE InHand(h)'
    BY DEF InTune
  <2>1. \A K : Doing(h, K)' <=> Doing(h, K)
    BY <1>1, <1>2 DEF Doing
  <2>2. \A n : OnItsWay(h, n)' <=> n = m
    BY <1>2 DEF OnItsWay
  <2>3. Doing(h, Announce \cup {"remove"}) =>
          todo'[h] \subseteq group'.members /\ mail'[h].to \in mail'[h].lists /\ mail'[h].lists \subseteq group'.members
    BY <1>1, <1>2 DEF InHand
  <2>4. ASSUME Doing(h, {"remove"}), NEW n \in group'.members \ missed', job'[h].arg \in view'[n]
        PROVE  n \in todo'[h] \/ OnItsWay(h, n)'
    <3>1. n \in todo[h]
      BY <1>1, <2>4 DEF InHand, OnItsWay
    <3> QED
      BY <1>2, <2>2, <3>1
  <2>5. /\ Doing(h, {"create"}) => rest'[h] \subseteq group'.members
        /\ Doing(h, {"channel"}) => broadcast'
        /\ Doing(h, Announce) => job'[h].arg \in group'.members \cup {None}
    BY <1>1 DEF InHand
  <2> QED
    BY <2>1, <2>3, <2>4, <2>5 DEF InHand
<1>4. ~broadcast => \A n \in Members \ missed', y \in group.members : Owes(h, n, y) => Told(n, y)'
  <2> SUFFICES ASSUME ~broadcast, NEW n \in Members \ missed', NEW y \in group.members, Owes(h, n, y)
               PROVE  Owes(h, n, y)'
    BY DEF Told
  <2>1. n \in todo[h]
    BY <1>1 DEF Owes, OnItsWay
  <2> QED
    BY <1>1, <1>2, <2>1 DEF Owes, OnItsWay, Doing
<1> QED
  BY <1>1, <1>2, <1>3, <1>4, GoesOnAgreed

\* A mail is delivered: its recipient believes in those it lists.
LEMMA SentAgreed == ASSUME Agreed, IInv, NEW h \in Handlers, Sent(h) PROVE Agreed'
<1> DEFINE m == mail[h].to
           x == job[h].arg
<1>1. /\ pc[h] = "post" /\ view' = [view EXCEPT ![m] = Seen(h)]
      /\ pc' = [pc EXCEPT ![h] = "fan"]
      /\ UNCHANGED <<broadcast, group, job, rest, todo, missed, torn>>
      /\ mail' = [mail EXCEPT ![h] = NoMail]
  BY DEF Sent, Arrives, reg, history
<1>2. group # None /\ Moves(h) /\ m \in Members /\ pc'[h] = "fan" /\ pc'[h] # "post" /\ pc'[h] # "idle"
  BY <1>1 DEF IInv, Placed, TypeOK, FanType, Moves
<1>3. view'[m] = Seen(h) /\ \A n \in Members \ {m} : view'[n] = view[n]
  BY <1>1, <1>2 DEF IInv, TypeOK, WorldType
<1>4. CASE ~Doing(h, Announce \cup {"remove"})
  <2>1. Seen(h) = view[m]
    BY <1>1, <1>4 DEF Seen, Doing
  <2>2. view' = view
    BY <1>1, <1>2, <2>1 DEF IInv, TypeOK, WorldType
  <2>3. InTune => InHand(h)'
    BY <1>1, <1>2, <1>4 DEF InTune, InHand, Doing
  <2>4. \A n, y : ~Owes(h, n, y)
    BY <1>4 DEF Owes, Doing
  <2> QED
    BY <1>1, <1>2, <2>2, <2>3, <2>4, GoesOnAgreed
<1>5. CASE Doing(h, Announce \cup {"remove"})
  <2> SUFFICES ASSUME InTune, ~torn, ~broadcast PROVE InTune'
    BY <1>1, <1>2, AgreedFrom
  <2> HIDE DEF m, x
  <2>0. group.members \subseteq Members
    BY <1>2 DEF IInv, TypeOK, RegType, GroupInfos
  <2>1. \A g \in Handlers : \A K : Doing(g, K)' <=> Doing(g, K)
    BY <1>1, <1>2, Elsewhere DEF Doing
  <2>2. ExpelsAlone'
    BY <2>1 DEF ExpelsAlone, InTune
  <2>3. m \in mail[h].lists /\ mail[h].lists \subseteq group.members /\ todo[h] \subseteq group.members
    BY <1>1, <1>5 DEF InTune, InHand, m
  <2>4. Doing(h, Announce) => x \in group.members
    <3>1. Doing(h, Announce) => x \in Members /\ x \in group.members \cup {None}
      BY <1>1 DEF InTune, InHand, IInv, Placed, x, Doing, Announce
    <3> QED
      BY <3>1
  <2>5. \A g \in Handlers \ {h} : ~Doing(g, {"remove"})
    BY <1>5 DEF InTune, ExpelsAlone, Doing, Announce, Expel
  <2>6. m \notin missed => (IF m \in view[m] THEN view[m] ELSE {}) \subseteq group.members
    BY <1>2 DEF InTune, Views
  <2>7. view'[m] = IF Doing(h, Announce) THEN (IF m \in view[m] THEN view[m] ELSE {}) \cup mail[h].lists \cup {x}
                   ELSE ((IF m \in view[m] THEN view[m] ELSE {}) \cup mail[h].lists) \ {x}
    BY <1>1, <1>3, <1>5 DEF Seen, m, x, Doing, Announce
  <2>8. InHand(h)'
    <3>1. /\ Doing(h, {"create"}) => rest'[h] \subseteq group'.members
          /\ ~Doing(h, {"channel"})
          /\ todo'[h] \subseteq group'.members
          /\ Doing(h, Announce) => job'[h].arg \in group'.members \cup {None}
      BY <1>1, <1>5, <2>3, <2>4 DEF InTune, InHand, x, Doing, Announce
    <3>2. ASSUME Doing(h, {"remove"}), NEW n \in group.members \ missed, x \in view'[n]
          PROVE  n \in todo[h]
      <4>1. x \notin view'[m]
        BY <2>7, <3>2 DEF Doing, Announce
      <4>2. n # m /\ n \in Members
        BY <2>0, <3>2, <4>1
      <4>3. x \in view[n] /\ ~OnItsWay(h, n)
        BY <1>3, <3>2, <4>2 DEF OnItsWay, m
      <4> QED
        BY <3>2, <4>3 DEF InTune, InHand, x
    <3> QED
      BY <1>1, <1>2, <2>1, <3>1, <3>2 DEF InHand, x
  <2>9. \A g \in Handlers : InHand(g)'
    BY <1>1, <1>2, <2>5, <2>8, OthersInHand DEF InTune
  <2>10. ASSUME NEW n \in Members \ missed, n \in view'[n]
         PROVE  n \in group.members /\ view'[n] \subseteq group.members
    <3>1. CASE n = m
      BY <2>3, <2>4, <2>6, <2>7, <2>10, <3>1
    <3>2. CASE n # m
      BY <1>3, <2>10, <3>2 DEF InTune, Views
    <3> QED
      BY <3>1, <3>2
  <2>11. ASSUME NEW n \in Members \ missed, n \in group.members, NEW y \in group.members
         PROVE  Told(n, y)'
    <3>1. Told(n, y) /\ y \in Members
      BY <2>0, <2>11 DEF InTune, Views
    <3>2. CASE Doing(h, {"remove"}) /\ x \in {n, y}
      BY <1>1, <2>1, <3>2 DEF Told, x
    <3>3. CASE ~(Doing(h, {"remove"}) /\ x \in {n, y})
      <4>1. n \in view[n] /\ y \in view[n] => Told(n, y)'
        <5>1. n \in view[n] /\ y \in view[n] => n \in view'[n] /\ y \in view'[n]
          <6>1. CASE n # m
            BY <1>3, <6>1
          <6>2. CASE n = m
            BY <1>5, <2>7, <3>3, <6>2 DEF Doing
          <6> QED
            BY <6>1, <6>2
        <5> QED
          BY <5>1 DEF Told
      <4>2. Owes(h, n, y) => Told(n, y)'
        <5>1. CASE n \in todo[h]
          BY <1>1, <2>1, <5>1 DEF Owes, Told
        <5>2. CASE n = m /\ y \in mail[h].lists
          <6>1. Owes(h, n, y) => n \in view'[n] /\ y \in view'[n]
            BY <2>3, <2>7, <5>2 DEF Owes
          <6> QED
            BY <6>1 DEF Told
        <5> QED
          BY <5>1, <5>2 DEF Owes, OnItsWay, m
      <4> QED
        BY <1>2, <3>1, <3>3, <4>1, <4>2, ToldOn DEF x
    <3> QED
      BY <3>2, <3>3
  <2>12. Views'
    BY <1>1, <2>10, <2>11, ViewsFrom
  <2> QED
    BY <2>2, <2>9, <2>12 DEF InTune
<1> QED
  BY <1>4, <1>5

\* h tells every member there is that somebody is new: each will know of all.
LEMMA AnnouncesAgreed ==
  ASSUME Agreed, IInv, NEW h \in Handlers, Moves(h), pc'[h] = "fan", job'[h].op \in Announce,
         group' # None, todo'[h] = group'.members, rest'[h] \subseteq group'.members,
         job'[h].arg \in group'.members \cup {None},
         group # None => group.members \subseteq group'.members,
         UNCHANGED <<broadcast, view, missed>>, torn => torn',
         ~torn' => \A g \in Handlers \ {h} : ~Doing(g, Expel)
  PROVE  Agreed'
<1> SUFFICES ASSUME ~torn, ~torn', ~broadcast, group # None => InTune PROVE InTune'
  BY AgreedFrom
<1>1. \A K : Doing(h, K)' <=> job'[h].op \in K
  BY DEF Doing
<1>2. "remove" \notin Announce /\ "channel" \notin Announce /\ "leave" \notin Announce
  BY DEF Announce
<1>3. ExpelsAlone'
  <2>1. \A g \in Handlers : ~Doing(g, Expel)'
    BY <1>1, <1>2, Elsewhere DEF Expel
  <2> QED
    BY <2>1 DEF ExpelsAlone
<1>4. InHand(h)'
  BY <1>1, <1>2 DEF InHand
<1>5. ASSUME NEW g \in Handlers \ {h} PROVE InHand(g)'
  <2>1. CASE group # None
    <3>1. ~Doing(g, {"remove"})
      BY DEF Doing, Expel
    <3> QED
      BY <2>1, <3>1, OthersInHand DEF InTune
  <2>2. CASE group = None
    <3>1. ~Doing(g, Ops \ {"mail"})
      BY <2>2 DEF Doing, IInv, Placed, TypeOK, FanType
    <3>2. ~Doing(g, {"create"}) /\ ~Doing(g, {"channel"}) /\ ~Doing(g, {"remove"})
          /\ ~Doing(g, Announce) /\ ~Doing(g, Announce \cup {"remove"})
      BY <3>1 DEF Doing, Ops, Announce, Expel
    <3> QED
      BY <3>2, Elsewhere DEF InHand
  <2> QED
    BY <2>1, <2>2
<1>6. \A m, y \in group'.members : Told(m, y)'
  BY <1>1 DEF Told, Owes
<1>7. \A m \in Members \ missed : m \in view[m] => m \in group'.members /\ view[m] \subseteq group'.members
  BY DEF InTune, Views, Agreed
<1>8. Views'
  BY <1>6, <1>7, ViewsFrom
<1> QED
  BY <1>3, <1>4, <1>5, <1>8 DEF InTune

\* Somebody is told to go, or goes, and no other announcement is under way.
LEMMA ExpelsAgreed ==
  ASSUME Agreed, IInv, NEW h \in Handlers, Moves(h), pc[h] = "idle", pc'[h] = "fan", job'[h].op \in Expel,
         group # None, group' = group, todo'[h] = group.members,
         UNCHANGED <<broadcast, view, missed>>, torn => torn',
         ~torn' => \A g \in Handlers \ {h} : ~Doing(g, Affairs)
  PROVE  Agreed'
<1> SUFFICES ASSUME ~torn', ~broadcast, InTune PROVE InTune'
  BY AgreedFrom
<1>1. \A K : (Doing(h, K)' <=> job'[h].op \in K) /\ ~Doing(h, K)
  BY DEF Doing
<1>2. ExpelsAlone'
  <2>1. \A g \in Handlers \ {h} : ~Doing(g, Affairs)' /\ ~Doing(g, Expel)'
    BY Elsewhere DEF Doing, Affairs
  <2> QED
    BY <2>1 DEF ExpelsAlone, Affairs
<1>3. InHand(h)'
  BY <1>1 DEF InHand, Announce, Expel
<1>4. \A g \in Handlers : InHand(g)'
  BY <1>3, OthersInHand DEF InTune
<1>5. group.members \subseteq Members
  BY DEF IInv, TypeOK, RegType, GroupInfos
<1>6. ASSUME NEW m \in Members \ missed, m \in group.members, NEW y \in group.members PROVE Told(m, y)'
  <2>1. Told(m, y) /\ y \in Members /\ (m \in view[m] /\ y \in view[m] => Told(m, y)')
    BY <1>5, <1>6 DEF InTune, Views, Told
  <2>2. ~Owes(h, m, y)
    BY <1>1 DEF Owes
  <2> QED
    BY <1>1, <2>1, <2>2, ToldOn
<1>7. Views'
  BY <1>6 DEF Views, InTune
<1> QED
  BY <1>2, <1>4, <1>7 DEF InTune

\* An operation that took nobody out of the group has told everybody.
LEMMA StopsAgreed ==
  ASSUME Agreed, IInv, NEW h \in Handlers, pc[h] = "fan", todo[h] = {}, Stop(h),
         ~Doing(h, {"remove"}), group' # None, InTune => group'.members = group.members,
         UNCHANGED <<broadcast, view, missed, torn>>
  PROVE  Agreed'
<1>1. group # None /\ Moves(h) /\ pc'[h] = "idle"
  BY DEF Stop, Moves, IInv, Placed, TypeOK, FanType
<1> SUFFICES ASSUME ~broadcast, ~torn, InTune PROVE InTune'
  BY <1>1, AgreedFrom
<1>2. \A K : ~Doing(h, K)'
  BY <1>1 DEF Doing
<1>3. ExpelsAlone'
  BY <1>1, <1>2, Elsewhere DEF ExpelsAlone, InTune
<1>4. InHand(h)'
  BY <1>2 DEF InHand
<1>5. \A g \in Handlers : InHand(g)'
  BY <1>1, <1>4, OthersInHand DEF InTune
<1>6. group.members \subseteq Members
  BY <1>1 DEF IInv, TypeOK, RegType, GroupInfos
<1>7. ASSUME NEW m \in Members \ missed, m \in group.members, NEW y \in group.members PROVE Told(m, y)'
  <2>1. Told(m, y) /\ y \in Members /\ (m \in view[m] /\ y \in view[m] => Told(m, y)')
    BY <1>6, <1>7 DEF InTune, Views, Told
  <2>2. ~Owes(h, m, y)
    BY DEF Owes, OnItsWay
  <2> QED
    BY <1>1, <2>1, <2>2, ToldOn
<1>8. Views'
  BY <1>7 DEF Views, InTune
<1> QED
  BY <1>3, <1>5, <1>8 DEF InTune

\* Whoever was removed is told, and so is everybody else.
LEMMA RemovedAgreed == ASSUME Agreed, IInv, NEW h \in Handlers, Removed(h) PROVE Agreed'
<1> DEFINE x == job[h].arg
<1>1. /\ pc[h] = "fan" /\ todo[h] = {} /\ job[h].op = "remove" /\ Stop(h)
      /\ group' = [group EXCEPT !.members = @ \ {x}]
      /\ UNCHANGED <<broadcast, view, missed, torn>>
  BY DEF Removed, Done
<1>2. group # None /\ Moves(h) /\ pc'[h] = "idle" /\ group \in GroupInfos
  BY <1>1 DEF Stop, Moves, IInv, Placed, TypeOK, FanType, RegType
<1>3. group' # None /\ group'.members = group.members \ {x} /\ group.members \subseteq Members
  <2>1. group' \in GroupInfos
    BY <1>1, <1>2 DEF GroupInfos
  <2> QED
    BY <1>1, <1>2, <2>1 DEF GroupInfos
<1> SUFFICES ASSUME ~broadcast, ~torn, InTune PROVE InTune'
  BY <1>1, <1>2, <1>3, AgreedFrom
<1> HIDE DEF x
<1>4. Doing(h, {"remove"}) /\ Doing(h, Expel) /\ ~Doing(h, Announce)
  BY <1>1 DEF Doing, Expel, Announce
<1>5. \A g \in Handlers \ {h} : ~Doing(g, Affairs)
  BY <1>4 DEF InTune, ExpelsAlone, Affairs
<1>6. \A g \in Handlers : ~Doing(g, Affairs) \/ g = h
  BY <1>5
<1>7. \A g \in Handlers : ~Doing(g, Announce)' /\ ~Doing(g, Expel)' /\ ~Doing(g, {"remove"})'
                       /\ ~Doing(g, {"create"})' /\ ~Doing(g, Announce \cup {"remove"})'
  BY <1>2, <1>5, Elsewhere DEF Doing, Affairs, Announce, Expel
<1>8. ExpelsAlone'
  BY <1>7 DEF ExpelsAlone
<1>9. \A g \in Handlers : InHand(g)'
  <2>1. \A g \in Handlers : Doing(g, {"channel"})' => broadcast'
    BY <1>1, <1>2, Elsewhere DEF InTune, InHand, Doing
  <2> QED
    BY <1>7, <2>1 DEF InHand
<1>10. \A m \in group.members \ missed : x \notin view[m]
  BY <1>1, <1>4 DEF InTune, InHand, OnItsWay, x
<1>11. ASSUME NEW m \in Members \ missed, m \in view[m] PROVE m # x /\ view[m] \subseteq group.members \ {x}
  BY <1>10, <1>11 DEF InTune, Views
<1>12. ASSUME NEW m \in Members \ missed, m \in group.members \ {x}, NEW y \in group.members \ {x}
       PROVE  m \in view[m] /\ y \in view[m]
  <2>1. Told(m, y)
    BY <1>12 DEF InTune, Views
  <2>2. \A g \in Handlers : ~Owes(g, m, y)
    BY <1>4, <1>5 DEF Owes, Doing, Affairs
  <2>3. \A g \in Handlers : Doing(g, {"remove"}) => job[g].arg \notin {m, y}
    BY <1>5, <1>12 DEF Doing, Affairs, Expel, x
  <2> QED
    BY <2>1, <2>2, <2>3 DEF Told
<1>13. Views'
  BY <1>1, <1>3, <1>11, <1>12, ViewsFrom DEF InTune, Views, Told
<1> QED
  BY <1>8, <1>9, <1>13 DEF InTune

-----------------------------------------------------------------------------
\* The steps, and what the members believe

LEMMA CreateAgreed == ASSUME Agreed, IInv, NEW h \in Handlers, Create(h) PROVE Agreed'
<1> SUFFICES ASSUME NEW ms \in SUBSET Members, NEW n \in Names,
                    group' = [members |-> ms, name |-> n, description |-> None],
                    NEW x \in ms \cup {None}, NEW r \in SUBSET ms,
                    Start(h, "create", x), rest' = [rest EXCEPT ![h] = r], FanOut(h, group')
             PROVE  Agreed'
  <2>1. PICK ms \in SUBSET Members, n \in Names :
          /\ group' = [members |-> ms, name |-> n, description |-> None]
          /\ IF ms = {}
             THEN Start(h, "create", None) /\ rest' = rest /\ FanOut(h, group')
             ELSE \E x \in ms :
                     Start(h, "create", x) /\ rest' = [rest EXCEPT ![h] = ms \ {x}]
                     /\ FanOut(h, group')
    BY DEF Create
  <2>2. CASE ms = {}
    <3>1. rest[h] = {} /\ rest \in [Handlers -> SUBSET Members]
      BY <2>1, <2>2 DEF Start, IInv, Placed, TypeOK, FanType
    <3>2. rest' = [rest EXCEPT ![h] = {}]
      BY <2>1, <2>2, <3>1
    <3> QED
      BY <2>1, <2>2, <3>2
  <2>3. CASE ms # {}
    BY <2>1, <2>3
  <2> QED
    BY <2>2, <2>3
<1>1. /\ group = None /\ pc[h] = "idle" /\ job' = [job EXCEPT ![h] = [op |-> "create", arg |-> x]]
      /\ pc' = [pc EXCEPT ![h] = "fan"] /\ todo' = [todo EXCEPT ![h] = ms]
      /\ UNCHANGED <<mail, broadcast, view, missed, torn>>
  BY DEF Create, Start, FanOut
<1>2. /\ group' # None /\ group'.members = ms
  <2>1. group' \in GroupInfos
    BY DEF GroupInfos
  <2> QED
    BY <2>1
<1>3. /\ Moves(h) /\ pc'[h] = "fan" /\ job'[h] = [op |-> "create", arg |-> x] /\ todo'[h] = ms /\ rest'[h] = r
  BY <1>1 DEF Moves, IInv, TypeOK, FanType
<1>4. job'[h].op \in Announce /\ job'[h].arg \in ms \cup {None}
  BY <1>3 DEF Announce
<1>5. \A g \in Handlers \ {h} : ~Doing(g, Expel)
  BY <1>1 DEF Doing, Expel, IInv, Placed, TypeOK, FanType
<1> QED
  BY <1>1, <1>2, <1>3, <1>4, <1>5, AnnouncesAgreed

LEMMA CallMoves ==
  ASSUME IInv, NEW h \in Handlers, NEW op, NEW x, NEW g, Call(h, op, x, g)
  PROVE  /\ group # None /\ pc[h] = "idle" /\ pc'[h] = "fan" /\ job'[h] = [op |-> op, arg |-> x]
         /\ todo'[h] = g.members /\ rest'[h] = {} /\ group' = g /\ Moves(h)
         /\ UNCHANGED <<broadcast, view, missed>>
         /\ \A i \in Handlers : ~Doing(i, {"create", "channel"})
<1>1. /\ group # None /\ pc[h] = "idle" /\ pc' = [pc EXCEPT ![h] = "fan"]
      /\ job' = [job EXCEPT ![h] = [op |-> op, arg |-> x]] /\ todo' = [todo EXCEPT ![h] = g.members]
      /\ group' = g /\ UNCHANGED <<rest, mail, broadcast, view, missed>>
      /\ \A i \in Busy : job[i].op \notin {"create", "channel"}
  BY DEF Call, Start, FanOut
<1> QED
  BY <1>1 DEF Moves, Doing, Busy, IInv, Placed, TypeOK, FanType

LEMMA AddAgreed ==
  ASSUME Agreed, IInv, NEW h \in Handlers, NEW x \in Members, Add(h, x) PROVE Agreed'
<1> DEFINE g == [group EXCEPT !.members = @ \cup {x}]
<1>1. Call(h, "add", x, g) /\ torn' = (torn \/ Overlaps("add"))
  BY DEF Add
<1>2. /\ group # None /\ pc[h] = "idle" /\ pc'[h] = "fan" /\ job'[h] = [op |-> "add", arg |-> x]
      /\ todo'[h] = g.members /\ rest'[h] = {} /\ group' = g /\ Moves(h)
      /\ UNCHANGED <<broadcast, view, missed>>
  <2> HIDE DEF g
  <2> QED
    BY <1>1, CallMoves
<1>3. g \in GroupInfos /\ g.members = group.members \cup {x}
  <2>1. group \in GroupInfos
    <3>1. group # None
      BY <1>2
    <3> QED
      BY <3>1 DEF IInv, TypeOK, RegType
  <2> QED
    BY <2>1 DEF GroupInfos
<1>4. g # None /\ job'[h].op \in Announce /\ job'[h].arg \in g.members \cup {None}
  <2>1. job'[h].op = "add" /\ job'[h].arg = x
    BY <1>2
  <2> HIDE DEF g
  <2> QED
    BY <1>3, <2>1 DEF Announce
<1>5. torn \in BOOLEAN
  BY DEF IInv, TypeOK, WorldType
<1>6. ~torn' => \A i \in Handlers \ {h} : ~Doing(i, Expel)
  BY <1>1, <1>5 DEF Overlaps, Busy, Doing
<1> HIDE DEF g
<1> QED
  BY <1>1, <1>2, <1>3, <1>4, <1>6, AnnouncesAgreed

LEMMA ExpelAgreed ==
  ASSUME Agreed, IInv, NEW h \in Handlers, Leave(h) \/ \E x \in Members : Remove(h, x)
  PROVE  Agreed'
<1> SUFFICES ASSUME NEW op \in Expel, NEW x, Call(h, op, x, group), torn' = (torn \/ Overlaps(op))
             PROVE  Agreed'
  BY DEF Leave, Remove, Expel
<1>1. /\ group # None /\ pc[h] = "idle" /\ pc'[h] = "fan" /\ job'[h] = [op |-> op, arg |-> x]
      /\ todo'[h] = group.members /\ group' = group /\ Moves(h)
      /\ UNCHANGED <<broadcast, view, missed>>
  BY CallMoves
<1>2. torn \in BOOLEAN
  BY DEF IInv, TypeOK, WorldType
<1>3. ~torn' => \A i \in Handlers \ {h} : ~Doing(i, Affairs)
  BY <1>2 DEF Overlaps, Busy, Doing, Affairs
<1>4. job'[h].op \in Expel /\ (torn => torn')
  BY <1>1, <1>2
<1> QED
  BY <1>1, <1>3, <1>4, ExpelsAgreed

\* Operations that do not change who belongs to the group
LEMMA OtherCallAgreed ==
  ASSUME Agreed, IInv, NEW h \in Handlers,
         SendAll(h) \/ \E n \in Names : Rename(h, n) \/ Describe(h, n)
  PROVE  Agreed'
<1> SUFFICES ASSUME NEW op \in {"send", "rename", "describe"}, NEW x, NEW g, Call(h, op, x, g),
                    g # None, g.members = group.members, UNCHANGED torn
             PROVE  Agreed'
  <2>1. group # None => group \in GroupInfos
    BY DEF IInv, TypeOK, RegType
  <2>2. CASE SendAll(h)
    BY <2>2 DEF SendAll
  <2>3. ASSUME NEW n \in Names, Rename(h, n) PROVE Agreed'
    <3>1. group # None
      BY <2>3 DEF Rename, Call
    <3>2. [group EXCEPT !.name = n] \in GroupInfos /\ [group EXCEPT !.name = n].members = group.members
      BY <2>1, <3>1 DEF GroupInfos
    <3> QED
      BY <2>3, <3>2 DEF Rename
  <2>4. ASSUME NEW n \in Names, Describe(h, n) PROVE Agreed'
    <3>1. group # None
      BY <2>4 DEF Describe, Call
    <3>2. [group EXCEPT !.description = n] \in GroupInfos
          /\ [group EXCEPT !.description = n].members = group.members
      BY <2>1, <3>1 DEF GroupInfos
    <3> QED
      BY <2>4, <3>2 DEF Describe
  <2> QED
    BY <2>2, <2>3, <2>4
<1>1. /\ group # None /\ pc[h] = "idle" /\ job'[h] = [op |-> op, arg |-> x] /\ group' = g /\ Moves(h)
      /\ UNCHANGED <<broadcast, view, missed>>
  BY CallMoves
<1>2. ~Doing(h, Affairs) /\ ~Doing(h, Affairs)' /\ ~Doing(h, {"channel"})'
  BY <1>1 DEF Doing, Affairs, Announce, Expel
<1> QED
  BY <1>1, <1>2, AsideAgreed

LEMMA GroupMailAgreed == ASSUME Agreed, IInv, NEW h \in Handlers, GroupMail(h) PROVE Agreed'
<1>1. /\ pc[h] = "idle" /\ job' = [job EXCEPT ![h] = [op |-> "mail", arg |-> None]]
      /\ pc' = [pc EXCEPT ![h] = "row"]
      /\ UNCHANGED <<group, rest, todo, mail, broadcast, view, missed, torn>>
  BY DEF GroupMail, Start, reg
<1>2. Moves(h) /\ job'[h].op = "mail"
  BY <1>1 DEF Moves, IInv, TypeOK, FanType
<1>3. ~Doing(h, Affairs) /\ ~Doing(h, Affairs)' /\ ~Doing(h, {"channel"})'
  BY <1>1, <1>2 DEF Doing, Affairs, Announce, Expel
<1> QED
  BY <1>1, <1>2, <1>3, AsideAgreed

LEMMA WriteRowAgreed == ASSUME Agreed, IInv, NEW h \in Handlers, WriteRow(h) PROVE Agreed'
<1>1. pc[h] = "row" /\ Stop(h) /\ UNCHANGED <<group, broadcast, view, missed, torn>>
  BY DEF WriteRow, reg, history
<1>2. job[h].op = "mail"
  BY <1>1 DEF IInv, Placed
<1>3. Moves(h) /\ pc'[h] = "idle"
  BY <1>1 DEF Stop, Moves, IInv, TypeOK, FanType
<1>4. ~Doing(h, Affairs) /\ ~Doing(h, Affairs)' /\ ~Doing(h, {"channel"})'
  BY <1>2, <1>3 DEF Doing, Affairs, Announce, Expel
<1> QED
  BY <1>1, <1>3, <1>4, AsideAgreed

LEMMA SendFailsAgreed == ASSUME Agreed, IInv, NEW h \in Handlers, SendFails(h) PROVE Agreed'
<1>1. /\ pc[h] = "post" /\ (Arrives(h) \/ UNCHANGED view) /\ Stop(h)
      /\ group' = IF job[h].op \in {"create", "channel"} THEN None ELSE group
      /\ torn' = (torn \/ job[h].op \in Announce \cup Expel)
      /\ UNCHANGED <<broadcast, missed>>
  BY DEF SendFails
<1>2. group # None /\ Moves(h) /\ pc'[h] = "idle" /\ torn \in BOOLEAN /\ mail[h].to \in Members
  BY <1>1 DEF Stop, Moves, IInv, Placed, TypeOK, FanType, WorldType
<1> SUFFICES ASSUME ~torn', ~broadcast PROVE Agreed'
  BY <1>1 DEF Agreed
<1>3. ~torn /\ job[h].op \notin Affairs
  BY <1>1, <1>2 DEF Affairs
<1>4. job[h].op # "channel" /\ job[h].op \notin {"create", "channel"}
  BY <1>1, <1>2, <1>3 DEF Agreed, InHand, Doing, Affairs, Announce
<1>5. view' = view
  <2>1. Seen(h) = view[mail[h].to]
    BY <1>3 DEF Seen, Affairs, Announce, Expel
  <2> QED
    BY <1>1, <1>2, <2>1 DEF Arrives, IInv, TypeOK, WorldType
<1>6. ~Doing(h, Affairs) /\ ~Doing(h, Affairs)' /\ ~Doing(h, {"channel"})' /\ torn' = torn
  BY <1>1, <1>2, <1>3 DEF Doing, Affairs
<1> QED
  BY <1>1, <1>2, <1>4, <1>5, <1>6, AsideAgreed

LEMMA AnnounceNextAgreed == ASSUME Agreed, IInv, NEW h \in Handlers, AnnounceNext(h) PROVE Agreed'
<1>1. /\ pc[h] = "fan" /\ job[h].op = "create"
      /\ pc' = [pc EXCEPT ![h] = "fan"] /\ todo' = [todo EXCEPT ![h] = group.members] /\ mail' = mail
      /\ UNCHANGED <<broadcast, group, view, missed, torn>>
  BY DEF AnnounceNext, Done, FanOut, reg, history
<1>2. PICK x \in rest[h] : job' = [job EXCEPT ![h].arg = x] /\ rest' = [rest EXCEPT ![h] = @ \ {x}]
  BY DEF AnnounceNext
<1>3. group # None /\ job[h] \in JobType
  BY <1>1 DEF IInv, Placed, TypeOK, FanType, JobType, Args
<1>4. /\ Moves(h) /\ pc'[h] = "fan" /\ job'[h].op = "create" /\ job'[h].arg = x
      /\ todo'[h] = group.members /\ rest'[h] = rest[h] \ {x}
  BY <1>1, <1>2, <1>3 DEF Moves, IInv, TypeOK, FanType, JobType
<1> SUFFICES ASSUME ~torn, ~broadcast PROVE Agreed'
  BY <1>1 DEF Agreed
<1>5. rest[h] \subseteq group.members
  BY <1>1, <1>3 DEF Agreed, InHand, Doing
<1>6. \A g \in Handlers \ {h} : ~Doing(g, Expel)
  <2>1. \A i \in Busy \ {h} : job[i].op = "mail"
    BY <1>1 DEF IInv, Alone, Making
  <2> QED
    BY <2>1 DEF Doing, Busy, Expel
<1>7. job'[h].op \in Announce /\ job'[h].arg \in group'.members \cup {None} /\ rest'[h] \subseteq group'.members
  BY <1>1, <1>4, <1>5 DEF Announce
<1> QED
  BY <1>1, <1>3, <1>4, <1>6, <1>7, AnnouncesAgreed

LEMMA EndsAgreed ==
  ASSUME Agreed, IInv, NEW h \in Handlers,
         Register(h) \/ Added(h) \/ Left(h) \/ Renamed(h) \/ Described(h) \/ SentAll(h)
  PROVE  Agreed'
<1>1. /\ pc[h] = "fan" /\ todo[h] = {} /\ Stop(h) /\ UNCHANGED <<broadcast, view, missed, torn>>
      /\ job[h].op # "remove"
  BY DEF Register, Added, Left, Renamed, Described, SentAll, Done, history
<1>2. group # None /\ group \in GroupInfos
  BY <1>1 DEF IInv, Placed, TypeOK, RegType
<1>3. CASE Added(h)
  <2>1. group' = [group EXCEPT !.members = @ \cup {job[h].arg}] /\ job[h].op = "add"
    BY <1>3 DEF Added, Done
  <2>2. job[h].arg \in Members
    BY <1>1, <2>1 DEF IInv, Placed
  <2>3. group' \in GroupInfos /\ group'.members = group.members \cup {job[h].arg}
    BY <1>2, <2>1, <2>2 DEF GroupInfos
  <2>4. InTune => job[h].arg \in group.members \cup {None}
    BY <1>1, <2>1 DEF InTune, InHand, Doing, Announce
  <2>5. InTune => group'.members = group.members
    BY <2>2, <2>3, <2>4
  <2> QED
    BY <1>1, <2>3, <2>5, StopsAgreed DEF Doing
<1>4. CASE Register(h) \/ Left(h) \/ Renamed(h) \/ Described(h) \/ SentAll(h)
  <2>1. group' \in GroupInfos /\ group'.members = group.members
    <3>1. CASE Renamed(h)
      <4>1. job[h].arg \in Names
        BY <1>1, <3>1 DEF Renamed, Done, IInv, Placed
      <4> QED
        BY <1>2, <3>1, <4>1 DEF Renamed, GroupInfos
    <3>2. CASE Described(h)
      <4>1. job[h].arg \in Names
        BY <1>1, <3>2 DEF Described, Done, IInv, Placed
      <4> QED
        BY <1>2, <3>2, <4>1 DEF Described, GroupInfos
    <3> QED
      BY <1>2, <1>4, <3>1, <3>2 DEF Register, Left, SentAll, reg
  <2> QED
    BY <1>1, <2>1, StopsAgreed DEF Doing
<1> QED
  BY <1>3, <1>4

LEMMA AgreedAside ==
  ASSUME Agreed, UNCHANGED <<broadcast, group, fan, pc, job, rest, todo, mail, view, missed, torn>>
  PROVE  Agreed'
<1>1. \A h \in Handlers : /\ \A K : Doing(h, K)' <=> Doing(h, K)
                          /\ \A m : OnItsWay(h, m)' <=> OnItsWay(h, m)
                          /\ \A m, y : Owes(h, m, y)' <=> Owes(h, m, y)
  BY DEF Doing, OnItsWay, Owes
<1>2. \A m, y : Told(m, y)' <=> Told(m, y)
  BY <1>1 DEF Told
<1>3. ExpelsAlone' <=> ExpelsAlone
  BY <1>1 DEF ExpelsAlone
<1>4. \A h \in Handlers : InHand(h)' <=> InHand(h)
  BY <1>1 DEF InHand
<1>5. Views' <=> Views
  BY <1>2 DEF Views
<1> QED
  BY <1>3, <1>4, <1>5 DEF Agreed

LEMMA AgreedInductive == ASSUME IInv, Agreed, Next \/ UNCHANGED vars PROVE Agreed'
<1>1. CASE Persist \/ (\E m \in Members : LearnKey(m)) \/ (\E h \in Handlers : MirrorGet(h) \/ MirrorPut(h))
           \/ UNCHANGED vars
  <2>1. UNCHANGED <<broadcast, group, fan, view, missed, torn>>
    BY <1>1 DEF Persist, LearnKey, MirrorGet, MirrorPut, vars, reg, history
  <2>2. UNCHANGED <<pc, job, rest, todo, mail>>
    BY <2>1 DEF fan
  <2> QED
    BY <2>1, <2>2, AgreedAside
<1>2. CASE Reload
  BY <1>2 DEF Reload, Agreed
<1>3. CASE \E h \in Handlers : DescribeChannel(h)
  BY <1>3 DEF DescribeChannel, Agreed
<1>4. ASSUME NEW h \in Handlers, Begin(h) PROVE Agreed'
  BY <1>4, CreateAgreed, AddAgreed, ExpelAgreed, OtherCallAgreed, GroupMailAgreed DEF Begin
<1>5. ASSUME NEW h \in Handlers, Resume(h) PROVE Agreed'
  BY <1>1, <1>3, <1>5, PassOverAgreed, PostAgreed, SentAgreed, SendFailsAgreed, AnnounceNextAgreed,
     RemovedAgreed, EndsAgreed, WriteRowAgreed DEF Resume
<1> QED
  BY <1>1, <1>2, <1>4, <1>5 DEF Next

LEMMA AgreedInit == Init => Agreed
BY DEF Init, Agreed

LEMMA GInvInductive == Spec => []GInv
<1>1. Init => GInv
  BY InitIInv, RowsInit, AgreedInit DEF GInv
<1>2. GInv /\ [Next]_vars => GInv'
  BY NextIInv, StutterIInv, RowsInductive, AgreedInductive DEF GInv
<1> QED
  BY <1>1, <1>2, PTL DEF Spec

\* The name of the chat is the name of the group once nobody is at work on either,
\* although mails write the row too, from the object they share with the mirror.
THEOREM RowsFollow == Spec => []RowMirrorsGroup
<1>1. GInv => RowMirrorsGroup
  BY DEF GInv, Mirrored, Mirroring, RowMirrorsGroup, Resting, Busy
<1> QED
  BY <1>1, GInvInductive, PTL

\* With every announcement delivered the members agree on who belongs to the
\* group, in whichever order the mails of overlapping additions arrived.
THEOREM MembersAgree == Spec => []ViewsAgree
<1>1. GInv => ViewsAgree
  <2> SUFFICES ASSUME GInv, Resting, listed, ~torn, ~broadcast, NEW m \in Members \ missed
               PROVE  IF m \in group.members THEN view[m] = group.members ELSE m \notin view[m]
    BY DEF ViewsAgree
  <2>1. group # None
    BY DEF GInv, IInv, Alone, Untold
  <2>2. Views
    BY <2>1 DEF GInv, Agreed
  <2>3. \A h \in Handlers : pc[h] = "idle"
    BY DEF Resting, Busy
  <2>4. \A y : Told(m, y) => m \in view[m] /\ y \in view[m]
    BY <2>3 DEF Told, Owes, Doing
  <2> QED
    BY <2>2, <2>4 DEF Views
<1> QED
  BY <1>1, GInvInductive, PTL

=============================================================================
