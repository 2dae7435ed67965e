--------------------------- MODULE DatabaseProofs ---------------------------
(***************************************************************************)
(* Theorems about Database, for any number of handlers, connections and    *)
(* objects of the email.  IInv is inductive: what a live profile has, and  *)
(* what a destroyed one may still write, stands on the right side of every *)
(* deletion in the queue.                                                  *)
(***************************************************************************)
EXTENDS Database, TLAPS

\* A step of t leaves the other handlers where they are.
Moves(t) == \A u \in Tasks \ {t} : pc'[u] = pc[u] /\ job'[u] = job[u]

TaskType == pc \in [Tasks -> {"idle", "busy", "open", "answer"}] /\ job \in [Tasks -> Jobs]

AllStand == \A o \in Objects : Unmade(o) /\ Kept(o) /\ Shed(o)

Rests == {"forget", "rewiping", "gone", "wiping"}

-----------------------------------------------------------------------------
(* The queue *)

LEMMA QueueGrows ==
  ASSUME queue \in Seq(Requests), NEW e \in Requests, queue' = Append(queue, e)
  PROVE  /\ queue' \in Seq(Requests) /\ Len(queue) \in Nat /\ Len(queue') = Len(queue) + 1
         /\ queue'[Len(queue) + 1] = e
         /\ \A i \in 1..Len(queue) : queue'[i] = queue[i] /\ queue[i] \in Requests
OBVIOUS

LEMMA QueueShrinks ==
  ASSUME queue \in Seq(Requests), queue # <<>>, queue' = Tail(queue)
  PROVE  /\ queue' \in Seq(Requests) /\ Len(queue) \in Nat \ {0} /\ Len(queue') = Len(queue) - 1
         /\ Head(queue) = queue[1]
         /\ \A i \in 1..Len(queue') : queue'[i] = queue[i + 1] /\ queue[i + 1] \in Requests
         /\ \A i \in 1..Len(queue) : queue[i] \in Requests
OBVIOUS

LEMMA Waits ==
  ASSUME IInv, NEW t \in Tasks, pc[t] # "open", NEW i \in 1..Len(queue), ~Deletion(i)
  PROVE  queue[i].by \in Tasks \ {t}
<1>1. pc[queue[i].by] = "open"
  BY DEF IInv, Queued
<1>2. queue[i] \in Requests
  BY DEF IInv, TypeOK
<1>3. queue[i].by \in Tasks
  BY <1>2 DEF Requests, Deletion
<1> QED
  BY <1>1, <1>3

LEMMA JobFields ==
  ASSUME NEW j \in Jobs
  PROVE  /\ j.obj \in Objects /\ j.kind \in Kinds /\ j.at \in Places
         /\ Answered(j) \in Jobs /\ Answered(j).obj = j.obj /\ Answered(j).at = j.at
         /\ Answered(j).kind = j.kind
         /\ Puts(j) \subseteq Rows
         /\ \A r \in Puts(j) : r.by = j.obj
         /\ [kind |-> "account", by |-> j.obj] \in Puts(j) => j.at = "account"
<1>1. j.obj \in Objects /\ j.kind \in Kinds /\ j.at \in Places
  BY DEF Jobs
<1>2. /\ Answered(j) \in Jobs /\ Answered(j).obj = j.obj /\ Answered(j).at = j.at
      /\ Answered(j).kind = j.kind
  BY DEF Jobs, Answered
<1>3. \/ j.at = "account" /\ Puts(j) = {[kind |-> "account", by |-> j.obj]}
      \/ j.at # "account" /\ Puts(j) = {[kind |-> "other", by |-> j.obj]}
      \/ j.at # "account" /\ Puts(j) = {}
  BY DEF Puts, Writes
<1> QED
  BY <1>1, <1>2, <1>3 DEF Rows

-----------------------------------------------------------------------------
(* The three things a handler can do to the database *)

\* It asks for a connection.
LEMMA AskKeeps ==
  ASSUME IInv, NEW t \in Tasks, NEW j \in Jobs, pc[t] # "open",
         queue' = Append(queue, [kind |-> "open", by |-> t]),
         job' = [job EXCEPT ![t] = j], pc' = [pc EXCEPT ![t] = "open"]
  PROVE  /\ queue' \in Seq(Requests) /\ TaskType' /\ Queued' /\ BusyAt'
         /\ Moves(t) /\ pc'[t] = "open" /\ job'[t] = j
         /\ Len(queue) \in Nat /\ Len(queue') = Len(queue) + 1
         /\ queue'[Len(queue) + 1] = [kind |-> "open", by |-> t]
         /\ \A i \in 1..Len(queue) : queue'[i] = queue[i]
         /\ \A i \in 1..Len(queue) : ~Deletion(i) =>
               queue[i].by \in Tasks \ {t} /\ job'[queue[i].by] = job[queue[i].by]
<1>1. queue \in Seq(Requests) /\ [kind |-> "open", by |-> t] \in Requests
  BY DEF IInv, TypeOK, Requests
<1>2. /\ queue' \in Seq(Requests) /\ Len(queue) \in Nat /\ Len(queue') = Len(queue) + 1
      /\ queue'[Len(queue) + 1] = [kind |-> "open", by |-> t]
      /\ \A i \in 1..Len(queue) : queue'[i] = queue[i] /\ queue[i] \in Requests
  BY <1>1, QueueGrows
<1>3. TaskType' /\ Moves(t) /\ pc'[t] = "open" /\ job'[t] = j
  BY DEF IInv, TypeOK, TaskType, Moves
<1>4. BusyAt'
  BY <1>3 DEF IInv, BusyAt, Moves
<1>5. \A i \in 1..Len(queue) : ~Deletion(i) =>
         queue[i].by \in Tasks \ {t} /\ job'[queue[i].by] = job[queue[i].by]
               /\ pc'[queue[i].by] = pc[queue[i].by]
  BY <1>3, Waits DEF Moves
<1>6. Queued'
  <2> SUFFICES ASSUME NEW i \in 1..Len(queue'), queue'[i].kind = "open"
               PROVE  /\ pc'[queue'[i].by] = "open"
                      /\ \A k \in 1..Len(queue') : queue'[k] = queue'[i] => k = i
    BY DEF Queued, Deletion
  <2>1. CASE i = Len(queue) + 1
    <3>1. \A k \in 1..Len(queue) : queue'[k] # queue'[i]
      BY <1>2, <1>5, <2>1 DEF Deletion
    <3> QED
      BY <1>2, <1>3, <2>1, <3>1
  <2>2. CASE i \in 1..Len(queue)
    <3>1. ~Deletion(i) /\ queue'[i] = queue[i]
      BY <1>2, <2>2 DEF Deletion
    <3>2. pc'[queue'[i].by] = "open" /\ queue[i].by # t
      BY <1>5, <2>2, <3>1 DEF IInv, Queued
    <3>3. \A k \in 1..Len(queue) : queue'[k] = queue'[i] => k = i
      BY <1>2, <2>2, <3>1 DEF IInv, Queued
    <3> QED
      BY <1>2, <3>1, <3>2, <3>3
  <2> QED
    BY <1>2, <2>1, <2>2
<1> QED
  BY <1>2, <1>3, <1>4, <1>5, <1>6

LEMMA AskSheds ==
  ASSUME IInv, NEW t \in Tasks, NEW j \in Jobs, pc[t] # "open",
         queue' = Append(queue, [kind |-> "open", by |-> t]),
         job' = [job EXCEPT ![t] = j], pc' = [pc EXCEPT ![t] = "open"],
         UNCHANGED <<rows, revived>>, j.at = "account" => creds[j.obj],
         NEW o \in Objects, stage'[o] = stage[o], creds'[o] = creds[o]
  PROVE  Shed(o)'
<1> DEFINE n == Len(queue)
<1>1. /\ job'[t] = j /\ n \in Nat /\ Len(queue') = n + 1
      /\ queue'[n + 1] = [kind |-> "open", by |-> t]
      /\ \A i \in 1..n : queue'[i] = queue[i]
      /\ \A i \in 1..n : ~Deletion(i) =>
            queue[i].by \in Tasks \ {t} /\ job'[queue[i].by] = job[queue[i].by]
  BY AskKeeps
<1> HIDE DEF n
<1>2. Shed(o)
  BY DEF IInv
<1>0. Len(queue') = n + 1 /\ rows' = rows /\ revived' = revived
  BY <1>1
<1> SUFFICES ASSUME stage[o] \in Rests, o \notin revived
             PROVE  /\ ~creds[o]
                    /\ [kind |-> "account", by |-> o] \in rows =>
                          \E k \in 1..(n + 1) : queue'[k].kind # "open"
                    /\ \A i \in 1..(n + 1) :
                          queue'[i].kind = "open" /\ job'[queue'[i].by].obj = o
                             /\ job'[queue'[i].by].at = "account" =>
                          \E k \in i..(n + 1) : queue'[k].kind # "open"
  BY <1>0 DEF Shed, Deletion, Rests
<1>3. ~creds[o]
  BY <1>2 DEF Shed, Rests
<1>4. [kind |-> "account", by |-> o] \in rows => \E k \in 1..(n + 1) : queue'[k].kind # "open"
  BY <1>1, <1>2 DEF Shed, Rests, Deletion, n
<1>5. ASSUME NEW i \in 1..(n + 1), queue'[i].kind = "open", job'[queue'[i].by].obj = o,
             job'[queue'[i].by].at = "account"
      PROVE  \E k \in i..(n + 1) : queue'[k].kind # "open"
  <2>1. i \in 1..n
    BY <1>1, <1>3, <1>5
  <2>2. ~Deletion(i) /\ job[queue[i].by].obj = o /\ job[queue[i].by].at = "account"
    BY <1>1, <1>5, <2>1 DEF Deletion
  <2>3. PICK k \in i..n : Deletion(k)
    BY <1>2, <2>1, <2>2 DEF Shed, Rests, n
  <2>4. k \in i..(n + 1) /\ k \in 1..n
    BY <1>1, <2>1
  <2>5. queue'[k].kind # "open"
    BY <1>1, <2>3, <2>4 DEF Deletion
  <2> QED
    BY <2>4, <2>5
<1> QED
  BY <1>3, <1>4, <1>5

LEMMA AskStands ==
  ASSUME IInv, NEW t \in Tasks, NEW j \in Jobs, pc[t] # "open",
         queue' = Append(queue, [kind |-> "open", by |-> t]),
         job' = [job EXCEPT ![t] = j], pc' = [pc EXCEPT ![t] = "open"],
         UNCHANGED <<rows, stage, creds, revived, crossed>>,
         stage[j.obj] # "unmade", j.at = "account" => creds[j.obj],
         \A o \in Objects : handle'[o] \in {handle[o], None}
  PROVE  AllStand'
<1> DEFINE n == Len(queue)
<1>1. /\ Moves(t) /\ pc'[t] = "open" /\ job'[t] = j
      /\ n \in Nat /\ Len(queue') = n + 1
      /\ queue'[n + 1] = [kind |-> "open", by |-> t]
      /\ \A i \in 1..n : queue'[i] = queue[i]
      /\ \A i \in 1..n : ~Deletion(i) =>
            queue[i].by \in Tasks \ {t} /\ job'[queue[i].by] = job[queue[i].by]
  BY AskKeeps
<1> SUFFICES ASSUME NEW o \in Objects PROVE Unmade(o)' /\ Kept(o)' /\ Shed(o)'
  BY DEF AllStand
<1> HIDE DEF n
<1>2. Unmade(o) /\ Kept(o) /\ Shed(o)
  BY DEF IInv
<1>3. Unmade(o)'
  BY <1>1, <1>2 DEF Unmade, Moves
<1>4. Kept(o)'
  <2> SUFFICES ASSUME stage[o] = "live", o \notin crossed
               PROVE  /\ handle'[o] # None \/ (\E r \in rows : r.by = o) =>
                            \A i \in 1..Len(queue') : queue'[i].kind = "open"
                      /\ \A i \in 1..Len(queue') :
                            queue'[i].kind = "open" /\ job'[queue'[i].by].obj = o =>
                            \A k \in i..Len(queue') : queue'[k].kind = "open"
    BY <1>2 DEF Kept, Deletion
  <2>1. \A i \in 1..(n + 1) : i = n + 1 \/ i \in 1..n
    BY <1>1
  <2>2. handle'[o] # None \/ (\E r \in rows : r.by = o) =>
           \A i \in 1..Len(queue') : queue'[i].kind = "open"
    BY <1>1, <1>2, <2>1 DEF Kept, Deletion, n
  <2>3. ASSUME NEW i \in 1..(n + 1), queue'[i].kind = "open", job'[queue'[i].by].obj = o,
               NEW k \in i..(n + 1)
        PROVE  queue'[k].kind = "open"
    <3>1. CASE k = n + 1
      BY <1>1, <3>1
    <3>2. CASE k # n + 1
      <4>1. i \in 1..n /\ k \in i..n /\ k \in 1..n
        BY <1>1, <3>2
      <4>2. ~Deletion(i) /\ job[queue[i].by].obj = o
        BY <1>1, <2>3, <4>1 DEF Deletion
      <4>3. ~Deletion(k)
        BY <1>2, <4>1, <4>2 DEF Kept, n
      <4> QED
        BY <1>1, <4>1, <4>3 DEF Deletion
    <3> QED
      BY <3>1, <3>2
  <2> QED
    BY <1>1, <2>2, <2>3
<1>5. Shed(o)'
  BY AskSheds
<1> QED
  BY <1>3, <1>4, <1>5

\* It puts a row, or reads, over the connection its store has.
LEMMA WriteKeeps ==
  ASSUME IInv, NEW t \in Tasks, NEW j \in Jobs, pc[t] # "open", handle[j.obj] # None,
         rows' = rows \cup Puts(j),
         job' = [job EXCEPT ![t] = Answered(j)], pc' = [pc EXCEPT ![t] = "answer"],
         UNCHANGED <<queue, handle, stage, creds, revived, crossed>>,
         j.at = "account" => creds[j.obj]
  PROVE  TaskType' /\ rows' \subseteq Rows /\ Queued' /\ BusyAt' /\ AllStand'
<1>1. /\ j.obj \in Objects /\ Answered(j) \in Jobs /\ Answered(j).obj = j.obj
      /\ Answered(j).at = j.at /\ Puts(j) \subseteq Rows
      /\ \A r \in Puts(j) : r.by = j.obj
      /\ [kind |-> "account", by |-> j.obj] \in Puts(j) => j.at = "account"
  BY JobFields
<1>2. TaskType' /\ Moves(t) /\ pc'[t] = "answer" /\ job'[t] = Answered(j) /\ rows' \subseteq Rows
  BY <1>1 DEF IInv, TypeOK, TaskType, Moves
<1>3. \A i \in 1..Len(queue) : ~Deletion(i) =>
         job'[queue[i].by] = job[queue[i].by] /\ pc'[queue[i].by] = pc[queue[i].by]
  BY <1>2, Waits DEF Moves
<1>4. Queued'
  BY <1>3 DEF IInv, Queued, Deletion
<1>5. BusyAt'
  BY <1>2 DEF IInv, BusyAt, Moves
<1>6. ASSUME NEW o \in Objects PROVE Unmade(o)' /\ Kept(o)' /\ Shed(o)'
  <2>1. Unmade(o) /\ Kept(o) /\ Shed(o)
    BY DEF IInv
  <2>2. Unmade(o)'
    BY <1>1, <1>2, <2>1 DEF Unmade, Moves
  <2>3. Kept(o)'
    BY <1>1, <1>3, <2>1 DEF Kept, Deletion
  <2>4. Shed(o)'
    <3>1. [kind |-> "account", by |-> o] \in rows' /\ o = j.obj /\ ~creds[o]
             => [kind |-> "account", by |-> o] \in rows
      BY <1>1
    <3>2. [kind |-> "account", by |-> o] \in rows' /\ o # j.obj
             => [kind |-> "account", by |-> o] \in rows
      BY <1>1
    <3> QED
      BY <1>3, <2>1, <3>1, <3>2 DEF Shed, Deletion
  <2> QED
    BY <2>2, <2>3, <2>4
<1> QED
  BY <1>2, <1>4, <1>5, <1>6 DEF AllStand

\* It goes on without the database; the object may get a relay.
LEMMA QuietKeeps ==
  ASSUME IInv, NEW t \in Tasks, pc[t] # "open", TaskType', Moves(t), pc'[t] \in {"idle", "busy"},
         pc'[t] = "busy" => job'[t].at \in {"message", "rest"},
         UNCHANGED <<queue, rows, handle, stage, crossed>>,
         stage[job'[t].obj] # "unmade" \/ (pc'[t] = "idle" /\ UNCHANGED <<creds, revived>>),
         GetsRelay(job'[t].obj) \/ UNCHANGED <<creds, revived>>
  PROVE  /\ Queued' /\ BusyAt' /\ AllStand'
         /\ creds' \in [Objects -> BOOLEAN] /\ revived' \subseteq Objects
<1>1. job'[t].obj \in Objects
  BY DEF TaskType, Jobs
<1>2. creds' \in [Objects -> BOOLEAN] /\ revived' \subseteq Objects
  BY <1>1 DEF IInv, TypeOK, GetsRelay
<1>3. \A i \in 1..Len(queue) : ~Deletion(i) =>
         job'[queue[i].by] = job[queue[i].by] /\ pc'[queue[i].by] = pc[queue[i].by]
  BY Waits DEF Moves
<1>4. Queued'
  BY <1>3 DEF IInv, Queued, Deletion
<1>5. BusyAt'
  BY DEF IInv, BusyAt, Moves
<1>6. ASSUME NEW o \in Objects PROVE Unmade(o)' /\ Kept(o)' /\ Shed(o)'
  <2>1. Unmade(o) /\ Kept(o) /\ Shed(o)
    BY DEF IInv
  <2>2. /\ creds'[o] = creds[o] \/ (creds'[o] /\ o = job'[t].obj /\ stage[o] # "unmade")
        /\ o \in revived => o \in revived'
        /\ o \in revived' => o \in revived \/ (o = job'[t].obj /\ stage[o] # "unmade")
        /\ creds'[o] # creds[o] => stage[o] = "live" \/ o \in revived'
    BY <1>1 DEF GetsRelay, IInv, TypeOK
  <2>3. Unmade(o)'
    BY <2>1, <2>2 DEF Unmade, Moves
  <2>4. Kept(o)'
    BY <1>3, <2>1, <2>2 DEF Kept, Deletion
  <2>5. Shed(o)'
    BY <1>3, <2>1, <2>2 DEF Shed, Deletion
  <2> QED
    BY <2>3, <2>4, <2>5
<1> QED
  BY <1>2, <1>4, <1>5, <1>6 DEF AllStand


\* A store call, over a connection or after asking for one.
LEMMA AccessKeeps ==
  ASSUME IInv, NEW t \in Tasks, NEW j \in Jobs, pc[t] # "open", Access(t, j),
         UNCHANGED <<conns, handle, stage, creds, history>>,
         stage[j.obj] # "unmade", j.at = "account" => creds[j.obj],
         calls' \in 0..MaxCalls
  PROVE  IInv'
<1>1. UNCHANGED <<conns, handle, stage, creds, revived, crossed>>
  BY DEF history
<1>2. HandleIsOpen' /\ OneStoreEach'
  BY <1>1 DEF IInv, HandleIsOpen, OneStoreEach
<1>3. CASE handle[j.obj] # None
  <2>1. /\ rows' = rows \cup Puts(j) /\ UNCHANGED queue
        /\ job' = [job EXCEPT ![t] = Answered(j)] /\ pc' = [pc EXCEPT ![t] = "answer"]
    BY <1>3 DEF Access
  <2>2. TaskType' /\ rows' \subseteq Rows /\ Queued' /\ BusyAt' /\ AllStand'
    BY <1>1, <1>3, <2>1, WriteKeeps
  <2>3. TypeOK'
    BY <1>1, <2>1, <2>2 DEF IInv, TypeOK, TaskType
  <2> QED
    BY <1>2, <2>2, <2>3 DEF IInv, AllStand
<1>4. CASE handle[j.obj] = None
  <2>1. /\ queue' = Append(queue, [kind |-> "open", by |-> t]) /\ UNCHANGED rows
        /\ job' = [job EXCEPT ![t] = j] /\ pc' = [pc EXCEPT ![t] = "open"]
    BY <1>4 DEF Access
  <2>2. queue' \in Seq(Requests) /\ TaskType' /\ Queued' /\ BusyAt'
    BY <2>1, AskKeeps
  <2>3. AllStand'
    BY <1>1, <2>1, AskStands
  <2>4. TypeOK'
    BY <1>1, <2>1, <2>2 DEF IInv, TypeOK, TaskType
  <2> QED
    BY <1>2, <2>2, <2>3, <2>4 DEF IInv, AllStand
<1> QED
  BY <1>3, <1>4

\* What a handler under way may rely on.
LEMMA UnderWay ==
  ASSUME IInv, NEW t \in Tasks, pc[t] # "idle"
  PROVE  job[t] \in Jobs /\ job[t].obj \in Objects /\ stage[job[t].obj] # "unmade"
<1>1. job[t] \in Jobs
  BY DEF IInv, TypeOK
<1>2. job[t].obj \in Objects
  BY <1>1, JobFields
<1> QED
  BY <1>1, <1>2 DEF IInv, Unmade

LEMMA CallsBound ==
  ASSUME IInv, NEW t \in Tasks, Starts(t)
  PROVE  calls' \in 0..MaxCalls /\ pc[t] = "idle"
BY BoundAssumption DEF IInv, TypeOK, Starts

\* A step without the database.
LEMMA QuietStep ==
  ASSUME IInv, NEW t \in Tasks, pc[t] # "open", TaskType', Moves(t), pc'[t] \in {"idle", "busy"},
         pc'[t] = "busy" => job'[t].at \in {"message", "rest"},
         UNCHANGED <<queue, rows, conns, handle, stage, crossed>>, calls' \in 0..MaxCalls,
         stage[job'[t].obj] # "unmade",
         GetsRelay(job'[t].obj) \/ UNCHANGED <<creds, revived>>
  PROVE  IInv'
<1>1. /\ Queued' /\ BusyAt' /\ AllStand'
      /\ creds' \in [Objects -> BOOLEAN] /\ revived' \subseteq Objects
  BY QuietKeeps
<1>2. HandleIsOpen' /\ OneStoreEach'
  BY DEF IInv, HandleIsOpen, OneStoreEach
<1>3. TypeOK'
  BY <1>1 DEF IInv, TypeOK, TaskType
<1> QED
  BY <1>1, <1>2, <1>3 DEF IInv, AllStand

LEMMA EndsStep ==
  ASSUME IInv, NEW t \in Tasks, pc[t] \in {"busy", "answer"}, Ends(t),
         UNCHANGED <<conns, handle, stage, crossed, calls>>,
         GetsRelay(job[t].obj) \/ UNCHANGED <<creds, revived>>
  PROVE  IInv'
<1>1. /\ pc' = [pc EXCEPT ![t] = "idle"] /\ UNCHANGED <<queue, rows, job>>
  BY DEF Ends
<1>2. TaskType' /\ Moves(t) /\ pc'[t] = "idle" /\ job'[t] = job[t] /\ calls' \in 0..MaxCalls
  BY <1>1 DEF IInv, TypeOK, TaskType, Moves
<1>3. stage[job'[t].obj] # "unmade"
  BY <1>2, UnderWay
<1> QED
  BY <1>1, <1>2, <1>3, QuietStep

-----------------------------------------------------------------------------
(* Handlers *)

LEMMA LoadSaveStep ==
  ASSUME IInv, NEW o \in Objects, NEW t \in Tasks, Load(o, t) \/ Save(o, t)
  PROVE  IInv'
<1> DEFINE j(k, a) == [kind |-> k, obj |-> o, at |-> a, found |-> FALSE]
<1>1. calls' \in 0..MaxCalls /\ pc[t] = "idle"
  BY CallsBound DEF Load, Save
<1>2. stage[o] # "unmade"
  BY DEF IInv, Unmade, Load, Save
<1>3. CASE Load(o, t)
  <2>1. j("load", "get") \in Jobs
    BY DEF Jobs, Kinds, Loads, Places, Finds
  <2>2. Access(t, j("load", "get")) /\ UNCHANGED <<conns, handle, stage, creds, history>>
    BY <1>3 DEF Load
  <2> QED
    BY <1>1, <1>2, <2>1, <2>2, AccessKeeps
<1>4. CASE Save(o, t)
  <2>1. j("save", "account") \in Jobs
    BY DEF Jobs, Kinds, Places, Writes
  <2>2. Access(t, j("save", "account")) /\ UNCHANGED <<conns, handle, stage, creds, history>> /\ creds[o]
    BY <1>4 DEF Save
  <2> QED
    BY <1>1, <1>2, <2>1, <2>2, AccessKeeps
<1> QED
  BY <1>3, <1>4

LEMMA MailArrivesStep ==
  ASSUME IInv, NEW o \in Objects, NEW t \in Tasks, MailArrives(o, t)
  PROVE  IInv'
<1> DEFINE j == [kind |-> "mail", obj |-> o, at |-> "message", found |-> FALSE]
<1>1. calls' \in 0..MaxCalls /\ pc[t] = "idle"
  BY CallsBound DEF MailArrives
<1>2. /\ stage[o] = "live"
      /\ pc' = [pc EXCEPT ![t] = "busy"] /\ job' = [job EXCEPT ![t] = j]
      /\ UNCHANGED <<queue, conns, rows, handle, stage, creds, revived, crossed>>
  BY DEF MailArrives, idb, history
<1>3. j \in Jobs
  BY DEF Jobs, Kinds, Places, Writes
<1>4. TaskType' /\ Moves(t) /\ pc'[t] = "busy" /\ job'[t] = j
  BY <1>2, <1>3 DEF IInv, TypeOK, TaskType, Moves
<1> QED
  BY <1>1, <1>2, <1>4, QuietStep

LEMMA ComputedStep ==
  ASSUME IInv, NEW t \in Tasks, Computed(t)
  PROVE  IInv'
<1>1. pc[t] = "busy" /\ UNCHANGED <<conns, handle, stage, creds, calls, history>>
  BY DEF Computed
<1>2. job[t] \in Jobs /\ stage[job[t].obj] # "unmade" /\ job[t].at # "account" /\ calls' \in 0..MaxCalls
  BY <1>1, UnderWay DEF IInv, BusyAt, TypeOK
<1>3. CASE Access(t, job[t])
  BY <1>1, <1>2, <1>3, AccessKeeps
<1>4. CASE Ends(t)
  BY <1>1, <1>4, EndsStep DEF history
<1> QED
  BY <1>3, <1>4 DEF Computed

LEMMA GoesOnStep ==
  ASSUME IInv, NEW t \in Tasks, GoesOn(t) \/ Stops(t)
  PROVE  IInv'
<1>1. pc[t] = "answer" /\ UNCHANGED <<conns, handle, stage, creds, calls, history>>
  BY DEF GoesOn, Stops
<1>2. job[t] \in Jobs /\ stage[job[t].obj] # "unmade" /\ calls' \in 0..MaxCalls
  BY <1>1, UnderWay DEF IInv, TypeOK
<1>3. ASSUME NEW a \in {"chat", "contact"}, Access(t, [job[t] EXCEPT !.at = a]) PROVE IInv'
  <2>1. /\ [job[t] EXCEPT !.at = a] \in Jobs /\ [job[t] EXCEPT !.at = a].obj = job[t].obj
        /\ [job[t] EXCEPT !.at = a].at # "account"
    BY <1>2 DEF Jobs, Places, Writes
  <2> QED
    BY <1>1, <1>2, <1>3, <2>1, AccessKeeps
<1>4. CASE Ends(t)
  BY <1>1, <1>4, EndsStep DEF history
<1> QED
  BY <1>3, <1>4 DEF GoesOn, Stops

LEMMA NotFoundStep ==
  ASSUME IInv, NEW t \in Tasks, NotFound(t)
  PROVE  IInv'
<1>1. pc[t] = "answer" /\ UNCHANGED <<conns, handle, stage, calls, crossed>>
  BY DEF NotFound
<1>2. job[t] \in Jobs /\ stage[job[t].obj] # "unmade" /\ calls' \in 0..MaxCalls
  BY <1>1, UnderWay DEF IInv, TypeOK
<1>3. CASE Access(t, [job[t] EXCEPT !.at = "any"]) /\ UNCHANGED <<creds, revived>>
  <2>1. /\ [job[t] EXCEPT !.at = "any"] \in Jobs /\ [job[t] EXCEPT !.at = "any"].obj = job[t].obj
        /\ [job[t] EXCEPT !.at = "any"].at # "account"
    BY <1>2 DEF Jobs, Places, Finds
  <2> QED
    BY <1>1, <1>2, <1>3, <2>1, AccessKeeps DEF history
<1>4. CASE LoadEnds(t)
  BY <1>1, <1>4, EndsStep DEF LoadEnds
<1> QED
  BY <1>3, <1>4 DEF NotFound

LEMMA LoadedStep ==
  ASSUME IInv, NEW t \in Tasks, RelaysRebuilt(t) \/ Loaded(t)
  PROVE  IInv'
<1>1. pc[t] = "answer" /\ UNCHANGED <<conns, handle, stage, calls, crossed>>
  BY DEF RelaysRebuilt, Loaded, idb
<1>2. job[t] \in Jobs /\ stage[job[t].obj] # "unmade" /\ calls' \in 0..MaxCalls
  BY <1>1, UnderWay DEF IInv, TypeOK
<1>3. CASE RelaysRebuilt(t)
  <2>1. /\ GetsRelay(job[t].obj) /\ UNCHANGED <<queue, rows>>
        /\ job' = [job EXCEPT ![t].at = "rest"] /\ pc' = [pc EXCEPT ![t] = "busy"]
    BY <1>3 DEF RelaysRebuilt, idb
  <2>2. [job[t] EXCEPT !.at = "rest"] \in Jobs
    BY <1>2 DEF Jobs, Places
  <2>3. TaskType' /\ Moves(t) /\ pc'[t] = "busy" /\ job'[t].at = "rest" /\ job'[t].obj = job[t].obj
    BY <1>2, <2>1, <2>2 DEF IInv, TypeOK, TaskType, Moves, Jobs
  <2> QED
    BY <1>1, <1>2, <2>1, <2>3, QuietStep
<1>4. CASE Loaded(t)
  BY <1>1, <1>4, EndsStep DEF Loaded, LoadEnds
<1> QED
  BY <1>3, <1>4

\* loadFromStore closes its store's connection and asks for another.
LEMMA ReopensStep ==
  ASSUME IInv, NEW t \in Tasks, Reopens(t)
  PROVE  IInv'
<1> DEFINE o == job[t].obj
           j == [job[t] EXCEPT !.at = "again"]
<1>1. /\ pc[t] = "answer" /\ conns' = conns \ {handle[o]} /\ handle' = [handle EXCEPT ![o] = None]
      /\ queue' = Append(queue, [kind |-> "open", by |-> t])
      /\ job' = [job EXCEPT ![t] = j] /\ pc' = [pc EXCEPT ![t] = "open"]
      /\ UNCHANGED <<rows, stage, creds, calls, revived, crossed>>
  BY DEF Reopens, history
<1>2. o \in Objects /\ stage[o] # "unmade" /\ job[t] \in Jobs
  BY <1>1, UnderWay
<1>3. j \in Jobs /\ j.obj = o /\ j.at # "account"
  BY <1>2 DEF Jobs, Places
<1> HIDE DEF o, j
<1>4. queue' \in Seq(Requests) /\ TaskType' /\ Queued' /\ BusyAt'
  BY <1>1, <1>3, AskKeeps
<1>5. \A p \in Objects : handle'[p] \in {handle[p], None} /\ (p # o => handle'[p] = handle[p])
  BY <1>1, <1>2 DEF IInv, TypeOK
<1>6. AllStand'
  BY <1>1, <1>2, <1>3, <1>5, AskStands
<1>7. handle'[o] = None
  BY <1>1, <1>2 DEF IInv, TypeOK
<1>8. HandleIsOpen' /\ OneStoreEach'
  BY <1>1, <1>5, <1>7, <1>2 DEF IInv, HandleIsOpen, OneStoreEach
<1>9. TypeOK'
  BY <1>1, <1>4 DEF IInv, TypeOK, TaskType
<1> QED
  BY <1>4, <1>6, <1>8, <1>9 DEF IInv, AllStand


-----------------------------------------------------------------------------
(* The profile *)

LEMMA AddAccountStep ==
  ASSUME IInv, NEW o \in Objects, NEW t \in Tasks, AddAccount(o, t)
  PROVE  IInv'
<1> DEFINE n == Len(queue)
           j == [kind |-> "restore", obj |-> o, at |-> "get", found |-> FALSE]
<1>1. calls' \in 0..MaxCalls /\ pc[t] = "idle"
  BY CallsBound DEF AddAccount
<1>2. Unmade(o) /\ stage[o] = "unmade"
  BY DEF IInv, AddAccount
<1>3. j \in Jobs /\ j.obj = o /\ j.at # "account"
  BY DEF Jobs, Kinds, Loads, Places, Finds
<1>4. /\ handle[o] = None
      /\ queue' = Append(queue, [kind |-> "open", by |-> t])
      /\ job' = [job EXCEPT ![t] = j] /\ pc' = [pc EXCEPT ![t] = "open"]
      /\ stage' = [stage EXCEPT ![o] = "live"] /\ creds' = [creds EXCEPT ![o] = TRUE]
      /\ UNCHANGED <<rows, conns, handle, revived>>
  BY <1>2, <1>3 DEF AddAccount, Access, Unmade
<1> HIDE DEF j
<1>5. /\ queue' \in Seq(Requests) /\ TaskType' /\ Queued' /\ BusyAt'
      /\ Moves(t) /\ pc'[t] = "open" /\ job'[t] = j
      /\ n \in Nat /\ Len(queue') = n + 1
      /\ queue'[n + 1] = [kind |-> "open", by |-> t]
      /\ \A i \in 1..n : queue'[i] = queue[i]
      /\ \A i \in 1..n : ~Deletion(i) =>
            queue[i].by \in Tasks \ {t} /\ job'[queue[i].by] = job[queue[i].by]
  BY <1>1, <1>3, <1>4, AskKeeps
<1>6. /\ stage'[o] = "live" /\ creds'[o] = TRUE
      /\ \A p \in Objects \ {o} : stage'[p] = stage[p] /\ creds'[p] = creds[p]
      /\ stage' \in [Objects -> Stages] /\ creds' \in [Objects -> BOOLEAN]
  BY <1>4 DEF IInv, TypeOK, Stages
<1>7. /\ crossed' = crossed \cup {o} \/ crossed' = crossed
      /\ o \notin crossed' => \A p \in Objects : stage[p] \notin {"wiping", "forget"}
  BY DEF AddAccount
<1>8. \A p \in Objects : stage[p] # "live"
  <2>1. \A p \in Objects : stage[p] = "live" => creds[p]
    BY DEF IInv, Kept
  <2> QED
    BY <2>1 DEF AddAccount
<1>9. \A p \in Objects : Unmade(p)'
  BY <1>3, <1>4, <1>5, <1>6 DEF IInv, Unmade, Moves
<1>10. \A p \in Objects \ {o} : Kept(p)' /\ Shed(p)'
  <2> SUFFICES ASSUME NEW p \in Objects \ {o} PROVE Kept(p)' /\ Shed(p)'
    OBVIOUS
  <2>1. Kept(p)'
    BY <1>6, <1>8 DEF Kept
  <2>2. Shed(p)'
    BY <1>1, <1>3, <1>4, <1>6, AskSheds
  <2> QED
    BY <2>1, <2>2
<1>11. Shed(o)'
  BY <1>6 DEF Shed
<1>12. Kept(o)'
  <2> SUFFICES ASSUME o \notin crossed'
               PROVE  /\ \A p \in Objects \ {o} : stage'[p] \in {"unmade", "rewiping", "gone"}
                      /\ \A i \in 1..(n + 1) :
                            queue'[i].kind = "open" /\ job'[queue'[i].by].obj = o =>
                            \A k \in i..(n + 1) : queue'[k].kind = "open"
    BY <1>2, <1>4, <1>5, <1>6 DEF Kept, Unmade, Deletion
  <2>1. \A p \in Objects \ {o} : stage'[p] \in {"unmade", "rewiping", "gone"}
    BY <1>6, <1>7, <1>8 DEF Stages
  <2>2. ASSUME NEW i \in 1..n, queue'[i].kind = "open" PROVE job'[queue'[i].by].obj # o
    <3>1. ~Deletion(i) /\ queue'[i] = queue[i]
      BY <1>5, <2>2 DEF Deletion
    <3>2. pc[queue[i].by] = "open" /\ queue[i].by \in Tasks
      BY <1>5, <3>1 DEF IInv, Queued
    <3> QED
      BY <1>2, <1>5, <3>1, <3>2 DEF Unmade
  <2>3. \A i \in 1..(n + 1) : queue'[i].kind = "open" /\ job'[queue'[i].by].obj = o => i = n + 1
    BY <1>5, <2>2
  <2>4. \A k \in (n + 1)..(n + 1) : queue'[k].kind = "open"
    BY <1>5
  <2> QED
    BY <2>1, <2>3, <2>4
<1>13. HandleIsOpen' /\ OneStoreEach'
  BY <1>4 DEF IInv, HandleIsOpen, OneStoreEach
<1>14. TypeOK'
  BY <1>1, <1>4, <1>5, <1>6, <1>7 DEF IInv, TypeOK, TaskType
<1> QED
  BY <1>5, <1>9, <1>10, <1>11, <1>12, <1>13, <1>14 DEF IInv

\* A deletion, or a clearing, is asked for.
LEMMA DeletionStands ==
  ASSUME IInv, NEW o \in Objects, NEW e \in Requests, e.kind # "open",
         queue' = Append(queue, e), stage[o] \in {"live", "wiping", "forget"},
         \/ stage' = [stage EXCEPT ![o] = e.kind] /\ e.kind # "clear"
         \/ stage' = stage /\ stage[o] # "live",
         stage[o] = "live" => ~creds'[o], calls' \in 0..MaxCalls,
         creds' = creds \/ creds' = [creds EXCEPT ![o] = FALSE],
         handle' = handle \/ handle' = [handle EXCEPT ![o] = None],
         (conns' = conns \ {handle[o]} /\ handle'[o] = None) \/ UNCHANGED <<conns, handle>>,
         UNCHANGED <<rows, tasks, history>>
  PROVE  IInv'
<1> DEFINE n == Len(queue)
<1>1. /\ queue' \in Seq(Requests) /\ n \in Nat /\ Len(queue') = n + 1
      /\ queue'[n + 1] = e
      /\ \A i \in 1..n : queue'[i] = queue[i]
  BY QueueGrows DEF IInv, TypeOK
<1>2. UNCHANGED <<rows, pc, job, revived, crossed>>
  BY DEF tasks, history
<1>3. e.kind \in {"wiping", "rewiping", "clear"}
  BY DEF Requests
<1>4. /\ stage'[o] \in Rests
      /\ \A p \in Objects \ {o} : stage'[p] = stage[p] /\ creds'[p] = creds[p]
      /\ stage' \in [Objects -> Stages] /\ creds' \in [Objects -> BOOLEAN]
      /\ \A p \in Objects : creds'[p] => creds[p]
  BY <1>3 DEF IInv, TypeOK, Stages, Rests
<1>5. /\ handle' \in [Objects -> Connections \cup {None}]
      /\ \A p \in Objects : handle'[p] \in {handle[p], None}
      /\ \A p \in Objects \ {o} : handle'[p] = handle[p]
  BY DEF IInv, TypeOK
<1> HIDE DEF n
<1>6. Queued'
  <2> SUFFICES ASSUME NEW i \in 1..(n + 1), queue'[i].kind = "open"
               PROVE  /\ pc[queue'[i].by] = "open"
                      /\ \A k \in 1..(n + 1) : queue'[k] = queue'[i] => k = i
    BY <1>1, <1>2 DEF Queued, Deletion
  <2>1. i \in 1..n /\ queue'[i] = queue[i]
    BY <1>1
  <2>2. pc[queue[i].by] = "open" /\ \A k \in 1..n : queue[k] = queue[i] => k = i
    BY <2>1 DEF IInv, Queued, Deletion, n
  <2> QED
    BY <1>1, <2>1, <2>2
<1>7. BusyAt'
  BY <1>2 DEF IInv, BusyAt
<1>8. ASSUME NEW p \in Objects PROVE Unmade(p)' /\ Kept(p)' /\ Shed(p)'
  <2>1. Unmade(p) /\ Kept(p) /\ Shed(p)
    BY DEF IInv
  <2>2. Unmade(p)'
    BY <1>2, <1>4, <1>5, <2>1 DEF Unmade, Rests
  <2>3. Kept(p)'
    <3>1. stage'[p] = "live" => p # o /\ p \in crossed
      BY <1>4, <2>1 DEF Kept, Rests
    <3> QED
      BY <1>2, <1>4, <2>1, <3>1 DEF Kept
  <2>4. Shed(p)'
    <3>1. n + 1 \in 1..(n + 1) /\ \A i \in 1..(n + 1) : n + 1 \in i..(n + 1)
      BY <1>1
    <3>2. stage'[p] \in Rests /\ p \notin revived => ~creds'[p]
      BY <1>4, <2>1 DEF Shed, Rests
    <3> QED
      BY <1>1, <1>2, <3>1, <3>2 DEF Shed, Deletion, Rests
  <2> QED
    BY <2>2, <2>3, <2>4
<1>9. HandleIsOpen' /\ OneStoreEach'
  BY <1>5 DEF IInv, HandleIsOpen, OneStoreEach
<1>10. TypeOK'
  BY <1>1, <1>2, <1>4, <1>5 DEF IInv, TypeOK
<1> QED
  BY <1>6, <1>7, <1>8, <1>9, <1>10 DEF IInv

LEMMA DestroyProfileStep ==
  ASSUME IInv, NEW o \in Objects, DestroyProfile(o)
  PROVE  IInv'
<1> DEFINE e == [kind |-> "wiping", by |-> o]
<1>1. e \in Requests /\ e.kind # "open"
  BY DEF Requests
<1>2. /\ stage[o] = "live" /\ stage' = [stage EXCEPT ![o] = e.kind]
      /\ creds' = [creds EXCEPT ![o] = FALSE]
      /\ conns' = conns \ {handle[o]} /\ handle' = [handle EXCEPT ![o] = None]
      /\ queue' = Append(queue, e) /\ UNCHANGED <<rows, tasks, calls, history>>
  BY DEF DestroyProfile, WipeAccount
<1>3. ~creds'[o] /\ handle'[o] = None /\ calls' \in 0..MaxCalls
  BY <1>2 DEF IInv, TypeOK
<1> QED
  BY <1>1, <1>2, <1>3, DeletionStands

LEMMA ForgetStep ==
  ASSUME IInv, NEW o \in Objects, Forget(o)
  PROVE  IInv'
<1> DEFINE e == [kind |-> "rewiping", by |-> o]
<1>1. e \in Requests /\ e.kind # "open"
  BY DEF Requests
<1>2. /\ stage[o] = "forget" /\ stage' = [stage EXCEPT ![o] = e.kind]
      /\ queue' = Append(queue, e) /\ UNCHANGED <<conns, rows, handle, creds, tasks, calls, history>>
  BY DEF Forget
<1>3. calls' \in 0..MaxCalls
  BY <1>2 DEF IInv, TypeOK
<1> QED
  BY <1>1, <1>2, <1>3, DeletionStands

\* Every store of the database is emptied while o is being destroyed.
LEMMA DestroyAgainStep ==
  ASSUME IInv, NEW o \in Objects, DestroyAgain(o)
  PROVE  IInv'
<1> DEFINE e == [kind |-> "clear", by |-> o]
<1>1. /\ stage[o] \in {"wiping", "forget"}
      /\ ClearsNow(o) \/ AsksToClear(o)
      /\ UNCHANGED <<conns, handle, stage, creds, pc, job, revived, crossed>>
  BY DEF DestroyAgain, tasks, history
<1>2. calls' \in 0..MaxCalls
  BY BoundAssumption DEF DestroyAgain, IInv, TypeOK
<1>3. CASE ClearsNow(o)
  <2>1. rows' = {} /\ UNCHANGED queue
    BY <1>3 DEF ClearsNow
  <2>2. ASSUME NEW p \in Objects PROVE Unmade(p)' /\ Kept(p)' /\ Shed(p)'
    <3>1. Unmade(p) /\ Kept(p) /\ Shed(p)
      BY DEF IInv
    <3>2. Unmade(p)' /\ Kept(p)'
      BY <1>1, <2>1, <3>1 DEF Unmade, Kept, Deletion
    <3>3. Shed(p)'
      BY <1>1, <2>1, <3>1 DEF Shed, Deletion
    <3> QED
      BY <3>2, <3>3
  <2>3. TypeOK' /\ HandleIsOpen' /\ OneStoreEach' /\ Queued' /\ BusyAt'
    BY <1>1, <1>2, <2>1 DEF IInv, TypeOK, HandleIsOpen, OneStoreEach, Queued, BusyAt, Deletion
  <2> QED
    BY <2>2, <2>3 DEF IInv
<1>4. CASE AsksToClear(o)
  <2>1. e \in Requests /\ e.kind # "open"
    BY DEF Requests
  <2>2. queue' = Append(queue, e) /\ UNCHANGED rows
    BY <1>4 DEF AsksToClear
  <2>3. UNCHANGED <<rows, tasks, history>> /\ stage' = stage /\ creds' = creds
    BY <1>1, <2>2 DEF tasks, history
  <2>4. stage[o] # "live" /\ stage[o] \in {"live", "wiping", "forget"}
    BY <1>1
  <2> HIDE DEF e
  <2> QED
    BY <1>1, <1>2, <2>1, <2>2, <2>3, <2>4, DeletionStands
<1> QED
  BY <1>1, <1>3, <1>4

\* The promise of a deletion resolves.
LEMMA ResolvesOne ==
  ASSUME IInv, NEW o \in Objects, NEW s \in {"wiping", "rewiping"}, Resolves(s, o)
  PROVE  /\ stage' \in [Objects -> Stages]
         /\ \A p \in Objects : \/ stage'[p] = stage[p]
                               \/ stage[p] = "wiping" /\ stage'[p] = "forget"
                               \/ stage[p] = "rewiping" /\ stage'[p] = "gone"
BY DEF IInv, TypeOK, Resolves, After, Stages

LEMMA GivesUpStep ==
  ASSUME IInv, NEW o \in Objects, GivesUp(o)
  PROVE  IInv'
<1>1. UNCHANGED <<queue, conns, rows, handle, creds, pc, job, calls, revived, crossed>>
  BY DEF GivesUp, idb, tasks, history
<1>2. stage[o] \in {"wiping", "rewiping"}
  <2>1. Head(queue) \in Requests
    BY DEF IInv, TypeOK, GivesUp
  <2>2. Head(queue) = [kind |-> stage[o], by |-> o]
    BY DEF GivesUp
  <2>3. stage[o] \in {"open", "wiping", "rewiping", "clear"}
    BY <2>1, <2>2 DEF Requests
  <2> QED
    BY <2>3 DEF IInv, TypeOK, Stages
<1>3. /\ stage' \in [Objects -> Stages]
      /\ \A p \in Objects : \/ stage'[p] = stage[p]
                            \/ stage[p] = "wiping" /\ stage'[p] = "forget"
                            \/ stage[p] = "rewiping" /\ stage'[p] = "gone"
  BY <1>2, ResolvesOne DEF GivesUp
<1>4. ASSUME NEW p \in Objects PROVE Unmade(p)' /\ Kept(p)' /\ Shed(p)'
  <2>1. Unmade(p) /\ Kept(p) /\ Shed(p)
    BY DEF IInv
  <2>2. Unmade(p)' /\ Kept(p)'
    BY <1>1, <1>3, <2>1 DEF Unmade, Kept, Deletion
  <2>3. Shed(p)'
    BY <1>1, <1>3, <2>1 DEF Shed, Deletion
  <2> QED
    BY <2>2, <2>3
<1>5. TypeOK' /\ HandleIsOpen' /\ OneStoreEach' /\ Queued' /\ BusyAt'
  BY <1>1, <1>3 DEF IInv, TypeOK, HandleIsOpen, OneStoreEach, Queued, BusyAt, Deletion
<1> QED
  BY <1>4, <1>5 DEF IInv


-----------------------------------------------------------------------------
(* IndexedDB *)

\* The request at the head is answered: the others move up.
LEMMA TailQueued ==
  ASSUME IInv, queue # <<>>, queue' = Tail(queue),
         \A i \in 1..Len(queue) : i # 1 /\ ~Deletion(i) =>
            pc'[queue[i].by] = "open" /\ job'[queue[i].by] = job[queue[i].by]
  PROVE  /\ queue' \in Seq(Requests) /\ Queued'
         /\ Len(queue) \in Nat \ {0} /\ Len(queue') = Len(queue) - 1
         /\ Head(queue) = queue[1]
         /\ \A i \in 1..Len(queue') : i + 1 \in 1..Len(queue) /\ queue'[i] = queue[i + 1]
         /\ \A k \in 2..Len(queue) : k - 1 \in 1..Len(queue') /\ queue'[k - 1] = queue[k]
<1> DEFINE n == Len(queue)
<1>1. /\ queue' \in Seq(Requests) /\ n \in Nat \ {0} /\ Len(queue') = n - 1
      /\ Head(queue) = queue[1]
      /\ \A i \in 1..(n - 1) : queue'[i] = queue[i + 1]
  BY QueueShrinks DEF IInv, TypeOK
<1> HIDE DEF n
<1>2. \A i \in 1..(n - 1) : i + 1 \in 1..n /\ i + 1 # 1
  BY <1>1
<1>3. \A k \in 2..n : k - 1 \in 1..(n - 1) /\ (k - 1) + 1 = k
  BY <1>1
<1>4. Queued'
  <2> SUFFICES ASSUME NEW i \in 1..(n - 1), queue'[i].kind = "open"
               PROVE  /\ pc'[queue'[i].by] = "open"
                      /\ \A k \in 1..(n - 1) : queue'[k] = queue'[i] => k = i
    BY <1>1 DEF Queued, Deletion
  <2>1. i + 1 \in 1..n /\ i + 1 # 1 /\ queue'[i] = queue[i + 1] /\ ~Deletion(i + 1)
    BY <1>1, <1>2 DEF Deletion
  <2>2. pc'[queue'[i].by] = "open"
    BY <2>1 DEF n
  <2>3. \A k \in 1..n : queue[k] = queue[i + 1] => k = i + 1
    BY <2>1 DEF IInv, Queued, n
  <2>4. ASSUME NEW k \in 1..(n - 1), queue'[k] = queue'[i] PROVE k = i
    <3>1. k + 1 \in 1..n /\ queue[k + 1] = queue[i + 1]
      BY <1>1, <1>2, <2>1, <2>4
    <3>2. k + 1 = i + 1
      BY <2>3, <3>1
    <3> QED
      BY <3>2
  <2> QED
    BY <2>2, <2>4
<1>5. \A k \in 2..n : queue'[k - 1] = queue[k]
  BY <1>1, <1>3
<1> QED
  BY <1>1, <1>2, <1>3, <1>4, <1>5 DEF n

LEMMA OpensStep ==
  ASSUME IInv, Opens
  PROVE  IInv'
<1> DEFINE n == Len(queue)
           t == Head(queue).by
           j == job[t]
           o == j.obj
<1>1. /\ queue # <<>> /\ Head(queue).kind = "open" /\ queue' = Tail(queue)
      /\ rows' = rows \cup Puts(j)
      /\ job' = [job EXCEPT ![t] = Answered(j)] /\ pc' = [pc EXCEPT ![t] = "answer"]
      /\ UNCHANGED <<stage, creds, calls, revived, crossed>>
  BY DEF Opens, history
<1>2. PICK c \in Connections \ conns : conns' = conns \cup {c} /\ handle' = [handle EXCEPT ![o] = c]
  BY DEF Opens
<1>3. queue \in Seq(Requests) /\ n \in Nat \ {0} /\ Head(queue) = queue[1] /\ 1 \in 1..n
  BY <1>1, QueueShrinks DEF IInv, TypeOK
<1>4. ~Deletion(1) /\ queue[1] \in Requests /\ t = queue[1].by
  BY <1>1, <1>3 DEF Deletion
<1>5. t \in Tasks /\ queue[1] = [kind |-> "open", by |-> t]
  BY <1>4 DEF Requests, Deletion
<1>6. pc[t] = "open" /\ \A k \in 1..n : queue[k] = queue[1] => k = 1
  BY <1>3, <1>4 DEF IInv, Queued
<1>7. /\ j \in Jobs /\ o \in Objects /\ stage[o] # "unmade"
  BY <1>5, <1>6, UnderWay
<1>8. /\ Answered(j) \in Jobs /\ Answered(j).obj = o /\ Answered(j).at = j.at
      /\ Puts(j) \subseteq Rows
      /\ \A r \in Puts(j) : r.by = o
      /\ [kind |-> "account", by |-> o] \in Puts(j) => j.at = "account"
  BY <1>7, JobFields
<1> HIDE DEF o, j, t, n
<1>9. TaskType' /\ Moves(t) /\ pc'[t] = "answer" /\ job'[t] = Answered(j) /\ rows' \subseteq Rows
  BY <1>1, <1>5, <1>8 DEF IInv, TypeOK, TaskType, Moves
<1>10. \A i \in 1..n : i # 1 /\ ~Deletion(i) => queue[i].by \in Tasks \ {t}
  <2> SUFFICES ASSUME NEW i \in 1..n, i # 1, ~Deletion(i) PROVE queue[i].by \in Tasks \ {t}
    OBVIOUS
  <2>1. queue[i] \in Requests
    BY <1>3 DEF n
  <2>2. queue[i].by \in Tasks /\ (queue[i].by = t => queue[i] = [kind |-> "open", by |-> t])
    BY <2>1 DEF Requests, Deletion
  <2> QED
    BY <1>5, <1>6, <2>2
<1>11. \A i \in 1..n : i # 1 /\ ~Deletion(i) =>
          pc'[queue[i].by] = "open" /\ job'[queue[i].by] = job[queue[i].by]
  BY <1>9, <1>10 DEF IInv, Queued, Moves, n
<1>12. /\ queue' \in Seq(Requests) /\ Queued' /\ Len(queue') = n - 1
       /\ \A i \in 1..Len(queue') : i + 1 \in 1..n /\ queue'[i] = queue[i + 1]
       /\ \A k \in 2..n : k - 1 \in 1..Len(queue') /\ queue'[k - 1] = queue[k]
  BY <1>1, <1>11, TailQueued DEF n
<1>13. BusyAt'
  BY <1>9 DEF IInv, BusyAt, Moves
<1>14. /\ handle'[o] = c /\ \A p \in Objects \ {o} : handle'[p] = handle[p]
       /\ handle' \in [Objects -> Connections \cup {None}] /\ c # None
  BY <1>2, <1>7, NoneAssumption DEF IInv, TypeOK
<1>15. HandleIsOpen' /\ OneStoreEach'
  BY <1>2, <1>14 DEF IInv, HandleIsOpen, OneStoreEach
<1>16. ASSUME NEW p \in Objects PROVE Unmade(p)' /\ Kept(p)' /\ Shed(p)'
  <2>1. Unmade(p) /\ Kept(p) /\ Shed(p)
    BY DEF IInv
  <2>2. Unmade(p)'
    BY <1>1, <1>7, <1>8, <1>9, <1>14, <2>1 DEF Unmade, Moves
  <2>3. Kept(p)'
    <3> SUFFICES ASSUME stage[p] = "live", p \notin crossed
                 PROVE  /\ handle'[p] # None \/ (\E r \in rows' : r.by = p) =>
                              \A i \in 1..Len(queue') : queue'[i].kind = "open"
                        /\ \A i \in 1..Len(queue') :
                              queue'[i].kind = "open" /\ job'[queue'[i].by].obj = p =>
                              \A k \in i..Len(queue') : queue'[k].kind = "open"
      BY <1>1, <2>1 DEF Kept, Deletion
    <3>1. CASE p = o
      <4>1. \A k \in 1..n : ~Deletion(k)
        BY <1>3, <1>4, <2>1, <3>1 DEF Kept, n, o, j
      <4>2. \A i \in 1..Len(queue') : queue'[i].kind = "open"
        BY <1>12, <4>1 DEF Deletion
      <4>3. \A i \in 1..Len(queue') : \A k \in i..Len(queue') : k \in 1..Len(queue')
        BY <1>3, <1>12
      <4> QED
        BY <4>2, <4>3
    <3>2. CASE p # o
      <4>1. handle'[p] # None \/ (\E r \in rows' : r.by = p) =>
               \A i \in 1..n : ~Deletion(i)
        BY <1>1, <1>8, <1>14, <2>1, <3>2 DEF Kept, n
      <4>2. ASSUME NEW i \in 1..Len(queue'), queue'[i].kind = "open", job'[queue'[i].by].obj = p,
                   NEW k \in i..Len(queue')
            PROVE  queue'[k].kind = "open"
        <5>1. i + 1 \in 1..n /\ queue'[i] = queue[i + 1] /\ i + 1 # 1
          BY <1>12
        <5>2. k \in 1..Len(queue') /\ k + 1 \in (i + 1)..n /\ queue'[k] = queue[k + 1]
          BY <1>3, <1>12
        <5>3. ~Deletion(i + 1) /\ job[queue[i + 1].by].obj = p
          BY <1>11, <4>2, <5>1 DEF Deletion
        <5>4. ~Deletion(k + 1)
          BY <2>1, <5>1, <5>2, <5>3 DEF Kept, n
        <5> QED
          BY <5>2, <5>4 DEF Deletion
      <4>3. \A i \in 1..n : ~Deletion(i) => \A l \in 1..Len(queue') : ~Deletion(l + 1)
               => queue'[l].kind = "open"
        BY <1>12 DEF Deletion
      <4> QED
        BY <1>12, <4>1, <4>2 DEF Deletion
    <3> QED
      BY <3>1, <3>2
  <2>4. Shed(p)'
    <3> SUFFICES ASSUME stage[p] \in Rests, p \notin revived
                 PROVE  /\ ~creds[p]
                        /\ [kind |-> "account", by |-> p] \in rows' =>
                              \E k \in 1..Len(queue') : queue'[k].kind # "open"
                        /\ \A i \in 1..Len(queue') :
                              queue'[i].kind = "open" /\ job'[queue'[i].by].obj = p
                                 /\ job'[queue'[i].by].at = "account" =>
                              \E k \in i..Len(queue') : queue'[k].kind # "open"
      BY <1>1 DEF Shed, Deletion, Rests
    <3>1. ~creds[p]
      BY <2>1 DEF Shed, Rests
    <3>2. ASSUME [kind |-> "account", by |-> p] \in rows'
          PROVE  \E k \in 1..Len(queue') : queue'[k].kind # "open"
      <4>1. PICK k \in 1..n : Deletion(k)
        <5>1. CASE [kind |-> "account", by |-> p] \in rows
          BY <2>1, <5>1 DEF Shed, Rests, n
        <5>2. CASE [kind |-> "account", by |-> p] \in Puts(j)
          <6>1. p = o /\ j.at = "account"
            BY <1>8, <5>2
          <6> QED
            BY <1>3, <1>4, <2>1, <6>1 DEF Shed, Rests, n, o, j
        <5> QED
          BY <1>1, <3>2, <5>1, <5>2
      <4>2. k # 1
        BY <1>4, <4>1
      <4>3. k \in 2..n
        BY <1>3, <4>2
      <4> QED
        BY <1>12, <4>1, <4>3 DEF Deletion
    <3>3. ASSUME NEW i \in 1..Len(queue'), queue'[i].kind = "open", job'[queue'[i].by].obj = p,
                 job'[queue'[i].by].at = "account"
          PROVE  \E k \in i..Len(queue') : queue'[k].kind # "open"
      <4>1. i + 1 \in 1..n /\ queue'[i] = queue[i + 1] /\ i + 1 # 1
        BY <1>12
      <4>2. ~Deletion(i + 1) /\ job[queue[i + 1].by].obj = p /\ job[queue[i + 1].by].at = "account"
        BY <1>11, <3>3, <4>1 DEF Deletion
      <4>3. PICK k \in (i + 1)..n : Deletion(k)
        BY <2>1, <4>1, <4>2 DEF Shed, Rests, n
      <4>4. k \in 2..n /\ k - 1 \in i..Len(queue')
        BY <1>3, <1>12, <4>3
      <4>5. queue'[k - 1].kind # "open"
        BY <1>12, <4>3, <4>4 DEF Deletion
      <4> QED
        BY <4>4, <4>5
    <3> QED
      BY <3>1, <3>2, <3>3
  <2> QED
    BY <2>2, <2>3, <2>4
<1>17. TypeOK'
  BY <1>1, <1>2, <1>9, <1>12, <1>14 DEF IInv, TypeOK, TaskType
<1> QED
  BY <1>12, <1>13, <1>15, <1>16, <1>17 DEF IInv

\* A request that empties the database is answered.
LEMMA EmptiedStands ==
  ASSUME IInv, queue # <<>>, Head(queue).kind # "open", rows' = {}, queue' = Tail(queue),
         UNCHANGED <<creds, pc, job, revived, crossed>>,
         \A p \in Objects : \/ stage'[p] = stage[p]
                            \/ stage[p] = "wiping" /\ stage'[p] = "forget"
                            \/ stage[p] = "rewiping" /\ stage'[p] = "gone",
         \A p \in Objects : handle'[p] = handle[p] \/ stage[p] \in Rests
  PROVE  queue' \in Seq(Requests) /\ Queued' /\ AllStand'
<1> DEFINE n == Len(queue)
<1>1. /\ queue' \in Seq(Requests) /\ Queued' /\ n \in Nat \ {0} /\ Len(queue') = n - 1
      /\ Head(queue) = queue[1]
      /\ \A i \in 1..Len(queue') : i + 1 \in 1..n /\ queue'[i] = queue[i + 1]
      /\ \A k \in 2..n : k - 1 \in 1..Len(queue') /\ queue'[k - 1] = queue[k]
  <2>1. \A i \in 1..n : ~Deletion(i) => pc'[queue[i].by] = "open" /\ job'[queue[i].by] = job[queue[i].by]
    BY DEF IInv, Queued
  <2> QED
    BY <2>1, TailQueued
<1>2. 1 \in 1..n /\ Deletion(1)
  BY <1>1 DEF Deletion
<1> HIDE DEF n
<1>3. ASSUME NEW p \in Objects PROVE Unmade(p)' /\ Kept(p)' /\ Shed(p)'
  <2>1. Unmade(p) /\ Kept(p) /\ Shed(p)
    BY DEF IInv
  <2>2. Unmade(p)'
    BY <2>1 DEF Unmade, Rests
  <2>3. Kept(p)'
    <3>0. SUFFICES ASSUME stage'[p] = "live", p \notin crossed
                 PROVE  \A i \in 1..Len(queue') :
                           queue'[i].kind = "open" /\ job[queue'[i].by].obj = p =>
                           \A k \in i..Len(queue') : queue'[k].kind = "open"
      <4>1. stage'[p] = "live" => stage[p] = "live"
        OBVIOUS
      <4>2. stage[p] = "live" /\ p \notin crossed => handle'[p] = None
        BY <1>2, <2>1 DEF Kept, Rests, n
      <4> QED
        BY <2>1, <4>1, <4>2 DEF Kept, Deletion
    <3>1. stage[p] = "live"
      BY <3>0
    <3>2. ASSUME NEW i \in 1..Len(queue'), queue'[i].kind = "open", job[queue'[i].by].obj = p,
                 NEW k \in i..Len(queue')
          PROVE  queue'[k].kind = "open"
      <4>1. i + 1 \in 1..n /\ queue'[i] = queue[i + 1]
        BY <1>1
      <4>2. k \in 1..Len(queue') /\ k + 1 \in (i + 1)..n /\ queue'[k] = queue[k + 1]
        BY <1>1
      <4>3. ~Deletion(i + 1) /\ job[queue[i + 1].by].obj = p
        BY <3>2, <4>1 DEF Deletion
      <4>4. ~Deletion(k + 1)
        BY <2>1, <3>0, <3>1, <4>1, <4>2, <4>3 DEF Kept, n
      <4> QED
        BY <4>2, <4>4 DEF Deletion
    <3> QED
      BY <3>2
  <2>4. Shed(p)'
    <3> SUFFICES ASSUME stage'[p] \in Rests, p \notin revived
                 PROVE  /\ ~creds[p]
                        /\ \A i \in 1..Len(queue') :
                              queue'[i].kind = "open" /\ job[queue'[i].by].obj = p
                                 /\ job[queue'[i].by].at = "account" =>
                              \E k \in i..Len(queue') : queue'[k].kind # "open"
      BY DEF Shed, Deletion, Rests
    <3>1. stage[p] \in Rests
      BY DEF Rests
    <3>2. ~creds[p]
      BY <2>1, <3>1 DEF Shed, Rests
    <3>3. ASSUME NEW i \in 1..Len(queue'), queue'[i].kind = "open", job[queue'[i].by].obj = p,
                 job[queue'[i].by].at = "account"
          PROVE  \E k \in i..Len(queue') : queue'[k].kind # "open"
      <4>1. i + 1 \in 1..n /\ queue'[i] = queue[i + 1] /\ ~Deletion(i + 1)
        BY <1>1, <3>3 DEF Deletion
      <4>2. PICK k \in (i + 1)..n : Deletion(k)
        BY <2>1, <3>1, <3>3, <4>1 DEF Shed, Rests, n
      <4>3. k \in 2..n /\ k - 1 \in i..Len(queue')
        BY <1>1, <4>2
      <4>4. queue'[k - 1].kind # "open"
        BY <1>1, <4>2, <4>3 DEF Deletion
      <4> QED
        BY <4>3, <4>4
    <3> QED
      BY <3>2, <3>3
  <2> QED
    BY <2>2, <2>3, <2>4
<1> QED
  BY <1>1, <1>3 DEF AllStand

LEMMA DeletesStep ==
  ASSUME IInv, Deletes
  PROVE  IInv'
<1>1. /\ queue # <<>> /\ Head(queue).kind \in {"wiping", "rewiping"} /\ conns = {} /\ rows' = {}
      /\ queue' = Tail(queue) /\ Resolves(Head(queue).kind, Head(queue).by)
      /\ UNCHANGED <<conns, handle, creds, pc, job, calls, revived, crossed>>
  BY DEF Deletes, tasks, history
<1>2. Head(queue).by \in Objects
  <2>1. Head(queue) \in Requests
    BY <1>1, QueueShrinks DEF IInv, TypeOK
  <2> QED
    BY <1>1, <2>1 DEF Requests
<1>3. /\ stage' \in [Objects -> Stages]
      /\ \A p \in Objects : \/ stage'[p] = stage[p]
                            \/ stage[p] = "wiping" /\ stage'[p] = "forget"
                            \/ stage[p] = "rewiping" /\ stage'[p] = "gone"
  BY <1>1, <1>2, ResolvesOne
<1>4. queue' \in Seq(Requests) /\ Queued' /\ AllStand'
  BY <1>1, <1>3, EmptiedStands
<1>5. TypeOK' /\ HandleIsOpen' /\ OneStoreEach' /\ BusyAt'
  BY <1>1, <1>3, <1>4 DEF IInv, TypeOK, HandleIsOpen, OneStoreEach, BusyAt
<1> QED
  BY <1>4, <1>5 DEF IInv, AllStand

LEMMA ClearsStep ==
  ASSUME IInv, Clearing, Clears
  PROVE  IInv'
<1> DEFINE o == Head(queue).by
<1>1. /\ queue # <<>> /\ Head(queue).kind = "clear" /\ rows' = {} /\ queue' = Tail(queue)
      /\ UNCHANGED <<stage, creds, pc, job, calls, revived, crossed>>
  BY DEF Clears, tasks, history
<1>2. PICK c \in Connections \ conns : conns' = conns \cup {c} /\ handle' = [handle EXCEPT ![o] = c]
  BY DEF Clears
<1>3. o \in Objects /\ stage[o] \in Rests
  <2>1. Head(queue) \in Requests /\ Head(queue) = queue[1] /\ 1 \in 1..Len(queue)
    BY <1>1, QueueShrinks DEF IInv, TypeOK
  <2> QED
    BY <1>1, <2>1 DEF Requests, Clearing, Rests
<1> HIDE DEF o
<1>4. /\ handle'[o] = c /\ \A p \in Objects \ {o} : handle'[p] = handle[p]
      /\ handle' \in [Objects -> Connections \cup {None}] /\ c # None
  BY <1>2, <1>3, NoneAssumption DEF IInv, TypeOK
<1>5. \A p \in Objects : handle'[p] = handle[p] \/ stage[p] \in Rests
  BY <1>3, <1>4
<1>6. queue' \in Seq(Requests) /\ Queued' /\ AllStand'
  BY <1>1, <1>5, EmptiedStands
<1>7. HandleIsOpen' /\ OneStoreEach'
  BY <1>2, <1>4 DEF IInv, HandleIsOpen, OneStoreEach
<1>8. TypeOK' /\ BusyAt'
  BY <1>1, <1>2, <1>4, <1>6 DEF IInv, TypeOK, BusyAt
<1> QED
  BY <1>6, <1>7, <1>8 DEF IInv, AllStand

LEMMA CollectedStep ==
  ASSUME IInv, Collected
  PROVE  IInv'
<1>1. UNCHANGED <<queue, rows, stage, creds, pc, job, calls, revived, crossed>>
  BY DEF Collected, tasks, history
<1>2. PICK c \in conns : /\ conns' = conns \ {c}
                         /\ handle' = [o \in Objects |-> IF handle[o] = c THEN None ELSE handle[o]]
  BY DEF Collected
<1>3. /\ handle' \in [Objects -> Connections \cup {None}]
      /\ \A o \in Objects : handle'[o] = IF handle[o] = c THEN None ELSE handle[o]
  BY <1>2 DEF IInv, TypeOK
<1>4. ASSUME NEW p \in Objects PROVE Unmade(p)' /\ Kept(p)' /\ Shed(p)'
  <2>1. Unmade(p) /\ Kept(p) /\ Shed(p)
    BY DEF IInv
  <2>2. Unmade(p)' /\ Kept(p)'
    BY <1>1, <1>3, <2>1 DEF Unmade, Kept, Deletion
  <2>3. Shed(p)'
    BY <1>1, <2>1 DEF Shed, Deletion
  <2> QED
    BY <2>2, <2>3
<1>5. HandleIsOpen' /\ OneStoreEach'
  BY <1>2, <1>3 DEF IInv, HandleIsOpen, OneStoreEach
<1>6. TypeOK' /\ Queued' /\ BusyAt'
  BY <1>1, <1>2, <1>3 DEF IInv, TypeOK, Queued, BusyAt, Deletion
<1> QED
  BY <1>4, <1>5, <1>6 DEF IInv

-----------------------------------------------------------------------------
LEMMA InitIInv == Init => IInv
<1> SUFFICES ASSUME Init PROVE IInv
  OBVIOUS
<1>1. /\ queue = <<>> /\ conns = {} /\ rows = {} /\ calls = 0 /\ revived = {} /\ crossed = {}
      /\ handle = [o \in Objects |-> None] /\ stage = [o \in Objects |-> "unmade"]
      /\ creds = [o \in Objects |-> FALSE] /\ pc = [t \in Tasks |-> "idle"]
      /\ job = [t \in Tasks |-> [kind |-> "load", obj |-> 1, at |-> "get", found |-> FALSE]]
  BY DEF Init
<1>2. 1 \in Objects /\ 0 \in 0..MaxCalls
  BY BoundAssumption DEF Objects
<1>3. [kind |-> "load", obj |-> 1, at |-> "get", found |-> FALSE] \in Jobs
  BY <1>2 DEF Jobs, Kinds, Loads, Places, Finds
<1>4. TypeOK
  BY <1>1, <1>2, <1>3 DEF TypeOK, Stages
<1>5. HandleIsOpen /\ OneStoreEach /\ Queued /\ BusyAt
  BY <1>1 DEF HandleIsOpen, OneStoreEach, Queued, BusyAt
<1>6. \A o \in Objects : Unmade(o) /\ Kept(o) /\ Shed(o)
  BY <1>1 DEF Unmade, Kept, Shed
<1> QED
  BY <1>4, <1>5, <1>6 DEF IInv

LEMMA StutterIInv == IInv /\ UNCHANGED vars => IInv'
<1> SUFFICES ASSUME IInv, UNCHANGED vars PROVE IInv'
  OBVIOUS
<1>1. UNCHANGED <<queue, conns, rows, handle, stage, creds, pc, job, calls, revived, crossed>>
  BY DEF vars, idb, tasks, history
<1>2. ASSUME NEW o \in Objects PROVE (Unmade(o) /\ Kept(o) /\ Shed(o))'
  <2>1. Unmade(o) /\ Kept(o) /\ Shed(o)
    BY DEF IInv
  <2>2. Unmade(o)'
    BY <1>1, <2>1 DEF Unmade
  <2>3. Kept(o)'
    BY <1>1, <2>1 DEF Kept, Deletion
  <2>4. Shed(o)'
    BY <1>1, <2>1 DEF Shed, Deletion
  <2> QED
    BY <2>2, <2>3, <2>4
<1> QED
  BY <1>1, <1>2 DEF IInv, TypeOK, HandleIsOpen, OneStoreEach, Queued, BusyAt, Deletion

\* A step puts or takes requests, and a profile that is being destroyed goes on
\* being so.
LEMMA ClearingKept ==
  ASSUME IInv, Clearing,
         \A p \in Objects : stage[p] \in Rests => stage'[p] \in Rests,
         \/ UNCHANGED queue
         \/ queue # <<>> /\ queue' = Tail(queue)
         \/ \E e \in Requests : queue' = Append(queue, e) /\ (e.kind = "clear" => stage'[e.by] \in Rests)
  PROVE  Clearing'
<1>1. queue \in Seq(Requests)
  BY DEF IInv, TypeOK
<1>2. SUFFICES ASSUME NEW i \in 1..Len(queue'), queue'[i].kind = "clear"
               PROVE  stage'[queue'[i].by] \in Rests
  BY DEF Clearing, Rests
<1>3. ASSUME NEW k \in 1..Len(queue), queue[k] = queue'[i] PROVE stage'[queue'[i].by] \in Rests
  <2>1. queue[k] \in Requests /\ stage[queue[k].by] \in Rests
    BY <1>1, <1>2, <1>3 DEF Clearing, Rests
  <2>2. queue[k].by \in Objects
    BY <1>2, <1>3, <2>1 DEF Requests
  <2> QED
    BY <1>3, <2>1, <2>2
<1>4. CASE UNCHANGED queue
  BY <1>3, <1>4
<1>5. CASE queue # <<>> /\ queue' = Tail(queue)
  <2>1. /\ Len(queue) \in Nat \ {0} /\ Len(queue') = Len(queue) - 1
        /\ queue'[i] = queue[i + 1]
    BY <1>1, <1>5, QueueShrinks
  <2>2. i + 1 \in 1..Len(queue)
    BY <2>1
  <2> QED
    BY <1>3, <2>1, <2>2
<1>6. ASSUME NEW e \in Requests, queue' = Append(queue, e), e.kind = "clear" => stage'[e.by] \in Rests
      PROVE  stage'[queue'[i].by] \in Rests
  <2>1. \/ i = Len(queue) + 1 /\ queue'[i] = e
        \/ i \in 1..Len(queue) /\ queue'[i] = queue[i]
    BY <1>1, <1>6, QueueGrows
  <2> QED
    BY <1>2, <1>3, <1>6, <2>1
<1> QED
  BY <1>4, <1>5, <1>6

\* Whatever a handler does to the queue is to ask for a connection.
LEMMA HandlersAsk ==
  ASSUME NEW t \in Tasks,
         (\E o \in Objects : AddAccount(o, t) \/ Load(o, t) \/ Save(o, t) \/ MailArrives(o, t))
            \/ Continue(t)
  PROVE  queue' = queue \/ queue' = Append(queue, [kind |-> "open", by |-> t])
<1>1. ASSUME NEW j, Access(t, j)
      PROVE  queue' = queue \/ queue' = Append(queue, [kind |-> "open", by |-> t])
  BY <1>1 DEF Access
<1>2. CASE \E o \in Objects : AddAccount(o, t) \/ Load(o, t) \/ Save(o, t) \/ MailArrives(o, t)
  BY <1>1, <1>2 DEF AddAccount, Load, Save, MailArrives, idb
<1>3. CASE Computed(t) \/ NotFound(t) \/ GoesOn(t)
  BY <1>1, <1>3 DEF Computed, NotFound, GoesOn, LoadEnds, Ends
<1>4. CASE Reopens(t) \/ RelaysRebuilt(t) \/ Loaded(t) \/ Stops(t)
  BY <1>4 DEF Reopens, RelaysRebuilt, Loaded, Stops, LoadEnds, Ends, idb
<1> QED
  BY <1>2, <1>3, <1>4 DEF Continue

LEMMA NextClearing == IInv /\ Clearing /\ [Next]_vars => Clearing'
<1> SUFFICES ASSUME IInv, Clearing, [Next]_vars PROVE Clearing'
  OBVIOUS
<1>1. stage \in [Objects -> Stages] /\ queue \in Seq(Requests)
  BY DEF IInv, TypeOK
<1>2. ASSUME NEW t \in Tasks,
             (\E o \in Objects : AddAccount(o, t) \/ Load(o, t) \/ Save(o, t) \/ MailArrives(o, t))
                \/ Continue(t)
      PROVE  Clearing'
  <2> DEFINE e == [kind |-> "open", by |-> t]
  <2>1. e \in Requests /\ e.kind # "clear"
    BY DEF Requests
  <2>2. \A p \in Objects : stage[p] \in Rests => stage'[p] \in Rests
    <3>1. CASE \E o \in Objects : AddAccount(o, t) \/ Load(o, t) \/ Save(o, t) \/ MailArrives(o, t)
      BY <1>1, <3>1 DEF AddAccount, Load, Save, MailArrives, Rests
    <3>2. CASE Continue(t)
      BY <3>2 DEF Continue, Computed, Reopens, NotFound, RelaysRebuilt, Loaded, GoesOn, Stops
    <3> QED
      BY <1>2, <3>1, <3>2
  <2>3. queue' = queue \/ queue' = Append(queue, e)
    BY <1>2, HandlersAsk
  <2> QED
    BY <2>1, <2>2, <2>3, ClearingKept
<1>3. ASSUME NEW o \in Objects, DestroyProfile(o) \/ DestroyAgain(o) \/ Forget(o) PROVE Clearing'
  <2>1. /\ \A p \in Objects : stage[p] \in Rests => stage'[p] \in Rests
        /\ DestroyAgain(o) => stage'[o] \in Rests
    BY <1>1, <1>3 DEF DestroyProfile, DestroyAgain, Forget, Rests
  <2>2. \/ UNCHANGED queue
        \/ \E k \in {"wiping", "rewiping"} : queue' = Append(queue, [kind |-> k, by |-> o])
        \/ queue' = Append(queue, [kind |-> "clear", by |-> o]) /\ DestroyAgain(o)
    BY <1>3 DEF DestroyProfile, WipeAccount, DestroyAgain, ClearsNow, AsksToClear, Forget
  <2>3. \A k \in {"wiping", "rewiping", "clear"} : [kind |-> k, by |-> o] \in Requests
    BY DEF Requests
  <2> QED
    BY <2>1, <2>2, <2>3, ClearingKept
<1>4. ASSUME NEW o \in Objects, GivesUp(o) PROVE Clearing'
  <2>1. UNCHANGED queue /\ \A p \in Objects : stage[p] \in Rests => stage'[p] \in Rests
    BY <1>1, <1>4 DEF GivesUp, Resolves, After, idb, Rests
  <2> QED
    BY <2>1, ClearingKept
<1>5. CASE Opens \/ Clears
  BY <1>5, ClearingKept DEF Opens, Clears
<1>6. CASE Deletes
  <2>1. \A p \in Objects : stage[p] \in Rests => stage'[p] \in Rests
    BY <1>1, <1>6 DEF Deletes, Resolves, After, Rests
  <2> QED
    BY <1>6, <2>1, ClearingKept DEF Deletes
<1>7. CASE Collected \/ UNCHANGED vars
  BY <1>7, ClearingKept DEF Collected, vars, idb
<1> QED
  BY <1>2, <1>3, <1>4, <1>5, <1>6, <1>7 DEF Next

LEMMA NextIInv == IInv /\ Clearing /\ Next => IInv'
<1> SUFFICES ASSUME IInv, Clearing, Next PROVE IInv'
  OBVIOUS
<1>1. ASSUME NEW o \in Objects, NEW t \in Tasks,
             AddAccount(o, t) \/ Load(o, t) \/ Save(o, t) \/ MailArrives(o, t)
      PROVE  IInv'
  BY <1>1, AddAccountStep, LoadSaveStep, MailArrivesStep
<1>2. ASSUME NEW t \in Tasks, Continue(t) PROVE IInv'
  BY <1>2, ComputedStep, ReopensStep, NotFoundStep, LoadedStep, GoesOnStep DEF Continue
<1>3. ASSUME NEW o \in Objects,
             DestroyProfile(o) \/ DestroyAgain(o) \/ Forget(o) \/ GivesUp(o)
      PROVE  IInv'
  BY <1>3, DestroyProfileStep, DestroyAgainStep, ForgetStep, GivesUpStep
<1>4. CASE Opens \/ Clears \/ Deletes \/ Collected
  BY <1>4, OpensStep, ClearsStep, DeletesStep, CollectedStep
<1> QED
  BY <1>1, <1>2, <1>3, <1>4 DEF Next

LEMMA Inductive == Spec => [](IInv /\ Clearing)
<1>1. Init => IInv /\ Clearing
  BY InitIInv DEF Init, Clearing
<1>2. IInv /\ Clearing /\ [Next]_vars => IInv' /\ Clearing'
  BY NextIInv, NextClearing, StutterIInv
<1> QED
  BY <1>1, <1>2, PTL DEF Spec

-----------------------------------------------------------------------------
\* Every variable of the database, the stores and the handlers keeps its type.
THEOREM TypeCorrect == Spec => []TypeOK
<1>1. IInv => TypeOK
  BY DEF IInv
<1> QED
  BY <1>1, Inductive, PTL

\* However many loads, writes and removals overlap, no store is left with a
\* connection that was closed.
THEOREM NoClosedHandle == Spec => []HandleIsOpen
<1>1. IInv => HandleIsOpen
  BY DEF IInv
<1> QED
  BY <1>1, Inductive, PTL

\* Once no deletion is pending any more, no account row of a destroyed profile
\* is left, unless a restore outlived the wipe.
THEOREM SecretsStayGone == Spec => []SecretsGone
<1>1. IInv => SecretsGone
  <2> SUFFICES ASSUME IInv, NEW o \in Objects,
                      stage[o] \in {"forget", "rewiping", "gone"}, o \notin revived,
                      \A i \in 1..Len(queue) : queue[i].kind = "open"
               PROVE  [kind |-> "account", by |-> o] \notin rows
    BY DEF SecretsGone
  <2> QED
    BY DEF IInv, Shed, Deletion
<1> QED
  BY <1>1, Inductive, PTL

\* A removal takes no row of a profile added after it, however long its
\* deletions wait.
THEOREM LaterProfileKept == Spec => LiveRowsKept
<1> DEFINE A == \A r \in rows : stage[r.by] = "live" /\ r.by \notin crossed => r \in rows'
<1>1. ASSUME IInv, Next PROVE A
  <2>1. CASE Deletes \/ Clears
    <3>1. queue \in Seq(Requests) /\ queue # <<>> /\ Head(queue).kind # "open"
      BY <1>1, <2>1 DEF IInv, TypeOK, Deletes, Clears
    <3>2. 1 \in 1..Len(queue) /\ Deletion(1)
      BY <3>1 DEF Deletion
    <3>3. \A r \in rows : r.by \in Objects
      BY <1>1 DEF IInv, TypeOK, Rows
    <3> QED
      BY <1>1, <3>2, <3>3 DEF IInv, Kept
  <2>2. CASE \E o \in Objects : DestroyAgain(o)
    <3>1. PICK o \in Objects : stage[o] \in {"wiping", "forget"}
      BY <2>2 DEF DestroyAgain
    <3>2. \A r \in rows : r.by \in Objects
      BY <1>1 DEF IInv, TypeOK, Rows
    <3> QED
      BY <1>1, <3>1, <3>2 DEF IInv, Kept
  <2>3. CASE ~(Deletes \/ Clears \/ \E o \in Objects : DestroyAgain(o))
    <3>1. rows \subseteq rows'
      <4>1. CASE \E o \in Objects, t \in Tasks :
                   AddAccount(o, t) \/ Load(o, t) \/ Save(o, t) \/ MailArrives(o, t)
        BY <4>1 DEF AddAccount, Load, Save, MailArrives, Access, idb
      <4>2. CASE \E t \in Tasks : Continue(t)
        <5> SUFFICES ASSUME NEW t \in Tasks, Continue(t)
                     PROVE  rows \subseteq rows'
          BY <4>2
        <5>1. CASE Computed(t) \/ Reopens(t) \/ NotFound(t)
          BY <5>1 DEF Computed, Reopens, NotFound, Access, LoadEnds, Ends, idb
        <5>2. CASE RelaysRebuilt(t) \/ Loaded(t) \/ GoesOn(t) \/ Stops(t)
          BY <5>2 DEF RelaysRebuilt, Loaded, GoesOn, Stops, Access, LoadEnds, Ends, idb
        <5> QED
          BY <5>1, <5>2 DEF Continue
      <4>3. CASE \E o \in Objects : DestroyProfile(o) \/ Forget(o) \/ GivesUp(o)
        BY <4>3 DEF DestroyProfile, WipeAccount, Forget, GivesUp, idb
      <4>4. CASE Opens \/ Collected
        BY <4>4 DEF Opens, Collected, idb
      <4> QED
        BY <1>1, <2>3, <4>1, <4>2, <4>3, <4>4 DEF Next
    <3> QED
      BY <3>1
  <2> QED
    BY <2>1, <2>2, <2>3
<1>2. ASSUME UNCHANGED vars PROVE A
  BY <1>2 DEF vars, idb
<1>3. IInv /\ [Next]_vars => [A]_vars
  BY <1>1, <1>2
<1> QED
  BY <1>3, Inductive, PTL DEF Spec, LiveRowsKept

-----------------------------------------------------------------------------
(* Nobody is forgotten *)

Asking == {"wiping", "rewiping"}

\* No request is answered: whoever begins to wait has put the new one.
LEMMA WaitersKept ==
  ASSUME IInv, NobodyForgotten, NEW e \in Requests,
         queue' = queue \/ queue' = Append(queue, e),
         \A t \in Tasks : pc'[t] = "open" =>
            pc[t] = "open" \/ (queue' # queue /\ e = [kind |-> "open", by |-> t]),
         \A o \in Objects : stage'[o] \in Asking =>
            stage'[o] = stage[o] \/ (queue' # queue /\ e = [kind |-> stage'[o], by |-> o])
  PROVE  NobodyForgotten'
<1>1. queue \in Seq(Requests)
  BY DEF IInv, TypeOK
<1>2. \A i \in 1..Len(queue) : i \in 1..Len(queue') /\ queue'[i] = queue[i]
  BY <1>1, QueueGrows
<1>3. queue' # queue => Len(queue') \in 1..Len(queue') /\ queue'[Len(queue')] = e
  BY <1>1, QueueGrows
<1>4. ASSUME NEW t \in Tasks, pc'[t] = "open"
      PROVE  \E i \in 1..Len(queue') : queue'[i] = [kind |-> "open", by |-> t]
  BY <1>2, <1>3, <1>4 DEF NobodyForgotten
<1>5. ASSUME NEW o \in Objects, stage'[o] \in Asking
      PROVE  \E i \in 1..Len(queue') : queue'[i] = [kind |-> stage'[o], by |-> o]
  BY <1>2, <1>3, <1>5 DEF NobodyForgotten, Asking
<1> QED
  BY <1>4, <1>5 DEF NobodyForgotten, Asking

LEMMA TailHolds ==
  ASSUME queue \in Seq(Requests), queue # <<>>, queue' = Tail(queue),
         NEW i \in 1..Len(queue), queue[i] # Head(queue)
  PROVE  \E k \in 1..Len(queue') : queue'[k] = queue[i]
<1>1. /\ Len(queue) \in Nat \ {0} /\ Len(queue') = Len(queue) - 1 /\ Head(queue) = queue[1]
      /\ \A k \in 1..Len(queue') : queue'[k] = queue[k + 1]
  BY QueueShrinks
<1>2. i # 1
  BY <1>1
<1>3. i - 1 \in 1..Len(queue') /\ queue'[i - 1] = queue[i]
  BY <1>1, <1>2
<1> QED
  BY <1>3

\* The head is answered, and nobody waits for it any more.
LEMMA AnsweredLeaves ==
  ASSUME IInv, NobodyForgotten, queue # <<>>, queue' = Tail(queue),
         \A t \in Tasks : pc'[t] = "open" =>
            pc[t] = "open" /\ Head(queue) # [kind |-> "open", by |-> t],
         \A o \in Objects : stage'[o] \in Asking =>
            stage'[o] = stage[o] /\ Head(queue) # [kind |-> stage[o], by |-> o]
  PROVE  NobodyForgotten'
<1>1. queue \in Seq(Requests)
  BY DEF IInv, TypeOK
<1>2. ASSUME NEW t \in Tasks, pc'[t] = "open"
      PROVE  \E k \in 1..Len(queue') : queue'[k] = [kind |-> "open", by |-> t]
  <2>1. PICK i \in 1..Len(queue) : queue[i] = [kind |-> "open", by |-> t]
    BY <1>2 DEF NobodyForgotten
  <2> QED
    BY <1>1, <1>2, <2>1, TailHolds
<1>3. ASSUME NEW o \in Objects, stage'[o] \in Asking
      PROVE  \E k \in 1..Len(queue') : queue'[k] = [kind |-> stage'[o], by |-> o]
  <2>1. PICK i \in 1..Len(queue) : queue[i] = [kind |-> stage[o], by |-> o]
    BY <1>3 DEF NobodyForgotten, Asking
  <2> QED
    BY <1>1, <1>3, <2>1, TailHolds
<1> QED
  BY <1>2, <1>3 DEF NobodyForgotten, Asking

LEMMA AccessWaits ==
  ASSUME IInv, NobodyForgotten, NEW t \in Tasks, NEW j \in Jobs, Access(t, j),
         \A o \in Objects : stage'[o] \in Asking => stage'[o] = stage[o]
  PROVE  NobodyForgotten'
<1> DEFINE e == [kind |-> "open", by |-> t]
<1>1. e \in Requests /\ pc \in [Tasks -> {"idle", "busy", "open", "answer"}]
  BY DEF Requests, IInv, TypeOK
<1>2. CASE queue' = queue /\ pc' = [pc EXCEPT ![t] = "answer"]
  BY <1>1, <1>2, WaitersKept
<1>3. CASE queue' = Append(queue, e) /\ pc' = [pc EXCEPT ![t] = "open"]
  <2>1. queue' # queue
    BY <1>1, <1>3, QueueGrows DEF IInv, TypeOK
  <2>2. \A u \in Tasks : pc'[u] = "open" =>
           pc[u] = "open" \/ (queue' # queue /\ e = [kind |-> "open", by |-> u])
    BY <1>1, <1>3, <2>1
  <2> QED
    BY <1>1, <1>3, <2>2, WaitersKept
<1> QED
  BY <1>2, <1>3 DEF Access

\* Nothing is asked for, and nobody begins to wait.
LEMMA QuietWaits ==
  ASSUME IInv, NobodyForgotten, UNCHANGED queue,
         \A t \in Tasks : pc'[t] = "open" => pc[t] = "open",
         \A o \in Objects : stage'[o] \in Asking => stage'[o] = stage[o]
  PROVE  NobodyForgotten'
BY DEF NobodyForgotten, Asking

LEMMA HandlersForgotten ==
  ASSUME IInv, NobodyForgotten, NEW t \in Tasks,
         (\E o \in Objects : AddAccount(o, t) \/ Load(o, t) \/ Save(o, t) \/ MailArrives(o, t))
            \/ Continue(t)
  PROVE  NobodyForgotten'
<1>0. /\ pc \in [Tasks -> {"idle", "busy", "open", "answer"}] /\ job[t] \in Jobs
      /\ stage \in [Objects -> Stages]
  BY DEF IInv, TypeOK
<1>1. ASSUME NEW o \in Objects, AddAccount(o, t) \/ Load(o, t) \/ Save(o, t) PROVE NobodyForgotten'
  <2>1. PICK k \in {"restore", "load", "save"}, a \in {"get", "account"} :
           Access(t, [kind |-> k, obj |-> o, at |-> a, found |-> FALSE])
    BY <1>1 DEF AddAccount, Load, Save
  <2>2. [kind |-> k, obj |-> o, at |-> a, found |-> FALSE] \in Jobs
    BY DEF Jobs, Kinds, Loads, Places, Finds, Writes
  <2>3. \A p \in Objects : stage'[p] \in Asking => stage'[p] = stage[p]
    BY <1>0, <1>1 DEF AddAccount, Load, Save, Asking
  <2> QED
    BY <2>1, <2>2, <2>3, AccessWaits
<1>2. ASSUME NEW o \in Objects, MailArrives(o, t) PROVE NobodyForgotten'
  BY <1>0, <1>2, QuietWaits DEF MailArrives, idb
<1>3. CASE \E j \in Jobs : Access(t, j) /\ UNCHANGED stage
  BY <1>3, AccessWaits
<1>4. CASE UNCHANGED <<queue, stage>> /\ pc' \in {[pc EXCEPT ![t] = "idle"], [pc EXCEPT ![t] = "busy"]}
  BY <1>0, <1>4, QuietWaits
<1>5. CASE Reopens(t)
  <2> DEFINE e == [kind |-> "open", by |-> t]
  <2>1. e \in Requests /\ queue' = Append(queue, e) /\ pc' = [pc EXCEPT ![t] = "open"] /\ UNCHANGED stage
    BY <1>5 DEF Requests, Reopens
  <2>2. queue' # queue
    BY <2>1, QueueGrows DEF IInv, TypeOK
  <2>3. \A u \in Tasks : pc'[u] = "open" =>
           pc[u] = "open" \/ (queue' # queue /\ e = [kind |-> "open", by |-> u])
    BY <1>0, <2>1, <2>2
  <2> QED
    BY <2>1, <2>3, WaitersKept
<1>6. CASE Computed(t)
  BY <1>0, <1>3, <1>4, <1>6 DEF Computed, Ends
<1>7. CASE NotFound(t)
  <2>1. [job[t] EXCEPT !.at = "any"] \in Jobs
    BY <1>0 DEF Jobs, Places, Finds
  <2> QED
    BY <1>3, <1>4, <1>7, <2>1 DEF NotFound, LoadEnds, Ends
<1>8. CASE GoesOn(t)
  <2>1. [job[t] EXCEPT !.at = "chat"] \in Jobs /\ [job[t] EXCEPT !.at = "contact"] \in Jobs
    BY <1>0 DEF Jobs, Places, Writes
  <2> QED
    BY <1>3, <1>8, <2>1 DEF GoesOn
<1>9. CASE RelaysRebuilt(t) \/ Loaded(t) \/ Stops(t)
  BY <1>4, <1>9 DEF RelaysRebuilt, Loaded, LoadEnds, Stops, Ends, idb
<1> QED
  BY <1>1, <1>2, <1>5, <1>6, <1>7, <1>8, <1>9 DEF Continue

LEMMA RemovalForgotten ==
  ASSUME IInv, NobodyForgotten, NEW o \in Objects,
         DestroyProfile(o) \/ DestroyAgain(o) \/ Forget(o) \/ GivesUp(o)
  PROVE  NobodyForgotten'
<1>0. stage \in [Objects -> Stages] /\ queue \in Seq(Requests)
  BY DEF IInv, TypeOK
<1>1. ASSUME NEW s \in Asking, queue' = Append(queue, [kind |-> s, by |-> o]),
             stage' = [stage EXCEPT ![o] = s], UNCHANGED pc
      PROVE  NobodyForgotten'
  <2> DEFINE e == [kind |-> s, by |-> o]
  <2>1. e \in Requests
    BY DEF Requests, Asking
  <2>2. queue' # queue
    BY <1>0, <1>1, <2>1, QueueGrows
  <2>3. \A p \in Objects : stage'[p] \in Asking =>
           stage'[p] = stage[p] \/ (queue' # queue /\ e = [kind |-> stage'[p], by |-> p])
    BY <1>0, <1>1, <2>2
  <2> QED
    BY <1>1, <2>1, <2>3, WaitersKept
<1>2. CASE DestroyProfile(o) \/ Forget(o)
  BY <1>1, <1>2 DEF DestroyProfile, WipeAccount, Forget, tasks, Asking
<1>3. CASE GivesUp(o)
  <2>1. UNCHANGED <<queue, pc>> /\ stage' = [stage EXCEPT ![o] = After(stage[o])]
    BY <1>0, <1>3 DEF GivesUp, Resolves, idb, tasks
  <2>2. \A p \in Objects : stage'[p] \in Asking => stage'[p] = stage[p]
    BY <1>0, <2>1 DEF After, Asking
  <2> QED
    BY <2>1, <2>2, QuietWaits
<1>4. CASE DestroyAgain(o)
  <2> DEFINE e == [kind |-> "clear", by |-> o]
  <2>1. e \in Requests
    BY DEF Requests
  <2>2. (queue' = queue \/ queue' = Append(queue, e)) /\ UNCHANGED <<stage, pc>>
    BY <1>4 DEF DestroyAgain, ClearsNow, AsksToClear, tasks
  <2> QED
    BY <2>1, <2>2, WaitersKept
<1> QED
  BY <1>2, <1>3, <1>4

LEMMA AnswersForgotten ==
  ASSUME IInv, NobodyForgotten, Opens \/ Clears \/ Deletes
  PROVE  NobodyForgotten'
<1>0. /\ pc \in [Tasks -> {"idle", "busy", "open", "answer"}] /\ stage \in [Objects -> Stages]
      /\ queue \in Seq(Requests)
  BY DEF IInv, TypeOK
<1>1. CASE Opens
  <2>1. /\ queue # <<>> /\ queue' = Tail(queue) /\ Head(queue).kind = "open" /\ UNCHANGED stage
        /\ pc' = [pc EXCEPT ![Head(queue).by] = "answer"]
    BY <1>1 DEF Opens
  <2>2. \A t \in Tasks : pc'[t] = "open" =>
           pc[t] = "open" /\ Head(queue) # [kind |-> "open", by |-> t]
    BY <1>0, <2>1
  <2>3. \A o \in Objects : stage'[o] \in Asking =>
           stage'[o] = stage[o] /\ Head(queue) # [kind |-> stage[o], by |-> o]
    BY <2>1 DEF Asking
  <2> QED
    BY <2>1, <2>2, <2>3, AnsweredLeaves
<1>2. CASE Deletes
  <2> DEFINE r == Head(queue)
  <2>1. /\ queue # <<>> /\ queue' = Tail(queue) /\ r.kind # "open" /\ UNCHANGED pc
        /\ Resolves(r.kind, r.by)
    BY <1>2 DEF Deletes, tasks
  <2>2. \A t \in Tasks : pc'[t] = "open" =>
           pc[t] = "open" /\ r # [kind |-> "open", by |-> t]
    BY <2>1
  <2>3. \A o \in Objects : stage'[o] \in Asking =>
           stage'[o] = stage[o] /\ r # [kind |-> stage[o], by |-> o]
    BY <1>0, <2>1 DEF Resolves, After, Asking
  <2> QED
    BY <2>1, <2>2, <2>3, AnsweredLeaves
<1>3. CASE Clears
  <2>1. /\ queue # <<>> /\ queue' = Tail(queue) /\ Head(queue).kind = "clear"
        /\ UNCHANGED <<stage, pc>>
    BY <1>3 DEF Clears, tasks
  <2>2. \A o \in Objects : stage'[o] \in Asking =>
           stage'[o] = stage[o] /\ Head(queue) # [kind |-> stage[o], by |-> o]
    BY <2>1 DEF Asking
  <2> QED
    BY <2>1, <2>2, AnsweredLeaves
<1> QED
  BY <1>1, <1>2, <1>3

\* However many requests are made, answered and given up, whoever waits for the
\* database has a request before it.
THEOREM NobodyIsForgotten == Spec => []NobodyForgotten
<1>1. Init => NobodyForgotten
  BY DEF Init, NobodyForgotten
<1>2. IInv /\ NobodyForgotten /\ [Next]_vars => NobodyForgotten'
  <2> SUFFICES ASSUME IInv, NobodyForgotten, [Next]_vars PROVE NobodyForgotten'
    OBVIOUS
  <2>1. CASE Collected
    BY <2>1, QuietWaits DEF Collected, tasks
  <2>2. CASE UNCHANGED vars
    BY <2>2, QuietWaits DEF vars, idb, tasks
  <2> QED
    BY <2>1, <2>2, HandlersForgotten, RemovalForgotten, AnswersForgotten DEF Next
<1> QED
  BY <1>1, <1>2, Inductive, PTL DEF Spec
=============================================================================
