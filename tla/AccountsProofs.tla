--------------------------- MODULE AccountsProofs ---------------------------
(***************************************************************************)
(* For any number of slots, accounts, requests and passwords: EventsOnce,  *)
(* TypeOK, SlotsListed, PasswordPinned and KeyKept.  IInv, about the slots *)
(* and who hears an account, is inductive alone; the rest is the inductive *)
(* PInv, proved one object at a time: a step concerns one object, and says *)
(* nothing of the others.                                                  *)
(***************************************************************************)
EXTENDS Accounts, WellFoundedInduction, FiniteSetTheorems, TLAPS

\* Slots and objects are only ever added, and numbers are not used twice.
Grows ==
    /\ metas' = metas
    /\ nextId' \in Nat /\ nextId <= nextId' /\ made' \in 0..MaxAccounts /\ made <= made'
    /\ slots' \subseteq MadeSlots' /\ slots' \subseteq slots \cup (Slots \ MadeSlots)
    /\ accounts' \subseteq accounts \cup ((made + 1)..made')

\* No wipe is forgotten while its object is in the map.
StillWiped == \A a \in accounts' : Wiped(a) => Wiped(a)'

USE NoneAssumption, BoundAssumption DEF Objects

-----------------------------------------------------------------------------
\* The shapes of a step

\* Nothing happens to the slots' accounts and to who hears them.
LEMMA Calm ==
  ASSUME IInv, Grows, UNCHANGED <<account, unsubs, hears>>, JobsMade', StillWiped
  PROVE  IInv'
<1>1. MadeSlots \subseteq MadeSlots' /\ 1..made \subseteq 1..made'
  BY DEF IInv, SlotsMade, MadeSlots, Grows, Slots
<1>2. SlotsMade'
  BY <1>1 DEF IInv, SlotsMade, Grows
<1>3. ASSUME NEW s \in slots', account[s] \in accounts', ~Wiped(account[s])'
      PROVE  s \in hears[account[s]]
  <2>1. account[s] \in 1..made /\ s \in MadeSlots
    BY <1>3 DEF IInv, SlotsMade, Grows, MadeSlots
  <2>2. s \in slots /\ account[s] \in accounts
    BY <1>3, <2>1 DEF Grows, IInv, SlotsMade
  <2>3. ~Wiped(account[s])
    BY <1>3 DEF StillWiped
  <2> QED
    BY <2>2, <2>3 DEF IInv, Heard
<1>4. Heard'
  <2>1. \A s \in slots' : account'[s] \in accounts' /\ ~Wiped(account[s])' => s \in hears'[account'[s]]
    BY <1>3
  <2> QED
    BY <2>1 DEF IInv, Heard, Wiped
<1> QED
  BY <1>2, <1>4 DEF IInv

\* A slot gets its account and its handlers.
LEMMA Wire ==
  ASSUME IInv, NEW s \in MadeSlots, NEW a \in 1..made, WireEvents(s, a),
         UNCHANGED <<metas, nextId, made, slots, accounts>>, JobsMade', StillWiped
  PROVE  IInv'
<1>1. a \in Objects /\ a # None /\ s \in Slots /\ MadeSlots' = MadeSlots
  BY DEF IInv, SlotsMade, MadeSlots
<1>2. /\ account' = [account EXCEPT ![s] = a] /\ unsubs' = account'
      /\ \A b \in Objects : hears'[b] = IF b = a THEN hears[b] \cup {s}
                                        ELSE IF b = account[s] THEN hears[b] \ {s} ELSE hears[b]
      /\ hears' \in [Objects -> SUBSET Slots]
  BY <1>1 DEF WireEvents, IInv, SlotsMade, Heard
<1>3. account \in [Slots -> Objects \cup {None}]
  BY DEF IInv, SlotsMade
<1>4. SlotsMade'
  BY <1>1, <1>2, <1>3 DEF IInv, SlotsMade
<1>5. ASSUME NEW b \in Objects, NEW t \in hears'[b] PROVE b = account'[t]
  <2>1. t \in Slots
    BY <1>2
  <2>2. CASE t = s
    BY <1>1, <1>2, <1>3, <2>2 DEF IInv, Heard
  <2>3. CASE t # s
    <3>1. t \in hears[b]
      BY <1>2, <2>3
    <3> QED
      BY <1>2, <1>3, <2>1, <2>3, <3>1 DEF IInv, Heard
  <2> QED
    BY <2>2, <2>3
<1>6. ASSUME NEW t \in slots, NEW b \in accounts, account'[t] = b, ~Wiped(b)'
      PROVE  t \in hears'[b]
  <2>1. CASE t = s
    BY <1>1, <1>2, <1>3, <1>6, <2>1
  <2>2. CASE t # s
    <3>1. t \in Slots /\ account[t] = b /\ b \in Objects
      BY <1>2, <1>3, <1>6, <2>2 DEF IInv, SlotsMade, MadeSlots
    <3>2. ~Wiped(b)
      BY <1>6 DEF StillWiped
    <3>3. t \in hears[b]
      BY <1>6, <3>1, <3>2 DEF IInv, Heard
    <3> QED
      BY <1>2, <2>2, <3>1, <3>3
  <2> QED
    BY <2>1, <2>2
<1>7. Heard'
  <2>1. \A t \in slots' : account'[t] \in accounts' /\ ~Wiped(account[t])' => t \in hears'[account'[t]]
    BY <1>6 DEF Wiped
  <2> QED
    BY <1>2, <1>5, <2>1 DEF Heard, Wiped
<1> QED
  BY <1>4, <1>7 DEF IInv

\* Nothing IInv speaks of changes.
LEMMA Aside ==
  ASSUME IInv, UNCHANGED <<metas, slots, nextId, account, unsubs, made, accounts, hears, pc, job>>
  PROVE  IInv'
BY DEF IInv, SlotsMade, MadeSlots, JobsMade, Shaped, Heard, Wiped

\* A request goes to its next await point, with job j.
LEMMA Moves ==
  ASSUME IInv, NEW p \in Procs, NEW st \in Steps, NEW j, Shaped(j),
         pc' = [pc EXCEPT ![p] = st], job' = [job EXCEPT ![p] = j],
         nextId' \in Nat, nextId <= nextId', made' \in Nat, made <= made',
         st # "idle" => j.slot \in MadeSlots' /\ j.acc \in 1..made'
  PROVE  JobsMade' /\ (pc[p] # "wipe" => StillWiped)
<1>1. /\ pc \in [Procs -> Steps] /\ job = [q \in Procs |-> job[q]]
      /\ \A q \in Procs : Shaped(job[q])
      /\ \A q \in Procs : pc[q] # "idle" => job[q].slot \in MadeSlots /\ job[q].acc \in 1..made
  BY DEF IInv, JobsMade
<1>2. pc' \in [Procs -> Steps] /\ job' = [q \in Procs |-> IF q = p THEN j ELSE job[q]]
  BY <1>1
<1>3. MadeSlots \subseteq MadeSlots' /\ 1..made \subseteq 1..made'
  BY DEF IInv, SlotsMade, MadeSlots, Slots
<1>4. \A q \in Procs : pc'[q] = (IF q = p THEN st ELSE pc[q]) /\ job'[q] = (IF q = p THEN j ELSE job[q])
  BY <1>1, <1>2
<1>5. \A q \in Procs : Shaped(job'[q])
  BY <1>1, <1>4
<1>6. \A q \in Procs : pc'[q] # "idle" => job'[q].slot \in MadeSlots' /\ job'[q].acc \in 1..made'
  BY <1>1, <1>3, <1>4
<1>7. job' = [q \in Procs |-> job'[q]]
  BY <1>2
<1>8. JobsMade'
  BY <1>2, <1>5, <1>6, <1>7 DEF JobsMade, Shaped
<1>9. pc[p] # "wipe" => StillWiped
  BY <1>4 DEF StillWiped, Wiped
<1> QED
  BY <1>8, <1>9

LEMMA MovesOn ==
  ASSUME IInv, NEW p \in Procs, NEW st \in Steps, NEW op, NEW s, NEW a, NEW n, Goto(p, st, op, s, a, n),
         nextId' \in Nat, nextId <= nextId', made' \in Nat, made <= made',
         s \in MadeSlots', a \in 1..made'
  PROVE  JobsMade' /\ (pc[p] # "wipe" => StillWiped)
<1> DEFINE j == [op |-> op, slot |-> s, acc |-> a, key |-> None, call |-> n]
<1>1. pc' = [pc EXCEPT ![p] = st] /\ job' = [job EXCEPT ![p] = j]
  BY DEF Goto
<1>2. Shaped(j) /\ j.slot = s /\ j.acc = a
  BY DEF Shaped
<1> HIDE DEF j
<1>3. j.slot \in MadeSlots' /\ j.acc \in 1..made'
  BY <1>2
<1> QED
  BY <1>1, <1>2, <1>3, Moves

LEMMA MovesOff ==
  ASSUME IInv, NEW p \in Procs, Ends(p), UNCHANGED <<nextId, made>>
  PROVE  JobsMade' /\ (pc[p] # "wipe" => StillWiped)
<1>1. pc' = [pc EXCEPT ![p] = "idle"] /\ job' = [job EXCEPT ![p] = NoJob]
  BY DEF Ends
<1>2. Shaped(NoJob) /\ "idle" \in Steps
  BY DEF Shaped, NoJob, Steps
<1>3. nextId' \in Nat /\ nextId <= nextId' /\ made' \in Nat /\ made <= made'
  BY DEF IInv, SlotsMade
<1> QED
  BY <1>1, <1>2, <1>3, Moves

Kept == UNCHANGED <<metas, slots, nextId, made, accounts>>

LEMMA KeptGrows == ASSUME IInv, Kept PROVE Grows
BY DEF Kept, Grows, IInv, SlotsMade, MadeSlots

\* A request moves on, or ends, and the slots stay as they are.
LEMMA MovesKeeps ==
  ASSUME IInv, Kept, UNCHANGED <<account, unsubs, hears>>, NEW p \in Procs, pc[p] # "wipe",
         NEW st \in Steps, NEW op, NEW s \in MadeSlots, NEW a \in 1..made, NEW n,
         Goto(p, st, op, s, a, n)
  PROVE  IInv'
<1>1. Grows /\ UNCHANGED <<nextId, made>> /\ nextId \in Nat /\ made \in Nat
  BY KeptGrows DEF Kept, IInv, SlotsMade
<1>2. s \in MadeSlots' /\ a \in 1..made' /\ nextId <= nextId' /\ made <= made'
  BY <1>1 DEF MadeSlots
<1>3. JobsMade' /\ StillWiped
  BY <1>1, <1>2, MovesOn
<1> QED
  BY <1>1, <1>3, Calm

LEMMA EndsKeeps ==
  ASSUME IInv, Kept, UNCHANGED <<account, unsubs, hears>>, NEW p \in Procs, pc[p] # "wipe", Ends(p)
  PROVE  IInv'
BY KeptGrows, MovesOff, Calm DEF Kept

LEMMA AttachKeeps ==
  ASSUME IInv, Kept, NEW p \in Procs, pc[p] # "wipe", NEW s \in MadeSlots, NEW a \in 1..made,
         WireEvents(s, a), Ends(p) \/ Goto(p, "io", "configure", s, a, 0)
  PROVE  IInv'
<1>1. UNCHANGED <<metas, nextId, made, slots, accounts>> /\ nextId \in Nat /\ made \in Nat
  BY DEF Kept, IInv, SlotsMade
<1>2. s \in MadeSlots' /\ a \in 1..made' /\ nextId <= nextId' /\ made <= made' /\ "io" \in Steps
  BY <1>1 DEF MadeSlots, Steps
<1>3. JobsMade' /\ StillWiped
  BY <1>1, <1>2, MovesOff, MovesOn
<1> QED
  BY <1>1, <1>3, Wire

LEMMA GoOnKeeps ==
  ASSUME IInv, Kept, NEW p \in Procs, pc[p] # "wipe", NEW s \in MadeSlots, NEW a \in 1..made,
         NEW n, NEW k, NEW live, GoOn(p, s, a, n, k, live)
  PROVE  IInv'
<1>1. CASE k = None
  <2>1. Goto(p, "keys", "configure", s, a, n) /\ UNCHANGED <<account, unsubs, hears>>
    BY <1>1 DEF GoOn
  <2> QED
    BY <2>1, MovesKeeps DEF Steps
<1>2. CASE k # None
  <2>1. WireEvents(s, a) /\ (Ends(p) \/ Goto(p, "io", "configure", s, a, 0))
    BY <1>2 DEF GoOn, Attach
  <2> QED
    BY <2>1, AttachKeeps
<1> QED
  BY <1>1, <1>2

\* A slot is dropped.
LEMMA DropKeeps ==
  ASSUME IInv, NEW s \in Slots, Drop(s), UNCHANGED <<metas, made, accounts>>, JobsMade', StillWiped
  PROVE  IInv'
<1>1. /\ slots' = slots \ {s} /\ UNCHANGED <<nextId, account, unsubs>>
      /\ hears' = [a \in Objects |-> IF a = unsubs[s] THEN hears[a] \ {s} ELSE hears[a]]
  BY DEF Drop
<1>2. SlotsMade'
  BY <1>1 DEF IInv, SlotsMade, MadeSlots
<1>3. /\ hears' \in [Objects -> SUBSET Slots]
      /\ \A a \in Objects : hears'[a] \subseteq hears[a] /\ hears[a] \subseteq hears'[a] \cup {s}
  BY <1>1 DEF IInv, Heard
<1>4. ASSUME NEW t \in slots', NEW b \in accounts, account[t] = b, ~Wiped(b)' PROVE t \in hears'[b]
  <2>1. b \in Objects /\ t \in slots /\ t # s
    BY <1>1 DEF IInv, SlotsMade
  <2>2. ~Wiped(b)
    BY <1>4 DEF StillWiped
  <2> QED
    BY <1>3, <1>4, <2>1, <2>2 DEF IInv, Heard
<1>5. Heard'
  <2>1. \A t \in slots' : account'[t] \in accounts' /\ ~Wiped(account[t])' => t \in hears'[account'[t]]
    BY <1>1, <1>4 DEF Wiped
  <2>2. \A a \in Objects : \A t \in hears'[a] : a = account'[t]
    BY <1>1, <1>3 DEF IInv, Heard
  <2> QED
    BY <1>3, <2>1, <2>2 DEF Heard, Wiped
<1> QED
  BY <1>2, <1>5 DEF IInv

-----------------------------------------------------------------------------
\* Slots

LEMMA AddAccountStep == ASSUME IInv, AddAccount PROVE IInv'
<1>1. /\ nextId \in Slots /\ nextId' = nextId + 1 /\ slots' = slots \cup {nextId}
      /\ UNCHANGED <<metas, account, unsubs, made, accounts, hears, pc, job>>
  BY DEF AddAccount, object, process
<1>2. Grows
  BY <1>1 DEF Grows, MadeSlots, IInv, SlotsMade, Slots
<1>3. MadeSlots \subseteq MadeSlots'
  BY <1>1 DEF MadeSlots, Slots
<1>4. JobsMade' /\ StillWiped
  BY <1>1, <1>3 DEF IInv, JobsMade, Shaped, StillWiped, Wiped
<1> QED
  BY <1>1, <1>2, <1>4, Calm

LEMMA ReadyStep == ASSUME IInv, Ready PROVE IInv'
<1>1. /\ nextId = Len(metas) + 1
      /\ IF metas = <<>> THEN slots' = {1} /\ nextId' = 2 ELSE UNCHANGED <<slots, nextId>>
      /\ UNCHANGED <<metas, account, unsubs, made, accounts, hears, pc, job>>
  BY DEF Ready, object, process
<1>2. CASE metas = <<>>
  <2>1. nextId = 1 /\ nextId' = 2 /\ slots' = {1} /\ 1 \in Slots
    BY <1>1, <1>2 DEF Slots
  <2>2. MadeSlots = {}
    BY <2>1 DEF MadeSlots, Slots
  <2>3. 1 \in MadeSlots'
    BY <2>1 DEF MadeSlots
  <2>4. Grows
    BY <1>1, <2>1, <2>2, <2>3 DEF Grows, IInv, SlotsMade
  <2>5. JobsMade' /\ StillWiped
    BY <1>1, <2>2 DEF IInv, JobsMade, Shaped, StillWiped, Wiped
  <2> QED
    BY <1>1, <2>4, <2>5, Calm
<1>3. CASE metas # <<>>
  BY <1>1, <1>3, Aside
<1> QED
  BY <1>2, <1>3

LEMMA RemoveAccountStep ==
  ASSUME IInv, NEW p \in Procs, NEW s \in Slots, RemoveAccount(p, s)
  PROVE  IInv'
<1>1. pc[p] = "idle" /\ s \in slots /\ s \in MadeSlots /\ UNCHANGED metas
  BY DEF RemoveAccount, IInv, SlotsMade
<1>2. CASE account[s] = None
  <2>1. Drop(s) /\ UNCHANGED <<made, accounts, pc, job, nextId>>
    BY <1>1, <1>2 DEF RemoveAccount, process, Drop
  <2>2. JobsMade' /\ StillWiped
    BY <2>1 DEF IInv, JobsMade, Shaped, StillWiped, Wiped, MadeSlots
  <2> QED
    BY <1>1, <2>1, <2>2, DropKeeps
<1>3. CASE account[s] # None /\ account[s] \notin accounts
  <2>1. Goto(p, "rewipe", "remove", s, account[s], 0) /\ Kept /\ UNCHANGED <<account, unsubs, hears>>
    BY <1>1, <1>3 DEF RemoveAccount, facade, object, Kept
  <2>2. account[s] \in 1..made /\ "rewipe" \in Steps
    BY <1>1, <1>3 DEF IInv, SlotsMade, MadeSlots, Steps
  <2> QED
    BY <1>1, <2>1, <2>2, MovesKeeps
<1>4. CASE account[s] # None /\ account[s] \in accounts
  <2> PICK a \in 1..made : a = account[s]
    BY <1>1, <1>4 DEF IInv, SlotsMade, MadeSlots
  <2>1. /\ Goto(p, "wipe", "remove", s, a, 0) /\ hears' = [hears EXCEPT ![a] = {}]
        /\ Kept /\ UNCHANGED <<account, unsubs>>
    BY <1>1, <1>4 DEF RemoveAccount, facade, Destroy, Kept
  <2>2. a \in 1..made /\ a \in Objects /\ "wipe" \in Steps /\ nextId \in Nat /\ made \in Nat
    BY <1>1, <1>4 DEF IInv, SlotsMade, MadeSlots, Steps
  <2>3. UNCHANGED <<metas, slots, nextId, made, accounts>> /\ nextId <= nextId' /\ made <= made'
    BY <2>1, <2>2 DEF Kept
  <2>4. JobsMade' /\ StillWiped
    BY <1>1, <2>1, <2>2, <2>3, MovesOn DEF MadeSlots
  <2>5. Wiped(a)'
    BY <2>1 DEF Goto, Wiped, IInv, JobsMade
  <2>6. SlotsMade'
    BY <2>1, <2>3 DEF IInv, SlotsMade, MadeSlots
  <2>7. ASSUME NEW t \in slots, NEW b \in accounts, account[t] = b, ~Wiped(b)' PROVE t \in hears'[b]
    <3>1. b # a /\ ~Wiped(b) /\ b \in Objects
      BY <2>3, <2>5, <2>4, <2>7 DEF StillWiped, IInv, SlotsMade
    <3> QED
      BY <2>1, <2>7, <3>1 DEF IInv, Heard
  <2>8. Heard'
    <3>1. \A t \in slots' : account'[t] \in accounts' /\ ~Wiped(account[t])' => t \in hears'[account'[t]]
      BY <2>1, <2>3, <2>7 DEF Wiped
    <3>2. hears' \in [Objects -> SUBSET Slots] /\ \A b \in Objects : hears'[b] \subseteq hears[b]
      BY <2>1, <2>2 DEF IInv, Heard
    <3>3. \A b \in Objects : \A t \in hears'[b] : b = account'[t]
      BY <2>1, <3>2 DEF IInv, Heard
    <3> QED
      BY <3>1, <3>2, <3>3 DEF Heard, Wiped
  <2> QED
    BY <2>4, <2>6, <2>8 DEF IInv
<1> QED
  BY <1>2, <1>3, <1>4

LEMMA DeregisterStep == ASSUME IInv, NEW p \in Procs, Deregister(p) PROVE IInv'
<1>1. /\ pc[p] = "wipe" /\ accounts' = accounts \ {job[p].acc} /\ pc' = [pc EXCEPT ![p] = "rewipe"]
      /\ UNCHANGED <<metas, slots, nextId, account, unsubs, made, hears, job>>
  BY DEF Deregister, facade
<1>2. /\ pc' \in [Procs -> Steps]
      /\ \A q \in Procs : pc'[q] = (IF q = p THEN "rewipe" ELSE pc[q])
  BY <1>1 DEF IInv, JobsMade, Steps
<1>3. JobsMade'
  BY <1>1, <1>2 DEF IInv, JobsMade, Shaped, MadeSlots
<1>4. StillWiped
  BY <1>1, <1>2 DEF StillWiped, Wiped
<1>5. Grows
  BY <1>1 DEF Grows, IInv, SlotsMade, MadeSlots
<1> QED
  BY <1>1, <1>3, <1>4, <1>5, Calm

LEMMA RemoveEndsStep == ASSUME IInv, NEW p \in Procs, RemoveEnds(p) PROVE IInv'
<1>1. /\ pc[p] = "rewipe" /\ Drop(job[p].slot) /\ Ends(p) /\ UNCHANGED <<metas, nextId, made, accounts>>
  BY DEF RemoveEnds, Drop
<1>2. job[p].slot \in Slots
  BY <1>1 DEF IInv, JobsMade, MadeSlots
<1>3. JobsMade' /\ StillWiped
  BY <1>1, MovesOff
<1> QED
  BY <1>1, <1>2, <1>3, DropKeeps

-----------------------------------------------------------------------------
\* Configuration

LEMMA FoundMade ==
  ASSUME IInv, NEW e, NEW a \in FindAccountByEmail(e)
  PROVE  a \in 1..made /\ a \in Objects
BY DEF FindAccountByEmail, Found, IInv, SlotsMade

\* A new object enters the map, and the request goes on with it.
LEMMA ConstructKeeps ==
  ASSUME IInv, NEW p \in Procs, pc[p] = "idle", NEW s \in MadeSlots', NEW a \in Objects, a = made + 1,
         NEW e, NEW w, Construct(a, e, w), NEW st \in Steps, NEW op, NEW n, Goto(p, st, op, s, a, n),
         UNCHANGED <<metas, account, unsubs, hears>>,
         \/ UNCHANGED <<slots, nextId>>
         \/ nextId \in Slots /\ nextId' = nextId + 1 /\ slots' = slots \cup {nextId}
  PROVE  IInv'
<1>1. made' = a /\ accounts' = accounts \cup {a}
  BY DEF Construct
<1>2. Grows
  BY <1>1 DEF Grows, IInv, SlotsMade, MadeSlots, Slots
<1>3. /\ nextId' \in Nat /\ nextId <= nextId' /\ made' \in Nat /\ made <= made' /\ a \in 1..made'
      /\ pc[p] # "wipe"
  BY <1>1, <1>2 DEF Grows, IInv, SlotsMade
<1>4. JobsMade' /\ StillWiped
  BY <1>3, MovesOn
<1> QED
  BY <1>2, <1>4, Calm

LEMMA ConfigureCredentialsStep ==
  ASSUME IInv, NEW p \in Procs, NEW s \in Slots, NEW e \in Emails, NEW w \in Passwords,
         ConfigureCredentials(p, s, e, w)
  PROVE  IInv'
<1>1. pc[p] = "idle" /\ s \in MadeSlots /\ UNCHANGED <<metas, slots, nextId>>
  BY DEF ConfigureCredentials, IInv, SlotsMade
<1>2. CASE Found(e) = {}
  <2>1. PICK a \in Objects :
           /\ a = made + 1 /\ Construct(a, e, w) /\ Goto(p, "read", "configure", s, a, calls + 1)
           /\ UNCHANGED <<account, unsubs, hears>>
    BY <1>2 DEF ConfigureCredentials
  <2>2. s \in MadeSlots' /\ "read" \in Steps
    BY <1>1 DEF MadeSlots, Steps
  <2> QED
    BY <1>1, <2>1, <2>2, ConstructKeeps
<1>3. CASE Found(e) # {}
  <2>1. PICK a \in FindAccountByEmail(e) :
           GoOn(p, s, a, calls + 1, key[a], TRUE) /\ UNCHANGED <<made, accounts>>
    BY <1>3 DEF ConfigureCredentials
  <2>2. a \in 1..made /\ Kept /\ pc[p] # "wipe"
    BY <1>1, <2>1, FoundMade DEF Kept
  <2> QED
    BY <1>1, <2>1, <2>2, GoOnKeeps
<1> QED
  BY <1>2, <1>3

LEMMA RegisterStep ==
  ASSUME IInv, NEW p \in Procs, NEW s \in Slots, NEW e \in Emails, NEW w \in Passwords,
         Register(p, s, e, w)
  PROVE  IInv'
<1>1. /\ pc[p] = "idle" /\ s \in MadeSlots
      /\ UNCHANGED <<metas, slots, nextId, account, unsubs, hears>>
  BY DEF Register, MadeSlots, facade
<1>2. PICK a \in Objects :
         a = made + 1 /\ Construct(a, e, w) /\ Goto(p, "keys", "configure", s, a, calls + 1)
  BY DEF Register
<1>3. s \in MadeSlots' /\ "keys" \in Steps
  BY <1>1 DEF MadeSlots, Steps
<1> QED
  BY <1>1, <1>2, <1>3, ConstructKeeps

LEMMA RestoreAccountStep == ASSUME IInv, NEW p \in Procs, RestoreAccount(p) PROVE IInv'
<1> DEFINE e == metas[nextId].email
<1>1. /\ pc[p] = "idle" /\ nextId <= Len(metas) /\ slots' = slots \cup {nextId} /\ nextId' = nextId + 1
      /\ UNCHANGED <<metas, account, unsubs, hears>>
  BY DEF RestoreAccount
<1>2. PICK a \in IF Found(e) = {} THEN {made + 1} \cap Objects ELSE FindAccountByEmail(e) :
         /\ IF a = made + 1 THEN Construct(a, e, metas[nextId].pw)
            ELSE UNCHANGED <<made, email, cred, key, timer, accounts, asked>>
         /\ Goto(p, "read", "restore", nextId, a, 0)
  BY DEF RestoreAccount
<1>3. nextId \in Slots
  <2>1. Len(metas) <= MaxSlots /\ Len(metas) \in Nat /\ nextId \in Nat \ {0}
    BY MetasAssumption DEF IInv, SlotsMade
  <2> QED
    BY <1>1, <2>1 DEF Slots
<1>4. nextId \in MadeSlots' /\ "read" \in Steps
  BY <1>1, <1>3 DEF MadeSlots, Steps, Slots
<1>5. a \in Objects /\ (a # made + 1 => a \in 1..made)
  BY <1>2, FoundMade
<1>6. CASE a = made + 1
  BY <1>1, <1>2, <1>3, <1>4, <1>5, <1>6, ConstructKeeps
<1>7. CASE a # made + 1
  <2>1. UNCHANGED <<made, accounts>> /\ a \in 1..made
    BY <1>2, <1>5, <1>7
  <2>2. Grows
    BY <1>1, <1>3, <2>1 DEF Grows, IInv, SlotsMade, MadeSlots, Slots
  <2>3. /\ nextId' \in Nat /\ nextId <= nextId' /\ made' \in Nat /\ made <= made' /\ a \in 1..made'
        /\ pc[p] # "wipe"
    BY <1>1, <2>1, <2>2 DEF Grows, IInv, SlotsMade
  <2>4. JobsMade' /\ StillWiped
    BY <1>2, <1>4, <2>3, MovesOn
  <2> QED
    BY <1>1, <2>2, <2>4, Calm
<1> QED
  BY <1>6, <1>7

-----------------------------------------------------------------------------
\* The awaits of a configuration or of a restore

\* A request under way has a slot and an object that were made.
LEMMA JobHas ==
  ASSUME IInv, NEW p \in Procs, pc[p] # "idle"
  PROVE  /\ job[p].slot \in MadeSlots /\ job[p].acc \in 1..made /\ Shaped(job[p])
         /\ nextId \in Nat /\ made \in Nat
BY DEF IInv, JobsMade, SlotsMade

\* A request goes on with the same slot and object.
LEMMA GoesOnKeeps ==
  ASSUME IInv, Kept, UNCHANGED <<account, unsubs, hears>>, NEW p \in Procs, NEW st \in Steps,
         pc[p] \notin {"idle", "wipe"}, pc' = [pc EXCEPT ![p] = st], NEW k,
         job' = [job EXCEPT ![p].key = k] \/ job' = job
  PROVE  IInv'
<1>1. /\ job[p].slot \in MadeSlots' /\ job[p].acc \in 1..made' /\ Shaped(job[p])
      /\ nextId' \in Nat /\ nextId <= nextId' /\ made' \in Nat /\ made <= made'
  BY JobHas DEF Kept, MadeSlots
<1>2. PICK j : /\ job' = [job EXCEPT ![p] = j] /\ Shaped(j)
               /\ j.slot = job[p].slot /\ j.acc = job[p].acc
  <2>1. CASE job' = job
    BY <1>1, <2>1 DEF IInv, JobsMade
  <2>2. CASE job' = [job EXCEPT ![p].key = k]
    <3> DEFINE i == [job[p] EXCEPT !.key = k]
    <3>1. job' = [job EXCEPT ![p] = i]
      BY <2>2
    <3>2. Shaped(i) /\ i.slot = job[p].slot /\ i.acc = job[p].acc
      BY <1>1 DEF Shaped
    <3> HIDE DEF i
    <3> QED
      BY <3>1, <3>2
  <2> QED
    BY <2>1, <2>2
<1>3. JobsMade' /\ StillWiped
  BY <1>1, <1>2, Moves
<1> QED
  BY <1>3, KeptGrows, Calm

LEMMA ReadStep == ASSUME IInv, NEW p \in Procs, Read(p) PROVE IInv'
<1>1. pc[p] = "read" /\ Kept
  BY DEF Read, Kept
<1>2. PICK s \in MadeSlots, a \in 1..made : s = job[p].slot /\ a = job[p].acc
  BY <1>1, JobHas
<1>3. CASE disk[email[a]] # None
  <2>1. /\ pc' = [pc EXCEPT ![p] = "rest"] /\ job' = [job EXCEPT ![p].key = disk[email[a]].key]
        /\ UNCHANGED <<account, unsubs, hears>>
    BY <1>2, <1>3 DEF Read
  <2> QED
    BY <1>1, <2>1, GoesOnKeeps DEF Steps
<1>4. CASE disk[email[a]] = None /\ job[p].op = "restore"
  <2>1. WireEvents(s, a) /\ Ends(p)
    BY <1>2, <1>4 DEF Read
  <2> QED
    BY <1>1, <2>1, AttachKeeps
<1>5. CASE disk[email[a]] = None /\ job[p].op # "restore"
  <2>1. GoOn(p, s, a, job[p].call, key[a], cred[a] # None)
    BY <1>2, <1>5 DEF Read
  <2> QED
    BY <1>1, <2>1, GoOnKeeps
<1> QED
  BY <1>3, <1>4, <1>5

LEMMA RestStep == ASSUME IInv, NEW p \in Procs, Rest(p) PROVE IInv'
<1>1. pc[p] = "rest" /\ Kept
  BY DEF Rest, Kept
<1>2. PICK s \in MadeSlots, a \in 1..made : s = job[p].slot /\ a = job[p].acc
  BY <1>1, JobHas
<1>3. CASE job[p].op = "restore"
  <2>1. WireEvents(s, a) /\ Ends(p)
    BY <1>2, <1>3 DEF Rest
  <2> QED
    BY <1>1, <2>1, AttachKeeps
<1>4. CASE job[p].op # "restore"
  <2>1. \E k : GoOn(p, s, a, job[p].call, k, cred[a] # None)
    BY <1>2, <1>4 DEF Rest
  <2> QED
    BY <1>1, <2>1, GoOnKeeps
<1> QED
  BY <1>3, <1>4

LEMMA GenerateKeysStep == ASSUME IInv, NEW p \in Procs, GenerateKeys(p) PROVE IInv'
<1>1. pc[p] = "keys" /\ pc' = [pc EXCEPT ![p] = "attach"] /\ job' = job
      /\ Kept /\ UNCHANGED <<account, unsubs, hears>>
  BY DEF GenerateKeys, facade, Kept
<1> QED
  BY <1>1, GoesOnKeeps DEF Steps

LEMMA AttachedStep == ASSUME IInv, NEW p \in Procs, Attached(p) PROVE IInv'
<1>1. pc[p] = "attach" /\ Kept /\ Attach(p, job[p].slot, job[p].acc, cred[job[p].acc] # None)
  BY DEF Attached, Kept
<1>2. PICK s \in MadeSlots, a \in 1..made : s = job[p].slot /\ a = job[p].acc
  BY <1>1, JobHas
<1>3. WireEvents(s, a) /\ (Ends(p) \/ Goto(p, "io", "configure", s, a, 0))
  BY <1>1, <1>2 DEF Attach
<1> QED
  BY <1>1, <1>3, AttachKeeps

LEMMA FailsStep == ASSUME IInv, NEW p \in Procs, Fails(p) PROVE IInv'
<1>1. pc[p] # "wipe" /\ Ends(p) /\ Kept /\ UNCHANGED <<account, unsubs, hears>>
  BY DEF Fails, facade, object, Kept
<1> QED
  BY <1>1, EndsKeeps

LEMMA ConfiguredStep == ASSUME IInv, NEW p \in Procs, Configured(p) PROVE IInv'
<1>1. pc[p] # "wipe" /\ Ends(p) /\ Kept /\ UNCHANGED <<account, unsubs, hears>>
  BY DEF Configured, facade, Kept
<1> QED
  BY <1>1, EndsKeeps

-----------------------------------------------------------------------------
\* IInv is inductive

LEMMA InitIInv == Init => IInv
<1> SUFFICES ASSUME Init PROVE IInv
  OBVIOUS
<1>1. MadeSlots = {}
  BY DEF Init, MadeSlots, Slots
<1>2. SlotsMade
  <2>1. metas \in Metas /\ nextId = 1 /\ made = 0 /\ slots = {} /\ accounts = {}
    BY DEF Init
  <2>2. account = [s \in Slots |-> None] /\ unsubs = account
    BY DEF Init
  <2> QED
    BY <2>1, <2>2 DEF SlotsMade
<1>3. JobsMade
  <2>1. pc = [p \in Procs |-> "idle"] /\ job = [p \in Procs |-> NoJob]
    BY DEF Init
  <2> QED
    BY <2>1 DEF JobsMade, Shaped, NoJob, Steps
<1>4. Heard
  <2>1. hears = [a \in Objects |-> {}] /\ slots = {}
    BY DEF Init
  <2> QED
    BY <2>1 DEF Heard
<1> QED
  BY <1>2, <1>3, <1>4 DEF IInv

LEMMA StutterIInv == IInv /\ UNCHANGED vars => IInv'
BY Aside DEF vars, facade, object, process

LEMMA NextIInv == IInv /\ Next => IInv'
<1> SUFFICES ASSUME IInv, Next PROVE IInv'
  OBVIOUS
<1>1. CASE Ready \/ AddAccount
  BY <1>1, ReadyStep, AddAccountStep
<1>2. CASE \E s \in Slots : SetAccountsOrder(<<s>>) \/ SelectAccount(s)
  BY <1>2, Aside DEF SetAccountsOrder, SelectAccount, object, process
<1>3. ASSUME NEW p \in Procs, RestoreAccount(p) \/ Call(p) PROVE IInv'
  BY <1>3, RestoreAccountStep, RemoveAccountStep, ConfigureCredentialsStep, RegisterStep DEF Call
<1>4. ASSUME NEW p \in Procs, Step(p) PROVE IInv'
  BY <1>4, DeregisterStep, RemoveEndsStep, ReadStep, RestStep, GenerateKeysStep, AttachedStep,
     FailsStep, ConfiguredStep DEF Step
<1>5. ASSUME NEW a \in Objects,
             TimerFires(a) \/ RestoreReads(a) \/ RestoreEnds(a) \/ RestoreFails(a)
      PROVE  IInv'
  BY <1>5, Aside DEF TimerFires, RestoreReads, RestoreEnds, RestoreFails, facade, process
<1> QED
  BY <1>1, <1>2, <1>3, <1>4, <1>5 DEF Next

LEMMA Inductive == Spec => []IInv
BY InitIInv, NextIInv, StutterIInv, PTL DEF Spec

-----------------------------------------------------------------------------
\* However often a slot is configured, restored and removed, and whatever
\* overlaps, the events of an account reach a listed slot once, and only from
\* the account the slot holds now.
THEOREM HeardOnce == Spec => []EventsOnce
<1>1. IInv => EventsOnce
  <2> SUFFICES ASSUME IInv PROVE EventsOnce
    OBVIOUS
  <2>1. ASSUME NEW s \in slots, NEW a \in Objects, s \in hears[a] PROVE a = account[s]
    BY <2>1 DEF IInv, Heard
  <2>2. ASSUME NEW s \in slots, NEW a \in Objects, account[s] = a, a \in accounts, ~Wiped(a)
        PROVE  s \in hears[a]
    BY <2>2 DEF IInv, Heard
  <2> QED
    BY <2>1, <2>2 DEF EventsOnce, Wiped
<1> QED
  BY <1>1, Inductive, PTL

\* Induction as a fact about sets: the provers cannot instantiate NatInduction.
Less == {ss \in Nat \X Nat : ss[1] < ss[2]}

LEMMA LessFounded == IsWellFoundedOn(Less, Nat)
BY NatLessThanWellFounded DEF OpToRel, Less

LEMMA Counting ==
  ASSUME NEW S, 0 \in S, \A n \in Nat : n \in S => n + 1 \in S
  PROVE  Nat \subseteq S
<1> DEFINE T == Nat \ S
<1> SUFFICES ASSUME T # {} PROVE FALSE
  OBVIOUS
<1>1. PICK x \in T : \A y \in T : <<y, x>> \notin Less
  BY LessFounded, WFMin
<1>2. x - 1 \in Nat /\ x - 1 < x
  BY <1>1
<1>3. <<x - 1, x>> \in Nat \X Nat /\ <<x - 1, x>>[1] = x - 1 /\ <<x - 1, x>>[2] = x
  BY <1>2
<1>4. <<x - 1, x>> \in Less
  BY <1>2, <1>3 DEF Less
<1>5. x - 1 \in S
  BY <1>1, <1>2, <1>4
<1> QED
  BY <1>1, <1>2, <1>5

\* What Filter computes, up to the n-th element.
Filters(g, s, S, n) ==
    g = [i \in 0..n |->
           IF i = 0 THEN <<>> ELSE IF s[i] \in S THEN Append(g[i - 1], s[i]) ELSE g[i - 1]]

LEMMA FilterExists ==
  ASSUME NEW s, NEW S, NEW n \in Nat
  PROVE  \E g : Filters(g, s, S, n)
<1> DEFINE N == {m \in Nat : \E g : Filters(g, s, S, m)}
<1>1. 0 \in N
  <2> DEFINE g == [i \in 0..0 |-> <<>>]
  <2>1. Filters(g, s, S, 0)
    BY DEF Filters
  <2> QED
    BY <2>1
<1>2. ASSUME NEW m \in Nat, m \in N PROVE m + 1 \in N
  <2>1. PICK g : Filters(g, s, S, m)
    BY <1>2
  <2> DEFINE x == IF s[m + 1] \in S THEN Append(g[m], s[m + 1]) ELSE g[m]
             h == [i \in 0..m + 1 |-> IF i = m + 1 THEN x ELSE g[i]]
  <2>2. \A i \in 0..m : h[i] = g[i]
    OBVIOUS
  <2>3. \A i \in 0..m + 1 :
           h[i] = IF i = 0 THEN <<>> ELSE IF s[i] \in S THEN Append(h[i - 1], s[i]) ELSE h[i - 1]
    <3> SUFFICES ASSUME NEW i \in 0..m + 1
                 PROVE  h[i] = IF i = 0 THEN <<>>
                               ELSE IF s[i] \in S THEN Append(h[i - 1], s[i]) ELSE h[i - 1]
      OBVIOUS
    <3>1. CASE i = m + 1
      <4>1. h[i] = x /\ h[i - 1] = g[m] /\ i # 0
        BY <3>1
      <4> HIDE DEF h
      <4> QED
        BY <3>1, <4>1
    <3>2. CASE i \in 0..m
      <4>1. h[i] = g[i] /\ (i # 0 => i - 1 \in 0..m /\ h[i - 1] = g[i - 1])
        BY <3>2, <2>2
      <4>2. g[i] = IF i = 0 THEN <<>> ELSE IF s[i] \in S THEN Append(g[i - 1], s[i]) ELSE g[i - 1]
        BY <2>1, <3>2 DEF Filters
      <4> HIDE DEF h
      <4> QED
        BY <4>1, <4>2
    <3> QED
      BY <3>1, <3>2
  <2>4. h = [i \in 0..m + 1 |-> h[i]]
    OBVIOUS
  <2> HIDE DEF h
  <2>5. Filters(h, s, S, m + 1)
    BY <2>3, <2>4 DEF Filters
  <2> QED
    BY <2>5
<1> HIDE DEF N
<1>3. n \in N
  BY <1>1, <1>2, Counting
<1> QED
  BY <1>3 DEF N

LEMMA FilterSpec ==
  ASSUME NEW A, NEW s \in Seq(A), NEW S
  PROVE  /\ Filter(s, S) \in Seq(A)
         /\ ToSet(Filter(s, S)) = ToSet(s) \cap S
         /\ Injective(s) => Injective(Filter(s, S))
<1> DEFINE n == Len(s)
           f == CHOOSE g : Filters(g, s, S, n)
           In(i) == {s[j] : j \in 1..i}
           G == {i \in Nat : i <= n =>
                   /\ f[i] \in Seq(A) /\ ToSet(f[i]) = In(i) \cap S
                   /\ Injective(s) => Injective(f[i])}
<1>1. n \in Nat
  OBVIOUS
<1>2. Filters(f, s, S, n)
  BY <1>1, FilterExists
<1>3. Filter(s, S) = f[n]
  BY DEF Filter, Filters
<1> HIDE DEF f
<1>8. \A k \in 0..n :
         f[k] = IF k = 0 THEN <<>> ELSE IF s[k] \in S THEN Append(f[k - 1], s[k]) ELSE f[k - 1]
  <2> HIDE DEF n
  <2> QED
    BY <1>2 DEF Filters
<1>4. 0 \in G
  <2>1. f[0] = <<>>
    BY <1>1, <1>8
  <2>2. f[0] \in Seq(A) /\ Len(f[0]) = 0
    BY <2>1
  <2>3. ToSet(f[0]) = {} /\ Injective(f[0])
    BY <2>2 DEF ToSet, Injective
  <2>4. In(0) = {}
    OBVIOUS
  <2> QED
    BY <2>2, <2>3, <2>4
<1>5. ASSUME NEW i \in Nat, i \in G PROVE i + 1 \in G
  <2> SUFFICES ASSUME i + 1 <= n
               PROVE  /\ f[i + 1] \in Seq(A) /\ ToSet(f[i + 1]) = In(i + 1) \cap S
                      /\ Injective(s) => Injective(f[i + 1])
    OBVIOUS
  <2>1. f[i + 1] = IF s[i + 1] \in S THEN Append(f[i], s[i + 1]) ELSE f[i]
    <3>1. i + 1 \in 0..n /\ i + 1 # 0 /\ (i + 1) - 1 = i
      BY <1>1
    <3> HIDE DEF n
    <3> QED
      BY <1>8, <3>1
  <2>2. /\ f[i] \in Seq(A) /\ ToSet(f[i]) = In(i) \cap S
        /\ Injective(s) => Injective(f[i])
    BY <1>5, <1>1
  <2>3. s[i + 1] \in A
    BY <1>1
  <2>4. In(i + 1) = In(i) \cup {s[i + 1]}
    OBVIOUS
  <2> HIDE DEF In
  <2>5. CASE s[i + 1] \notin S
    BY <2>1, <2>2, <2>4, <2>5
  <2>6. CASE s[i + 1] \in S
    <3> DEFINE t == f[i]
               x == s[i + 1]
    <3>1. t \in Seq(A) /\ x \in A /\ f[i + 1] = Append(t, x)
      BY <2>1, <2>2, <2>3, <2>6
    <3>2. x \in In(i) => \E j \in 1..i : s[j] = s[i + 1]
      BY DEF In
    <3>3. Injective(s) => x \notin ToSet(t)
      BY <2>2, <3>2, <1>1 DEF Injective
    <3> HIDE DEF t, x
    <3>4. /\ Append(t, x) \in Seq(A) /\ Len(Append(t, x)) = Len(t) + 1 /\ Len(t) \in Nat
          /\ \A j \in 1..Len(t) : Append(t, x)[j] = t[j]
          /\ Append(t, x)[Len(t) + 1] = x
      BY <3>1
    <3>5. ToSet(Append(t, x)) = ToSet(t) \cup {x}
      BY <3>4 DEF ToSet
    <3>6. Injective(t) /\ x \notin ToSet(t) => Injective(Append(t, x))
      BY <3>4 DEF Injective, ToSet
    <3> QED
      BY <2>2, <2>4, <2>6, <3>1, <3>3, <3>4, <3>5, <3>6 DEF t, x
  <2> QED
    BY <2>5, <2>6
<1> HIDE DEF G
<1>6. n \in G
  BY <1>1, <1>4, <1>5, Counting
<1>7. In(n) = ToSet(s)
  BY DEF ToSet
<1> QED
  BY <1>3, <1>6, <1>7, <1>1 DEF G

-----------------------------------------------------------------------------
\* The types of the pieces a step is made of

LEMMA GotoTyped ==
  ASSUME ProcessOK, NEW p \in Procs, NEW st \in Steps, NEW op \in {"restore", "configure", "remove"},
         NEW s \in Slots, NEW a \in Objects, NEW n \in Keys, Goto(p, st, op, s, a, n)
  PROVE  pc' \in [Procs -> Steps] /\ job' \in [Procs -> Jobs]
<1> DEFINE j == [op |-> op, slot |-> s, acc |-> a, key |-> None, call |-> n]
<1>1. j \in Jobs
  BY DEF Jobs
<1>2. pc' = [pc EXCEPT ![p] = st] /\ job' = [job EXCEPT ![p] = j]
  BY DEF Goto
<1> HIDE DEF j
<1> QED
  BY <1>1, <1>2 DEF ProcessOK

LEMMA EndsTyped ==
  ASSUME ProcessOK, NEW p \in Procs, Ends(p)
  PROVE  pc' \in [Procs -> Steps] /\ job' \in [Procs -> Jobs]
<1>1. NoJob \in Jobs /\ "idle" \in Steps
  BY DEF NoJob, Jobs, Keys, Steps
<1> QED
  BY <1>1 DEF ProcessOK, Ends

LEMMA WireTyped ==
  ASSUME FacadeOK, ObjectOK, NEW s \in Slots, NEW a \in Objects, WireEvents(s, a)
  PROVE  /\ account' \in [Slots -> Objects \cup {None}] /\ unsubs' \in [Slots -> Objects \cup {None}]
         /\ hears' \in [Objects -> SUBSET Slots]
BY DEF FacadeOK, ObjectOK, WireEvents

LEMMA GoOnTyped ==
  ASSUME FacadeOK, ObjectOK, ProcessOK, NEW p \in Procs, NEW s \in Slots, NEW a \in Objects,
         NEW n \in Keys, NEW k, NEW live, GoOn(p, s, a, n, k, live)
  PROVE  /\ account' \in [Slots -> Objects \cup {None}] /\ unsubs' \in [Slots -> Objects \cup {None}]
         /\ hears' \in [Objects -> SUBSET Slots]
         /\ pc' \in [Procs -> Steps] /\ job' \in [Procs -> Jobs]
<1>1. CASE k = None
  <2>1. Goto(p, "keys", "configure", s, a, n) /\ UNCHANGED <<account, unsubs, hears>>
    BY <1>1 DEF GoOn
  <2> QED
    BY <2>1, GotoTyped DEF Steps, FacadeOK, ObjectOK
<1>2. CASE k # None
  <2>1. WireEvents(s, a) /\ (Goto(p, "io", "configure", s, a, 0) \/ Ends(p))
    BY <1>2 DEF GoOn, Attach
  <2>2. 0 \in Keys /\ "io" \in Steps
    BY DEF Keys, Steps
  <2> QED
    BY <2>1, <2>2, GotoTyped, EndsTyped, WireTyped
<1> QED
  BY <1>1, <1>2

LEMMA DropTyped ==
  ASSUME FacadeOK, ObjectOK, NEW s \in Slots, Drop(s), UNCHANGED <<metas, ready, accounts, made, email, cred, key>>,
         timer' \in [Objects -> BOOLEAN]
  PROVE  FacadeOK' /\ ObjectOK'
<1>1. order' \in Seq(Slots)
  BY FilterSpec DEF FacadeOK, Drop
<1>2. selected' \in Slots \cup {None}
  <2>1. order' # <<>> => Head(order') \in Slots
    BY <1>1
  <2> QED
    BY <2>1 DEF Drop, SelectedAfter, FacadeOK
<1>3. FacadeOK'
  BY <1>1, <1>2 DEF FacadeOK, Drop
<1>4. ObjectOK'
  BY DEF ObjectOK, FacadeOK, Drop
<1> QED
  BY <1>3, <1>4

LEMMA SavedTyped ==
  ASSUME ObjectOK, DiskOK, NEW a \in Objects, NEW k \in Keys \cup {None}
  PROVE  SavedWith(a, k) \in [Emails -> {None} \cup [pw : Passwords, key : Keys \cup {None}]]
<1>1. CASE cred[a] = None
  BY <1>1 DEF SavedWith, DiskOK
<1>2. CASE cred[a] # None
  <2>1. cred[a] \in Passwords /\ email[a] \in Emails
    BY <1>2 DEF ObjectOK
  <2>2. [pw |-> cred[a], key |-> k] \in [pw : Passwords, key : Keys \cup {None}]
    BY <2>1
  <2> QED
    BY <1>2, <2>1, <2>2 DEF SavedWith, DiskOK
<1> QED
  BY <1>1, <1>2

LEMMA WipeTyped == ASSUME ObjectOK, DiskOK, NEW a, WipeAccount(a) PROVE DiskOK'
BY DEF WipeAccount, DiskOK, ObjectOK

\* What a request under way is about
LEMMA JobTyped ==
  ASSUME IInv, ProcessOK, NEW p \in Procs
  PROVE  /\ job[p] \in Jobs /\ job[p].call \in Keys /\ job[p].key \in Keys \cup {None}
         /\ pc[p] # "idle" => job[p].slot \in Slots /\ job[p].acc \in Objects /\ job[p].acc \in 1..made
<1>1. job[p] \in Jobs
  BY DEF ProcessOK
<1>2. job[p].call \in Keys /\ job[p].key \in Keys \cup {None}
  BY <1>1 DEF Jobs
<1>3. pc[p] # "idle" => job[p].slot \in Slots /\ job[p].acc \in Objects /\ job[p].acc \in 1..made
  BY DEF IInv, JobsMade, SlotsMade, MadeSlots
<1> QED
  BY <1>1, <1>2, <1>3

\* The host's password for a slot that is being restored
LEMMA MetaTyped ==
  ASSUME IInv, FacadeOK, NEW i \in 1..Len(metas)
  PROVE  metas[i].email \in Emails /\ metas[i].pw \in Passwords /\ i \in Slots
<1> DEFINE M == [email : Emails, pw : Passwords]
<1>1. metas \in Seq(M) /\ Len(metas) <= MaxSlots
  BY MetasAssumption DEF FacadeOK
<1> HIDE DEF M
<1>2. metas[i] \in M /\ Len(metas) \in Nat
  BY <1>1
<1>3. i \in Slots
  BY <1>1, <1>2 DEF Slots
<1> QED
  BY <1>2, <1>3 DEF M

LEMMA RestoringMeta ==
  ASSUME IInv, FacadeOK, Booting, NEW p \in Procs, pc[p] \in {"read", "rest"}, job[p].op = "restore"
  PROVE  metas[job[p].slot].email \in Emails /\ metas[job[p].slot].pw \in Passwords
<1>1. nextId <= Len(metas) + 1 /\ job[p].slot \in MadeSlots
  BY DEF Booting, IInv, JobsMade
<1>2. metas \in Seq([email : Emails, pw : Passwords]) /\ nextId \in Nat
  BY MetasAssumption DEF FacadeOK, IInv, SlotsMade
<1>3. job[p].slot \in 1..Len(metas)
  BY <1>1, <1>2 DEF MadeSlots, Slots
<1> QED
  BY <1>3, MetaTyped

-----------------------------------------------------------------------------
\* Every action keeps the types

LEMMA FacadeKept == ASSUME FacadeOK, UNCHANGED <<metas, ready, facade>> PROVE FacadeOK'
BY DEF FacadeOK, facade
LEMMA ObjectKept == ASSUME ObjectOK, UNCHANGED object PROVE ObjectOK'
BY DEF ObjectOK, object
LEMMA BackgroundKept == ASSUME BackgroundOK, UNCHANGED background PROVE BackgroundOK'
BY DEF BackgroundOK, background
LEMMA DiskKept == ASSUME DiskOK, UNCHANGED disk PROVE DiskOK'
BY DEF DiskOK
LEMMA ProcessKept == ASSUME ProcessOK, UNCHANGED <<process, calls>> PROVE ProcessOK'
BY DEF ProcessOK, process
LEMMA HistoryKept == ASSUME HistoryOK, UNCHANGED <<history, made>> PROVE HistoryOK'
BY DEF HistoryOK, history

LEMMA TimerFiresTyped == ASSUME TypeOK, NEW a \in Objects, TimerFires(a) PROVE TypeOK'
<1>1. key[a] \in Keys \cup {None}
  BY DEF TypeOK, ObjectOK
<1>2. DiskOK'
  BY <1>1, SavedTyped DEF TimerFires, TypeOK, DiskOK
<1>3. ObjectOK'
  BY DEF TimerFires, TypeOK, ObjectOK
<1> QED
  BY <1>2, <1>3, FacadeKept, BackgroundKept, ProcessKept, HistoryKept
  DEF TimerFires, TypeOK, history

LEMMA RestoreReadsTyped == ASSUME TypeOK, NEW a \in Objects, RestoreReads(a), a \in 1..made PROVE TypeOK'
<1>1. email[a] \in Emails /\ first[a] \in Passwords \cup {None}
  BY DEF TypeOK, ObjectOK, BackgroundOK
<1>2. disk[email[a]] # None => disk[email[a]].pw \in Passwords /\ disk[email[a]].key \in Keys \cup {None}
  BY <1>1 DEF TypeOK, DiskOK
<1>3. ObjectOK'
  BY <1>1, <1>2 DEF RestoreReads, TypeOK, ObjectOK
<1>4. BackgroundOK'
  BY <1>1, <1>2 DEF RestoreReads, TypeOK, BackgroundOK
<1>5. HistoryOK'
  BY DEF RestoreReads, TypeOK, HistoryOK
<1> QED
  BY <1>3, <1>4, <1>5, FacadeKept, ProcessKept, DiskKept DEF RestoreReads, TypeOK

LEMMA RestoreEndsTyped ==
  ASSUME TypeOK, NEW a \in Objects, RestoreEnds(a) \/ RestoreFails(a), a \in 1..made
  PROVE  TypeOK'
<1>1. email[a] \in Emails /\ first[a] \in Passwords \cup {None} /\ held[a] \in Keys \cup {None}
  BY DEF TypeOK, ObjectOK, BackgroundOK
<1>2. ObjectOK'
  <2>1. /\ cred' = [cred EXCEPT ![a] = first[a]]
        /\ timer' = [timer EXCEPT ![a] = @ \/ cred[a] # first[a]]
    BY DEF RestoreEnds, RestoreFails, SetCredentials
  <2>2. key' = key \/ key' = [key EXCEPT ![a] = held[a]]
    BY DEF RestoreEnds, RestoreFails, KeyOf
  <2>3. cred' \in [Objects -> Passwords \cup {None}] /\ key' \in [Objects -> Keys \cup {None}]
    BY <1>1, <2>1, <2>2 DEF TypeOK, ObjectOK
  <2>4. timer' \in [Objects -> BOOLEAN]
    BY <2>1 DEF TypeOK, ObjectOK
  <2>5. UNCHANGED <<made, email, hears, accounts>>
    BY DEF RestoreEnds, RestoreFails
  <2> QED
    BY <2>3, <2>4, <2>5 DEF TypeOK, ObjectOK
<1>3. BackgroundOK'
  BY <1>1 DEF RestoreEnds, RestoreFails, TypeOK, BackgroundOK
<1>4. HistoryOK'
  BY <1>1 DEF RestoreEnds, RestoreFails, TypeOK, HistoryOK
<1> QED
  BY <1>2, <1>3, <1>4, FacadeKept, ProcessKept, DiskKept DEF RestoreEnds, RestoreFails, TypeOK

LEMMA ServeTyped ==
  ASSUME TypeOK, Serve
  PROVE  calls' \in 0..MaxCalls /\ calls + 1 \in Keys /\ 0 \in Keys
BY DEF Serve, TypeOK, ProcessOK, Keys

LEMMA AddAccountTyped == ASSUME TypeOK, AddAccount PROVE TypeOK'
<1>1. FacadeOK'
  BY DEF AddAccount, TypeOK, FacadeOK, Slots
<1>2. ProcessOK'
  BY ServeTyped DEF AddAccount, TypeOK, ProcessOK, process
<1> QED
  BY <1>1, <1>2, ObjectKept, BackgroundKept, DiskKept, HistoryKept DEF AddAccount, TypeOK, object

LEMMA SetAccountsOrderTyped ==
  ASSUME TypeOK, NEW ids \in Seq(Slots), SetAccountsOrder(ids) PROVE TypeOK'
<1>1. order' \in Seq(Slots)
  BY FilterSpec DEF SetAccountsOrder, TypeOK, FacadeOK
<1>2. FacadeOK'
  BY <1>1 DEF SetAccountsOrder, TypeOK, FacadeOK
<1>3. ProcessOK'
  BY ServeTyped DEF SetAccountsOrder, TypeOK, ProcessOK, process
<1> QED
  BY <1>2, <1>3, ObjectKept, BackgroundKept, DiskKept, HistoryKept
  DEF SetAccountsOrder, TypeOK, object

LEMMA SelectAccountTyped == ASSUME TypeOK, NEW s \in Slots, SelectAccount(s) PROVE TypeOK'
<1>1. FacadeOK'
  BY DEF SelectAccount, TypeOK, FacadeOK
<1>2. ProcessOK'
  BY ServeTyped DEF SelectAccount, TypeOK, ProcessOK, process
<1> QED
  BY <1>1, <1>2, ObjectKept, BackgroundKept, DiskKept, HistoryKept DEF SelectAccount, TypeOK, object

LEMMA ReadyTyped == ASSUME TypeOK, Booting, Listed, Ready PROVE TypeOK'
<1>1. order' \in Seq(Slots) /\ slots' \subseteq Slots /\ nextId' \in 1..MaxSlots + 1 /\ order' # <<>>
  <2>1. CASE metas = <<>>
    <3>1. 1 \in Slots
      BY DEF Slots
    <3>2. order' = <<1>> /\ slots' = {1} /\ nextId' = 2
      BY <2>1 DEF Ready
    <3> QED
      BY <3>1, <3>2
  <2>2. CASE metas # <<>>
    <3>1. metas \in Seq([email : Emails, pw : Passwords])
      BY MetasAssumption DEF TypeOK, FacadeOK
    <3>2. nextId > 1 /\ 1 \in Slots
      BY <2>2, <3>1 DEF Ready, Slots
    <3>3. 1 \in slots
      BY <3>2 DEF Ready, Booting, MadeSlots
    <3>4. order # <<>>
      BY <3>3 DEF Listed, ToSet
    <3> QED
      BY <2>2, <3>4 DEF Ready, TypeOK, FacadeOK
  <2> QED
    BY <2>1, <2>2
<1>2. selected' \in Slots
  BY <1>1 DEF Ready
<1>3. FacadeOK'
  BY <1>1, <1>2 DEF Ready, TypeOK, FacadeOK
<1> QED
  BY <1>3, ProcessKept, ObjectKept, BackgroundKept, DiskKept, HistoryKept DEF Ready, TypeOK, object

LEMMA RemoveAccountTyped ==
  ASSUME TypeOK, IInv, NEW p \in Procs, NEW s \in Slots, RemoveAccount(p, s) PROVE TypeOK'
<1>1. /\ BackgroundOK' /\ UNCHANGED <<metas, ready, made, accounts, email, asked, loaded>>
      /\ spoilt' = spoilt \/ (account[s] # None /\ spoilt' = spoilt \cup {email[account[s]]})
  BY BackgroundKept DEF RemoveAccount, TypeOK, object, Destroy, ClearsOthers
<1>6. HistoryOK'
  BY <1>1 DEF TypeOK, HistoryOK, ObjectOK, FacadeOK
<1>2. HistoryOK' /\ calls' \in 0..MaxCalls /\ 0 \in Keys /\ "remove" \in {"restore", "configure", "remove"}
  BY <1>6, ServeTyped DEF RemoveAccount, TypeOK
<1>3. "wipe" \in Steps /\ "rewipe" \in Steps
  BY DEF Steps
<1>4. CASE account[s] = None
  <2>1. Drop(s) /\ UNCHANGED <<made, email, cred, key, timer, accounts, disk, process>>
    BY <1>4 DEF RemoveAccount
  <2>2. FacadeOK' /\ ObjectOK'
    BY <1>1, <2>1, DropTyped DEF TypeOK, ObjectOK
  <2>3. DiskOK' /\ ProcessOK'
    BY <1>2, <2>1 DEF TypeOK, DiskOK, ProcessOK, process
  <2> QED
    BY <1>1, <1>2, <2>2, <2>3 DEF TypeOK
<1>5. CASE account[s] # None
  <2> DEFINE a == account[s]
  <2>1. a \in Objects
    BY <1>5 DEF TypeOK, FacadeOK
  <2>2. FacadeOK' /\ ObjectOK' /\ DiskOK' /\ \E st \in {"wipe", "rewipe"} : Goto(p, st, "remove", s, a, 0)
    <3>1. CASE a \in accounts
      <4>1. /\ Destroy(a) /\ Goto(p, "wipe", "remove", s, a, 0)
            /\ UNCHANGED <<facade, made, email, accounts>>
        BY <1>5, <3>1 DEF RemoveAccount
      <4>4. ASSUME WipeAccount(a) PROVE DiskOK'
        BY <4>4, WipeTyped DEF TypeOK
      <4>5. ASSUME ClearsOthers(a) PROVE DiskOK'
        BY <2>1, <4>5 DEF ClearsOthers, TypeOK, DiskOK
      <4>6. FacadeOK'
        BY <1>1, <4>1, FacadeKept DEF TypeOK
      <4>2. FacadeOK' /\ DiskOK'
        BY <4>1, <4>4, <4>5, <4>6 DEF Destroy
      <4>3. ObjectOK'
        BY <4>1 DEF Destroy, TypeOK, ObjectOK
      <4> QED
        BY <4>1, <4>2, <4>3
    <3>2. CASE a \notin accounts
      BY <1>1, <1>5, <3>2, FacadeKept, ObjectKept, DiskKept DEF RemoveAccount, TypeOK
    <3> QED
      BY <3>1, <3>2
  <2>3. ProcessOK'
    BY <1>2, <1>3, <2>1, <2>2, GotoTyped DEF TypeOK, ProcessOK
  <2> QED
    BY <1>1, <1>2, <2>2, <2>3 DEF TypeOK
<1> QED
  BY <1>4, <1>5

LEMMA DeregisterTyped == ASSUME TypeOK, IInv, NEW p \in Procs, Deregister(p) PROVE TypeOK'
<1>1. DiskOK'
  BY WipeTyped DEF Deregister, TypeOK
<1>2. ObjectOK' /\ ProcessOK'
  BY DEF Deregister, TypeOK, ObjectOK, ProcessOK, Steps
<1> QED
  BY <1>1, <1>2, FacadeKept, BackgroundKept, HistoryKept DEF Deregister, TypeOK

LEMMA RemoveEndsTyped == ASSUME TypeOK, IInv, NEW p \in Procs, RemoveEnds(p) PROVE TypeOK'
<1>1. job[p].slot \in Slots
  BY JobTyped DEF RemoveEnds, TypeOK
<1>2. FacadeOK' /\ ObjectOK'
  BY <1>1, DropTyped DEF RemoveEnds, TypeOK, ObjectOK
<1>3. ProcessOK'
  BY EndsTyped DEF RemoveEnds, TypeOK, ProcessOK
<1> QED
  BY <1>2, <1>3, DiskKept, BackgroundKept, HistoryKept DEF RemoveEnds, TypeOK

LEMMA ConstructTyped ==
  ASSUME TypeOK, NEW a \in Objects, a = made + 1, NEW e \in Emails, NEW w \in Passwords,
         Construct(a, e, w), hears' \in [Objects -> SUBSET Slots], loaded' \subseteq loaded \cup {a},
         spoilt' = spoilt
  PROVE  ObjectOK' /\ HistoryOK'
<1>1. ObjectOK'
  BY DEF Construct, TypeOK, ObjectOK
<1>2. HistoryOK'
  <2>1. made' = a /\ 1..made \subseteq 1..a /\ a \in 1..a
    BY DEF Construct, TypeOK, ObjectOK
  <2>2. loaded' \subseteq 1..made'
    BY <2>1 DEF TypeOK, HistoryOK
  <2>3. asked' \in [Objects -> Passwords \cup {None}]
    BY DEF Construct, TypeOK, HistoryOK
  <2> QED
    BY <2>2, <2>3 DEF TypeOK, HistoryOK
<1> QED
  BY <1>1, <1>2

LEMMA ConfigureCredentialsTyped ==
  ASSUME TypeOK, IInv, NEW p \in Procs, NEW s \in Slots, NEW e \in Emails, NEW w \in Passwords,
         ConfigureCredentials(p, s, e, w)
  PROVE  TypeOK'
<1>1. DiskOK' /\ calls' \in 0..MaxCalls /\ calls + 1 \in Keys
  BY DiskKept, ServeTyped DEF ConfigureCredentials, TypeOK
<1>2. CASE Found(e) = {}
  <2>1. PICK a \in Objects :
           /\ a = made + 1 /\ Construct(a, e, w)
           /\ first' = [first EXCEPT ![a] = w] /\ restore' = [restore EXCEPT ![a] = "read"]
           /\ Goto(p, "read", "configure", s, a, calls + 1)
           /\ UNCHANGED <<account, unsubs, hears, spoilt, held, loaded>>
    BY <1>2 DEF ConfigureCredentials
  <2>2. ObjectOK' /\ HistoryOK'
    <3>1. hears' \in [Objects -> SUBSET Slots] /\ loaded' \subseteq loaded \cup {a}
      BY <2>1 DEF TypeOK, ObjectOK
    <3> QED
      BY <2>1, <3>1, ConstructTyped
  <2>3. BackgroundOK' /\ FacadeOK'
    BY <2>1 DEF ConfigureCredentials, TypeOK, BackgroundOK, FacadeOK
  <2>4. ProcessOK'
    BY <1>1, <2>1, GotoTyped DEF TypeOK, ProcessOK, Steps
  <2> QED
    BY <1>1, <2>2, <2>3, <2>4 DEF TypeOK
<1>3. CASE Found(e) # {}
  <2>1. PICK a \in FindAccountByEmail(e) :
           /\ SetCredentials(a, w) /\ asked' = [asked EXCEPT ![a] = w] /\ spoilt' \subseteq spoilt \cup {e}
           /\ GoOn(p, s, a, calls + 1, key[a], TRUE)
           /\ UNCHANGED <<metas, ready, slots, order, selected, nextId>>
           /\ UNCHANGED <<made, email, key, accounts, first, restore, held, loaded>>
    BY <1>3 DEF ConfigureCredentials
  <2>2. a \in Objects
    BY FoundMade
  <2>3. /\ account' \in [Slots -> Objects \cup {None}] /\ unsubs' \in [Slots -> Objects \cup {None}]
        /\ hears' \in [Objects -> SUBSET Slots]
        /\ pc' \in [Procs -> Steps] /\ job' \in [Procs -> Jobs]
    BY <1>1, <2>1, <2>2, GoOnTyped DEF TypeOK
  <2>4. FacadeOK' /\ BackgroundOK' /\ ProcessOK'
    BY <1>1, <2>1, <2>3 DEF TypeOK, FacadeOK, BackgroundOK, ProcessOK
  <2>5. ObjectOK'
    BY <2>1, <2>2, <2>3 DEF SetCredentials, TypeOK, ObjectOK
  <2>6. HistoryOK'
    BY <2>1, <2>2 DEF TypeOK, HistoryOK
  <2> QED
    BY <1>1, <2>4, <2>5, <2>6 DEF TypeOK
<1> QED
  BY <1>2, <1>3

LEMMA RegisterTyped ==
  ASSUME TypeOK, IInv, NEW p \in Procs, NEW s \in Slots, NEW e \in Emails, NEW w \in Passwords,
         Register(p, s, e, w)
  PROVE  TypeOK'
<1>1. DiskOK' /\ FacadeOK' /\ BackgroundOK' /\ calls' \in 0..MaxCalls /\ calls + 1 \in Keys
  BY DiskKept, FacadeKept, BackgroundKept, ServeTyped DEF Register, TypeOK
<1>2. PICK a \in Objects :
         /\ a = made + 1 /\ Construct(a, e, w) /\ loaded' = loaded \cup {a}
         /\ Goto(p, "keys", "configure", s, a, calls + 1)
         /\ UNCHANGED <<hears, spoilt>>
  BY DEF Register
<1>3. ObjectOK' /\ HistoryOK'
  <2>1. hears' \in [Objects -> SUBSET Slots]
    BY <1>2 DEF TypeOK, ObjectOK
  <2> QED
    BY <1>2, <2>1, ConstructTyped
<1>4. ProcessOK'
  BY <1>1, <1>2, GotoTyped DEF TypeOK, ProcessOK, Steps
<1> QED
  BY <1>1, <1>3, <1>4 DEF TypeOK

LEMMA RestoreAccountTyped ==
  ASSUME TypeOK, IInv, NEW p \in Procs, RestoreAccount(p) PROVE TypeOK'
<1> DEFINE e == metas[nextId].email
           w == metas[nextId].pw
<1>1. /\ nextId <= Len(metas) /\ slots' = slots \cup {nextId} /\ order' = Append(order, nextId)
      /\ nextId' = nextId + 1
      /\ UNCHANGED <<metas, ready, selected, account, unsubs, hears, background, disk, calls, loaded, spoilt>>
  BY DEF RestoreAccount
<1>2. PICK a \in IF Found(e) = {} THEN {made + 1} \cap Objects ELSE FindAccountByEmail(e) :
         /\ IF a = made + 1 THEN Construct(a, e, w)
            ELSE UNCHANGED <<made, email, cred, key, timer, accounts, asked>>
         /\ Goto(p, "read", "restore", nextId, a, 0)
  BY DEF RestoreAccount
<1>3. nextId \in 1..Len(metas)
  BY <1>1 DEF TypeOK, FacadeOK, IInv, SlotsMade
<1>4. nextId \in Slots /\ e \in Emails /\ w \in Passwords
  BY <1>3, MetaTyped DEF TypeOK
<1>5. a \in Objects
  BY <1>2, FoundMade
<1>6. FacadeOK'
  BY <1>1, <1>4 DEF TypeOK, FacadeOK, Slots
<1>7. BackgroundOK' /\ DiskOK'
  BY <1>1, BackgroundKept, DiskKept DEF TypeOK
<1>8. ProcessOK'
  <2>1. 0 \in Keys /\ "read" \in Steps
    BY DEF Keys, Steps
  <2> QED
    BY <1>1, <1>2, <1>4, <1>5, <2>1, GotoTyped DEF TypeOK, ProcessOK
<1>9. ObjectOK' /\ HistoryOK'
  <2> HIDE DEF e, w
  <2>1. CASE a = made + 1
    <3>1. hears' \in [Objects -> SUBSET Slots] /\ loaded' \subseteq loaded \cup {a}
      BY <1>1 DEF TypeOK, ObjectOK
    <3> QED
      BY <1>1, <1>2, <1>4, <1>5, <2>1, <3>1, ConstructTyped
  <2>2. CASE a # made + 1
    BY <1>1, <1>2, <2>2, ObjectKept, HistoryKept DEF TypeOK, object, history
  <2> QED
    BY <2>1, <2>2
<1> QED
  BY <1>6, <1>7, <1>8, <1>9 DEF TypeOK

LEMMA ReadTyped == ASSUME TypeOK, IInv, Booting, NEW p \in Procs, Read(p) PROVE TypeOK'
<1> DEFINE a == job[p].acc
           s == job[p].slot
<1>1. /\ pc[p] = "read"
      /\ UNCHANGED <<metas, ready, slots, order, selected, nextId, made, email, key, accounts, background, disk, calls, spoilt>>
  BY DEF Read
<1>2. a \in Objects /\ a \in 1..made /\ s \in Slots /\ job[p].call \in Keys /\ job[p] \in Jobs
  BY <1>1, JobTyped DEF TypeOK
<1>3. BackgroundOK' /\ DiskOK'
  BY <1>1, BackgroundKept, DiskKept DEF TypeOK
<1>4. email[a] \in Emails
  BY <1>2 DEF TypeOK, ObjectOK
<1>5. CASE disk[email[a]] # None
  <2>1. disk[email[a]].pw \in Passwords /\ disk[email[a]].key \in Keys \cup {None}
    BY <1>4, <1>5 DEF TypeOK, DiskOK
  <2>2. /\ cred' = [cred EXCEPT ![a] = disk[email[a]].pw] /\ pc' = [pc EXCEPT ![p] = "rest"]
        /\ job' = [job EXCEPT ![p].key = disk[email[a]].key]
        /\ UNCHANGED <<timer, loaded, account, unsubs, hears, asked>>
    BY <1>5 DEF Read
  <2>3. [job[p] EXCEPT !.key = disk[email[a]].key] \in Jobs
    BY <1>2, <2>1 DEF Jobs
  <2> HIDE DEF a, s
  <2>4. ObjectOK' /\ FacadeOK' /\ HistoryOK'
    BY <1>1, <1>2, <2>1, <2>2 DEF TypeOK, ObjectOK, FacadeOK, HistoryOK
  <2>5. ProcessOK'
    BY <1>1, <2>2, <2>3 DEF TypeOK, ProcessOK, Steps
  <2> QED
    BY <1>3, <2>4, <2>5 DEF TypeOK
<1>6. CASE disk[email[a]] = None
  <2>1. loaded' = loaded \cup {a}
    BY <1>6 DEF Read
  <2>2. CASE job[p].op = "restore"
    <3>1. metas[s].pw \in Passwords
      BY <1>1, <2>2, RestoringMeta DEF TypeOK
    <3>2. /\ cred' = [cred EXCEPT ![a] = metas[s].pw] /\ asked' = [asked EXCEPT ![a] = metas[s].pw]
          /\ timer' = [timer EXCEPT ![a] = TRUE]
          /\ WireEvents(s, a) /\ Ends(p)
      BY <1>6, <2>2 DEF Read
    <3> HIDE DEF a, s
    <3>3. /\ account' \in [Slots -> Objects \cup {None}] /\ unsubs' \in [Slots -> Objects \cup {None}]
          /\ hears' \in [Objects -> SUBSET Slots] /\ pc' \in [Procs -> Steps] /\ job' \in [Procs -> Jobs]
      BY <1>2, <3>2, WireTyped, EndsTyped DEF TypeOK
    <3>4. ObjectOK'
      BY <1>1, <1>2, <3>1, <3>2, <3>3 DEF TypeOK, ObjectOK
    <3>5. FacadeOK' /\ ProcessOK'
      BY <1>1, <3>3 DEF TypeOK, FacadeOK, ProcessOK
    <3>6. HistoryOK'
      BY <1>1, <1>2, <2>1, <3>1, <3>2 DEF TypeOK, HistoryOK
    <3> QED
      BY <1>3, <3>4, <3>5, <3>6 DEF TypeOK
  <2>3. CASE job[p].op # "restore"
    <3>1. /\ GoOn(p, s, a, job[p].call, key[a], cred[a] # None) /\ UNCHANGED <<cred, timer, asked>>
      BY <1>6, <2>3 DEF Read
    <3> HIDE DEF a, s
    <3>2. /\ account' \in [Slots -> Objects \cup {None}] /\ unsubs' \in [Slots -> Objects \cup {None}]
          /\ hears' \in [Objects -> SUBSET Slots] /\ pc' \in [Procs -> Steps] /\ job' \in [Procs -> Jobs]
      BY <1>2, <3>1, GoOnTyped DEF TypeOK
    <3>3. ObjectOK' /\ FacadeOK' /\ ProcessOK' /\ HistoryOK'
      BY <1>1, <1>2, <2>1, <3>1, <3>2 DEF TypeOK, ObjectOK, FacadeOK, ProcessOK, HistoryOK
    <3> QED
      BY <1>3, <3>3 DEF TypeOK
  <2> QED
    BY <2>2, <2>3
<1> QED
  BY <1>5, <1>6

LEMMA RestTyped == ASSUME TypeOK, IInv, Booting, NEW p \in Procs, Rest(p) PROVE TypeOK'
<1> DEFINE a == job[p].acc
           s == job[p].slot
<1>1. /\ pc[p] = "rest" /\ key' = KeyOf(a, job[p].key) /\ loaded' = loaded \cup {a}
      /\ UNCHANGED <<metas, ready, slots, order, selected, nextId, made, email, accounts, background, disk, calls, spoilt>>
  BY DEF Rest
<1>2. /\ a \in Objects /\ a \in 1..made /\ s \in Slots
      /\ job[p].call \in Keys /\ job[p].key \in Keys \cup {None}
  BY <1>1, JobTyped DEF TypeOK
<1>3. BackgroundOK' /\ DiskOK'
  BY <1>1, BackgroundKept, DiskKept DEF TypeOK
<1>4. key' \in [Objects -> Keys \cup {None}]
  BY <1>1, <1>2 DEF TypeOK, ObjectOK, KeyOf
<1>5. CASE job[p].op = "restore"
  <2>1. metas[s].pw \in Passwords
    BY <1>1, <1>5, RestoringMeta DEF TypeOK
  <2>2. /\ SetCredentials(a, metas[s].pw) /\ asked' = [asked EXCEPT ![a] = metas[s].pw]
        /\ WireEvents(s, a) /\ Ends(p)
    BY <1>5 DEF Rest
  <2> HIDE DEF a, s
  <2>3. /\ account' \in [Slots -> Objects \cup {None}] /\ unsubs' \in [Slots -> Objects \cup {None}]
        /\ hears' \in [Objects -> SUBSET Slots] /\ pc' \in [Procs -> Steps] /\ job' \in [Procs -> Jobs]
    BY <1>2, <2>2, WireTyped, EndsTyped DEF TypeOK
  <2>4. ObjectOK'
    BY <1>1, <1>2, <1>4, <2>1, <2>2, <2>3 DEF SetCredentials, TypeOK, ObjectOK
  <2>5. FacadeOK' /\ ProcessOK'
    BY <1>1, <2>3 DEF TypeOK, FacadeOK, ProcessOK
  <2>6. HistoryOK'
    BY <1>1, <1>2, <2>1, <2>2 DEF TypeOK, HistoryOK
  <2> QED
    BY <1>3, <2>4, <2>5, <2>6 DEF TypeOK
<1>6. CASE job[p].op # "restore"
  <2>1. /\ GoOn(p, s, a, job[p].call, key'[a], cred[a] # None) /\ UNCHANGED <<cred, timer, asked>>
    BY <1>6 DEF Rest
  <2> HIDE DEF a, s
  <2>2. /\ account' \in [Slots -> Objects \cup {None}] /\ unsubs' \in [Slots -> Objects \cup {None}]
        /\ hears' \in [Objects -> SUBSET Slots] /\ pc' \in [Procs -> Steps] /\ job' \in [Procs -> Jobs]
    BY <1>2, <2>1, GoOnTyped DEF TypeOK
  <2>3. ObjectOK' /\ FacadeOK' /\ ProcessOK' /\ HistoryOK'
    BY <1>1, <1>2, <1>4, <2>1, <2>2 DEF TypeOK, ObjectOK, FacadeOK, ProcessOK, HistoryOK
  <2> QED
    BY <1>3, <2>3 DEF TypeOK
<1> QED
  BY <1>5, <1>6

LEMMA GenerateKeysTyped == ASSUME TypeOK, IInv, NEW p \in Procs, GenerateKeys(p) PROVE TypeOK'
<1> DEFINE a == job[p].acc
<1>1. a \in Objects /\ job[p].call \in Keys
  BY JobTyped DEF GenerateKeys, TypeOK
<1>2. DiskOK'
  BY <1>1, SavedTyped DEF GenerateKeys, TypeOK, DiskOK
<1>3. ObjectOK' /\ ProcessOK'
  BY <1>1 DEF GenerateKeys, TypeOK, ObjectOK, ProcessOK, Steps
<1> QED
  BY <1>2, <1>3, FacadeKept, BackgroundKept, HistoryKept DEF GenerateKeys, TypeOK

LEMMA AttachedTyped == ASSUME TypeOK, IInv, NEW p \in Procs, Attached(p) PROVE TypeOK'
<1> DEFINE a == job[p].acc
           s == job[p].slot
<1>1. a \in Objects /\ s \in Slots
  BY JobTyped DEF Attached, TypeOK
<1>2. WireEvents(s, a) /\ (Goto(p, "io", "configure", s, a, 0) \/ Ends(p))
  BY DEF Attached, Attach
<1>3. 0 \in Keys /\ "io" \in Steps
  BY DEF Keys, Steps
<1> HIDE DEF a, s
<1>4. /\ account' \in [Slots -> Objects \cup {None}] /\ unsubs' \in [Slots -> Objects \cup {None}]
      /\ hears' \in [Objects -> SUBSET Slots] /\ pc' \in [Procs -> Steps] /\ job' \in [Procs -> Jobs]
  BY <1>1, <1>2, <1>3, WireTyped, GotoTyped, EndsTyped DEF TypeOK
<1>5. ObjectOK' /\ FacadeOK' /\ ProcessOK'
  BY <1>4 DEF Attached, TypeOK, ObjectOK, FacadeOK, ProcessOK
<1> QED
  BY <1>5, DiskKept, BackgroundKept, HistoryKept DEF Attached, TypeOK

LEMMA FailsTyped == ASSUME TypeOK, IInv, NEW p \in Procs, Fails(p) PROVE TypeOK'
<1>1. job[p].acc \in Objects
  BY JobTyped DEF Fails, TypeOK
<1>2. HistoryOK'
  BY <1>1 DEF Fails, TypeOK, HistoryOK, ObjectOK, object
<1>3. ProcessOK'
  BY EndsTyped DEF Fails, TypeOK, ProcessOK
<1> QED
  BY <1>2, <1>3, FacadeKept, ObjectKept, BackgroundKept, DiskKept DEF Fails, TypeOK

LEMMA ConfiguredTyped == ASSUME TypeOK, IInv, NEW p \in Procs, Configured(p) PROVE TypeOK'
<1> DEFINE a == job[p].acc
<1>1. a \in Objects
  BY JobTyped DEF Configured, TypeOK
<1>2. key[a] \in Keys \cup {None}
  BY <1>1 DEF TypeOK, ObjectOK
<1>3. DiskOK'
  BY <1>1, <1>2, SavedTyped DEF Configured, TypeOK, DiskOK
<1>4. ObjectOK'
  BY <1>1 DEF Configured, TypeOK, ObjectOK
<1>5. ProcessOK'
  BY EndsTyped DEF Configured, TypeOK, ProcessOK
<1> QED
  BY <1>3, <1>4, <1>5, FacadeKept, BackgroundKept, HistoryKept DEF Configured, TypeOK

-----------------------------------------------------------------------------
\* Booting and Listed: the restores come first, and nothing is listed twice

LEMMA SeqFacts ==
  ASSUME NEW A, NEW s \in Seq(A), NEW t \in Seq(A)
  PROVE  /\ s \o t \in Seq(A) /\ ToSet(s \o t) = ToSet(s) \cup ToSet(t)
         /\ (s # <<>> => Head(s) \in ToSet(s))
         /\ \A x \in A : Append(s, x) \in Seq(A) /\ ToSet(Append(s, x)) = ToSet(s) \cup {x}
<1> DEFINE n == Len(s)
           m == Len(t)
<1>1. /\ n \in Nat /\ m \in Nat /\ s \o t \in Seq(A) /\ Len(s \o t) = n + m
      /\ \A i \in 1..n : (s \o t)[i] = s[i]
      /\ \A i \in 1..m : (s \o t)[n + i] = t[i]
  OBVIOUS
<1>2. ToSet(s \o t) = ToSet(s) \cup ToSet(t)
  <2>1. \A i \in 1..n + m : i \in 1..n \/ (i - n \in 1..m /\ i = n + (i - n))
    BY <1>1
  <2>2. \A i \in 1..n : i \in 1..n + m
    BY <1>1
  <2>3. \A i \in 1..m : n + i \in 1..n + m
    BY <1>1
  <2> HIDE DEF n, m
  <2>4. ToSet(s \o t) \subseteq ToSet(s) \cup ToSet(t)
    BY <1>1, <2>1 DEF ToSet, n, m
  <2>5. ToSet(s) \subseteq ToSet(s \o t) /\ ToSet(t) \subseteq ToSet(s \o t)
    BY <1>1, <2>2, <2>3 DEF ToSet, n, m
  <2> QED
    BY <2>4, <2>5
<1>3. s # <<>> => Head(s) \in ToSet(s)
  BY DEF ToSet
<1>4. ASSUME NEW x \in A
      PROVE  Append(s, x) \in Seq(A) /\ ToSet(Append(s, x)) = ToSet(s) \cup {x}
  <2>1. /\ Append(s, x) \in Seq(A) /\ Len(Append(s, x)) = n + 1
        /\ \A i \in 1..n : Append(s, x)[i] = s[i]
        /\ Append(s, x)[n + 1] = x
    OBVIOUS
  <2> QED
    BY <2>1 DEF ToSet
<1> QED
  BY <1>1, <1>2, <1>3, <1>4

LEMMA InjectiveAppend ==
  ASSUME NEW A, NEW s \in Seq(A), NEW x \in A, Injective(s), x \notin ToSet(s)
  PROVE  Injective(Append(s, x))
<1>1. /\ Len(s) \in Nat /\ Len(Append(s, x)) = Len(s) + 1
      /\ \A i \in 1..Len(s) : Append(s, x)[i] = s[i]
      /\ Append(s, x)[Len(s) + 1] = x
  OBVIOUS
<1> QED
  BY <1>1 DEF Injective, ToSet

LEMMA InEitherPart ==
  \A n \in Nat, m \in Nat : \A i \in 1..(n + m) :
    i \in 1..n \/ (i - n \in 1..m /\ i = n + (i - n))
OBVIOUS

LEMMA InjectiveConcat ==
  ASSUME NEW A, NEW s \in Seq(A), NEW t \in Seq(A), Injective(s), Injective(t),
         ToSet(s) \cap ToSet(t) = {}
  PROVE  Injective(s \o t)
<1> DEFINE n == Len(s)
           m == Len(t)
           c == s \o t
<1>1. /\ n \in Nat /\ m \in Nat /\ Len(c) = n + m
      /\ \A i \in 1..n : c[i] = s[i]
      /\ \A i \in 1..m : c[n + i] = t[i]
  OBVIOUS
<1> SUFFICES ASSUME NEW i \in 1..Len(c), NEW j \in 1..Len(c), c[i] = c[j]
             PROVE  i = j
  BY DEF Injective
<1>2. /\ i \in 1..n \/ (i - n \in 1..m /\ i = n + (i - n))
      /\ j \in 1..n \/ (j - n \in 1..m /\ j = n + (j - n))
  BY <1>1, InEitherPart
<1>3. CASE i \in 1..n /\ j \in 1..n
  BY <1>1, <1>3 DEF Injective
<1>4. CASE i \notin 1..n /\ j \notin 1..n
  <2>1. i - n \in 1..m /\ j - n \in 1..m /\ c[i] = t[i - n] /\ c[j] = t[j - n]
    BY <1>1, <1>2, <1>4
  <2>2. i - n = j - n
    BY <2>1 DEF Injective
  <2> QED
    BY <1>1, <2>2
<1>5. \A k \in 1..n, l \in 1..m : s[k] # t[l]
  BY DEF ToSet
<1>6. CASE i \in 1..n /\ j \notin 1..n
  <2>1. j - n \in 1..m /\ c[j] = t[j - n] /\ c[i] = s[i]
    BY <1>1, <1>2, <1>6
  <2> QED
    BY <1>5, <1>6, <2>1
<1>7. CASE i \notin 1..n /\ j \in 1..n
  <2>1. i - n \in 1..m /\ c[i] = t[i - n] /\ c[j] = s[j]
    BY <1>1, <1>2, <1>7
  <2> QED
    BY <1>5, <1>7, <2>1
<1> QED
  BY <1>3, <1>4, <1>6, <1>7

LEMMA ListedKept ==
  ASSUME Listed, UNCHANGED <<slots, order, selected, nextId>> PROVE Listed'
BY DEF Listed, Injective, ToSet

LEMMA ListedInit == Init => Listed
BY DEF Init, Listed, Injective, ToSet

\* The next slot is appended.
LEMMA ListedAdded ==
  ASSUME FacadeOK, Listed, nextId \in Slots, nextId' = nextId + 1, selected' = selected,
         slots' = slots \cup {nextId}, order' = Append(order, nextId)
  PROVE  Listed'
<1>1. nextId \notin slots /\ slots' \subseteq 1..(nextId' - 1)
  BY DEF Listed, FacadeOK, Slots
<1>2. order \in Seq(Slots) /\ nextId \notin ToSet(order)
  BY <1>1 DEF Listed, FacadeOK
<1>3. ToSet(order') = slots' /\ Injective(order')
  BY <1>2, SeqFacts, InjectiveAppend DEF Listed
<1> QED
  BY <1>1, <1>3 DEF Listed

LEMMA DropListed == ASSUME FacadeOK, Listed, NEW s \in Slots, Drop(s) PROVE Listed'
<1>1. /\ order' \in Seq(Slots) /\ ToSet(order') = ToSet(order) \cap (ToSet(order) \ {s})
      /\ Injective(order) => Injective(order')
  BY FilterSpec DEF FacadeOK, Drop
<1>2. slots' = slots \ {s} /\ nextId' = nextId /\ Injective(order') /\ ToSet(order') = slots'
  BY <1>1 DEF Listed, Drop
<1>3. selected' \in slots' \cup {None}
  <2>1. order' # <<>> => Head(order') \in slots'
    BY <1>1, <1>2, SeqFacts
  <2> QED
    BY <1>2, <2>1 DEF Drop, SelectedAfter, Listed
<1> QED
  BY <1>2, <1>3 DEF Listed

LEMMA OrderListed ==
  ASSUME FacadeOK, Listed, NEW ids \in Seq(Slots), Injective(ids), SetAccountsOrder(ids)
  PROVE  Listed'
<1> DEFINE f == Filter(ids, ToSet(order))
           g == Filter(order, ToSet(order) \ ToSet(ids))
<1>1. /\ f \in Seq(Slots) /\ ToSet(f) = ToSet(ids) \cap ToSet(order) /\ Injective(f)
      /\ g \in Seq(Slots) /\ ToSet(g) = ToSet(order) \cap (ToSet(order) \ ToSet(ids)) /\ Injective(g)
  BY FilterSpec DEF FacadeOK, Listed
<1>2. order' = f \o g /\ UNCHANGED <<slots, selected, nextId>>
  BY DEF SetAccountsOrder
<1> HIDE DEF f, g
<1>3. ToSet(f \o g) = ToSet(f) \cup ToSet(g)
  BY <1>1, SeqFacts
<1>4. Injective(f \o g)
  BY <1>1, InjectiveConcat
<1>5. ToSet(order') = ToSet(order) /\ Injective(order')
  BY <1>1, <1>2, <1>3, <1>4
<1> QED
  BY <1>2, <1>5 DEF Listed

LEMMA ReadyListed == ASSUME TypeOK, Booting, Listed, Ready PROVE Listed'
<1>1. CASE metas = <<>>
  <2>1. order' = <<1>> /\ slots' = {1} /\ nextId' = 2 /\ selected' = 1
    BY <1>1 DEF Ready
  <2>2. Len(order') = 1 /\ order'[1] = 1
    BY <2>1
  <2>3. Injective(order') /\ ToSet(order') = {1}
    BY <2>2 DEF ToSet, Injective
  <2> QED
    BY <2>1, <2>3 DEF Listed
<1>2. CASE metas # <<>>
  <2>1. metas \in Seq([email : Emails, pw : Passwords])
    BY MetasAssumption DEF TypeOK, FacadeOK
  <2>2. nextId > 1 /\ 1 \in Slots
    BY <1>2, <2>1 DEF Ready, Slots
  <2>3. 1 \in slots
    BY <2>2 DEF Ready, Booting, MadeSlots
  <2>4. order # <<>> /\ UNCHANGED <<slots, order, nextId>> /\ selected' = Head(order)
    BY <1>2, <2>3 DEF Ready, Listed, ToSet
  <2>5. Head(order) \in slots
    BY <2>4, SeqFacts DEF TypeOK, FacadeOK, Listed
  <2> QED
    BY <2>4, <2>5 DEF Listed, Injective, ToSet
<1> QED
  BY <1>1, <1>2

\* What is listed once is as many as the slots.
LEMMA ListedAsMany ==
  ASSUME NEW A, NEW s \in Seq(A), Injective(s)
  PROVE  Cardinality(ToSet(s)) = Len(s)
<1> DEFINE f == [i \in 1..Len(s) |-> s[i]]
<1>1. Len(s) \in Nat
  OBVIOUS
<1>2. IsFiniteSet(1..Len(s)) /\ Cardinality(1..Len(s)) = Len(s)
  <2>1. 1 \in Int /\ Len(s) \in Int /\ (1 > Len(s) => Len(s) = 0) /\ Len(s) - 1 + 1 = Len(s)
    BY <1>1
  <2> QED
    BY <2>1, FS_Interval
<1>3. f \in Bijection(1..Len(s), ToSet(s))
  <2>1. f \in [1..Len(s) -> ToSet(s)] /\ \A i \in 1..Len(s) : f[i] = s[i]
    <3>1. \A i \in 1..Len(s) : s[i] \in ToSet(s)
      BY DEF ToSet
    <3> QED
      BY <3>1
  <2>2. \A i, j \in 1..Len(s) : f[i] = f[j] => i = j
    BY <2>1 DEF Injective
  <2>3. \A x \in ToSet(s) : \E i \in 1..Len(s) : f[i] = x
    BY <2>1 DEF ToSet
  <2> HIDE DEF f
  <2> QED
    BY <2>1, <2>2, <2>3 DEF Bijection, Injection, Surjection, IsInjective
<1>4. ExistsBijection(1..Len(s), ToSet(s))
  BY <1>3 DEF ExistsBijection
<1> QED
  BY <1>2, <1>4, FS_Bijection

-----------------------------------------------------------------------------
\* The restores of the host's accounts are over before a request is served.

\* Request p goes to await point st with job j, and no other request moves.
Moved(p, st, j) == pc' = [pc EXCEPT ![p] = st] /\ job' = [job EXCEPT ![p] = j]

LEMMA MovedAlone ==
  ASSUME ProcessOK, NEW p \in Procs, NEW st, NEW j, Moved(p, st, j)
  PROVE  /\ pc'[p] = st /\ job'[p] = j
         /\ \A q \in Procs : q # p => pc'[q] = pc[q] /\ job'[q] = job[q]
BY DEF ProcessOK, Moved

LEMMA BootingKept ==
  ASSUME Booting, UNCHANGED <<metas, ready, slots, nextId, restore, pc, job>> PROVE Booting'
BY DEF Booting, MadeSlots

LEMMA BootingServed ==
  ASSUME ProcessOK, Booting, ready, ready' = ready, NEW p \in Procs, NEW st, NEW j, Moved(p, st, j),
         st \in {"read", "rest"} => j.op # "restore"
  PROVE  Booting'
BY MovedAlone DEF Booting

LEMMA BootingBefore ==
  ASSUME ProcessOK, Booting, UNCHANGED <<metas, ready, slots, nextId, restore>>,
         NEW p \in Procs, NEW st, NEW j, Moved(p, st, j),
         ~ready => st \in {"idle", "read", "rest"},
         st \in {"read", "rest"} => (j.op = "restore" <=> ~ready)
  PROVE  Booting'
<1>1. /\ \A q \in Procs : ~ready => pc'[q] \in {"idle", "read", "rest"}
      /\ \A q \in Procs : pc'[q] \in {"read", "rest"} => (job'[q].op = "restore" <=> ~ready)
  BY MovedAlone DEF Booting
<1> QED
  BY <1>1 DEF Booting, MadeSlots

LEMMA InitBooting == Init => Booting
BY DEF Init, Booting, MadeSlots, Slots

\* How the pieces of an action move a request
LEMMA GotoMoved ==
  ASSUME NEW p, NEW st, NEW op, NEW s, NEW a, NEW n, Goto(p, st, op, s, a, n)
  PROVE  \E j : Moved(p, st, j) /\ j.op = op /\ j.acc = a /\ j.slot = s /\ j.key = None
<1> DEFINE j == [op |-> op, slot |-> s, acc |-> a, key |-> None, call |-> n]
<1>1. Moved(p, st, j)
  BY DEF Goto, Moved
<1>2. j.op = op /\ j.acc = a /\ j.slot = s /\ j.key = None
  OBVIOUS
<1> HIDE DEF j
<1> QED
  BY <1>1, <1>2

LEMMA EndsMoved == ASSUME NEW p, Ends(p) PROVE Moved(p, "idle", NoJob)
BY DEF Ends, Moved

LEMMA AttachMoved ==
  ASSUME NEW p, NEW s, NEW a, NEW live, Attach(p, s, a, live)
  PROVE  /\ WireEvents(s, a)
         /\ \E st \in {"io", "idle"} : \E j : Moved(p, st, j) /\ (st # "idle" => j.acc = a)
<1>1. CASE Goto(p, "io", "configure", s, a, 0)
  <2>1. PICK j : Moved(p, "io", j) /\ j.acc = a
    BY <1>1, GotoMoved
  <2> QED
    BY <2>1 DEF Attach
<1>2. CASE Ends(p)
  BY <1>2, EndsMoved DEF Attach
<1> QED
  BY <1>1, <1>2 DEF Attach

\* After the load a request makes keys, or gives the slot its account.
LEMMA GoOnMoved ==
  ASSUME NEW p, NEW s, NEW a, NEW n, NEW k, NEW live, GoOn(p, s, a, n, k, live)
  PROVE  /\ \E st \in {"keys", "io", "idle"} : \E j :
               /\ Moved(p, st, j) /\ (st # "idle" => j.acc = a)
               /\ st = "keys" => k = None
         /\ WireEvents(s, a) \/ UNCHANGED <<account, unsubs, hears>>
<1>1. CASE k = None
  <2>1. Goto(p, "keys", "configure", s, a, n) /\ UNCHANGED <<account, unsubs, hears>>
    BY <1>1 DEF GoOn
  <2>2. PICK j : Moved(p, "keys", j) /\ j.acc = a
    BY <2>1, GotoMoved
  <2> QED
    BY <1>1, <2>1, <2>2
<1>2. CASE k # None
  <2>1. WireEvents(s, a) /\ \E st \in {"io", "idle"} : \E j : Moved(p, st, j) /\ (st # "idle" => j.acc = a)
    BY <1>2, AttachMoved DEF GoOn
  <2> QED
    BY <2>1
<1> QED
  BY <1>1, <1>2

LEMMA CallBooting ==
  ASSUME TypeOK, IInv, Booting, NEW p \in Procs, Call(p) PROVE Booting'
<1>1. CASE \E s \in Slots : RemoveAccount(p, s)
  <2>1. PICK s \in Slots : RemoveAccount(p, s)
    BY <1>1
  <2>2. ready /\ ready' = ready
    BY <2>1 DEF RemoveAccount, Serve
  <2>3. CASE account[s] = None
    BY <2>1, <2>2, <2>3 DEF RemoveAccount, process, Booting
  <2>4. CASE account[s] # None
    <3>1. \E st \in {"wipe", "rewipe"} : Goto(p, st, "remove", s, account[s], 0)
      BY <2>1, <2>4 DEF RemoveAccount
    <3>2. \E st \in {"wipe", "rewipe"} : \E j : Moved(p, st, j)
      BY <3>1, GotoMoved
    <3> QED
      BY <2>2, <3>2, BootingServed DEF TypeOK
  <2> QED
    BY <2>3, <2>4
<1>2. CASE \E s \in Slots, e \in Emails, w \in Passwords : ConfigureCredentials(p, s, e, w)
  <2>1. PICK s \in Slots, e \in Emails, w \in Passwords : ConfigureCredentials(p, s, e, w)
    BY <1>2
  <2>2. ready /\ ready' = ready
    BY <2>1 DEF ConfigureCredentials, Serve
  <2>3. \E st, j : Moved(p, st, j) /\ (st \in {"read", "rest"} => j.op # "restore")
    <3>1. CASE Found(e) = {}
      <4>1. Goto(p, "read", "configure", s, made + 1, calls + 1)
        BY <2>1, <3>1 DEF ConfigureCredentials
      <4> QED
        BY <4>1, GotoMoved
    <3>2. CASE Found(e) # {}
      <4>1. PICK a \in FindAccountByEmail(e) : GoOn(p, s, a, calls + 1, key[a], TRUE)
        BY <2>1, <3>2 DEF ConfigureCredentials
      <4> QED
        BY <4>1, GoOnMoved
    <3> QED
      BY <3>1, <3>2
  <2> QED
    BY <2>2, <2>3, BootingServed DEF TypeOK
<1>3. CASE \E s \in Slots, e \in Emails, w \in Passwords : Register(p, s, e, w)
  <2>1. PICK s \in Slots, e \in Emails, w \in Passwords : Register(p, s, e, w)
    BY <1>3
  <2>2. ready /\ ready' = ready /\ Goto(p, "keys", "configure", s, made + 1, calls + 1)
    BY <2>1 DEF Register, Serve
  <2>3. \E j : Moved(p, "keys", j)
    BY <2>2, GotoMoved
  <2> QED
    BY <2>2, <2>3, BootingServed DEF TypeOK
<1> QED
  BY <1>1, <1>2, <1>3 DEF Call

LEMMA RestoreAccountBooting ==
  ASSUME TypeOK, Booting, NEW p \in Procs, RestoreAccount(p) PROVE Booting'
<1>1. /\ ~ready /\ ready' = ready /\ metas' = metas /\ UNCHANGED background
      /\ \A q \in Procs : pc[q] = "idle"
      /\ nextId <= Len(metas) /\ slots' = slots \cup {nextId} /\ nextId' = nextId + 1
      /\ \E a : Goto(p, "read", "restore", nextId, a, 0)
  BY DEF RestoreAccount
<1>2. PICK j : Moved(p, "read", j) /\ j.op = "restore"
  BY <1>1, GotoMoved
<1>3. /\ \A q \in Procs : pc'[q] \in {"idle", "read"}
      /\ \A q \in Procs : pc'[q] \in {"read", "rest"} => job'[q].op = "restore"
  BY <1>1, <1>2, MovedAlone DEF TypeOK
<1>4. metas \in Seq([email : Emails, pw : Passwords]) /\ Len(metas) <= MaxSlots
  BY MetasAssumption DEF TypeOK, FacadeOK
<1>5. slots' = MadeSlots' /\ nextId' <= Len(metas) + 1
  BY <1>1, <1>4 DEF Booting, MadeSlots, Slots, TypeOK, FacadeOK
<1> QED
  BY <1>1, <1>3, <1>5 DEF Booting, background

LEMMA ReadBooting == ASSUME TypeOK, Booting, NEW p \in Procs, Read(p) PROVE Booting'
<1>1. pc[p] = "read" /\ UNCHANGED <<metas, ready, slots, nextId, restore>>
  BY DEF Read, background
<1>2. job[p].op = "restore" <=> ~ready
  BY <1>1 DEF Booting
<1>3. CASE disk[email[job[p].acc]] # None
  <2> DEFINE j == [job[p] EXCEPT !.key = disk[email[job[p].acc]].key]
  <2>1. Moved(p, "rest", j)
    BY <1>3 DEF Read, Moved
  <2>2. job[p] \in Jobs
    BY DEF TypeOK, ProcessOK
  <2>3. j.op = job[p].op
    BY <2>2 DEF Jobs
  <2> HIDE DEF j
  <2> QED
    BY <1>1, <1>2, <2>1, <2>3, BootingBefore DEF TypeOK
<1>4. CASE disk[email[job[p].acc]] = None /\ job[p].op = "restore"
  BY <1>1, <1>2, <1>4, EndsMoved, BootingBefore DEF Read, TypeOK
<1>5. CASE disk[email[job[p].acc]] = None /\ job[p].op # "restore"
  <2>1. GoOn(p, job[p].slot, job[p].acc, job[p].call, key[job[p].acc], cred[job[p].acc] # None)
    BY <1>5 DEF Read
  <2>2. \E st \in {"keys", "io", "idle"} : \E j : Moved(p, st, j)
    BY <2>1, GoOnMoved
  <2> QED
    BY <1>1, <1>2, <1>5, <2>2, BootingServed DEF TypeOK
<1> QED
  BY <1>3, <1>4, <1>5

LEMMA RestBooting == ASSUME TypeOK, Booting, NEW p \in Procs, Rest(p) PROVE Booting'
<1>1. pc[p] = "rest" /\ UNCHANGED <<metas, ready, slots, nextId, restore>>
  BY DEF Rest, background
<1>2. job[p].op = "restore" <=> ~ready
  BY <1>1 DEF Booting
<1>3. CASE job[p].op = "restore"
  BY <1>1, <1>2, <1>3, EndsMoved, BootingBefore DEF Rest, TypeOK
<1>4. CASE job[p].op # "restore"
  <2>1. \E k, live : GoOn(p, job[p].slot, job[p].acc, job[p].call, k, live)
    BY <1>4 DEF Rest
  <2>2. \E st \in {"keys", "io", "idle"} : \E j : Moved(p, st, j)
    BY <2>1, GoOnMoved
  <2> QED
    BY <1>1, <1>2, <1>4, <2>2, BootingServed DEF TypeOK
<1> QED
  BY <1>3, <1>4

LEMMA StepBooting == ASSUME TypeOK, Booting, NEW p \in Procs, Step(p) PROVE Booting'
<1>1. CASE Read(p) \/ Rest(p)
  BY <1>1, ReadBooting, RestBooting
<1>2. CASE Deregister(p) \/ GenerateKeys(p)
  <2>1. ready
    BY <1>2 DEF Booting, Deregister, GenerateKeys
  <2>2. ready' = ready /\ \E st \in {"rewipe", "attach"} : pc' = [pc EXCEPT ![p] = st] /\ job' = job
    BY <1>2 DEF Deregister, GenerateKeys
  <2>3. \A q \in Procs : pc'[q] \in {"read", "rest"} => pc'[q] = pc[q]
    BY <2>2 DEF TypeOK, ProcessOK
  <2> QED
    BY <2>1, <2>2, <2>3 DEF Booting
<1>3. CASE RemoveEnds(p)
  <2>1. ready /\ ready' = ready /\ Ends(p)
    BY <1>3 DEF Booting, RemoveEnds
  <2> QED
    BY <2>1, EndsMoved, BootingServed DEF TypeOK
<1>4. CASE Attached(p)
  <2>1. /\ ready /\ ready' = ready
        /\ Attach(p, job[p].slot, job[p].acc, cred[job[p].acc] # None)
    BY <1>4 DEF Booting, Attached
  <2>2. \E st \in {"io", "idle"} : \E j : Moved(p, st, j)
    BY <2>1, AttachMoved
  <2> QED
    BY <2>1, <2>2, BootingServed DEF TypeOK
<1>5. CASE Fails(p) \/ Configured(p)
  <2>1. UNCHANGED <<metas, ready, slots, nextId, restore>> /\ Ends(p)
    BY <1>5 DEF Fails, Configured, facade, background
  <2> QED
    BY <2>1, EndsMoved, BootingBefore DEF TypeOK
<1> QED
  BY <1>1, <1>2, <1>3, <1>4, <1>5 DEF Step

LEMMA BackgroundBooting ==
  ASSUME TypeOK, Booting, NEW a \in Objects, RestoreReads(a) \/ RestoreEnds(a) \/ RestoreFails(a)
  PROVE  Booting' /\ a \in Objects /\ ready
<1>1. ready
  BY DEF Booting, RestoreReads, RestoreEnds, RestoreFails
<1>2. UNCHANGED <<ready, process>>
  BY DEF RestoreReads, RestoreEnds, RestoreFails
<1> QED
  BY <1>1, <1>2 DEF Booting, process

-----------------------------------------------------------------------------
\* A step concerns one object, a; what the others are and were asked stays, and
\* their stored snapshots, unless they are dead.
Requests(a) ==
    \A q \in Procs :
        \/ pc'[q] = pc[q] /\ job'[q] = job[q]
        \/ /\ pc[q] = "idle" \/ job[q].acc = a
           /\ pc'[q] = "idle" \/ job'[q].acc = a

Others(a) ==
    /\ \A b \in Objects \ {a} :
          /\ email'[b] = email[b] /\ cred'[b] = cred[b] /\ key'[b] = key[b] /\ timer'[b] = timer[b]
          /\ restore'[b] = restore[b] /\ first'[b] = first[b] /\ held'[b] = held[b]
          /\ asked'[b] = asked[b]
          /\ (b \in accounts' <=> b \in accounts) /\ (b \in loaded' <=> b \in loaded)
    /\ \A s \in Slots : account'[s] \in {account[s], a}
    /\ \A b \in (Clean \cap Clean') \ {a} : cred[b] = None \/ disk'[email[b]] = disk[email[b]]
    /\ Requests(a)
    /\ ready' = ready /\ spoilt \subseteq spoilt'
    /\ (made' = made /\ a <= made) \/ (made' = a /\ a = made + 1)

\* No other object of its database lives.
OnlyLive(a) ==
    cred'[a] # None => \A b \in Clean \ {a} : email[b] = email'[a] => cred[b] = None

AllSound == \A b \in Clean : Sound(b)

LEMMA CleanBefore ==
  ASSUME made \in 0..MaxAccounts, NEW a \in Objects, Others(a), NEW b \in Clean', b # a
  PROVE  b \in Clean /\ b \in Objects /\ email'[b] = email[b]
<1>1. b \in 1..made' /\ email'[b] \notin spoilt'
  BY DEF Clean
<1>2. b \in 1..made
  BY <1>1 DEF Others
<1>3. b \in Objects \ {a}
  BY <1>2
<1> QED
  BY <1>1, <1>2, <1>3 DEF Others, Clean

\* What a request is doing for an object that the step does not concern
LEMMA RequestsKept ==
  ASSUME NEW a, Requests(a), NEW b, b # a, NEW q \in Procs, NEW st, st # "idle"
  PROVE  /\ pc'[q] = st /\ job'[q].acc = b <=> pc[q] = st /\ job[q].acc = b
         /\ pc'[q] = st /\ job'[q].acc = b => job'[q] = job[q]
BY DEF Requests

LEMMA Untouched ==
  ASSUME made \in 0..MaxAccounts, NEW a \in Objects, Others(a), AllSound, NEW b \in Clean', b # a
  PROVE  Sound(b)'
<1>1. b \in Clean /\ b \in Objects /\ email'[b] = email[b] /\ Sound(b)
  BY CleanBefore DEF AllSound
<1>2. /\ cred'[b] = cred[b] /\ key'[b] = key[b] /\ timer'[b] = timer[b]
      /\ restore'[b] = restore[b] /\ first'[b] = first[b] /\ held'[b] = held[b] /\ asked'[b] = asked[b]
      /\ (b \in accounts' <=> b \in accounts) /\ (b \in loaded' <=> b \in loaded)
      /\ \A s \in Slots : account'[s] = b => account[s] = b
      /\ cred[b] = None \/ disk'[email[b]] = disk[email[b]]
      /\ ready' = ready /\ Requests(a)
  BY <1>1 DEF Others
<1>3. \A q \in Procs :
         /\ pc'[q] = "read" /\ job'[q].acc = b <=> pc[q] = "read" /\ job[q].acc = b
         /\ pc'[q] = "rest" /\ job'[q].acc = b <=> pc[q] = "rest" /\ job[q].acc = b
         /\ pc'[q] = "keys" /\ job'[q].acc = b <=> pc[q] = "keys" /\ job[q].acc = b
         /\ pc'[q] = "attach" /\ job'[q].acc = b <=> pc[q] = "attach" /\ job[q].acc = b
         /\ pc'[q] = "io" /\ job'[q].acc = b <=> pc[q] = "io" /\ job[q].acc = b
         /\ pc'[q] = "wipe" /\ job'[q].acc = b <=> pc[q] = "wipe" /\ job[q].acc = b
         /\ pc'[q] = "rest" /\ job'[q].acc = b => job'[q].key = job[q].key
  BY <1>2, RequestsKept
<1>4. /\ \A q \in Procs : Reads(q, b)' <=> Reads(q, b)
      /\ \A q \in Procs : Configures(q, b)' <=> Configures(q, b)
      /\ Loading(b)' <=> Loading(b)
  BY <1>2, <1>3 DEF Reads, Configures, Loading
<1>5. OneByOne(b)'
  BY <1>1, <1>2, <1>3, <1>4 DEF Sound, OneByOne
<1>6. Lives(b)'
  BY <1>1, <1>2, <1>3, <1>4 DEF Sound, Lives
<1>7. Pinned(b)'
  BY <1>1, <1>2, <1>4 DEF Sound, Pinned
<1>8. Loading(b) => disk'[email[b]] = disk[email[b]]
  BY <1>1, <1>2 DEF Sound, Lives
<1>9. Corrected(b)'
  <2>1. \A q \in Procs : Reads(q, b) => Loading(b)
    BY DEF Loading
  <2>2. restore[b] # "none" => Loading(b)
    BY DEF Loading
  <2>3. Corrected(b)
    BY <1>1 DEF Sound
  <2>4. (restore[b] # "none" =>
          /\ first[b] = asked[b] /\ ~timer[b] /\ key[b] = None
          /\ \E p \in Procs : Reads(p, b) /\ (restore[b] = "read" => pc[p] = "read"))'
    BY <1>2, <1>3, <1>4, <2>3 DEF Corrected, Reads
  <2>5. (restore[b] = "rest" => disk[email[b]] # None /\ held[b] = disk[email[b]].key)'
    BY <1>1, <1>2, <1>8, <2>2, <2>3 DEF Corrected
  <2>6. (\A p \in Procs : ready /\ Reads(p, b) /\ restore[b] = "none" =>
          /\ cred[b] = asked[b]
          /\ pc[p] = "read" /\ disk[email[b]] # None => disk[email[b]].pw = asked[b])'
    <3> SUFFICES ASSUME NEW p \in Procs, ready, Reads(p, b)', restore[b] = "none"
                 PROVE  /\ cred[b] = asked[b]
                        /\ pc'[p] = "read" /\ disk[email[b]] # None => disk[email[b]].pw = asked[b]
      BY <1>1, <1>2, <1>4, <1>8, <2>1
    <3>1. Reads(p, b) /\ (pc'[p] = "read" => pc[p] = "read")
      BY <1>3, <1>4 DEF Reads
    <3> QED
      BY <2>3, <3>1 DEF Corrected
  <2> QED
    BY <2>4, <2>5, <2>6 DEF Corrected
<1>10. KeyFollows(b)'
  <2>1. \A q \in Procs : pc[q] = "rest" /\ job[q].acc = b => Loading(b)
    BY DEF Loading, Reads
  <2>2. CASE cred[b] = None
    <3>1. ~Loading(b)
      BY <1>1, <2>2 DEF Sound, Lives
    <3>2. \A q \in Procs : ~(pc'[q] = "rest" /\ job'[q].acc = b)
      BY <1>3, <2>1, <3>1
    <3>3. cred'[b] = None
      BY <1>2, <2>2
    <3> QED
      BY <3>2, <3>3 DEF KeyFollows
  <2>3. CASE disk'[email[b]] = disk[email[b]]
    <3>1. KeyFollows(b) /\ disk'[email'[b]] = disk[email[b]]
      BY <1>1, <2>3 DEF Sound
    <3>2. \A q \in Procs :
             /\ pc'[q] = "rest" /\ job'[q].acc = b
                => disk[email[b]] # None /\ job'[q].key = disk[email[b]].key
             /\ pc'[q] = "keys" /\ job'[q].acc = b /\ cred[b] # None
                => key[b] = None /\ (disk[email[b]] # None => disk[email[b]].key = None)
      BY <1>3, <3>1 DEF KeyFollows
    <3>3. /\ cred[b] # None /\ (Loading(b) \/ ~ready) /\ key[b] # None
             => disk[email[b]] # None /\ disk[email[b]].key = key[b]
          /\ cred[b] # None /\ disk[email[b]] # None /\ disk[email[b]].key # None
             => key[b] = disk[email[b]].key \/ (~timer[b] /\ key[b] = None /\ Loading(b))
      BY <3>1 DEF KeyFollows
    <3> QED
      BY <1>2, <1>4, <3>1, <3>2, <3>3 DEF KeyFollows
  <2> QED
    BY <1>2, <2>2, <2>3
<1> QED
  BY <1>5, <1>6, <1>7, <1>9, <1>10 DEF Sound

\* Nothing else is to be shown of a step that concerns a.
LEMMA Touching ==
  ASSUME made \in 0..MaxAccounts, NEW a \in Objects, Others(a),
         Unmade, OneLives, AllSound, a \in Clean' => OnlyLive(a) /\ Sound(a)'
  PROVE  Unmade' /\ OneLives' /\ AllSound'
<1>1. Unmade'
  BY DEF Unmade, Others
<1>2. AllSound'
  BY Untouched DEF AllSound
<1>3. ASSUME NEW b \in Clean', NEW c \in Clean', email'[b] = email'[c], cred'[b] # None,
             cred'[c] # None, b # a
      PROVE  b = c
  <2>1. b \in Clean /\ email'[b] = email[b] /\ cred'[b] = cred[b]
    BY <1>3, CleanBefore DEF Others
  <2>2. CASE c = a
    BY <1>3, <2>1, <2>2 DEF OnlyLive
  <2>3. CASE c # a
    <3>1. c \in Clean /\ email'[c] = email[c] /\ cred'[c] = cred[c]
      BY <2>3, CleanBefore DEF Others
    <3> QED
      BY <1>3, <2>1, <3>1 DEF OneLives
  <2> QED
    BY <2>2, <2>3
<1>4. OneLives'
  <2> SUFFICES ASSUME NEW b \in Clean', NEW c \in Clean', email'[b] = email'[c],
                      cred'[b] # None, cred'[c] # None
               PROVE  b = c
    BY DEF OneLives
  <2>1. CASE b = a /\ c = a
    BY <2>1
  <2> QED
    BY <1>3, <2>1
<1> QED
  BY <1>1, <1>2, <1>4

\* A step after which the object a has not come to life, nor changed its email
LEMMA StaysOnly ==
  ASSUME OneLives, NEW a \in 1..made, email'[a] = email[a], cred'[a] # None => cred[a] # None
  PROVE  OnlyLive(a)
BY DEF OneLives, OnlyLive, Clean

\* Nothing happens to the objects, their requests and their snapshots.
LEMMA SoundKept ==
  ASSUME Unmade, OneLives, AllSound,
         UNCHANGED <<ready, account, made, email, cred, key, timer, accounts, background, disk, process, history>>
  PROVE  Unmade' /\ OneLives' /\ AllSound'
BY DEF Unmade, OneLives, AllSound, Sound, OneByOne, Lives, Corrected, KeyFollows, Pinned,
       Clean, Configures, Reads, Loading, background, process, history

-----------------------------------------------------------------------------
\* What an account object does by itself

Steady == Unmade /\ OneLives /\ AllSound
Before == TypeOK /\ IInv /\ Booting /\ Listed /\ Steady

\* The types a step about object a needs
LEMMA ObjectTyped ==
  ASSUME TypeOK, NEW a \in 1..made
  PROVE  /\ made \in 0..MaxAccounts /\ a \in Objects /\ a <= made /\ email[a] \in Emails
         /\ disk[email[a]] # None =>
               disk[email[a]].pw \in Passwords /\ disk[email[a]].key \in Keys \cup {None}
<1>1. made \in 0..MaxAccounts /\ a \in Objects /\ a <= made /\ email[a] \in Emails
  BY DEF TypeOK, ObjectOK
<1>2. disk[email[a]] # None =>
         disk[email[a]].pw \in Passwords /\ disk[email[a]].key \in Keys \cup {None}
  BY <1>1 DEF TypeOK, DiskOK
<1> QED
  BY <1>1, <1>2

\* What a writes is stored in its own database, or the others there are dead.
LEMMA SavedOthers ==
  ASSUME TypeOK, OneLives, NEW a \in 1..made, NEW k, disk' = SavedWith(a, k) \/ disk' = disk
  PROVE  \A b \in Clean \ {a} : cred[b] = None \/ disk'[email[b]] = disk[email[b]]
<1> SUFFICES ASSUME NEW b \in Clean, b # a, cred[b] # None PROVE disk'[email[b]] = disk[email[b]]
  OBVIOUS
<1>1. CASE cred[a] = None \/ disk' = disk
  BY <1>1 DEF SavedWith
<1>2. CASE cred[a] # None /\ disk' = SavedWith(a, k)
  <2>1. email[a] # email[b]
    BY <1>2 DEF OneLives, Clean
  <2>2. disk' = [disk EXCEPT ![email[a]] = [pw |-> cred[a], key |-> k]]
    BY <1>2 DEF SavedWith
  <2> QED
    BY <2>1, <2>2 DEF TypeOK, DiskOK
<1> QED
  BY <1>1, <1>2

LEMMA SavedHere ==
  ASSUME TypeOK, NEW a \in 1..made, NEW k \in Keys \cup {None},
         disk' = SavedWith(a, k), cred[a] # None
  PROVE  disk'[email[a]] # None /\ disk'[email[a]].pw = cred[a] /\ disk'[email[a]].key = k
<1>1. disk' = [disk EXCEPT ![email[a]] = [pw |-> cred[a], key |-> k]] /\ email[a] \in Emails
  BY ObjectTyped DEF SavedWith
<1>2. disk'[email[a]] = [pw |-> cred[a], key |-> k]
  BY <1>1 DEF TypeOK, DiskOK
<1>3. [pw |-> cred[a], key |-> k] # None
  <2>1. cred[a] \in Passwords
    BY ObjectTyped DEF TypeOK, ObjectOK
  <2>2. [pw |-> cred[a], key |-> k] \in [pw : Passwords, key : Keys \cup {None}]
    BY <2>1
  <2> QED
    BY <2>2
<1> QED
  BY <1>2, <1>3

LEMMA TimerFiresSteady == ASSUME Before, NEW a \in Objects, TimerFires(a) PROVE Steady'
<1>1. a \in 1..made /\ a \in Objects /\ made \in 0..MaxAccounts
  BY DEF TimerFires, Before, Steady, Unmade, TypeOK, ObjectOK
<1>2. /\ timer[a] /\ timer' = [timer EXCEPT ![a] = FALSE] /\ disk' = SavedWith(a, key[a])
      /\ UNCHANGED <<ready, account, made, email, cred, key, accounts, background, process, history>>
  BY DEF TimerFires, facade
<1>3. timer'[a] = FALSE /\ \A b \in Objects \ {a} : timer'[b] = timer[b]
  BY <1>2 DEF Before, TypeOK, ObjectOK
<1>4. Others(a)
  <2>1. \A b \in Clean \ {a} : cred[b] = None \/ disk'[email[b]] = disk[email[b]]
    BY <1>1, <1>2, SavedOthers DEF Before, Steady
  <2> QED
    BY <1>1, <1>2, <1>3, <2>1 DEF Others, Requests, background, process, history
<1>5. OnlyLive(a)
  BY <1>1, <1>2, StaysOnly DEF Before, Steady
<1>6. ASSUME a \in Clean' PROVE Sound(a)'
  <2>1. a \in Clean /\ Sound(a)
    BY <1>1, <1>2, <1>6 DEF Clean, history, Before, Steady, AllSound
  <2>2. /\ UNCHANGED <<ready, account, email, cred, key, accounts, restore, first, held, pc, job, asked, loaded>>
        /\ \A q \in Procs : (Reads(q, a)' <=> Reads(q, a)) /\ (Configures(q, a)' <=> Configures(q, a))
        /\ Loading(a)' <=> Loading(a)
    BY <1>2 DEF background, process, history, Reads, Configures, Loading
  <2>3. restore[a] = "none"
    BY <1>2, <2>1 DEF Sound, Corrected
  <2>4. CASE cred[a] = None
    <3>1. disk' = disk
      BY <1>2, <2>4 DEF SavedWith
    <3>2. ~Loading(a)
      BY <2>1, <2>4 DEF Sound, Lives
    <3>3. \A q \in Procs : ~(Reads(q, a)) /\ ~(pc[q] = "rest" /\ job[q].acc = a)
      BY <3>2 DEF Loading, Reads
    <3> QED
      BY <2>1, <2>2, <2>3, <2>4, <3>1, <3>2, <3>3
      DEF Sound, OneByOne, Lives, Corrected, KeyFollows, Pinned
  <2>5. CASE cred[a] # None
    <3> DEFINE stored == disk[email[a]]
    <3>1. key[a] \in Keys \cup {None}
      BY DEF Before, TypeOK, ObjectOK
    <3>2. disk'[email[a]] # None /\ disk'[email[a]].pw = cred[a] /\ disk'[email[a]].key = key[a]
      BY <1>1, <1>2, <2>5, <3>1, SavedHere DEF Before
    <3>3. OneByOne(a)' /\ Lives(a)' /\ Pinned(a)'
      BY <2>1, <2>2 DEF Sound, OneByOne, Lives, Pinned
    <3>4. Corrected(a)'
      BY <2>1, <2>2, <2>3, <3>2 DEF Sound, Corrected
    <3>5. KeyFollows(a)'
      <4>1. KeyFollows(a)
        BY <2>1 DEF Sound
      <4>2. ASSUME NEW q \in Procs, pc[q] = "rest", job[q].acc = a
            PROVE  job[q].key = key[a]
        <5>1. Loading(a)
          BY <4>2 DEF Loading, Reads
        <5> QED
          BY <1>2, <2>5, <4>1, <4>2, <5>1 DEF KeyFollows
      <4>3. ASSUME NEW q \in Procs, pc[q] = "keys", job[q].acc = a PROVE key[a] = None
        BY <2>5, <4>1, <4>3 DEF KeyFollows
      <4> QED
        BY <2>2, <3>2, <4>2, <4>3 DEF KeyFollows
    <3> QED
      BY <3>3, <3>4, <3>5 DEF Sound
  <2> QED
    BY <2>4, <2>5
<1> QED
  BY <1>1, <1>4, <1>5, <1>6, Touching DEF Before, Steady

LEMMA RestoreReadsSteady == ASSUME Before, NEW a \in Objects, RestoreReads(a) PROVE Steady'
<1>1. a \in 1..made /\ made \in 0..MaxAccounts /\ ready
  BY DEF RestoreReads, Before, Steady, Unmade, Booting, TypeOK, ObjectOK
<1>2. /\ restore[a] = "read"
      /\ UNCHANGED <<ready, account, made, email, key, accounts, disk, pc, job, asked, spoilt>>
  BY DEF RestoreReads, facade, process
<1>3. \A b \in Objects \ {a} :
         /\ cred'[b] = cred[b] /\ timer'[b] = timer[b] /\ restore'[b] = restore[b]
         /\ first'[b] = first[b] /\ held'[b] = held[b] /\ (b \in loaded' <=> b \in loaded)
  BY DEF RestoreReads, Before, TypeOK, ObjectOK, BackgroundOK
<1>4. Others(a)
  BY <1>1, <1>2, <1>3 DEF Others, Requests
<1>5. CASE a \notin Clean
  <2>1. a \notin Clean'
    BY <1>2, <1>5 DEF Clean
  <2> QED
    BY <1>1, <1>4, <2>1, Touching DEF Before, Steady
<1>6. CASE a \in Clean
  <2>1. Sound(a) /\ Loading(a)
    BY <1>2, <1>6 DEF Before, Steady, AllSound, Loading
  <2>2. /\ first[a] = asked[a] /\ asked[a] # None /\ ~timer[a] /\ key[a] = None /\ cred[a] # None
        /\ a \in accounts /\ \E p \in Procs : Reads(p, a) /\ pc[p] = "read"
    BY <1>2, <2>1 DEF Sound, Lives, Corrected
  <2>3. OnlyLive(a)
    BY <1>1, <1>2, <2>2, StaysOnly DEF Before, Steady
  <2>4. /\ \A q \in Procs : (Reads(q, a)' <=> Reads(q, a)) /\ (Configures(q, a)' <=> Configures(q, a))
        /\ Loading(a)'
    BY <1>2, <2>2 DEF Reads, Configures, Loading
  <2>5. cred'[a] # None
    <3>1. disk[email[a]] # None => disk[email[a]].pw # None
      BY <1>1, ObjectTyped DEF Before
    <3> QED
      BY <2>2, <3>1 DEF RestoreReads, Before, TypeOK, ObjectOK
  <2>6. OneByOne(a)' /\ Lives(a)'
    BY <1>1, <1>2, <2>1, <2>2, <2>4, <2>5 DEF Sound, OneByOne, Lives
  <2>7. Pinned(a)'
    BY <2>4 DEF Pinned
  <2>8. Corrected(a)' /\ KeyFollows(a)'
    <3>1. CASE disk[email[a]] = None
      <4>1. cred'[a] = asked[a] /\ restore'[a] = "none"
        BY <1>2, <2>2, <3>1 DEF RestoreReads, Before, TypeOK, ObjectOK, BackgroundOK
      <4> QED
        BY <1>1, <1>2, <2>1, <2>2, <3>1, <4>1 DEF Sound, Corrected, KeyFollows
    <3>2. CASE disk[email[a]] # None
      <4>1. /\ restore'[a] = "rest" /\ held'[a] = disk[email[a]].key /\ first'[a] = first[a]
            /\ timer'[a] = timer[a]
        BY <1>2, <3>2 DEF RestoreReads, Before, TypeOK, ObjectOK, BackgroundOK
      <4>2. Corrected(a)'
        BY <1>2, <2>2, <2>4, <3>2, <4>1 DEF Corrected
      <4>3. KeyFollows(a)
        BY <2>1 DEF Sound
      <4>4. KeyFollows(a)'
        BY <1>2, <2>2, <2>4, <4>1, <4>3 DEF KeyFollows
      <4> QED
        BY <4>2, <4>4
    <3> QED
      BY <3>1, <3>2
  <2> QED
    BY <1>1, <1>4, <2>3, <2>6, <2>7, <2>8, Touching DEF Before, Steady, Sound
<1> QED
  BY <1>5, <1>6

LEMMA RestoreEndsSteady == ASSUME Before, NEW a \in Objects, RestoreEnds(a) PROVE Steady'
<1>1. a \in 1..made /\ made \in 0..MaxAccounts /\ ready
  <2>1. restore[a] = "rest" /\ restore[a] # "none"
    BY DEF RestoreEnds
  <2> QED
    BY <2>1 DEF Before, Steady, Unmade, Booting, TypeOK, ObjectOK
<1>2. /\ restore[a] = "rest" /\ \A p \in Procs : ~(pc[p] = "read" /\ job[p].acc = a)
      /\ UNCHANGED <<ready, account, made, email, accounts, disk, pc, job, asked, spoilt>>
  BY DEF RestoreEnds, facade, process
<1>3. \A b \in Objects \ {a} :
         /\ cred'[b] = cred[b] /\ timer'[b] = timer[b] /\ restore'[b] = restore[b] /\ key'[b] = key[b]
         /\ first'[b] = first[b] /\ held'[b] = held[b] /\ (b \in loaded' <=> b \in loaded)
  BY DEF RestoreEnds, SetCredentials, KeyOf, Before, TypeOK, ObjectOK, BackgroundOK
<1>4. Others(a)
  BY <1>1, <1>2, <1>3 DEF Others, Requests
<1>5. CASE a \notin Clean
  <2>1. a \notin Clean'
    BY <1>2, <1>5 DEF Clean
  <2> QED
    BY <1>1, <1>4, <2>1, Touching DEF Before, Steady
<1>6. CASE a \in Clean
  <2>1. Sound(a) /\ Loading(a)
    BY <1>2, <1>6 DEF Before, Steady, AllSound, Loading
  <2>2. /\ first[a] = asked[a] /\ asked[a] # None /\ ~timer[a] /\ key[a] = None /\ cred[a] # None
        /\ a \in accounts /\ \E p \in Procs : Reads(p, a)
        /\ disk[email[a]] # None /\ held[a] = disk[email[a]].key
    BY <1>2, <2>1 DEF Sound, Lives, Corrected
  <2>3. OnlyLive(a)
    BY <1>1, <1>2, <2>2, StaysOnly DEF Before, Steady
  <2>4. /\ \A q \in Procs : (Reads(q, a)' <=> Reads(q, a)) /\ (Configures(q, a)' <=> Configures(q, a))
        /\ Loading(a)'
    BY <1>2, <2>2 DEF Reads, Configures, Loading
  <2>5. cred'[a] = asked[a] /\ restore'[a] = "none" /\ key'[a] = disk[email[a]].key
    BY <2>2 DEF RestoreEnds, SetCredentials, KeyOf, Before, TypeOK, ObjectOK, BackgroundOK
  <2>6. OneByOne(a)' /\ Lives(a)'
    BY <1>1, <1>2, <2>1, <2>2, <2>4, <2>5 DEF Sound, OneByOne, Lives
  <2>7. Pinned(a)'
    BY <2>4 DEF Pinned
  <2>8. Corrected(a)'
    BY <1>2, <2>4, <2>5 DEF Corrected, Reads
  <2>9. KeyFollows(a)'
    <3>1. \A p \in Procs : pc[p] = "rest" /\ job[p].acc = a =>
             disk[email[a]] # None /\ job[p].key = disk[email[a]].key
      BY <2>1 DEF Sound, KeyFollows
    <3>2. \A p \in Procs : ~(pc[p] = "keys" /\ job[p].acc = a)
      BY <1>1, <2>1 DEF Sound, OneByOne
    <3> QED
      BY <1>2, <2>2, <2>5, <3>1, <3>2 DEF KeyFollows
  <2> QED
    BY <1>1, <1>4, <2>3, <2>6, <2>7, <2>8, <2>9, Touching DEF Before, Steady, Sound
<1> QED
  BY <1>5, <1>6

LEMMA RestoreFailsSteady == ASSUME Before, NEW a \in Objects, RestoreFails(a) PROVE Steady'
<1>1. a \in 1..made /\ made \in 0..MaxAccounts
  BY DEF RestoreFails, Before, Steady, Unmade, TypeOK, ObjectOK
<1>2. /\ spoilt' = spoilt \cup {email[a]}
      /\ UNCHANGED <<ready, account, made, email, key, accounts, disk, pc, job, asked, loaded>>
  BY DEF RestoreFails, facade, process
<1>3. \A b \in Objects \ {a} :
         /\ cred'[b] = cred[b] /\ timer'[b] = timer[b] /\ restore'[b] = restore[b]
         /\ first'[b] = first[b] /\ held'[b] = held[b]
  BY DEF RestoreFails, SetCredentials, Before, TypeOK, ObjectOK, BackgroundOK
<1>4. Others(a)
  BY <1>1, <1>2, <1>3 DEF Others, Requests
<1>5. a \notin Clean'
  BY <1>2 DEF Clean
<1> QED
  BY <1>1, <1>4, <1>5, Touching DEF Before, Steady

-----------------------------------------------------------------------------
\* Slots and removal

LEMMA RequestMoved ==
  ASSUME ProcessOK, NEW p \in Procs, NEW st, NEW j, Moved(p, st, j), NEW a,
         pc[p] = "idle" \/ job[p].acc = a, st = "idle" \/ j.acc = a
  PROVE  Requests(a)
BY MovedAlone DEF Requests

LEMMA WipeOthers ==
  ASSUME TypeOK, NEW a \in 1..made, WipeAccount(a)
  PROVE  \A b \in Clean \ {a} : cred[b] = None \/ disk'[email[b]] = disk[email[b]]
<1> SUFFICES ASSUME NEW b \in Clean, b # a, cred[b] # None PROVE disk'[email[b]] = disk[email[b]]
  OBVIOUS
<1>1. b \in Objects
  BY DEF Clean, TypeOK, ObjectOK
<1>2. email[b] # email[a] \/ disk' = disk
  BY <1>1 DEF WipeAccount
<1> QED
  BY <1>1, <1>2 DEF WipeAccount, TypeOK, DiskOK, ObjectOK

\* A dead object that nobody loads
LEMMA DeadSound ==
  ASSUME NEW a, cred'[a] = None, asked'[a] # None, ~Loading(a)',
         \A p, q \in Procs : Configures(p, a)' /\ Configures(q, a)' => p = q
  PROVE  Sound(a)'
<1>1. restore'[a] = "none" /\ \A p \in Procs : ~Reads(p, a)' /\ ~(pc'[p] = "rest" /\ job'[p].acc = a)
  BY DEF Loading, Reads
<1> QED
  BY <1>1 DEF Sound, OneByOne, Lives, Corrected, KeyFollows, Pinned

\* An object that a slot holds, or that is about to be attached, is not loading.
LEMMA SlotLoaded ==
  ASSUME Before, ready, NEW a \in Clean,
         \/ \E s \in Slots : account[s] = a
         \/ \E p \in Procs : pc[p] \in {"keys", "attach", "io"} /\ job[p].acc = a
  PROVE  ~Loading(a) /\ restore[a] = "none" /\ \A p \in Procs : ~Reads(p, a)
<1>1. ~Loading(a)
  BY DEF Before, Steady, AllSound, Sound, OneByOne
<1> QED
  BY <1>1 DEF Loading

LEMMA RemoveAccountSteady ==
  ASSUME Before, NEW p \in Procs, NEW s \in Slots, RemoveAccount(p, s) PROVE Steady'
<1>1. /\ ready /\ ready' = ready /\ pc[p] = "idle" /\ s \in slots
      /\ UNCHANGED <<account, background, asked, loaded, made, accounts, email>>
      /\ spoilt' = spoilt \/ spoilt' = spoilt \cup {email[account[s]]}
  BY DEF RemoveAccount, Serve, Drop, facade, object, Destroy, ClearsOthers
<1>2. CASE account[s] = None
  <2>1. UNCHANGED <<made, email, cred, key, timer, accounts, disk, process, spoilt>>
    BY <1>2 DEF RemoveAccount
  <2> QED
    BY <1>1, <2>1, SoundKept DEF Before, Steady, history
<1>3. CASE account[s] # None
  <2>0. PICK a : a = account[s]
    OBVIOUS
  <2>1. a \in 1..made /\ a \in Objects /\ made \in 0..MaxAccounts
    BY <1>3, <2>0, ObjectTyped DEF Before, IInv, SlotsMade, TypeOK, ObjectOK
  <2>2. PICK st \in {"wipe", "rewipe"} : Goto(p, st, "remove", s, a, 0)
    BY <1>3, <2>0 DEF RemoveAccount
  <2>3. PICK j : Moved(p, st, j) /\ j.acc = a
    BY <2>2, GotoMoved
  <2>4. Requests(a)
    BY <1>1, <2>3, RequestMoved DEF Before, TypeOK
  <2>5. pc'[p] = st /\ job'[p] = j /\ \A q \in Procs : q # p => pc'[q] = pc[q] /\ job'[q] = job[q]
    BY <2>3, MovedAlone DEF Before, TypeOK
  <2>6. /\ \A b \in Objects \ {a} : cred'[b] = cred[b] /\ key'[b] = key[b] /\ timer'[b] = timer[b]
        /\ cred'[a] = None \/ (cred'[a] = cred[a] /\ a \notin accounts)
        /\ WipeAccount(a) \/ disk' = disk \/ ClearsOthers(a)
    <3>1. CASE a \in accounts
      BY <1>3, <3>1, <2>0, <2>1 DEF RemoveAccount, Destroy, Before, TypeOK, ObjectOK
    <3>2. CASE a \notin accounts
      BY <1>3, <3>2, <2>0 DEF RemoveAccount, object
    <3> QED
      BY <3>1, <3>2
  <2>7. \A b \in (Clean \cap Clean') \ {a} : cred[b] = None \/ disk'[email[b]] = disk[email[b]]
    <3>1. CASE ClearsOthers(a)
      <4> SUFFICES ASSUME NEW b \in Clean \cap Clean' PROVE disk'[email[b]] = disk[email[b]]
        OBVIOUS
      <4>1. b \in Objects
        BY <2>1 DEF Clean
      <4>2. email[b] \in Emails /\ email[b] # email[a]
        BY <1>1, <3>1, <4>1 DEF Clean, ClearsOthers, Before, TypeOK, ObjectOK
      <4> QED
        BY <3>1, <4>2 DEF ClearsOthers, Before, TypeOK, DiskOK
    <3>2. CASE WipeAccount(a) \/ disk' = disk
      BY <2>1, <3>2, WipeOthers DEF Before
    <3> QED
      BY <2>6, <3>1, <3>2
  <2>8. Others(a)
    BY <1>1, <2>1, <2>4, <2>6, <2>7 DEF Others, background
  <2>9. ASSUME a \in Clean' PROVE OnlyLive(a) /\ Sound(a)'
    <3>1. a \in Clean
      BY <1>1, <2>9 DEF Clean, history
    <3>2. cred'[a] = None
      BY <2>6, <3>1 DEF Before, Steady, AllSound, Sound, Lives
    <3>3. restore[a] = "none" /\ \A q \in Procs : ~Reads(q, a)
      <4>1. \E t \in Slots : account[t] = a
        BY <2>0
      <4> QED
        BY <1>1, <3>1, <4>1, SlotLoaded
    <3>4. ~Loading(a)' /\ asked'[a] # None
      BY <1>1, <2>5, <3>1, <3>3
      DEF Loading, Reads, background, history, Before, Steady, AllSound, Sound, Lives
    <3>5. \A q, r \in Procs : Configures(q, a)' /\ Configures(r, a)' => q = r
      <4>1. \A q \in Procs : Configures(q, a)' => Configures(q, a)
        BY <2>5 DEF Configures
      <4> QED
        BY <3>1, <4>1 DEF Before, Steady, AllSound, Sound, OneByOne
    <3> QED
      BY <3>2, <3>4, <3>5, DeadSound DEF OnlyLive
  <2> QED
    BY <2>1, <2>8, <2>9, Touching DEF Before, Steady
<1> QED
  BY <1>2, <1>3

\* An end of a removal leaves its object dead.
LEMMA DeregisterSteady == ASSUME Before, NEW p \in Procs, Deregister(p) PROVE Steady'
<1>0. PICK a : a = job[p].acc
  OBVIOUS
<1>1. /\ pc[p] = "wipe" /\ accounts' = accounts \ {a} /\ WipeAccount(a) /\ pc' = [pc EXCEPT ![p] = "rewipe"]
      /\ UNCHANGED <<ready, account, made, email, cred, key, timer, background, job, history>>
  BY <1>0 DEF Deregister, facade
<1>2. a \in 1..made /\ a \in Objects /\ made \in 0..MaxAccounts /\ ready
  BY <1>0, <1>1, JobTyped DEF Before, TypeOK, ObjectOK, Booting
<1>3. pc'[p] = "rewipe" /\ \A q \in Procs : q # p => pc'[q] = pc[q]
  BY <1>1 DEF Before, TypeOK, ProcessOK
<1>4. Requests(a)
  BY <1>0, <1>1, <1>3 DEF Requests
<1>5. \A b \in Clean \ {a} : cred[b] = None \/ disk'[email[b]] = disk[email[b]]
  BY <1>1, <1>2, WipeOthers DEF Before
<1>6. Others(a)
  BY <1>1, <1>2, <1>4, <1>5 DEF Others, background, history
<1>7. ASSUME a \in Clean' PROVE OnlyLive(a) /\ Sound(a)'
  <2>1. a \in Clean /\ Sound(a)
    BY <1>1, <1>7 DEF Clean, history, Before, Steady, AllSound
  <2>2. cred[a] = None /\ ~Loading(a) /\ asked[a] # None
    BY <1>0, <1>1, <2>1 DEF Sound, Lives
  <2>3. ~Loading(a)'
    BY <1>1, <1>3, <2>2 DEF Loading, Reads, background
  <2>4. \A q, r \in Procs : Configures(q, a)' /\ Configures(r, a)' => q = r
    <3>1. \A q \in Procs : Configures(q, a)' => Configures(q, a)
      BY <1>1, <1>3 DEF Configures
    <3> QED
      BY <2>1, <3>1 DEF Sound, OneByOne
  <2> QED
    BY <1>1, <2>2, <2>3, <2>4, DeadSound DEF OnlyLive, history
<1> QED
  BY <1>2, <1>6, <1>7, Touching DEF Before, Steady

\* A request that was neither loading nor making keys ends: its object is as it was.
LEMMA EndsSteady ==
  ASSUME Before, NEW p \in Procs, pc[p] \in {"keys", "rewipe"}, Ends(p),
         UNCHANGED <<ready, account, made, email, cred, key, timer, accounts, background, disk, history>>
  PROVE  Steady'
<1>0. PICK a : a = job[p].acc
  OBVIOUS
<1>1. a \in 1..made /\ a \in Objects /\ made \in 0..MaxAccounts
  BY <1>0, JobTyped DEF Before, TypeOK, ObjectOK
<1>2. Moved(p, "idle", NoJob)
  BY EndsMoved
<1>3. pc'[p] = "idle" /\ \A q \in Procs : q # p => pc'[q] = pc[q] /\ job'[q] = job[q]
  BY <1>2, MovedAlone DEF Before, TypeOK
<1>4. Requests(a)
  BY <1>0, <1>2, RequestMoved DEF Before, TypeOK
<1>5. Others(a)
  BY <1>1, <1>4 DEF Others, background, history
<1>6. ASSUME a \in Clean' PROVE OnlyLive(a) /\ Sound(a)'
  <2>1. a \in Clean /\ Sound(a)
    BY <1>6 DEF Clean, history, Before, Steady, AllSound
  <2>2. OnlyLive(a)
    BY <1>1, StaysOnly DEF Before, Steady
  <2>3. /\ \A q \in Procs : Reads(q, a)' <=> Reads(q, a)
        /\ \A q \in Procs : Configures(q, a)' => Configures(q, a)
        /\ Loading(a)' <=> Loading(a)
    BY <1>3 DEF Reads, Configures, Loading, background
  <2>4. \A q \in Procs, st \in {"read", "rest", "keys", "attach", "io", "wipe"} :
           pc'[q] = st => pc[q] = st /\ job'[q] = job[q]
    BY <1>3
  <2>5. OneByOne(a)' /\ Lives(a)' /\ Pinned(a)'
    BY <2>1, <2>3, <2>4 DEF Sound, OneByOne, Lives, Pinned, background, history
  <2>6. Corrected(a)'
    <3>1. \A q \in Procs : Reads(q, a) => (pc'[q] = "read" <=> pc[q] = "read")
      BY <1>3 DEF Reads
    <3> QED
      BY <2>1, <2>3, <3>1 DEF Sound, Corrected, background, history
  <2>7. KeyFollows(a)'
    <3>1. KeyFollows(a)
      BY <2>1 DEF Sound
    <3>2. \A q \in Procs :
             /\ pc'[q] = "rest" /\ job'[q].acc = a
                => disk[email[a]] # None /\ job'[q].key = disk[email[a]].key
             /\ pc'[q] = "keys" /\ job'[q].acc = a /\ cred[a] # None
                => key[a] = None /\ (disk[email[a]] # None => disk[email[a]].key = None)
      BY <2>4, <3>1 DEF KeyFollows
    <3>3. /\ cred[a] # None /\ (Loading(a) \/ ~ready) /\ key[a] # None
             => disk[email[a]] # None /\ disk[email[a]].key = key[a]
          /\ cred[a] # None /\ disk[email[a]] # None /\ disk[email[a]].key # None
             => key[a] = disk[email[a]].key \/ (~timer[a] /\ key[a] = None /\ Loading(a))
      BY <3>1 DEF KeyFollows
    <3> QED
      BY <2>3, <3>2, <3>3 DEF KeyFollows
  <2> QED
    BY <2>2, <2>5, <2>6, <2>7 DEF Sound
<1> QED
  BY <1>1, <1>5, <1>6, Touching DEF Before, Steady

LEMMA RemoveEndsSteady == ASSUME Before, NEW p \in Procs, RemoveEnds(p) PROVE Steady'
BY EndsSteady DEF RemoveEnds, Drop

LEMMA FailsSteady == ASSUME Before, NEW p \in Procs, Fails(p) PROVE Steady'
<1>1. CASE pc[p] = "keys"
  BY <1>1, EndsSteady DEF Fails, facade, object, history
<1>2. CASE pc[p] \in {"read", "rest"}
  <2>0. PICK a : a = job[p].acc
    OBVIOUS
  <2>1. a \in 1..made /\ a \in Objects /\ made \in 0..MaxAccounts
    BY <1>2, <2>0, JobTyped DEF Before, TypeOK, ObjectOK
  <2>2. /\ loaded' = loaded \ {a} /\ spoilt' = spoilt \cup {email[a]} /\ Ends(p)
        /\ UNCHANGED <<ready, account, made, email, cred, key, timer, accounts, background, disk, asked>>
    BY <1>2, <2>0 DEF Fails, facade, object
  <2>3. Requests(a)
    BY <2>0, <2>2, EndsMoved, RequestMoved DEF Before, TypeOK
  <2>4. Others(a)
    BY <2>1, <2>2, <2>3 DEF Others, background
  <2>5. a \notin Clean'
    BY <2>2 DEF Clean
  <2> QED
    BY <2>1, <2>4, <2>5, Touching DEF Before, Steady
<1> QED
  BY <1>1, <1>2 DEF Fails

-----------------------------------------------------------------------------
\* Configuration

\* An object that is not loading any more
LEMMA QuietSound ==
  ASSUME NEW a, ~Loading(a)', asked'[a] # None, cred'[a] # None => a \in accounts', Pinned(a)',
         \A p \in Procs : pc'[p] = "wipe" /\ job'[p].acc = a => cred'[a] = None,
         \A p, q \in Procs : Configures(p, a)' /\ Configures(q, a)' => p = q,
         cred'[a] # None =>
            LET stored == disk'[email'[a]] IN
            /\ stored # None /\ stored.key # None => key'[a] = stored.key
            /\ ~ready' /\ key'[a] # None => stored # None /\ stored.key = key'[a]
            /\ \A p \in Procs : pc'[p] = "keys" /\ job'[p].acc = a =>
                  key'[a] = None /\ (stored # None => stored.key = None)
  PROVE  Sound(a)'
<1>1. restore'[a] = "none" /\ \A p \in Procs : ~Reads(p, a)' /\ ~(pc'[p] = "rest" /\ job'[p].acc = a)
  BY DEF Loading, Reads
<1>2. OneByOne(a)' /\ Lives(a)' /\ Corrected(a)'
  BY <1>1 DEF OneByOne, Lives, Corrected
<1>3. KeyFollows(a)'
  BY <1>1 DEF KeyFollows
<1> QED
  BY <1>2, <1>3 DEF Sound

LEMMA WireAccounts ==
  ASSUME FacadeOK, NEW s, NEW a, WireEvents(s, a) \/ UNCHANGED <<account, unsubs, hears>>
  PROVE  \A t \in Slots : account'[t] \in {account[t], a}
BY DEF WireEvents, FacadeOK

\* The new object of an email that has no live one
LEMMA ConstructOthers ==
  ASSUME Before, NEW a \in Objects, a = made + 1, NEW e \in Emails, NEW w \in Passwords, Construct(a, e, w)
  PROVE  /\ \A b \in Objects \ {a} :
               /\ email'[b] = email[b] /\ cred'[b] = cred[b] /\ key'[b] = key[b] /\ timer'[b] = timer[b]
               /\ asked'[b] = asked[b] /\ (b \in accounts' <=> b \in accounts)
         /\ made' = a /\ a \in accounts' /\ email'[a] = e /\ cred'[a] = w /\ asked'[a] = w /\ w # None
         /\ key'[a] = None /\ timer'[a] = FALSE /\ restore[a] = "none"
         /\ \A q \in Procs : pc[q] # "idle" => job[q].acc # a
         /\ \A s \in Slots : account[s] # a
<1>1. /\ \A b \in Objects \ {a} :
            /\ email'[b] = email[b] /\ cred'[b] = cred[b] /\ key'[b] = key[b] /\ timer'[b] = timer[b]
            /\ asked'[b] = asked[b] /\ (b \in accounts' <=> b \in accounts)
      /\ made' = a /\ a \in accounts' /\ email'[a] = e /\ cred'[a] = w /\ asked'[a] = w /\ w # None
  BY DEF Construct, Before, TypeOK, ObjectOK, HistoryOK
<1>2. a > made /\ a \notin 1..made
  BY DEF Before, TypeOK, ObjectOK
<1>3. key[a] = None /\ ~timer[a] /\ restore[a] = "none"
  BY <1>2 DEF Before, Steady, Unmade
<1>4. key'[a] = None /\ timer'[a] = FALSE
  BY <1>3 DEF Construct, Before, TypeOK, ObjectOK
<1>5. /\ \A q \in Procs : pc[q] # "idle" => job[q].acc # a
      /\ \A s \in Slots : account[s] # a
  BY <1>2 DEF Before, IInv, SlotsMade, JobsMade
<1> QED
  BY <1>1, <1>3, <1>4, <1>5

LEMMA FoundNone ==
  ASSUME Before, NEW e, Found(e) = {}, NEW b \in Clean, email[b] = e PROVE cred[b] = None
BY DEF Found, Before, Steady, AllSound, Sound, Lives

LEMMA FoundHas ==
  ASSUME Before, NEW e, NEW a \in FindAccountByEmail(e)
  PROVE  /\ a \in 1..made /\ a \in Objects /\ made \in 0..MaxAccounts
         /\ a \in accounts /\ email[a] = e /\ cred[a] # None
BY FoundMade DEF FindAccountByEmail, Found, Before, TypeOK, ObjectOK

LEMMA ConfigureNew ==
  ASSUME Before, NEW p \in Procs, NEW s \in Slots, NEW e \in Emails, NEW w \in Passwords,
         ConfigureCredentials(p, s, e, w), Found(e) = {}
  PROVE  Steady'
<1>1. PICK a \in Objects :
         /\ a = made + 1 /\ Construct(a, e, w)
         /\ first' = [first EXCEPT ![a] = w] /\ restore' = [restore EXCEPT ![a] = "read"]
         /\ Goto(p, "read", "configure", s, a, calls + 1)
         /\ UNCHANGED <<ready, account, spoilt, held, disk, loaded>>
  BY DEF ConfigureCredentials, Serve
<1>2. made \in 0..MaxAccounts /\ pc[p] = "idle" /\ ready
  BY DEF ConfigureCredentials, Serve, Before, TypeOK, ObjectOK
<1>3. PICK j : Moved(p, "read", j) /\ j.acc = a
  BY <1>1, GotoMoved
<1>4. pc'[p] = "read" /\ job'[p] = j /\ \A q \in Procs : q # p => pc'[q] = pc[q] /\ job'[q] = job[q]
  BY <1>3, MovedAlone DEF Before, TypeOK
<1>5. Requests(a)
  BY <1>2, <1>3, RequestMoved DEF Before, TypeOK
<1>6. /\ first'[a] = w /\ restore'[a] = "read"
      /\ \A b \in Objects \ {a} : first'[b] = first[b] /\ restore'[b] = restore[b]
  BY <1>1 DEF Before, TypeOK, BackgroundOK
<1>7. Others(a)
  <2>1. /\ \A b \in Objects \ {a} :
              /\ email'[b] = email[b] /\ cred'[b] = cred[b] /\ key'[b] = key[b] /\ timer'[b] = timer[b]
              /\ asked'[b] = asked[b] /\ (b \in accounts' <=> b \in accounts)
        /\ made' = a
    BY <1>1, ConstructOthers
  <2> QED
    BY <1>1, <1>5, <1>6, <2>1 DEF Others
<1>8. /\ a \in accounts' /\ email'[a] = e /\ cred'[a] = w /\ asked'[a] = w /\ w # None
      /\ key'[a] = None /\ timer'[a] = FALSE
      /\ \A q \in Procs : pc[q] # "idle" => job[q].acc # a
      /\ \A t \in Slots : account[t] # a
  BY <1>1, ConstructOthers
<1>9. OnlyLive(a)
  BY <1>8, FoundNone DEF OnlyLive
<1>10. Reads(p, a)' /\ Loading(a)' /\ \A q \in Procs : q # p => pc'[q] = "idle" \/ job'[q].acc # a
  BY <1>3, <1>4, <1>8 DEF Reads, Loading
<1>11. OneByOne(a)'
  BY <1>1, <1>4, <1>8, <1>10 DEF OneByOne, Configures
<1>12. Lives(a)'
  BY <1>4, <1>8, <1>10 DEF Lives
<1>13. Corrected(a)' /\ Pinned(a)'
  BY <1>4, <1>6, <1>8, <1>10 DEF Corrected, Pinned
<1>14. KeyFollows(a)'
  BY <1>4, <1>8, <1>10 DEF KeyFollows
<1> QED
  BY <1>2, <1>7, <1>9, <1>11, <1>12, <1>13, <1>14, Touching DEF Before, Steady, Sound

LEMMA ConfigureAgain ==
  ASSUME Before, NEW p \in Procs, NEW s \in Slots, NEW e \in Emails, NEW w \in Passwords,
         ConfigureCredentials(p, s, e, w), Found(e) # {}
  PROVE  Steady'
<1>1. PICK a \in FindAccountByEmail(e) :
         /\ SetCredentials(a, w) /\ asked' = [asked EXCEPT ![a] = w]
         /\ spoilt' = IF a \in loaded /\ ~BeingConfigured(a) THEN spoilt ELSE spoilt \cup {e}
         /\ GoOn(p, s, a, calls + 1, key[a], TRUE)
         /\ UNCHANGED <<ready, made, email, key, accounts, first, restore, held, disk, loaded>>
  BY DEF ConfigureCredentials, Serve
<1>2. /\ a \in 1..made /\ a \in Objects /\ made \in 0..MaxAccounts
      /\ a \in accounts /\ email[a] = e /\ cred[a] # None
  BY FoundHas
<1>3. pc[p] = "idle" /\ ready
  BY DEF ConfigureCredentials, Serve
<1>4. PICK st \in {"keys", "io", "idle"} : \E j :
         /\ Moved(p, st, j) /\ (st # "idle" => j.acc = a) /\ (st = "keys" => key[a] = None)
  <2>1. \E live : GoOn(p, s, a, calls + 1, key[a], live)
    BY <1>1
  <2> QED
    BY <2>1, GoOnMoved
<1>5. PICK j : Moved(p, st, j) /\ (st # "idle" => j.acc = a) /\ (st = "keys" => key[a] = None)
  BY <1>4
<1>6. pc'[p] = st /\ job'[p] = j /\ \A q \in Procs : q # p => pc'[q] = pc[q] /\ job'[q] = job[q]
  BY <1>5, MovedAlone DEF Before, TypeOK
<1>7. Requests(a)
  BY <1>3, <1>5, RequestMoved DEF Before, TypeOK
<1>8. \A t \in Slots : account'[t] \in {account[t], a}
  <2>1. WireEvents(s, a) \/ UNCHANGED <<account, unsubs, hears>>
    BY <1>1, GoOnMoved
  <2> QED
    BY <2>1, WireAccounts DEF Before, TypeOK
<1>9. /\ cred'[a] = w /\ asked'[a] = w /\ w # None
      /\ \A b \in Objects \ {a} : cred'[b] = cred[b] /\ timer'[b] = timer[b] /\ asked'[b] = asked[b]
  BY <1>1, <1>2 DEF SetCredentials, Before, TypeOK, ObjectOK, HistoryOK
<1>10. Others(a)
  BY <1>1, <1>2, <1>7, <1>8, <1>9 DEF Others
<1>11. ASSUME a \in Clean' PROVE OnlyLive(a) /\ Sound(a)'
  <2>1. OnlyLive(a)
    BY <1>1, <1>2, StaysOnly DEF Before, Steady
  <2>2. a \in Clean /\ \A q \in Procs : ~Configures(q, a)
    BY <1>1, <1>2, <1>11 DEF Clean, BeingConfigured, Configures
  <2>3. Sound(a)
    BY <2>2 DEF Before, Steady, AllSound
  <2>4. \A q \in Procs : ~Reads(q, a)
    BY <2>2 DEF Reads, Configures
  <2>5. restore[a] = "none"
    BY <2>3, <2>4 DEF Sound, Corrected
  <2>6. ~Loading(a) /\ ~Loading(a)'
    BY <1>1, <1>6, <2>4, <2>5 DEF Loading, Reads
  <2>7. \A q, r \in Procs : Configures(q, a)' /\ Configures(r, a)' => q = r
    BY <1>6, <2>2 DEF Configures
  <2>8. Pinned(a)'
    BY <1>9 DEF Pinned
  <2>9. \A q \in Procs : ~(pc'[q] = "wipe" /\ job'[q].acc = a)
    BY <1>2, <1>6, <2>3 DEF Sound, Lives
  <2>10. disk[email[a]] # None /\ disk[email[a]].key # None => key[a] = disk[email[a]].key
    BY <1>2, <2>3, <2>6 DEF Sound, KeyFollows
  <2>11. \A q \in Procs : pc'[q] = "keys" /\ job'[q].acc = a => q = p
    BY <1>6, <2>2 DEF Configures
  <2>12. Sound(a)'
    BY <1>1, <1>2, <1>3, <1>5, <1>6, <1>9, <2>6, <2>7, <2>8, <2>9, <2>10, <2>11, QuietSound
  <2> QED
    BY <2>1, <2>12
<1> QED
  BY <1>2, <1>10, <1>11, Touching DEF Before, Steady

LEMMA RegisterSteady ==
  ASSUME Before, NEW p \in Procs, NEW s \in Slots, NEW e \in Emails, NEW w \in Passwords,
         Register(p, s, e, w)
  PROVE  Steady'
<1>1. PICK a \in Objects :
         /\ a = made + 1 /\ Construct(a, e, w) /\ loaded' = loaded \cup {a}
         /\ Goto(p, "keys", "configure", s, a, calls + 1)
         /\ UNCHANGED <<ready, account, background, spoilt, disk>>
  BY DEF Register, Serve, facade
<1>2. /\ made \in 0..MaxAccounts /\ pc[p] = "idle" /\ ready
      /\ disk[e] = None /\ \A b \in 1..made : email[b] # e
  BY DEF Register, Serve, Before, TypeOK, ObjectOK
<1>3. PICK j : Moved(p, "keys", j) /\ j.acc = a
  BY <1>1, GotoMoved
<1>4. pc'[p] = "keys" /\ job'[p] = j /\ \A q \in Procs : q # p => pc'[q] = pc[q] /\ job'[q] = job[q]
  BY <1>3, MovedAlone DEF Before, TypeOK
<1>5. Requests(a)
  BY <1>2, <1>3, RequestMoved DEF Before, TypeOK
<1>6. Others(a)
  BY <1>1, <1>5, ConstructOthers DEF Others, background
<1>7. /\ a \in accounts' /\ email'[a] = e /\ cred'[a] = w /\ asked'[a] = w /\ w # None
      /\ key'[a] = None /\ restore[a] = "none"
      /\ \A q \in Procs : pc[q] # "idle" => job[q].acc # a
  BY <1>1, ConstructOthers
<1>8. OnlyLive(a)
  BY <1>2, <1>7 DEF OnlyLive, Clean
<1>9. \A q \in Procs : q # p => pc'[q] = "idle" \/ job'[q].acc # a
  BY <1>4, <1>7
<1>10. ~Loading(a)' /\ \A q, r \in Procs : Configures(q, a)' /\ Configures(r, a)' => q = r
  BY <1>1, <1>4, <1>7, <1>9 DEF Loading, Reads, Configures, background
<1>11. Pinned(a)'
  BY <1>7 DEF Pinned
<1>12. \A q \in Procs : ~(pc'[q] = "wipe" /\ job'[q].acc = a)
  BY <1>4, <1>9
<1>13. Sound(a)'
  BY <1>1, <1>2, <1>7, <1>10, <1>11, <1>12, QuietSound
<1> QED
  BY <1>2, <1>6, <1>8, <1>13, Touching DEF Before, Steady

\* restoreAccount: the object is new, or the earlier one of the email.
LEMMA RestoreAccountSteady ==
  ASSUME Before, NEW p \in Procs, RestoreAccount(p) PROVE Steady'
<1>0. PICK e, w : e = metas[nextId].email /\ w = metas[nextId].pw
  OBVIOUS
<1>1. /\ ~ready /\ ready' = ready /\ \A q \in Procs : pc[q] = "idle"
      /\ UNCHANGED <<account, background, disk, loaded, spoilt>>
  BY DEF RestoreAccount
<1>2. PICK a \in IF Found(e) = {} THEN {made + 1} \cap Objects ELSE FindAccountByEmail(e) :
         /\ IF a = made + 1 THEN Construct(a, e, w)
            ELSE UNCHANGED <<made, email, cred, key, timer, accounts, asked>>
         /\ Goto(p, "read", "restore", nextId, a, 0)
  BY <1>0 DEF RestoreAccount
<1>3. e \in Emails /\ w \in Passwords
  <2>1. nextId \in 1..Len(metas)
    BY DEF RestoreAccount, Before, IInv, SlotsMade
  <2> QED
    BY <1>0, <2>1, MetaTyped DEF Before, TypeOK
<1>4. PICK j : Moved(p, "read", j) /\ j.acc = a
  BY <1>2, GotoMoved
<1>5. pc'[p] = "read" /\ job'[p] = j /\ \A q \in Procs : q # p => pc'[q] = pc[q] /\ job'[q] = job[q]
  BY <1>4, MovedAlone DEF Before, TypeOK
<1>6. Requests(a)
  BY <1>1, <1>4, RequestMoved DEF Before, TypeOK
<1>7. Reads(p, a)' /\ Loading(a)' /\ \A q \in Procs : q # p => pc'[q] = "idle"
  BY <1>1, <1>4, <1>5 DEF Reads, Loading
<1>8. restore'[a] = "none" /\ restore[a] = "none" /\ a \in Objects /\ made \in 0..MaxAccounts
  BY <1>1, <1>2, FoundHas DEF Before, Booting, TypeOK, ObjectOK, background
<1>9. \A q \in Procs : Configures(q, a)' => q = p
  BY <1>7 DEF Configures
<1>10. OneByOne(a)' /\ Corrected(a)' /\ Pinned(a)'
  BY <1>1, <1>7, <1>8, <1>9 DEF OneByOne, Corrected, Pinned
<1>11. CASE a = made + 1
  <2>1. Construct(a, e, w) /\ Found(e) = {}
    BY <1>2, <1>8, <1>11, FoundHas
  <2>2. Others(a)
    <3>1. /\ \A b \in Objects \ {a} :
                /\ email'[b] = email[b] /\ cred'[b] = cred[b] /\ key'[b] = key[b] /\ timer'[b] = timer[b]
                /\ asked'[b] = asked[b] /\ (b \in accounts' <=> b \in accounts)
          /\ made' = a
      BY <1>3, <1>8, <1>11, <2>1, ConstructOthers
    <3> QED
      BY <1>1, <1>6, <1>11, <3>1 DEF Others, background
  <2>3. /\ a \in accounts' /\ email'[a] = e /\ cred'[a] = w /\ asked'[a] = w /\ w # None
        /\ key'[a] = None /\ timer'[a] = FALSE
    BY <1>3, <1>8, <1>11, <2>1, ConstructOthers
  <2>4. OnlyLive(a)
    BY <2>1, <2>3, FoundNone DEF OnlyLive
  <2>5. Lives(a)' /\ KeyFollows(a)'
    BY <1>5, <1>7, <2>3 DEF Lives, KeyFollows
  <2> QED
    BY <1>8, <1>10, <2>2, <2>4, <2>5, Touching DEF Before, Steady, Sound
<1>12. CASE a # made + 1
  <2>1. a \in FindAccountByEmail(e) /\ UNCHANGED <<made, email, cred, key, timer, accounts, asked>>
    BY <1>2, <1>12
  <2>2. a \in 1..made /\ a <= made /\ a \in accounts /\ cred[a] # None
    BY <2>1, FoundHas
  <2>3. Others(a)
    BY <1>1, <1>6, <2>1, <2>2 DEF Others, background
  <2>4. ASSUME a \in Clean' PROVE OnlyLive(a) /\ Sound(a)'
    <3>1. OnlyLive(a)
      BY <2>1, <2>2, StaysOnly DEF Before, Steady
    <3>2. a \in Clean /\ Sound(a)
      BY <1>1, <2>1, <2>4 DEF Clean, Before, Steady, AllSound
    <3>3. Lives(a)'
      BY <1>5, <1>7, <2>1, <2>2, <3>2 DEF Sound, Lives
    <3>4. ~Loading(a)
      BY <1>1, <1>8 DEF Loading, Reads
    <3>5. KeyFollows(a)'
      BY <1>1, <1>5, <1>7, <2>1, <2>2, <3>2, <3>4 DEF Sound, KeyFollows
    <3> QED
      BY <1>10, <3>1, <3>3, <3>5 DEF Sound
  <2> QED
    BY <1>8, <2>3, <2>4, Touching DEF Before, Steady
<1> QED
  BY <1>11, <1>12

-----------------------------------------------------------------------------
\* The awaits of a configuration or of a restore

\* The request that loads the object is the only one, and it goes on.
LEMMA OnlyReader ==
  ASSUME Before, NEW p \in Procs, NEW a, a = job[p].acc, pc[p] \in {"read", "rest"}, a \in Clean
  PROVE  /\ Sound(a) /\ Reads(p, a) /\ Loading(a) /\ cred[a] # None /\ asked[a] # None /\ a \in accounts
         /\ \A q \in Procs : q # p => ~Configures(q, a)
         /\ \A q \in Procs : ~(pc[q] = "wipe" /\ job[q].acc = a)
         /\ ready => /\ \A s \in Slots : account[s] # a
                     /\ \A q \in Procs : pc[q] \in {"keys", "attach", "io"} => job[q].acc # a
<1>1. Reads(p, a) /\ Loading(a) /\ Configures(p, a)
  BY DEF Reads, Loading, Configures
<1>2. Sound(a)
  BY DEF Before, Steady, AllSound
<1> QED
  BY <1>1, <1>2 DEF Sound, OneByOne, Lives

\* The snapshot is there: the relay's password at once, the key after more awaits.
LEMMA ReadFound ==
  ASSUME Before, NEW p \in Procs, Read(p), disk[email[job[p].acc]] # None
  PROVE  Steady'
<1>0. PICK a : a = job[p].acc
  OBVIOUS
<1>1. /\ pc[p] = "read" /\ restore[a] # "read" /\ disk[email[a]] # None
      /\ cred' = [cred EXCEPT ![a] = disk[email[a]].pw]
      /\ pc' = [pc EXCEPT ![p] = "rest"] /\ job' = [job EXCEPT ![p].key = disk[email[a]].key]
      /\ UNCHANGED <<ready, account, made, email, key, timer, accounts, background, disk, history>>
  BY <1>0 DEF Read, history
<1>2. a \in 1..made /\ a \in Objects /\ made \in 0..MaxAccounts /\ a <= made
  BY <1>0, <1>1, JobTyped, ObjectTyped DEF Before, TypeOK
<1>3. PICK j : Moved(p, "rest", j) /\ j.acc = a /\ j.key = disk[email[a]].key
  <2> DEFINE j == [job[p] EXCEPT !.key = disk[email[a]].key]
  <2>1. Moved(p, "rest", j)
    BY <1>1 DEF Moved
  <2>2. job[p] \in Jobs
    BY DEF Before, TypeOK, ProcessOK
  <2>3. j.acc = a /\ j.key = disk[email[a]].key
    BY <1>0, <2>2 DEF Jobs
  <2> HIDE DEF j
  <2> QED
    BY <2>1, <2>3
<1>4. pc'[p] = "rest" /\ job'[p] = j /\ \A q \in Procs : q # p => pc'[q] = pc[q] /\ job'[q] = job[q]
  BY <1>3, MovedAlone DEF Before, TypeOK
<1>5. Requests(a)
  BY <1>0, <1>3, RequestMoved DEF Before, TypeOK
<1>6. cred'[a] = disk[email[a]].pw /\ cred'[a] # None /\ \A b \in Objects \ {a} : cred'[b] = cred[b]
  BY <1>1, <1>2, ObjectTyped DEF Before, TypeOK, ObjectOK
<1>7. Others(a)
  BY <1>1, <1>2, <1>5, <1>6 DEF Others, background, history
<1>8. ASSUME a \in Clean' PROVE OnlyLive(a) /\ Sound(a)'
  <2>1. a \in Clean
    BY <1>1, <1>8 DEF Clean, history
  <2>2. /\ Sound(a) /\ Reads(p, a) /\ Loading(a) /\ cred[a] # None /\ asked[a] # None /\ a \in accounts
        /\ \A q \in Procs : q # p => ~Configures(q, a)
        /\ \A q \in Procs : ~(pc[q] = "wipe" /\ job[q].acc = a)
        /\ ready => /\ \A s \in Slots : account[s] # a
                    /\ \A q \in Procs : pc[q] \in {"keys", "attach", "io"} => job[q].acc # a
    BY <1>0, <1>1, <2>1, OnlyReader
  <2>3. OnlyLive(a)
    BY <1>1, <1>2, <2>2, StaysOnly DEF Before, Steady
  <2>4. Reads(p, a)' /\ Loading(a)' /\ \A q \in Procs : q # p => ~Configures(q, a)'
    BY <1>3, <1>4, <2>2 DEF Reads, Loading, Configures
  <2>5. \A q \in Procs : q # p => ~Reads(q, a)'
    BY <2>4 DEF Reads, Configures
  <2>6. OneByOne(a)'
    BY <1>1, <1>4, <2>2, <2>4 DEF OneByOne
  <2>7. Lives(a)' /\ Pinned(a)'
    BY <1>1, <1>4, <1>6, <2>2, <2>4 DEF Lives, Pinned, history
  <2>8. Corrected(a)'
    <3>1. Corrected(a)
      BY <2>2 DEF Sound
    <3>2. ready /\ restore[a] = "none" => disk[email[a]].pw = asked[a]
      BY <1>1, <2>2, <3>1 DEF Corrected
    <3> QED
      BY <1>1, <1>4, <1>6, <2>4, <2>5, <3>1, <3>2 DEF Corrected, background, history
  <2>9. KeyFollows(a)'
    <3>1. KeyFollows(a)
      BY <2>2 DEF Sound
    <3>2. \A q \in Procs : pc'[q] = "rest" /\ job'[q].acc = a => q = p
      BY <2>5 DEF Reads
    <3>3. \A q \in Procs : ~(pc'[q] = "keys" /\ job'[q].acc = a)
      BY <1>4, <2>4 DEF Configures
    <3> QED
      BY <1>1, <1>3, <1>4, <2>2, <2>4, <3>1, <3>2, <3>3 DEF KeyFollows
  <2> QED
    BY <2>3, <2>6, <2>7, <2>8, <2>9 DEF Sound
<1> QED
  BY <1>2, <1>7, <1>8, Touching DEF Before, Steady

\* What the end of a load does to the request and to the object, and what is to
\* be shown of it: the password, and the key.
LEMMA LoadEnds ==
  ASSUME Before, NEW p \in Procs, NEW a, a = job[p].acc, pc[p] \in {"read", "rest"},
         restore[a] = "none" \/ disk[email[a]] = None,
         restore[a] # "read",
         loaded' = loaded \cup {a},
         UNCHANGED <<ready, made, email, accounts, background, disk, spoilt>>,
         \A b \in Objects \ {a} :
            /\ cred'[b] = cred[b] /\ timer'[b] = timer[b] /\ key'[b] = key[b] /\ asked'[b] = asked[b],
         NEW s, WireEvents(s, a) \/ UNCHANGED <<account, unsubs, hears>>,
         NEW st \in {"idle", "keys", "io"}, NEW j, Moved(p, st, j), st # "idle" => j.acc = a,
         (cred'[a] = asked'[a] /\ asked'[a] # None) \/ (cred'[a] = cred[a] /\ asked'[a] = asked[a] /\ ready),
         a \in Clean => LET stored == disk[email[a]] IN
            /\ stored # None /\ stored.key # None => key'[a] = stored.key
            /\ ~ready /\ key'[a] # None => stored # None /\ stored.key = key'[a]
            /\ st = "keys" => key'[a] = None
  PROVE  Steady'
<1>1. a \in 1..made /\ a \in Objects /\ made \in 0..MaxAccounts /\ a <= made
  BY JobTyped, ObjectTyped DEF Before, TypeOK
<1>2. pc'[p] = st /\ job'[p] = j /\ \A q \in Procs : q # p => pc'[q] = pc[q] /\ job'[q] = job[q]
  BY MovedAlone DEF Before, TypeOK
<1>3. Requests(a)
  BY RequestMoved DEF Before, TypeOK
<1>4. \A t \in Slots : account'[t] \in {account[t], a}
  BY WireAccounts DEF Before, TypeOK
<1>5. Others(a)
  BY <1>1, <1>3, <1>4 DEF Others, background
<1>6. ASSUME a \in Clean' PROVE OnlyLive(a) /\ Sound(a)'
  <2>1. a \in Clean
    BY <1>6 DEF Clean
  <2>2. /\ Sound(a) /\ Reads(p, a) /\ Loading(a) /\ cred[a] # None /\ asked[a] # None /\ a \in accounts
        /\ \A q \in Procs : q # p => ~Configures(q, a)
        /\ \A q \in Procs : ~(pc[q] = "wipe" /\ job[q].acc = a)
    BY <2>1, OnlyReader
  <2>3. OnlyLive(a)
    BY <1>1, <2>2, StaysOnly DEF Before, Steady
  <2>4. restore[a] = "none"
    BY <1>1, <2>2 DEF Sound, Corrected, Before, TypeOK, BackgroundOK
  <2>5. cred'[a] = asked'[a]
    BY <2>2, <2>4 DEF Sound, Corrected
  <2>6. \A q \in Procs : q # p => ~Configures(q, a)'
    BY <1>2, <2>2 DEF Configures
  <2>7. \A q \in Procs : ~Reads(q, a)'
    BY <1>2, <2>6 DEF Reads, Configures
  <2>8. ~Loading(a)' /\ Pinned(a)'
    BY <2>4, <2>5, <2>7 DEF Loading, Pinned, background
  <2>9. \A q, r \in Procs : Configures(q, a)' /\ Configures(r, a)' => q = r
    BY <2>6
  <2>10. \A q \in Procs : ~(pc'[q] = "wipe" /\ job'[q].acc = a)
    BY <1>2, <2>2
  <2>11. \A q \in Procs : pc'[q] = "keys" /\ job'[q].acc = a => st = "keys"
    BY <1>2, <2>6 DEF Configures
  <2>12. Sound(a)'
    BY <2>1, <2>2, <2>8, <2>9, <2>10, <2>11, QuietSound
  <2> QED
    BY <2>3, <2>12
<1> QED
  BY <1>1, <1>5, <1>6, Touching DEF Before, Steady

\* A load that finds no snapshot ends at once.
LEMMA ReadNone ==
  ASSUME Before, NEW p \in Procs, Read(p), disk[email[job[p].acc]] = None
  PROVE  Steady'
<1>0. PICK a : a = job[p].acc
  OBVIOUS
<1>1. /\ pc[p] = "read" /\ restore[a] # "read" /\ disk[email[a]] = None /\ loaded' = loaded \cup {a}
      /\ UNCHANGED <<ready, made, email, key, accounts, background, disk, spoilt>>
  BY <1>0 DEF Read
<1>2. a \in 1..made /\ a \in Objects
  BY <1>0, <1>1, JobTyped DEF Before, TypeOK
<1>3. a \in Clean => asked[a] # None /\ key[a] = None
  BY <1>0, <1>1, OnlyReader DEF Sound, KeyFollows
<1>4. CASE job[p].op = "restore"
  <2>1. PICK w \in Passwords :
           /\ cred' = [cred EXCEPT ![a] = w] /\ asked' = [asked EXCEPT ![a] = w]
           /\ timer' = [timer EXCEPT ![a] = TRUE] /\ WireEvents(job[p].slot, a) /\ Ends(p)
    BY <1>0, <1>1, <1>4, RestoringMeta DEF Read, Before, TypeOK
  <2>2. /\ cred'[a] = asked'[a] /\ asked'[a] # None
        /\ \A b \in Objects \ {a} :
              /\ cred'[b] = cred[b] /\ timer'[b] = timer[b] /\ key'[b] = key[b] /\ asked'[b] = asked[b]
    BY <1>1, <1>2, <2>1 DEF Before, TypeOK, ObjectOK, HistoryOK
  <2>3. Moved(p, "idle", NoJob)
    BY <2>1, EndsMoved
  <2>4. PICK s : WireEvents(s, a)
    BY <2>1
  <2>5. a \in Clean => LET stored == disk[email[a]] IN
           /\ stored # None /\ stored.key # None => key'[a] = stored.key
           /\ ~ready /\ key'[a] # None => stored # None /\ stored.key = key'[a]
    BY <1>1, <1>3
  <2> QED
    BY <1>0, <1>1, <2>2, <2>3, <2>4, <2>5, LoadEnds
<1>5. CASE job[p].op # "restore"
  <2>1. /\ \E live : GoOn(p, job[p].slot, a, job[p].call, key[a], live)
        /\ UNCHANGED <<cred, timer, asked>>
    BY <1>0, <1>1, <1>5 DEF Read
  <2>2. PICK st \in {"keys", "io", "idle"} : \E j :
           Moved(p, st, j) /\ (st # "idle" => j.acc = a) /\ (st = "keys" => key[a] = None)
    BY <2>1, GoOnMoved
  <2>3. WireEvents(job[p].slot, a) \/ UNCHANGED <<account, unsubs, hears>>
    BY <2>1, GoOnMoved
  <2>4. ready
    BY <1>1, <1>5 DEF Before, Booting
  <2> QED
    BY <1>0, <1>1, <1>3, <2>1, <2>2, <2>3, <2>4, LoadEnds
<1> QED
  BY <1>4, <1>5

LEMMA RestSteady == ASSUME Before, NEW p \in Procs, Rest(p) PROVE Steady'
<1>0. PICK a : a = job[p].acc
  OBVIOUS
<1>1. /\ pc[p] = "rest" /\ restore[a] = "none" /\ key' = KeyOf(a, job[p].key) /\ loaded' = loaded \cup {a}
      /\ UNCHANGED <<ready, made, email, accounts, background, disk, spoilt>>
  BY <1>0 DEF Rest
<1>2. a \in 1..made /\ a \in Objects
  BY <1>0, <1>1, JobTyped DEF Before, TypeOK
<1>3. /\ key'[a] = IF job[p].key = None THEN key[a] ELSE job[p].key
      /\ \A b \in Objects \ {a} : key'[b] = key[b]
  BY <1>1, <1>2 DEF KeyOf, Before, TypeOK, ObjectOK
<1>4. a \in Clean =>
         /\ disk[email[a]] # None /\ job[p].key = disk[email[a]].key
         /\ key[a] # None => disk[email[a]].key = key[a]
  BY <1>0, <1>1, OnlyReader DEF Sound, KeyFollows
<1>5. CASE job[p].op = "restore"
  <2>1. PICK w \in Passwords :
           /\ SetCredentials(a, w) /\ asked' = [asked EXCEPT ![a] = w]
           /\ WireEvents(job[p].slot, a) /\ Ends(p)
    BY <1>0, <1>1, <1>5, RestoringMeta DEF Rest, Before, TypeOK
  <2>2. /\ cred'[a] = asked'[a] /\ asked'[a] # None
        /\ \A b \in Objects \ {a} :
              /\ cred'[b] = cred[b] /\ timer'[b] = timer[b] /\ key'[b] = key[b] /\ asked'[b] = asked[b]
    BY <1>2, <1>3, <2>1 DEF SetCredentials, Before, TypeOK, ObjectOK, HistoryOK
  <2>3. Moved(p, "idle", NoJob)
    BY <2>1, EndsMoved
  <2> QED
    BY <1>0, <1>1, <1>3, <1>4, <2>1, <2>2, <2>3, LoadEnds
<1>6. CASE job[p].op # "restore"
  <2>1. /\ \E live : GoOn(p, job[p].slot, a, job[p].call, key'[a], live)
        /\ UNCHANGED <<cred, timer, asked>>
    BY <1>0, <1>1, <1>6 DEF Rest
  <2>2. PICK st \in {"keys", "io", "idle"} : \E j :
           Moved(p, st, j) /\ (st # "idle" => j.acc = a) /\ (st = "keys" => key'[a] = None)
    BY <2>1, GoOnMoved
  <2>3. WireEvents(job[p].slot, a) \/ UNCHANGED <<account, unsubs, hears>>
    BY <2>1, GoOnMoved
  <2>4. ready
    BY <1>1, <1>6 DEF Before, Booting
  <2> QED
    BY <1>0, <1>1, <1>3, <1>4, <2>1, <2>2, <2>3, <2>4, LoadEnds
<1> QED
  BY <1>5, <1>6

\* generateKeys stores the new key, if the object lives, and it had none.
LEMMA GenerateKeysSteady == ASSUME Before, NEW p \in Procs, GenerateKeys(p) PROVE Steady'
<1>0. PICK a, k : a = job[p].acc /\ k = job[p].call
  OBVIOUS
<1>1. /\ pc[p] = "keys" /\ key' = [key EXCEPT ![a] = k] /\ disk' = SavedWith(a, k)
      /\ timer' = [timer EXCEPT ![a] = FALSE] /\ pc' = [pc EXCEPT ![p] = "attach"]
      /\ UNCHANGED <<ready, account, made, email, cred, accounts, background, job, history>>
  BY <1>0 DEF GenerateKeys, facade
<1>2. /\ a \in 1..made /\ a \in Objects /\ made \in 0..MaxAccounts /\ a <= made /\ ready
      /\ k \in Keys /\ k # None
  BY <1>0, <1>1, JobTyped, ObjectTyped DEF Before, TypeOK, Booting
<1>3. /\ key'[a] = k /\ \A b \in Objects \ {a} : key'[b] = key[b] /\ timer'[b] = timer[b]
      /\ pc'[p] = "attach" /\ \A q \in Procs : q # p => pc'[q] = pc[q]
  BY <1>1, <1>2 DEF Before, TypeOK, ObjectOK, ProcessOK
<1>4. Others(a)
  <2>1. \A b \in Clean \ {a} : cred[b] = None \/ disk'[email[b]] = disk[email[b]]
    BY <1>1, <1>2, SavedOthers DEF Before, Steady
  <2>2. Requests(a)
    BY <1>0, <1>1, <1>3 DEF Requests
  <2> QED
    BY <1>1, <1>2, <1>3, <2>1, <2>2 DEF Others, background, history
<1>5. ASSUME a \in Clean' PROVE OnlyLive(a) /\ Sound(a)'
  <2>1. a \in Clean
    BY <1>1, <1>5 DEF Clean, history
  <2>2. Sound(a) /\ ~Loading(a) /\ restore[a] = "none" /\ \A q \in Procs : ~Reads(q, a)
    BY <1>0, <1>1, <1>2, <2>1, SlotLoaded DEF Before, Steady, AllSound
  <2>3. OnlyLive(a)
    BY <1>1, <1>2, StaysOnly DEF Before, Steady
  <2>4. Configures(p, a)
    BY <1>0, <1>1 DEF Configures
  <2>5. \A q \in Procs : ~Configures(q, a)' /\ ~Reads(q, a)'
    <3>1. \A q \in Procs : q # p => ~Configures(q, a)
      BY <2>2, <2>4 DEF Sound, OneByOne
    <3> QED
      BY <1>1, <1>3, <3>1 DEF Configures, Reads
  <2>6. ~Loading(a)' /\ Pinned(a)'
    BY <1>1, <2>2, <2>5 DEF Loading, Sound, Pinned, background, history
  <2>7. \A q \in Procs : pc'[q] = "wipe" /\ job'[q].acc = a => cred[a] = None
    BY <1>1, <1>3, <2>2 DEF Sound, Lives
  <2>8. \A q \in Procs : ~(pc'[q] = "keys" /\ job'[q].acc = a)
    BY <2>5 DEF Configures
  <2>9. cred[a] # None => disk'[email[a]] # None /\ disk'[email[a]].key = k
    BY <1>1, <1>2, SavedHere DEF Before
  <2>10. asked'[a] # None /\ (cred'[a] # None => a \in accounts')
    BY <1>1, <2>2 DEF Sound, Lives, history
  <2>11. Sound(a)'
    BY <1>1, <1>2, <1>3, <2>5, <2>6, <2>7, <2>8, <2>9, <2>10, QuietSound
  <2> QED
    BY <2>3, <2>11
<1> QED
  BY <1>2, <1>4, <1>5, Touching DEF Before, Steady

\* A configuration attaches its account, or flushes it, and ends.
LEMMA AttachingSteady ==
  ASSUME Before, NEW p \in Procs, NEW a, a = job[p].acc, pc[p] \in {"attach", "io"},
         NEW s, WireEvents(s, a) \/ UNCHANGED account,
         NEW st \in {"idle", "io"}, NEW j, Moved(p, st, j), st # "idle" => j.acc = a,
         UNCHANGED <<ready, made, email, cred, key, accounts, background, history>>,
         \/ UNCHANGED <<timer, disk>>
         \/ timer' = [timer EXCEPT ![a] = FALSE] /\ disk' = SavedWith(a, key[a])
  PROVE  Steady'
<1>1. /\ a \in 1..made /\ a \in Objects /\ made \in 0..MaxAccounts /\ a <= made /\ ready
      /\ key[a] \in Keys \cup {None}
  BY JobTyped, ObjectTyped DEF Before, TypeOK, Booting, ObjectOK
<1>2. pc'[p] = st /\ job'[p] = j /\ \A q \in Procs : q # p => pc'[q] = pc[q] /\ job'[q] = job[q]
  BY MovedAlone DEF Before, TypeOK
<1>3. Requests(a)
  BY RequestMoved DEF Before, TypeOK
<1>4. \A t \in Slots : account'[t] \in {account[t], a}
  BY DEF WireEvents, Before, TypeOK, FacadeOK
<1>5. Others(a)
  <2>1. \A b \in Clean \ {a} : cred[b] = None \/ disk'[email[b]] = disk[email[b]]
    BY <1>1, SavedOthers DEF Before, Steady
  <2>2. \A b \in Objects \ {a} : timer'[b] = timer[b]
    BY DEF Before, TypeOK, ObjectOK
  <2> QED
    BY <1>1, <1>3, <1>4, <2>1, <2>2 DEF Others, background, history
<1>6. ASSUME a \in Clean' PROVE OnlyLive(a) /\ Sound(a)'
  <2>1. a \in Clean
    BY <1>6 DEF Clean, history
  <2>2. Sound(a) /\ ~Loading(a) /\ restore[a] = "none" /\ \A q \in Procs : ~Reads(q, a)
    BY <1>1, <2>1, SlotLoaded DEF Before, Steady, AllSound
  <2>3. OnlyLive(a)
    BY <1>1, StaysOnly DEF Before, Steady
  <2>4. \A q \in Procs : (Configures(q, a)' => Configures(q, a)) /\ ~Reads(q, a)'
    BY <1>2, <2>2 DEF Configures, Reads
  <2>5. ~Loading(a)' /\ Pinned(a)'
    BY <2>2, <2>4 DEF Loading, Sound, Pinned, background, history
  <2>6. \A q, r \in Procs : Configures(q, a)' /\ Configures(r, a)' => q = r
    BY <2>2, <2>4 DEF Sound, OneByOne
  <2>7. \A q \in Procs : pc'[q] = "wipe" /\ job'[q].acc = a => cred[a] = None
    BY <1>2, <2>2 DEF Sound, Lives
  <2>8. \A q \in Procs : pc'[q] = "keys" /\ job'[q].acc = a => pc[q] = "keys" /\ job[q].acc = a
    BY <1>2
  <2>9. asked'[a] # None /\ (cred'[a] # None => a \in accounts')
    BY <2>2 DEF Sound, Lives, history
  <2>10. cred[a] # None =>
            /\ disk[email[a]] # None /\ disk[email[a]].key # None => key[a] = disk[email[a]].key
            /\ \A q \in Procs : pc[q] = "keys" /\ job[q].acc = a =>
                  key[a] = None /\ (disk[email[a]] # None => disk[email[a]].key = None)
    BY <2>2 DEF Sound, KeyFollows
  <2>11. cred[a] # None => disk' = disk \/ (disk'[email[a]] # None /\ disk'[email[a]].key = key[a])
    BY <1>1, SavedHere DEF Before
  <2>12. cred'[a] # None =>
            LET stored == disk'[email'[a]] IN
            /\ stored # None /\ stored.key # None => key'[a] = stored.key
            /\ \A q \in Procs : pc'[q] = "keys" /\ job'[q].acc = a =>
                  key'[a] = None /\ (stored # None => stored.key = None)
    BY <2>8, <2>10, <2>11
  <2>13. Sound(a)'
    BY <1>1, <2>5, <2>6, <2>7, <2>9, <2>12, QuietSound
  <2> QED
    BY <2>3, <2>13
<1> QED
  BY <1>1, <1>5, <1>6, Touching DEF Before, Steady

LEMMA AttachedSteady == ASSUME Before, NEW p \in Procs, Attached(p) PROVE Steady'
<1>0. PICK a : a = job[p].acc
  OBVIOUS
<1>1. /\ pc[p] = "attach"
      /\ UNCHANGED <<ready, made, email, cred, key, timer, accounts, background, disk, history>>
      /\ \E live : Attach(p, job[p].slot, a, live)
  BY <1>0 DEF Attached
<1>2. PICK st \in {"io", "idle"} : \E j : Moved(p, st, j) /\ (st # "idle" => j.acc = a)
  BY <1>1, AttachMoved
<1>3. PICK s : WireEvents(s, a)
  BY <1>1, AttachMoved
<1> QED
  BY <1>0, <1>1, <1>2, <1>3, AttachingSteady

LEMMA ConfiguredSteady == ASSUME Before, NEW p \in Procs, Configured(p) PROVE Steady'
<1>0. PICK a : a = job[p].acc
  OBVIOUS
<1>1. /\ pc[p] = "io" /\ Ends(p)
      /\ UNCHANGED <<ready, account, made, email, cred, key, accounts, background, history>>
      /\ \/ UNCHANGED <<timer, disk>>
         \/ timer' = [timer EXCEPT ![a] = FALSE] /\ disk' = SavedWith(a, key[a])
  BY <1>0 DEF Configured, facade
<1>2. PICK j : Moved(p, "idle", j)
  BY <1>1, EndsMoved
<1> QED
  BY <1>0, <1>1, <1>2, AttachingSteady

\* Every request is idle and every restore over when the first call is served.
LEMMA ReadySteady == ASSUME Before, Ready PROVE Steady'
<1>1. /\ ~ready /\ \A p \in Procs : pc[p] = "idle"
      /\ UNCHANGED <<account, made, email, cred, key, timer, accounts, background, disk, process, history>>
  BY DEF Ready, object
<1>2. \A a \in Clean : ~Loading(a)
  BY <1>1 DEF Loading, Reads, Before, Booting, Clean, TypeOK, ObjectOK
<1>3. Unmade' /\ OneLives' /\ Clean' = Clean
  BY <1>1 DEF Before, Steady, Unmade, OneLives, Clean, background, history
<1>4. ASSUME NEW a \in Clean PROVE Sound(a)'
  <2>1. Sound(a) /\ ~Loading(a)
    BY <1>2, <1>4 DEF Before, Steady, AllSound
  <2>2. restore[a] = "none" /\ \A q \in Procs : ~Reads(q, a)' /\ pc'[q] = "idle"
    BY <1>1, <2>1 DEF Loading, Reads, process
  <2>3. ~Loading(a)' /\ OneByOne(a)' /\ Lives(a)' /\ Corrected(a)' /\ Pinned(a)'
    BY <1>1, <2>1, <2>2 DEF Loading, Sound, OneByOne, Configures, Lives, Corrected, Pinned,
       background, history
  <2>4. KeyFollows(a)'
    BY <1>1, <2>1, <2>2, <2>3 DEF Sound, KeyFollows, background, history
  <2> QED
    BY <2>3, <2>4 DEF Sound
<1> QED
  BY <1>3, <1>4 DEF Steady, AllSound

-----------------------------------------------------------------------------
\* PInv is inductive

LEMMA PInvBefore == PInv <=> Before
BY DEF PInv, Before, Steady, AllSound

LEMMA InitTypeOK == Init => TypeOK
<1> SUFFICES ASSUME Init PROVE TypeOK
  OBVIOUS
<1>1. FacadeOK
  <2>1. metas \in Metas /\ ready \in BOOLEAN /\ slots \subseteq Slots /\ selected \in Slots \cup {None}
    BY DEF Init
  <2>2. order \in Seq(Slots)
    BY DEF Init
  <2>3. nextId \in 1..MaxSlots + 1
    BY DEF Init
  <2>4. account \in [Slots -> Objects \cup {None}] /\ unsubs \in [Slots -> Objects \cup {None}]
    BY DEF Init
  <2> QED
    BY <2>1, <2>2, <2>3, <2>4 DEF FacadeOK
<1>2. ObjectOK
  <2>1. PICK e \in Emails : email = [a \in Objects |-> e]
    <3>1. (CHOOSE e \in Emails : TRUE) \in Emails
      BY EmailsAssumption
    <3>2. email \in [Objects -> {CHOOSE e \in Emails : TRUE}]
      BY DEF Init
    <3> QED
      BY <3>1, <3>2
  <2>2. email \in [Objects -> Emails]
    BY <2>1
  <2>3. accounts = {} /\ made = 0 /\ 0 \in 0..MaxAccounts
    BY DEF Init
  <2>4. cred \in [Objects -> Passwords \cup {None}] /\ key \in [Objects -> Keys \cup {None}]
    BY DEF Init
  <2>5. timer \in [Objects -> BOOLEAN] /\ hears \in [Objects -> SUBSET Slots]
    BY DEF Init
  <2> QED
    BY <2>2, <2>3, <2>4, <2>5 DEF ObjectOK
<1>3. BackgroundOK /\ HistoryOK
  BY DEF Init, BackgroundOK, HistoryOK
<1>4. DiskOK
  <2>1. {0} \subseteq Keys \cup {None}
    BY DEF Keys
  <2>2. disk \in [Emails -> {None} \cup [pw : Passwords, key : {0}]]
    BY DisksAssumption DEF Init
  <2> QED
    BY <2>1, <2>2 DEF DiskOK
<1>5. ProcessOK
  <2>1. NoJob \in Jobs /\ "idle" \in Steps
    BY DEF NoJob, Jobs, Keys, Steps
  <2> QED
    BY <2>1 DEF Init, ProcessOK
<1> QED
  BY <1>1, <1>2, <1>3, <1>4, <1>5 DEF TypeOK

LEMMA InitPInv == Init => PInv
<1> SUFFICES ASSUME Init PROVE PInv
  OBVIOUS
<1>1. Unmade /\ OneLives /\ \A a \in Clean : Sound(a)
  BY DEF Init, Unmade, OneLives, Clean
<1> QED
  BY <1>1, InitTypeOK, InitIInv, InitBooting, ListedInit DEF PInv

LEMMA StutterPInv == PInv /\ UNCHANGED vars => PInv'
<1> SUFFICES ASSUME PInv, UNCHANGED vars PROVE PInv'
  OBVIOUS
<1>1. TypeOK'
  BY FacadeKept, ObjectKept, BackgroundKept, DiskKept, ProcessKept, HistoryKept
  DEF PInv, TypeOK, vars, object
<1>2. IInv'
  BY StutterIInv DEF PInv
<1>3. Booting' /\ Listed'
  BY BootingKept, ListedKept DEF PInv, vars, facade, background, process
<1>4. Steady'
  BY PInvBefore, SoundKept DEF Before, Steady, vars, facade, object
<1> QED
  BY <1>1, <1>2, <1>3, <1>4, PInvBefore DEF PInv, Steady, AllSound

LEMMA NextPInv == PInv /\ Next => PInv'
<1> SUFFICES ASSUME Before, Next PROVE TypeOK' /\ Booting' /\ Listed' /\ Steady'
  BY PInvBefore, NextIInv DEF PInv, Before, Steady, AllSound
<1> USE DEF Before
<1>1. CASE Ready
  BY <1>1, ReadyTyped, ReadyListed, ReadySteady DEF Ready, Booting, process
<1>2. CASE AddAccount
  <2>1. UNCHANGED <<metas, ready, account, restore, pc, job>> /\ ready
    BY <1>2 DEF AddAccount, Serve, background, process
  <2>2. Booting'
    BY <2>1 DEF Booting
  <2>3. Steady'
    BY <1>2, SoundKept DEF AddAccount, object, Steady
  <2>4. Listed'
    BY <1>2, ListedAdded DEF AddAccount, TypeOK
  <2> QED
    BY <1>2, <2>2, <2>3, <2>4, AddAccountTyped
<1>3. ASSUME NEW s \in Slots, SetAccountsOrder(<<s>>) PROVE TypeOK' /\ Booting' /\ Listed' /\ Steady'
  <2>1. <<s>> \in Seq(Slots) /\ Injective(<<s>>)
    BY DEF Injective
  <2>2. Booting'
    BY <1>3, BootingKept DEF SetAccountsOrder, background, process
  <2>3. Steady'
    BY <1>3, SoundKept DEF SetAccountsOrder, object, Steady
  <2> QED
    BY <1>3, <2>1, <2>2, <2>3, SetAccountsOrderTyped, OrderListed DEF TypeOK
<1>4. ASSUME NEW s \in Slots, SelectAccount(s) PROVE TypeOK' /\ Booting' /\ Listed' /\ Steady'
  <2>1. Booting'
    BY <1>4, BootingKept DEF SelectAccount, background, process
  <2>2. Steady'
    BY <1>4, SoundKept DEF SelectAccount, object, Steady
  <2>3. Listed'
    BY <1>4 DEF SelectAccount, Listed, Injective, ToSet
  <2> QED
    BY <1>4, <2>1, <2>2, <2>3, SelectAccountTyped
<1>5. ASSUME NEW p \in Procs, RestoreAccount(p) PROVE TypeOK' /\ Booting' /\ Listed' /\ Steady'
  <2>1. nextId \in Slots
    <3>1. nextId \in 1..Len(metas)
      BY <1>5 DEF RestoreAccount, IInv, SlotsMade
    <3> QED
      BY <3>1, MetaTyped DEF TypeOK
  <2>2. Listed'
    BY <1>5, <2>1, ListedAdded DEF RestoreAccount, TypeOK
  <2> QED
    BY <1>5, <2>2, RestoreAccountTyped, RestoreAccountBooting, RestoreAccountSteady
<1>6. ASSUME NEW p \in Procs, Call(p) PROVE TypeOK' /\ Booting' /\ Listed' /\ Steady'
  <2>1. Booting'
    BY <1>6, CallBooting
  <2>2. ASSUME NEW s \in Slots, RemoveAccount(p, s) PROVE TypeOK' /\ Listed' /\ Steady'
    <3>1. Drop(s) \/ UNCHANGED facade
      BY <2>2 DEF RemoveAccount
    <3>2. Listed'
      BY <3>1, DropListed, ListedKept DEF TypeOK, facade
    <3> QED
      BY <2>2, <3>2, RemoveAccountTyped, RemoveAccountSteady
  <2>3. ASSUME NEW s \in Slots, NEW e \in Emails, NEW w \in Passwords, ConfigureCredentials(p, s, e, w)
        PROVE  TypeOK' /\ Listed' /\ Steady'
    <3>1. Listed'
      BY <2>3, ListedKept DEF ConfigureCredentials
    <3> QED
      BY <2>3, <3>1, ConfigureCredentialsTyped, ConfigureNew, ConfigureAgain
  <2>4. ASSUME NEW s \in Slots, NEW e \in Emails, NEW w \in Passwords, Register(p, s, e, w)
        PROVE  TypeOK' /\ Listed' /\ Steady'
    <3>1. Listed'
      BY <2>4, ListedKept DEF Register, facade
    <3> QED
      BY <2>4, <3>1, RegisterTyped, RegisterSteady
  <2> QED
    BY <1>6, <2>1, <2>2, <2>3, <2>4 DEF Call
<1>7. ASSUME NEW p \in Procs, Step(p) PROVE TypeOK' /\ Booting' /\ Listed' /\ Steady'
  <2>1. Booting'
    BY <1>7, StepBooting
  <2>2. Listed'
    <3>1. CASE RemoveEnds(p)
      <4>1. job[p].slot \in Slots /\ Drop(job[p].slot)
        BY <3>1, JobTyped DEF RemoveEnds, TypeOK
      <4> QED
        BY <4>1, DropListed DEF TypeOK
    <3>2. CASE ~RemoveEnds(p)
      <4>1. UNCHANGED <<slots, order, selected, nextId>>
        BY <1>7, <3>2 DEF Step, Deregister, Read, Rest, GenerateKeys, Attached, Fails, Configured, facade
      <4> QED
        BY <4>1, ListedKept
    <3> QED
      BY <3>1, <3>2
  <2>3. CASE Deregister(p)
    BY <2>1, <2>2, <2>3, DeregisterTyped, DeregisterSteady
  <2>4. CASE RemoveEnds(p)
    BY <2>1, <2>2, <2>4, RemoveEndsTyped, RemoveEndsSteady
  <2>5. CASE Read(p)
    BY <2>1, <2>2, <2>5, ReadTyped, ReadFound, ReadNone
  <2>6. CASE Rest(p)
    BY <2>1, <2>2, <2>6, RestTyped, RestSteady
  <2>7. CASE GenerateKeys(p)
    BY <2>1, <2>2, <2>7, GenerateKeysTyped, GenerateKeysSteady
  <2>8. CASE Attached(p)
    BY <2>1, <2>2, <2>8, AttachedTyped, AttachedSteady
  <2>9. CASE Fails(p)
    BY <2>1, <2>2, <2>9, FailsTyped, FailsSteady
  <2>10. CASE Configured(p)
    BY <2>1, <2>2, <2>10, ConfiguredTyped, ConfiguredSteady
  <2> QED
    BY <1>7, <2>3, <2>4, <2>5, <2>6, <2>7, <2>8, <2>9, <2>10 DEF Step
<1>8. ASSUME NEW a \in Objects, TimerFires(a) \/ RestoreReads(a) \/ RestoreEnds(a) \/ RestoreFails(a)
      PROVE  TypeOK' /\ Booting' /\ Listed' /\ Steady'
  <2>1. Listed'
    BY <1>8, ListedKept DEF TimerFires, RestoreReads, RestoreEnds, RestoreFails, facade
  <2>2. CASE TimerFires(a)
    <3>1. Booting'
      BY <2>2, BootingKept DEF TimerFires, facade, background, process
    <3> QED
      BY <2>1, <2>2, <3>1, TimerFiresTyped, TimerFiresSteady
  <2>3. CASE RestoreReads(a) \/ RestoreEnds(a) \/ RestoreFails(a)
    <3>1. restore[a] # "none"
      BY <2>3 DEF RestoreReads, RestoreEnds, RestoreFails
    <3>2. a \in 1..made
      BY <3>1 DEF Steady, Unmade, TypeOK, ObjectOK
    <3> QED
      BY <2>1, <2>3, <3>2, BackgroundBooting, RestoreReadsTyped, RestoreEndsTyped,
         RestoreReadsSteady, RestoreEndsSteady, RestoreFailsSteady
  <2> QED
    BY <1>8, <2>2, <2>3
<1> QED
  BY <1>1, <1>2, <1>3, <1>4, <1>5, <1>6, <1>7, <1>8 DEF Next

LEMMA PInvInductive == Spec => []PInv
BY InitPInv, NextPInv, StutterPInv, PTL DEF Spec

-----------------------------------------------------------------------------
\* The slots, the account objects and the databases have their types, in every
\* interleaving of restores, configurations and removals.
THEOREM TypeCorrect == Spec => []TypeOK
<1>1. PInv => TypeOK
  BY DEF PInv
<1> QED
  BY <1>1, PInvInductive, PTL

\* The list of the accounts names every slot once and nothing else, and the
\* selected account is one of them, whatever was added, ordered and selected
\* while a removal waited for its wipe.
THEOREM SlotsStayListed == Spec => []SlotsListed
<1>1. PInv => SlotsListed
  BY ListedAsMany DEF PInv, TypeOK, FacadeOK, Listed, SlotsListed
<1> QED
  BY <1>1, PInvInductive, PTL

\* An account whose load is over uses the password its caller gave last, for any
\* number of requests and objects: the restore in the background and the stored
\* snapshot never have the last word.
THEOREM PasswordsPinned == Spec => []PasswordPinned
<1>1. PInv => PasswordPinned
  <2> SUFFICES ASSUME PInv, NEW a \in loaded, cred[a] # None, restore[a] = "none",
                      email[a] \notin spoilt,
                      \A p \in Procs : pc[p] \in {"read", "rest"} => job[p].acc # a
               PROVE  cred[a] = asked[a]
    BY DEF PasswordPinned
  <2>1. a \in Clean
    BY DEF PInv, TypeOK, HistoryOK, Clean
  <2>2. ~Loading(a)
    BY DEF Loading, Reads
  <2> QED
    BY <2>1, <2>2 DEF PInv, Sound, Pinned
<1> QED
  BY <1>1, PInvInductive, PTL

\* A stored private key goes only with its profile: of the three writers, the
\* debounced snapshot and the end of a configuration have the stored key in
\* memory, and keys are only made where none is stored.
THEOREM KeysKept == Spec => KeyKept
<1> DEFINE Kept1(e) == disk[e] # None /\ disk[e].key # None /\ disk'[e] # None /\ e \notin spoilt
                       => disk'[e].key = disk[e].key
<1>1. ASSUME Before, NEW a \in 1..made, NEW k \in Keys \cup {None}, disk' = SavedWith(a, k),
             a \in Clean /\ cred[a] # None /\ disk[email[a]] # None /\ disk[email[a]].key # None
                => k = disk[email[a]].key,
             NEW e \in Emails
      PROVE  Kept1(e)
  <2>1. CASE cred[a] = None
    BY <1>1, <2>1 DEF SavedWith
  <2>2. CASE cred[a] # None /\ e # email[a]
    BY <1>1, <2>2 DEF SavedWith, Before, TypeOK, DiskOK
  <2>3. CASE cred[a] # None /\ e = email[a]
    BY <1>1, <2>3, SavedHere DEF Clean, Before
  <2> QED
    BY <2>1, <2>2, <2>3
<1>2. ASSUME Before, NEW a, WipeAccount(a), NEW e \in Emails PROVE Kept1(e)
  BY <1>2 DEF WipeAccount, Before, TypeOK, DiskOK
<1>3. ASSUME Before, NEW e \in Emails, [Next]_vars PROVE Kept1(e)
  <2>1. CASE UNCHANGED disk
    BY <2>1
  <2>2. ASSUME NEW a \in Objects, TimerFires(a) PROVE Kept1(e)
    <3>1. timer[a] /\ disk' = SavedWith(a, key[a]) /\ key[a] \in Keys \cup {None}
      BY <1>3, <2>2 DEF TimerFires, Before, TypeOK, ObjectOK
    <3>2. a \in 1..made
      BY <1>3, <3>1 DEF Before, Steady, Unmade, TypeOK, ObjectOK
    <3>3. a \in Clean /\ cred[a] # None /\ disk[email[a]] # None /\ disk[email[a]].key # None
             => key[a] = disk[email[a]].key
      BY <1>3, <3>1 DEF Before, Steady, AllSound, Sound, KeyFollows
    <3> QED
      BY <1>1, <1>3, <3>1, <3>2, <3>3
  <2>3. ASSUME NEW p \in Procs, GenerateKeys(p) PROVE Kept1(e)
    <3>0. PICK a : a = job[p].acc
      OBVIOUS
    <3>1. pc[p] = "keys" /\ disk' = SavedWith(a, job[p].call)
      BY <2>3, <3>0 DEF GenerateKeys
    <3>2. a \in 1..made /\ job[p].call \in Keys
      BY <1>3, <3>0, <3>1, JobTyped DEF Before, TypeOK
    <3>3. a \in Clean /\ cred[a] # None /\ disk[email[a]] # None => disk[email[a]].key = None
      BY <1>3, <3>0, <3>1 DEF Before, Steady, AllSound, Sound, KeyFollows
    <3> QED
      BY <1>1, <1>3, <3>1, <3>2, <3>3
  <2>4. ASSUME NEW p \in Procs, Configured(p) PROVE Kept1(e)
    <3>0. PICK a : a = job[p].acc
      OBVIOUS
    <3>1. pc[p] = "io" /\ (disk' = disk \/ disk' = SavedWith(a, key[a]))
      BY <2>4, <3>0 DEF Configured
    <3>2. a \in 1..made /\ a \in Objects /\ ready
      BY <1>3, <3>0, <3>1, JobTyped DEF Before, TypeOK, Booting
    <3>3. key[a] \in Keys \cup {None}
      BY <1>3, <3>2 DEF Before, TypeOK, ObjectOK
    <3>4. a \in Clean => ~Loading(a)
      BY <1>3, <3>0, <3>1, <3>2, SlotLoaded
    <3>5. a \in Clean /\ cred[a] # None /\ disk[email[a]] # None /\ disk[email[a]].key # None
             => key[a] = disk[email[a]].key
      BY <1>3, <3>4 DEF Before, Steady, AllSound, Sound, KeyFollows
    <3> QED
      BY <1>1, <1>3, <2>1, <3>1, <3>2, <3>3, <3>5
  <2>5. ASSUME NEW p \in Procs, Deregister(p) PROVE Kept1(e)
    BY <1>2, <1>3, <2>5 DEF Deregister
  <2>6. ASSUME NEW p \in Procs, NEW s \in Slots, RemoveAccount(p, s) PROVE Kept1(e)
    <3>1. disk' = disk \/ WipeAccount(account[s]) \/ ClearsOthers(account[s])
      BY <2>6 DEF RemoveAccount, Destroy
    <3>2. CASE ClearsOthers(account[s])
      BY <1>3, <3>2 DEF ClearsOthers, Before, TypeOK, DiskOK
    <3> QED
      BY <1>2, <1>3, <2>1, <3>1, <3>2
  <2>7. ASSUME NEW p \in Procs, Call(p) PROVE Kept1(e)
    <3>1. ASSUME NEW s \in Slots, NEW f \in Emails, NEW w \in Passwords,
                 ConfigureCredentials(p, s, f, w) \/ Register(p, s, f, w)
          PROVE  UNCHANGED disk
      BY <3>1 DEF ConfigureCredentials, Register
    <3> QED
      BY <2>1, <2>6, <2>7, <3>1 DEF Call
  <2>8. ASSUME NEW p \in Procs, Step(p) PROVE Kept1(e)
    <3>1. Read(p) \/ Rest(p) \/ Attached(p) \/ Fails(p) \/ RemoveEnds(p) => UNCHANGED disk
      BY DEF Read, Rest, Attached, Fails, RemoveEnds
    <3> QED
      BY <2>1, <2>3, <2>4, <2>5, <2>8, <3>1 DEF Step
  <2>9. Ready \/ AddAccount \/ (\E s \in Slots : SetAccountsOrder(<<s>>) \/ SelectAccount(s))
           \/ (\E p \in Procs : RestoreAccount(p))
           \/ (\E a \in Objects : RestoreReads(a) \/ RestoreEnds(a) \/ RestoreFails(a))
           \/ UNCHANGED vars
        => UNCHANGED disk
    BY DEF Ready, AddAccount, SetAccountsOrder, SelectAccount, RestoreAccount, RestoreReads,
           RestoreEnds, RestoreFails, vars
  <2> QED
    BY <1>3, <2>1, <2>2, <2>7, <2>8, <2>9 DEF Next
<1>4. PInv /\ [Next]_vars
         => [\A e \in Emails :
               disk[e] # None /\ disk[e].key # None /\ disk'[e] # None /\ e \notin spoilt
               => disk'[e].key = disk[e].key]_vars
  BY <1>3, PInvBefore
<1> QED
  BY <1>4, PInvInductive, PTL DEF Spec, KeyKept

=============================================================================
