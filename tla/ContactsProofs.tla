--------------------------- MODULE ContactsProofs ---------------------------
(***************************************************************************)
(* Theorems about Contacts, for any number of peers, keys, mails and       *)
(* handshakes under way, snapshots and reloads.                            *)
(***************************************************************************)
EXTENDS Contacts, TLAPS

USE NoneAssumption, BoundAssumption

\* An account without contacts satisfies the invariant.
LEMMA InitBooks == Init => Books
<1> SUFFICES ASSUME Init PROVE Books
  OBVIOUS
<1>1. TypeOK
  <2>1. /\ known \in [Peers -> Keys \cup {None}]
        /\ reg \in [Peers -> Contact \cup {None}] /\ row \in [Peers -> Contact \cup {None}]
        /\ stray \subseteq Peers /\ blocked \subseteq Peers /\ timer \in BOOLEAN
    BY DEF Init, NoKeys
  <2>2. /\ saver \in [Savers -> {"idle", "account", "rows"}]
        /\ todo \in [Savers -> [Peers -> Keys \cup {None}]]
        /\ copied \in [Savers -> SUBSET Peers] /\ ahead \in [Savers -> SUBSET Savers]
        /\ \A s \in Savers : saver[s] # "rows" => todo[s] = NoKeys
    BY DEF Init, NoKeys
  <2>3. /\ pc \in [Handlers -> {"idle", "parsed", "read", "avatar", "join", "joined"}]
        /\ from \in [Handlers -> Peers \cup {None}] /\ key \in [Handlers -> Keys \cup {None}]
        /\ buf \in [Handlers -> Contact \cup {None}]
        /\ \A h \in Handlers : /\ pc[h] = "idle" <=> from[h] = None
                               /\ pc[h] = "avatar" <=> buf[h] # None
    BY DEF Init
  <2>4. /\ ops \in 0 .. MaxOps
        /\ wish \subseteq Peers /\ frail \subseteq Peers /\ lost \subseteq Peers
        /\ stale \subseteq Peers /\ torn \subseteq Peers
    BY DEF Init
  <2> QED
    BY <2>1, <2>2, <2>3, <2>4 DEF TypeOK
<1>2. RowIsRecord /\ Marks
  BY DEF Init, RowIsRecord, Marks, Marked, NoKeys
<1> QED
  BY <1>1, <1>2 DEF Books

-----------------------------------------------------------------------------
(* What the steps are made of, a contact at a time.                        *)

\* The registry, the rows and the four sets that the invariant relates.
BookType ==
    /\ reg \in [Peers -> Contact \cup {None}] /\ row \in [Peers -> Contact \cup {None}]
    /\ stale \subseteq Peers /\ frail \subseteq Peers
    /\ RowIsRecord /\ Marks

\* Saving a contact leaves the invariant for the others.
LEMMA SaveOthers ==
  ASSUME BookType, NEW p \in Peers, NEW c \in Contact \cup {None},
         Save(p, c), UNCHANGED <<blocked, wish, lost>>,
         frail' \subseteq Peers, \A q \in Peers \ {p} : q \in frail' <=> q \in frail
  PROVE  /\ reg' \in [Peers -> Contact \cup {None}] /\ row' \in [Peers -> Contact \cup {None}]
         /\ stale' \subseteq Peers /\ p \notin stale' /\ reg'[p] = c /\ row'[p] = c
         /\ \A q \in Peers \ {p} :
               /\ reg'[q] = reg[q] /\ row'[q] = row[q]
               /\ q \in stale' <=> q \in stale
  BY DEF BookType, Save

\* Whoever saves a contact keeps the invariant, if the mark is the old one or
\* `frail' takes it into account.
LEMMA ContactSaved ==
  ASSUME BookType, NEW p \in Peers, NEW c \in Contact \cup {None},
         Save(p, c), UNCHANGED <<blocked, wish, lost>>,
         frail' \subseteq Peers, \A q \in Peers \ {p} : q \in frail' <=> q \in frail,
         p \notin lost => (Marked(c) => p \in wish),
         p \notin frail' => (Marked(c) <=> p \in wish)
  PROVE  BookType'
<1>1. /\ reg' \in [Peers -> Contact \cup {None}] /\ row' \in [Peers -> Contact \cup {None}]
      /\ stale' \subseteq Peers /\ p \notin stale' /\ reg'[p] = c /\ row'[p] = c
  BY SaveOthers
<1>2. \A q \in Peers \ {p} :
         /\ reg'[q] = reg[q] /\ row'[q] = row[q]
         /\ q \in stale' <=> q \in stale
  BY SaveOthers
<1>3. RowIsRecord'
  BY <1>1, <1>2 DEF BookType, RowIsRecord
<1>4. Marks'
  BY <1>1, <1>2 DEF BookType, Marks, Marked
<1> QED
  BY <1>1, <1>3, <1>4 DEF BookType

\* A key that is saved keeps the mark, or makes a contact without one.
LEMMA UpsertStep ==
  ASSUME BookType, NEW p \in Peers, NEW k \in Keys \cup {None},
         Upsert(p, k), MarkKept(p), UNCHANGED <<blocked, wish, lost>>
  PROVE  BookType'
<1>1. Upserted(p, k) \in Contact
  BY DEF Upserted, BookType, Contact
<1>2. frail' \subseteq Peers /\ \A q \in Peers \ {p} : q \in frail' <=> q \in frail
  BY DEF MarkKept, Unmarked, BookType
<1>3. CASE reg[p] = None
  <2>1. ~Marked(Upserted(p, k))
    BY <1>3 DEF Upserted, Marked
  <2>2. p \notin frail' => p \notin wish
    BY <1>3 DEF MarkKept, Unmarked
  <2> QED
    BY <1>1, <1>2, <2>1, <2>2, ContactSaved DEF Upsert
<1>4. CASE reg[p] # None
  <2>1. reg[p] \in Contact
    BY <1>4 DEF BookType
  <2>2. Marked(Upserted(p, k)) <=> Marked(reg[p])
    BY <1>4, <1>1, <2>1 DEF Upserted, Marked, Contact
  <2>3. frail' = frail
    BY <1>4 DEF MarkKept
  <2> QED
    BY <1>1, <1>2, <1>4, <2>2, <2>3, ContactSaved DEF Upsert, BookType, Marks
<1> QED
  BY <1>3, <1>4

\* A contact that a handshake makes has no mark.
LEMMA JoinedStep ==
  ASSUME BookType, NEW p \in Peers, NEW k \in Keys \cup {None},
         Save(p, Joined(p, k)), Unmarked(p), UNCHANGED <<blocked, wish, lost>>
  PROVE  BookType'
<1>1. Joined(p, k) \in Contact
  BY DEF Joined, BookType, Contact
<1>2. ~Marked(Joined(p, k))
  BY DEF Joined, Marked
<1>3. frail' \subseteq Peers /\ \A q \in Peers \ {p} : q \in frail' <=> q \in frail
  BY DEF Unmarked, BookType
<1>4. p \notin frail' => p \notin wish
  BY DEF Unmarked
<1> QED
  BY <1>1, <1>2, <1>3, <1>4, ContactSaved

\* A step that leaves the contacts alone.
LEMMA QuietStep ==
  ASSUME BookType, UNCHANGED <<reg, row, stale, frail, blocked, wish, lost>>
  PROVE  BookType'
  BY DEF BookType, RowIsRecord, Marks, Marked

-----------------------------------------------------------------------------
(* Types, for the parts of the state that go together.                     *)

WishType ==
    /\ wish \subseteq Peers /\ lost \subseteq Peers /\ torn \subseteq Peers
    /\ stray \subseteq Peers /\ blocked \subseteq Peers
    /\ known \in [Peers -> Keys \cup {None}] /\ timer \in BOOLEAN /\ ops \in 0 .. MaxOps

SavingType ==
    /\ saver \in [Savers -> {"idle", "account", "rows"}]
    /\ todo \in [Savers -> [Peers -> Keys \cup {None}]]
    /\ copied \in [Savers -> SUBSET Peers] /\ ahead \in [Savers -> SUBSET Savers]
    /\ \A s \in Savers : saver[s] # "rows" => todo[s] = NoKeys

HandlingType ==
    /\ pc \in [Handlers -> {"idle", "parsed", "read", "avatar", "join", "joined"}]
    /\ from \in [Handlers -> Peers \cup {None}] /\ key \in [Handlers -> Keys \cup {None}]
    /\ buf \in [Handlers -> Contact \cup {None}]
    /\ \A h \in Handlers : /\ pc[h] = "idle" <=> from[h] = None
                           /\ pc[h] = "avatar" <=> buf[h] # None

\* The parts are the invariant.
LEMMA Parts == Books <=> BookType /\ WishType /\ SavingType /\ HandlingType
  BY DEF Books, TypeOK, BookType, WishType, SavingType, HandlingType

LEMMA PartsNext == Books' <=> BookType' /\ WishType' /\ SavingType' /\ HandlingType'
  BY DEF Books, TypeOK, BookType, WishType, SavingType, HandlingType

LEMMA SavingStays == SavingType /\ UNCHANGED saving => SavingType'
  BY DEF SavingType, saving

LEMMA HandlingStays == HandlingType /\ UNCHANGED handling => HandlingType'
  BY DEF HandlingType, handling

LEMMA AskedType == WishType /\ Asked => ops' \in 0 .. MaxOps
  BY DEF Asked, WishType

\* Remembering a key.
LEMMA RememberStep ==
  ASSUME BookType, WishType, NEW p \in Peers, NEW k \in Keys,
         Remember(p, k), MarkKept(p), UNCHANGED <<blocked, wish, lost>>
  PROVE  /\ BookType'
         /\ known' \in [Peers -> Keys \cup {None}] /\ timer' \in BOOLEAN
<1>1. BookType'
  BY UpsertStep DEF Remember
<1>2. known' \in [Peers -> Keys \cup {None}] /\ timer' \in BOOLEAN
  BY DEF Remember, WishType
<1> QED
  BY <1>1, <1>2

-----------------------------------------------------------------------------
(* The calls of the application.                                           *)

LEMMA CreateContactStep ==
  ASSUME Books, NEW p \in Peers, NEW k \in Keys \cup {None}, CreateContact(p, k)
  PROVE  Books'
<1> USE Parts DEF CreateContact
<1>1. BookType'
  BY UpsertStep
<1>2. WishType'
  BY AskedType DEF WishType
<1>3. SavingType' /\ HandlingType'
  BY SavingStays, HandlingStays
<1> QED
  BY <1>1, <1>2, <1>3, PartsNext

LEMMA ImportKeyStep ==
  ASSUME Books, NEW p \in Peers, NEW k \in Keys, ImportKey(p, k)
  PROVE  Books'
<1> USE Parts DEF ImportKey
<1>1. BookType' /\ known' \in [Peers -> Keys \cup {None}] /\ timer' \in BOOLEAN
  BY RememberStep
<1>2. WishType'
  BY <1>1, AskedType DEF WishType
<1>3. SavingType' /\ HandlingType'
  BY SavingStays, HandlingStays
<1> QED
  BY <1>1, <1>2, <1>3, PartsNext

LEMMA BlockContactStep ==
  ASSUME Books, NEW p \in Peers, BlockContact(p)
  PROVE  Books'
<1> USE Parts DEF BlockContact
<1>1. WishType'
  BY AskedType DEF WishType
<1>2. SavingType' /\ HandlingType'
  BY SavingStays, HandlingStays
<1>3. frail' = frail \ {p} /\ wish' = wish \cup {p} /\ lost' = lost \ {p}
      /\ blocked' = blocked \cup {p} /\ stale' = stale \ {p}
  BY DEF Save
<1>4. CASE reg[p] # None
  <2> DEFINE c == [reg[p] EXCEPT !.blocked = TRUE]
  <2>1. c \in Contact /\ c # None /\ Marked(c)
    BY <1>4 DEF BookType, Contact, Marked
  <2>2. reg' = [reg EXCEPT ![p] = c] /\ row' = [row EXCEPT ![p] = c]
    BY <1>4 DEF Save
  <2> HIDE DEF c
  <2>3. RowIsRecord'
    BY <1>3, <2>1, <2>2 DEF BookType, RowIsRecord
  <2>4. Marks'
    BY <1>3, <2>1, <2>2 DEF BookType, Marks, Marked
  <2> QED
    BY <1>1, <1>2, <1>3, <2>1, <2>2, <2>3, <2>4, PartsNext DEF BookType
<1>5. CASE reg[p] = None
  <2>a. Stub \in Contact /\ Stub.blocked
    BY DEF Stub, Contact
  <2>1. Stub \in Contact /\ Stub # None /\ Marked(Stub)
    BY <2>a DEF Marked
  <2>2. reg' = reg /\ row' = [row EXCEPT ![p] = Stub]
    BY <1>5
  <2>3. RowIsRecord'
    BY <1>3, <1>5, <2>1, <2>2 DEF BookType, RowIsRecord
  <2>4. Marks'
    BY <1>3, <1>5, <2>1, <2>2 DEF BookType, Marks, Marked
  <2> QED
    BY <1>1, <1>2, <1>3, <2>1, <2>2, <2>3, <2>4, PartsNext DEF BookType
<1> QED
  BY <1>4, <1>5

LEMMA UnblockContactStep ==
  ASSUME Books, NEW p \in Peers, UnblockContact(p)
  PROVE  Books'
<1> USE Parts DEF UnblockContact
<1>1. WishType'
  BY AskedType DEF WishType
<1>2. SavingType' /\ HandlingType'
  BY SavingStays, HandlingStays
<1>3. wish' = wish \ {p} /\ lost' = lost \ {p} /\ blocked' = blocked \ {p}
      /\ frail' = IF reg[p] = None /\ row[p] # None THEN frail \cup {p} ELSE frail \ {p}
  OBVIOUS
<1>4. CASE reg[p] # None
  <2> DEFINE c == [reg[p] EXCEPT !.blocked = FALSE]
  <2>1. c \in Contact /\ c # None /\ ~Marked(c)
    BY <1>4 DEF BookType, Contact, Marked
  <2>2. reg' = [reg EXCEPT ![p] = c] /\ row' = [row EXCEPT ![p] = c] /\ stale' = stale \ {p}
    BY <1>4 DEF Save
  <2> HIDE DEF c
  <2>3. RowIsRecord'
    BY <1>3, <2>1, <2>2 DEF BookType, RowIsRecord
  <2>4. Marks'
    BY <1>3, <1>4, <2>1, <2>2 DEF BookType, Marks, Marked
  <2> QED
    BY <1>1, <1>2, <1>3, <2>1, <2>2, <2>3, <2>4, PartsNext DEF BookType
<1>5. CASE reg[p] = None
  <2>1. UNCHANGED <<reg, row, stale>>
    BY <1>5
  <2>2. RowIsRecord'
    BY <2>1 DEF BookType, RowIsRecord
  <2>3. Marks'
    BY <1>3, <1>5, <2>1 DEF BookType, Marks, Marked
  <2> QED
    BY <1>1, <1>2, <1>3, <2>1, <2>2, <2>3, PartsNext DEF BookType
<1> QED
  BY <1>4, <1>5

LEMMA DeleteContactStep ==
  ASSUME Books, NEW p \in Peers, DeleteContact(p)
  PROVE  Books'
<1> USE Parts DEF DeleteContact
<1>1. stray' \subseteq Peers
  BY DEF WishType
<1>2. WishType'
  BY <1>1, AskedType DEF WishType
<1>3. SavingType' /\ HandlingType'
  BY SavingStays, HandlingStays
<1>4. Save(p, None) /\ Unmarked(p)
  BY DEF Save
<1>5. ~Marked(None)
  BY DEF Marked
<1>6. frail' \subseteq Peers /\ (\A q \in Peers \ {p} : q \in frail' <=> q \in frail)
      /\ (p \notin frail' => p \notin wish)
  BY <1>4 DEF Unmarked, BookType
<1>7. BookType'
  BY <1>4, <1>5, <1>6, ContactSaved
<1> QED
  BY <1>2, <1>3, <1>7, PartsNext

-----------------------------------------------------------------------------
(* The snapshot.                                                           *)

LEMMA SaveBeginsStep ==
  ASSUME Books, NEW s \in Savers, SaveBegins(s)
  PROVE  Books'
<1> USE Parts DEF SaveBegins
<1>1. BookType'
  BY QuietStep DEF wishes
<1>2. WishType'
  BY AskedType DEF WishType, wishes
<1>3. SavingType'
  BY DEF SavingType
<1>4. HandlingType'
  BY HandlingStays
<1> QED
  BY <1>1, <1>2, <1>3, <1>4, PartsNext

\* One row of the keys ks.
LEMMA PutRowStep ==
  ASSUME BookType, SavingType, NEW s \in Savers, NEW ks \in [Peers -> Keys \cup {None}],
         NEW before, NEW p \in Peers, PutRow(s, ks, before, p), UNCHANGED <<blocked, wish, lost>>
  PROVE  /\ BookType'
         /\ saver' \in [Savers -> {"idle", "account", "rows"}]
         /\ todo' \in [Savers -> [Peers -> Keys \cup {None}]]
         /\ \A i \in Savers : saver'[i] # "rows" => todo'[i] = NoKeys
<1>1. Upsert(p, ks[p]) /\ MarkKept(p) /\ ks[p] \in Keys \cup {None}
  BY DEF PutRow
<1>2. BookType'
  BY <1>1, UpsertStep
<1>3. todo' = [todo EXCEPT ![s] = [ks EXCEPT ![p] = None]] /\ saver' = [saver EXCEPT ![s] = "rows"]
  BY DEF PutRow
<1>4. [ks EXCEPT ![p] = None] \in [Peers -> Keys \cup {None}]
  OBVIOUS
<1>5. saver' \in [Savers -> {"idle", "account", "rows"}]
      /\ todo' \in [Savers -> [Peers -> Keys \cup {None}]]
  BY <1>3, <1>4 DEF SavingType
<1>6. \A i \in Savers : saver'[i] # "rows" => todo'[i] = NoKeys
  BY <1>3 DEF SavingType
<1> QED
  BY <1>2, <1>5, <1>6

LEMMA SaverEndsStep ==
  ASSUME BookType, SavingType, NEW s \in Savers, SaverEnds(s), todo[s] = NoKeys,
         UNCHANGED <<blocked, wish, lost>>
  PROVE  BookType' /\ SavingType'
<1>1. BookType'
  BY QuietStep DEF SaverEnds
<1>2. SavingType'
  BY DEF SavingType, SaverEnds
<1> QED
  BY <1>1, <1>2

LEMMA SaveRowsStep ==
  ASSUME Books, NEW s \in Savers, SaveRows(s)
  PROVE  Books'
<1> USE Parts
<1> DEFINE before == Before
<1>1. /\ saver[s] = "account"
      /\ \/ SaverEnds(s)
         \/ /\ \E p \in Peers : PutRow(s, known, before, p)
            /\ copied' = [copied EXCEPT ![s] = Keyholders]
            /\ ahead' = [ahead EXCEPT ![s] = before]
      /\ UNCHANGED <<known, stray, blocked, timer, handling, ops, wish, lost>>
  BY DEF SaveRows
<1>2. before \subseteq Savers
  BY DEF Before
<1>5. torn' \subseteq Peers
  BY DEF SaveRows, Passed, WishType
<1> HIDE DEF before
<1>3. BookType' /\ SavingType'
  <2>1. CASE SaverEnds(s)
    BY <1>1, <2>1, SaverEndsStep DEF SavingType
  <2>2. ASSUME NEW p \in Peers, PutRow(s, known, before, p), ahead' = [ahead EXCEPT ![s] = before],
             copied' = [copied EXCEPT ![s] = Keyholders]
        PROVE  BookType' /\ SavingType'
    <3>1. known \in [Peers -> Keys \cup {None}]
      BY DEF WishType
    <3>2. copied' \in [Savers -> SUBSET Peers] /\ ahead' \in [Savers -> SUBSET Savers]
      BY <1>2, <2>2 DEF SavingType, Keyholders
    <3> QED
      BY <1>1, <2>2, <3>1, <3>2, PutRowStep DEF SavingType
  <2> QED
    BY <1>1, <2>1, <2>2
<1>4. WishType' /\ HandlingType'
  BY <1>1, <1>5, HandlingStays DEF WishType
<1> QED
  BY <1>3, <1>4, PartsNext

LEMMA NextRowStep ==
  ASSUME Books, NEW s \in Savers, NextRow(s)
  PROVE  Books'
<1> USE Parts
<1>1. /\ \/ todo[s] = NoKeys /\ SaverEnds(s)
         \/ (\E p \in Peers : PutRow(s, todo[s], ahead[s], p)) /\ UNCHANGED <<copied, ahead>>
      /\ UNCHANGED <<known, stray, blocked, timer, handling, ops, wish, lost, torn>>
  BY DEF NextRow
<1>2. BookType' /\ SavingType'
  <2>1. CASE todo[s] = NoKeys /\ SaverEnds(s)
    BY <1>1, <2>1, SaverEndsStep
  <2>2. ASSUME NEW p \in Peers, PutRow(s, todo[s], ahead[s], p), UNCHANGED <<copied, ahead>>
        PROVE  BookType' /\ SavingType'
    <3>1. todo[s] \in [Peers -> Keys \cup {None}]
      BY DEF SavingType
    <3> QED
      BY <1>1, <2>2, <3>1, PutRowStep DEF SavingType
  <2> QED
    BY <1>1, <2>1, <2>2
<1>3. WishType' /\ HandlingType'
  BY <1>1, HandlingStays DEF WishType
<1> QED
  BY <1>2, <1>3, PartsNext

-----------------------------------------------------------------------------
(* Mails and handshakes.                                                   *)

LEMMA StartType ==
  ASSUME HandlingType, NEW h \in Handlers, NEW p \in Peers, NEW stage \in {"parsed", "join", "joined"},
         Start(h, p, stage), UNCHANGED buf, key' \in [Handlers -> Keys \cup {None}]
  PROVE  HandlingType'
<1>1. p # None
  OBVIOUS
<1> QED
  BY <1>1 DEF HandlingType, Start

LEMMA FinishType ==
  ASSUME HandlingType, NEW h \in Handlers, Finish(h)
  PROVE  HandlingType'
  BY DEF HandlingType, Finish

LEMMA MailArrivesStep ==
  ASSUME Books, NEW h \in Handlers, NEW p \in Peers, NEW k \in Keys \cup {None},
         MailArrives(h, p, k)
  PROVE  Books'
<1> USE Parts DEF MailArrives
<1>1. BookType' /\ known' \in [Peers -> Keys \cup {None}] /\ timer' \in BOOLEAN
  <2>1. CASE k = None
    BY <2>1, QuietStep DEF WishType
  <2>2. CASE k # None
    BY <2>2, RememberStep
  <2> QED
    BY <2>1, <2>2
<1>2. WishType'
  BY <1>1, AskedType DEF WishType
<1>3. SavingType' /\ HandlingType'
  BY SavingStays, StartType DEF HandlingType
<1> QED
  BY <1>1, <1>2, <1>3, PartsNext

LEMMA CheckStep ==
  ASSUME Books, NEW h \in Handlers, Check(h)
  PROVE  Books'
<1> USE Parts DEF Check
<1>1. BookType' /\ WishType' /\ SavingType'
  BY QuietStep, SavingStays DEF WishType, book, wishes
<1>2. HandlingType'
  <2>1. CASE Finish(h)
    BY <2>1, FinishType
  <2>2. CASE pc' = [pc EXCEPT ![h] = "read"] /\ UNCHANGED <<from, key, buf>>
    BY <2>2 DEF HandlingType
  <2> QED
    BY <2>1, <2>2
<1> QED
  BY <1>1, <1>2, PartsNext

LEMMA ReadContactStep ==
  ASSUME Books, NEW h \in Handlers, ReadContact(h)
  PROVE  Books'
<1> USE Parts DEF ReadContact
<1>1. BookType' /\ WishType' /\ SavingType'
  BY QuietStep, SavingStays DEF WishType, book, wishes
<1>2. from[h] \in Peers /\ row[from[h]] \in Contact \cup {None}
  BY DEF HandlingType, BookType
<1>3. HandlingType'
  <2>1. CASE row[from[h]] = None
    BY <2>1, FinishType
  <2>2. CASE row[from[h]] # None
    BY <1>2, <2>2 DEF HandlingType
  <2> QED
    BY <2>1, <2>2
<1> QED
  BY <1>1, <1>3, PartsNext

LEMMA WriteContactStep ==
  ASSUME Books, NEW h \in Handlers, WriteContact(h)
  PROVE  Books'
<1> USE Parts DEF WriteContact
<1>1. from[h] \in Peers /\ buf[h] \in Contact /\ pc[h] = "avatar"
  BY DEF HandlingType
<1>2. UNCHANGED <<reg, frail, blocked, wish, lost>>
  BY DEF wishes
<1>3. CASE row[from[h]] = buf[h]
  <2>1. row' = row /\ stale' = stale
    BY <1>1, <1>3 DEF BookType
  <2> QED
    BY <1>2, <2>1, QuietStep, SavingStays, FinishType, PartsNext DEF WishType, wishes
<1>4. CASE row[from[h]] # buf[h]
  <2>1. row' = [row EXCEPT ![from[h]] = buf[h]] /\ stale' = stale \cup {from[h]}
    BY <1>4
  <2>2. RowIsRecord'
    BY <1>1, <1>2, <2>1 DEF BookType, RowIsRecord
  <2>3. Marks'
    BY <1>1, <1>2, <2>1 DEF BookType, Marks, Marked
  <2>4. BookType'
    BY <1>1, <1>2, <2>1, <2>2, <2>3 DEF BookType
  <2> QED
    BY <1>2, <2>4, SavingStays, FinishType, PartsNext DEF WishType, wishes
<1> QED
  BY <1>3, <1>4

LEMMA JoinStep ==
  ASSUME Books, NEW h \in Handlers, NEW p \in Peers, Join(h, p)
  PROVE  Books'
<1> USE Parts DEF Join
<1>1. BookType' /\ known' \in [Peers -> Keys \cup {None}] /\ timer' \in BOOLEAN
  <2>1. CASE known[p] # None
    <3>1. known[p] \in Keys
      BY <2>1 DEF WishType
    <3> QED
      BY <2>1, <3>1, RememberStep
  <2>2. CASE known[p] = None
    BY <2>2, JoinedStep DEF WishType
  <2> QED
    BY <2>1, <2>2
<1>2. WishType'
  BY <1>1, AskedType DEF WishType
<1>3. SavingType'
  BY SavingStays
<1>4. key' \in [Handlers -> Keys \cup {None}]
  BY DEF WishType, HandlingType
<1>5. HandlingType'
  BY <1>4, StartType
<1> QED
  BY <1>1, <1>2, <1>3, <1>5, PartsNext

LEMMA JoinSavesStep ==
  ASSUME Books, NEW h \in Handlers, JoinSaves(h)
  PROVE  Books'
<1> USE Parts DEF JoinSaves
<1>1. from[h] \in Peers /\ key[h] \in Keys \cup {None}
  BY DEF HandlingType
<1>2. BookType'
  BY <1>1, JoinedStep
<1>3. WishType' /\ SavingType'
  BY SavingStays DEF WishType
<1>4. HandlingType'
  BY DEF HandlingType
<1> QED
  BY <1>2, <1>3, <1>4, PartsNext

LEMMA JoinEndsStep ==
  ASSUME Books, NEW h \in Handlers, JoinEnds(h)
  PROVE  Books'
<1> USE Parts DEF JoinEnds
<1>1. BookType' /\ WishType' /\ SavingType'
  BY QuietStep, SavingStays DEF WishType, wishes
<1>2. HandlingType'
  BY FinishType
<1> QED
  BY <1>1, <1>2, PartsNext

LEMMA ReloadStep ==
  ASSUME Books, Reload
  PROVE  Books'
<1> USE Parts DEF Reload
<1>1. reg' = row /\ row' = row /\ stale' = {} /\ frail' = frail \cup stale /\ lost' = frail \cup stale
      /\ wish' = wish /\ blocked' = {p \in Peers : row[p] # None /\ row[p].blocked}
  OBVIOUS
<1>2. RowIsRecord'
  BY <1>1 DEF BookType, RowIsRecord
<1>3. Marks'
  BY <1>1 DEF BookType, Marks, Marked
<1>4. BookType'
  BY <1>1, <1>2, <1>3 DEF BookType
<1>5. known' \in [Peers -> Keys \cup {None}]
  <2>1. \A p \in Peers : row[p] # None => row[p].key \in Keys \cup {None}
    BY DEF BookType, Contact
  <2> QED
    BY <2>1
<1>6. WishType'
  BY <1>1, <1>5, AskedType DEF WishType, BookType
<1>7. SavingType'
  BY DEF SavingType, NoKeys
<1>8. HandlingType'
  BY DEF HandlingType
<1> QED
  BY <1>4, <1>6, <1>7, <1>8, PartsNext

-----------------------------------------------------------------------------
LEMMA BooksStep == Books /\ [Next]_vars => Books'
<1> SUFFICES ASSUME Books, [Next]_vars PROVE Books'
  OBVIOUS
<1>1. ASSUME NEW p \in Peers, Call(p) PROVE Books'
  BY <1>1, CreateContactStep, ImportKeyStep, BlockContactStep, UnblockContactStep,
     DeleteContactStep DEF Call
<1>2. ASSUME NEW s \in Savers, SaveStep(s) PROVE Books'
  BY <1>2, SaveBeginsStep, SaveRowsStep, NextRowStep DEF SaveStep
<1>3. ASSUME NEW h \in Handlers, MailStep(h) PROVE Books'
  BY <1>3, MailArrivesStep, CheckStep, ReadContactStep, WriteContactStep, JoinStep,
     JoinSavesStep, JoinEndsStep DEF MailStep
<1>4. CASE UNCHANGED vars
  BY <1>4, Parts, PartsNext, QuietStep, SavingStays, HandlingStays
     DEF vars, book, wishes, WishType
<1> QED
  BY <1>1, <1>2, <1>3, <1>4, ReloadStep DEF Next

-----------------------------------------------------------------------------
(* Who writes the key of a peer last.                                      *)

\* Handlers that are about to save a key are those that were before.
SameJoins ==
    \A h \in Handlers : pc'[h] = "join" => pc[h] = "join" /\ from'[h] = from[h] /\ key'[h] = key[h]

\* A step that touches neither keys nor the work of the savers.
LEMMA QuietKeyed ==
  ASSUME Keyed, UNCHANGED <<known, todo, ahead>>, torn \subseteq torn', SameJoins,
         Fixing => Fixing', \A p \in Peers : Off(p)' => Off(p)
  PROVE  Keyed'
<1> SUFFICES ASSUME NEW p \in Peers \ torn'
             PROVE  IF known'[p] = None THEN KeyGone(p)' ELSE Fixing' \/ LastWriter(p)'
  BY DEF Keyed
<1>1. p \in Peers \ torn /\ (Off(p)' => Off(p))
  OBVIOUS
<1>2. CASE known[p] = None
  BY <1>1, <1>2 DEF Keyed, KeyGone, SameJoins
<1>3. CASE known[p] # None
  <2>1. Fixing \/ LastWriter(p)
    BY <1>1, <1>3 DEF Keyed
  <2>2. LastWriter(p) => LastWriter(p)'
    BY <1>1 DEF LastWriter
  <2> QED
    BY <1>3, <2>1, <2>2
<1> QED
  BY <1>2, <1>3

\* A key that is remembered will be in the snapshot that this arranges.
LEMMA RememberKeyed ==
  ASSUME Keyed, NEW p \in Peers, NEW k \in Keys, known \in [Peers -> Keys \cup {None}],
         reg \in [Peers -> Contact \cup {None}],
         Remember(p, k), UNCHANGED <<todo, ahead>>, torn \subseteq torn',
         \A h \in Handlers : pc'[h] = "join" /\ from'[h] # p =>
             pc[h] = "join" /\ from'[h] = from[h] /\ key'[h] = key[h]
  PROVE  Keyed'
<1>1. Fixing'
  BY DEF Remember, Fixing
<1>2. known'[p] # None /\ \A q \in Peers \ {p} : known'[q] = known[q] /\ reg'[q] = reg[q]
  BY DEF Remember, Upsert, Save
<1> SUFFICES ASSUME NEW q \in Peers \ torn', known'[q] = None PROVE KeyGone(q)'
  BY <1>1 DEF Keyed
<1>3. q # p /\ q \in Peers \ torn
  BY <1>2
<1>4. known[q] = None /\ reg'[q] = reg[q] /\ KeyGone(q)
  BY <1>2, <1>3 DEF Keyed
<1> QED
  BY <1>2, <1>3, <1>4 DEF KeyGone, Off

LEMMA CreateContactKeyed ==
  ASSUME Books, Keyed, NEW p \in Peers, NEW k \in Keys \cup {None}, CreateContact(p, k)
  PROVE  Keyed'
<1> USE Parts DEF CreateContact
<1>1. UNCHANGED <<saver, todo, ahead, pc, from, key, timer>> /\ torn \subseteq torn'
      /\ (Behind(p, k) => p \in torn')
  BY DEF saving, handling
<1>2. /\ known'[p] = k /\ \A q \in Peers \ {p} : known'[q] = known[q] /\ reg'[q] = reg[q]
      /\ reg'[p] = Upserted(p, k)
  BY DEF Upsert, Save, WishType, BookType
<1>3. Upserted(p, k).key = k
  BY DEF Upserted, BookType, Contact
<1>4. Fixing' <=> Fixing
  BY <1>1 DEF Fixing
<1> SUFFICES ASSUME NEW q \in Peers \ torn'
             PROVE  IF known'[q] = None THEN KeyGone(q)' ELSE Fixing' \/ LastWriter(q)'
  BY DEF Keyed
<1>5. CASE q = p
  <2>1. (\A s \in Savers : todo[s][p] \in {None, k})
        /\ (\A h \in Handlers : pc[h] = "join" /\ from[h] = p => key[h] \in {None, k})
    BY <1>1, <1>5 DEF Behind
  <2>2. ~Off(p)'
    BY <1>2, <1>3 DEF Off
  <2> QED
    BY <1>1, <1>2, <1>5, <2>1, <2>2 DEF KeyGone, LastWriter
<1>6. CASE q # p
  <2>1. q \in Peers \ torn /\ known'[q] = known[q] /\ reg'[q] = reg[q]
    BY <1>1, <1>2, <1>6
  <2>2. IF known[q] = None THEN KeyGone(q) ELSE Fixing \/ LastWriter(q)
    BY <2>1 DEF Keyed
  <2>3. KeyGone(q) => KeyGone(q)'
    BY <1>1, <2>1 DEF KeyGone, Off
  <2>4. LastWriter(q) => LastWriter(q)'
    BY <1>1, <2>1 DEF LastWriter, Off
  <2> QED
    BY <1>4, <2>1, <2>2, <2>3, <2>4
<1> QED
  BY <1>5, <1>6

LEMMA CallKeyed ==
  ASSUME Books, Keyed, NEW p \in Peers, Call(p)
  PROVE  Keyed'
<1> USE Parts
<1>1. ASSUME NEW k \in Keys, ImportKey(p, k) PROVE Keyed'
  BY <1>1, RememberKeyed DEF ImportKey, saving, handling, WishType, BookType
<1>2. CASE BlockContact(p)
  <2>1. UNCHANGED <<known, todo, ahead, torn, timer, saver, pc, from, key>>
    BY <1>2 DEF BlockContact, saving, handling
  <2>2. \A q \in Peers : Off(q)' => Off(q)
    BY <1>2, <2>1 DEF BlockContact, Save, Off, BookType, Contact
  <2> QED
    BY <2>1, <2>2, QuietKeyed DEF SameJoins, Fixing
<1>3. CASE UnblockContact(p)
  <2>1. UNCHANGED <<known, todo, ahead, torn, timer, saver, pc, from, key>>
    BY <1>3 DEF UnblockContact, saving, handling
  <2>2. \A q \in Peers : Off(q)' => Off(q)
    BY <1>3, <2>1 DEF UnblockContact, Save, Off, BookType, Contact
  <2> QED
    BY <2>1, <2>2, QuietKeyed DEF SameJoins, Fixing
<1>4. CASE DeleteContact(p)
  <2>1. UNCHANGED <<known, todo, ahead, torn, timer, saver, pc, from, key>>
    BY <1>4 DEF DeleteContact, saving, handling
  <2>2. \A q \in Peers : Off(q)' => Off(q)
    BY <1>4, <2>1 DEF DeleteContact, Off, BookType
  <2> QED
    BY <2>1, <2>2, QuietKeyed DEF SameJoins, Fixing
<1> QED
  BY <1>1, <1>2, <1>3, <1>4, CreateContactKeyed DEF Call

LEMMA SaveBeginsKeyed ==
  ASSUME Books, Keyed, NEW s \in Savers, SaveBegins(s)
  PROVE  Keyed'
<1> USE Parts DEF SaveBegins
<1>1. Fixing'
  BY DEF Fixing, SavingType
<1> QED
  BY <1>1, QuietKeyed DEF SameJoins, Off, handling

LEMMA SaverEndsKeyed ==
  ASSUME Books, Keyed, NEW s \in Savers, SaverEnds(s), todo[s] = NoKeys,
         known = NoKeys \/ saver[s] = "rows", UNCHANGED <<known, timer, handling, torn>>
  PROVE  Keyed'
<1> USE Parts DEF SaverEnds
<1>1. /\ saver' = [saver EXCEPT ![s] = "idle"] /\ UNCHANGED <<reg, todo, pc, from, key>>
      /\ \A i \in Savers : ahead'[i] = IF i = s THEN {} ELSE ahead[i] \ {s}
  BY DEF handling
<1>2. \A p \in Peers : Off(p)' <=> Off(p)
  BY <1>1 DEF Off
<1> SUFFICES ASSUME NEW p \in Peers \ torn
             PROVE  IF known[p] = None THEN KeyGone(p)' ELSE Fixing' \/ LastWriter(p)'
  BY DEF Keyed
<1>3. CASE known[p] = None
  BY <1>1, <1>2, <1>3 DEF Keyed, KeyGone
<1>4. CASE known[p] # None
  <2>1. saver[s] = "rows" /\ (Fixing \/ LastWriter(p))
    BY <1>4 DEF Keyed, NoKeys
  <2>2. Fixing => Fixing'
    BY <1>1, <2>1 DEF Fixing, SavingType
  <2>3. todo[s][p] = None
    BY DEF NoKeys
  <2>4. LastWriter(p) => LastWriter(p)'
    <3> SUFFICES ASSUME LastWriter(p) PROVE LastWriter(p)'
      OBVIOUS
    <3>1. Off(p)' => \E t \in Savers : todo'[t][p] = known'[p]
      BY <1>1, <1>2 DEF LastWriter
    <3>2. ASSUME NEW i \in Savers, todo'[i][p] \notin {None, known'[p]}
          PROVE  \E t \in Savers : todo'[t][p] = known'[p] /\ i \in ahead'[t]
      <4>1. PICK t \in Savers : todo[t][p] = known[p] /\ i \in ahead[t]
        BY <1>1, <3>2 DEF LastWriter
      <4>2. t # s /\ i # s
        BY <1>1, <1>4, <2>3, <3>2, <4>1
      <4> QED
        BY <1>1, <4>1, <4>2
    <3> QED
      BY <3>1, <3>2 DEF LastWriter
  <2> QED
    BY <1>4, <2>1, <2>2, <2>4
<1> QED
  BY <1>3, <1>4

\* What a row that is put does to the keys of the other peers, and to its own.
LEMMA PutRowEffect ==
  ASSUME Books, NEW s \in Savers, NEW ks \in [Peers -> Keys \cup {None}],
         NEW before, NEW q \in Peers, PutRow(s, ks, before, q)
  PROVE  /\ ks[q] # None /\ reg'[q] # None /\ reg'[q].key = ks[q]
         /\ \A i \in before : todo[i][q] = None
         /\ \A p \in Peers \ {q} : reg'[p] = reg[p]
         /\ \A p \in Peers : todo'[s][p] = IF p = q THEN None ELSE ks[p]
         /\ \A i \in Savers \ {s} : todo'[i] = todo[i] /\ saver'[i] = saver[i]
         /\ saver'[s] = "rows"
<1> USE Parts
<1>1. Upserted(q, ks[q]) \in Contact /\ Upserted(q, ks[q]).key = ks[q]
  BY DEF Upserted, BookType, Contact
<1>2. reg'[q] = Upserted(q, ks[q]) /\ \A p \in Peers \ {q} : reg'[p] = reg[p]
  BY DEF PutRow, Upsert, Save, BookType
<1>3. ks[q] # None /\ \A i \in before : todo[i][q] = None
  BY DEF PutRow
<1>4. /\ todo' = [todo EXCEPT ![s] = [ks EXCEPT ![q] = None]]
      /\ saver' = [saver EXCEPT ![s] = "rows"]
  BY DEF PutRow
<1>5. /\ \A p \in Peers : todo'[s][p] = IF p = q THEN None ELSE ks[p]
      /\ \A i \in Savers \ {s} : todo'[i] = todo[i] /\ saver'[i] = saver[i]
      /\ saver'[s] = "rows"
  BY <1>4 DEF SavingType
<1> QED
  BY <1>1, <1>2, <1>3, <1>5

\* The keys are copied behind whoever is among the rows, or past older keys that
\* are torn then.
LEMMA SaveRowsKeyed ==
  ASSUME Books, Keyed, NEW s \in Savers, SaveRows(s)
  PROVE  Keyed'
<1> USE Parts
<1> DEFINE before == Before
<1>1. /\ saver[s] = "account"
      /\ \/ known = NoKeys /\ SaverEnds(s) /\ UNCHANGED torn
         \/ /\ \E q \in Peers : PutRow(s, known, before, q) /\ ahead' = [ahead EXCEPT ![s] = before]
            /\ torn' = torn \cup Passed(before)
      /\ UNCHANGED <<known, timer, handling>>
  BY DEF SaveRows
<1>2. todo[s] = NoKeys
  BY <1>1 DEF SavingType
<1>3. CASE known = NoKeys /\ SaverEnds(s) /\ UNCHANGED torn
  BY <1>1, <1>2, <1>3, SaverEndsKeyed
<1>4. ASSUME NEW q \in Peers, PutRow(s, known, before, q), ahead' = [ahead EXCEPT ![s] = before],
             torn' = torn \cup Passed(before)
      PROVE  Keyed'
  <2>1. /\ known[q] # None /\ reg'[q].key = known[q]
        /\ \A i \in before : todo[i][q] = None
        /\ \A p \in Peers \ {q} : reg'[p] = reg[p]
        /\ \A p \in Peers : todo'[s][p] = IF p = q THEN None ELSE known[p]
        /\ \A i \in Savers \ {s} : todo'[i] = todo[i]
    BY <1>4, PutRowEffect DEF WishType
  <2>2. ahead'[s] = before
    BY <1>4 DEF SavingType
  <2>3. UNCHANGED <<pc, from, key, known>> /\ torn \subseteq torn'
    BY <1>1, <1>4 DEF handling
  <2>7. \A p \in Peers \ torn', i \in Savers \ before : todo[i][p] \in {None, known[p]}
    BY <1>4 DEF Passed
  <2> HIDE DEF before
  <2> SUFFICES ASSUME NEW p \in Peers \ torn'
               PROVE  IF known[p] = None THEN KeyGone(p)' ELSE LastWriter(p)'
    BY <2>3 DEF Keyed
  <2>4. CASE known[p] = None
    <3>1. KeyGone(p) /\ p # q
      BY <2>1, <2>3, <2>4 DEF Keyed
    <3> QED
      BY <2>1, <2>3, <2>4, <3>1 DEF KeyGone, Off
  <2>5. CASE p = q
    <3>1. ~Off(p)'
      BY <2>1, <2>3, <2>5 DEF Off
    <3>2. ASSUME NEW i \in Savers PROVE todo'[i][p] \in {None, known'[p]}
      <4>1. CASE i = s
        BY <2>1, <2>5, <4>1
      <4>2. CASE i # s /\ i \in before
        BY <2>1, <2>5, <4>2
      <4>3. CASE i # s /\ i \notin before
        BY <2>1, <2>3, <2>7, <4>3
      <4> QED
        BY <4>1, <4>2, <4>3
    <3> QED
      BY <2>1, <2>5, <3>1, <3>2 DEF LastWriter
  <2>6. CASE known[p] # None /\ p # q
    <3>1. todo'[s][p] = known'[p]
      BY <2>1, <2>3, <2>6
    <3>2. ASSUME NEW i \in Savers, todo'[i][p] \notin {None, known'[p]} PROVE i \in ahead'[s]
      <4>1. i # s /\ todo[i][p] \notin {None, known[p]}
        BY <2>1, <2>3, <3>1, <3>2
      <4> QED
        BY <2>2, <2>7, <4>1
    <3> QED
      BY <2>6, <3>1, <3>2 DEF LastWriter
  <2> QED
    BY <2>4, <2>5, <2>6
<1> QED
  BY <1>1, <1>3, <1>4

\* Somebody with an older key is followed by somebody with the last one.
LEMMA NextRowKeyed ==
  ASSUME Books, Keyed, NEW s \in Savers, NextRow(s)
  PROVE  Keyed'
<1> USE Parts
<1>1. /\ saver[s] = "rows"
      /\ \/ todo[s] = NoKeys /\ SaverEnds(s)
         \/ \E q \in Peers : PutRow(s, todo[s], ahead[s], q) /\ UNCHANGED ahead
      /\ UNCHANGED <<known, timer, handling, torn>>
  BY DEF NextRow
<1>2. CASE todo[s] = NoKeys /\ SaverEnds(s)
  BY <1>1, <1>2, SaverEndsKeyed
<1>3. ASSUME NEW q \in Peers, PutRow(s, todo[s], ahead[s], q), UNCHANGED ahead
      PROVE  Keyed'
  <2>1. todo[s] \in [Peers -> Keys \cup {None}]
    BY DEF SavingType
  <2>2. /\ todo[s][q] # None /\ reg'[q].key = todo[s][q]
        /\ \A i \in ahead[s] : todo[i][q] = None
        /\ \A p \in Peers \ {q} : reg'[p] = reg[p]
        /\ \A p \in Peers : todo'[s][p] = IF p = q THEN None ELSE todo[s][p]
        /\ \A i \in Savers \ {s} : todo'[i] = todo[i] /\ saver'[i] = saver[i]
        /\ saver'[s] = "rows"
    BY <1>3, <2>1, PutRowEffect
  <2>3. UNCHANGED <<pc, from, key, known, torn, timer>>
    BY <1>1 DEF handling
  <2>4. Fixing => Fixing'
    BY <1>1, <2>2, <2>3 DEF Fixing
  <2> SUFFICES ASSUME NEW p \in Peers \ torn
               PROVE  IF known[p] = None THEN KeyGone(p)' ELSE Fixing' \/ LastWriter(p)'
    BY <2>3 DEF Keyed
  <2>5. CASE known[p] = None
    <3>1. KeyGone(p)
      BY <2>5 DEF Keyed
    <3>2. p # q
      BY <2>2, <3>1 DEF KeyGone
    <3>3. \A i \in Savers : todo'[i][p] = todo[i][p]
      BY <2>2, <3>2
    <3>4. known'[p] = known[p] /\ pc' = pc /\ from' = from /\ key' = key
      BY <2>3
    <3>5. reg'[p] = reg[p]
      BY <2>2, <3>2
    <3>6. ~Off(p)'
      BY <3>1, <3>4, <3>5 DEF KeyGone, Off
    <3>7. \A i \in Savers : todo'[i][p] = None
      BY <3>1, <3>3 DEF KeyGone
    <3>8. \A h \in Handlers : pc'[h] = "join" /\ from'[h] = p => key'[h] = None
      BY <3>1, <3>4 DEF KeyGone
    <3>9. KeyGone(p)'
      BY <3>6, <3>7, <3>8 DEF KeyGone
    <3> QED
      BY <2>5, <3>9
  <2>6. CASE known[p] # None /\ p # q
    <3>1. \A i \in Savers : todo'[i][p] = todo[i][p]
      BY <2>2, <2>6
    <3>2. Off(p)' <=> Off(p)
      BY <2>2, <2>3, <2>6 DEF Off
    <3>3. LastWriter(p) => LastWriter(p)'
      BY <1>3, <2>3, <3>1, <3>2 DEF LastWriter
    <3> QED
      BY <2>4, <2>6, <3>3 DEF Keyed
  <2>7. CASE known[p] # None /\ p = q
    <3> SUFFICES ASSUME LastWriter(p) PROVE LastWriter(p)'
      BY <2>4, <2>7 DEF Keyed
    <3>1. \A i \in Savers \ {s} : todo'[i][p] = todo[i][p]
      BY <2>2
    <3>2. \A t \in Savers, i \in Savers :
             todo[t][p] = known[p] /\ i \in ahead[t] /\ todo[i][p] # None => t # s
      BY <2>2, <2>7
    <3>3. Off(p)' => \E t \in Savers : todo'[t][p] = known'[p]
      <4> SUFFICES ASSUME Off(p)' PROVE \E t \in Savers : todo'[t][p] = known'[p]
        OBVIOUS
      <4>1. todo[s][p] \notin {None, known[p]}
        BY <2>2, <2>3, <2>7 DEF Off
      <4>2. PICK t \in Savers : todo[t][p] = known[p] /\ s \in ahead[t]
        BY <4>1 DEF LastWriter
      <4> QED
        BY <2>3, <3>1, <4>1, <4>2
    <3>4. ASSUME NEW i \in Savers, todo'[i][p] \notin {None, known'[p]}
          PROVE  \E t \in Savers : todo'[t][p] = known'[p] /\ i \in ahead'[t]
      <4>1. i # s /\ todo[i][p] \notin {None, known[p]}
        BY <2>2, <2>3, <2>7, <3>1, <3>4
      <4>2. PICK t \in Savers : todo[t][p] = known[p] /\ i \in ahead[t]
        BY <4>1 DEF LastWriter
      <4>3. t # s
        BY <3>2, <4>1, <4>2
      <4> QED
        BY <1>3, <2>3, <3>1, <4>2, <4>3
    <3> QED
      BY <3>3, <3>4 DEF LastWriter
  <2> QED
    BY <2>5, <2>6, <2>7
<1> QED
  BY <1>1, <1>2, <1>3

LEMMA MailKeyed ==
  ASSUME Books, Keyed, NEW h \in Handlers, MailStep(h)
  PROVE  Keyed'
<1> USE Parts
<1>1. ASSUME NEW p \in Peers, NEW k \in Keys \cup {None}, MailArrives(h, p, k) PROVE Keyed'
  <2>1. UNCHANGED <<todo, ahead, saver, key, torn>> /\ Start(h, p, "parsed")
    BY <1>1 DEF MailArrives, saving
  <2>2. SameJoins
    BY <2>1 DEF SameJoins, Start, HandlingType
  <2>3. CASE k = None
    <3>1. UNCHANGED <<known, reg, timer>>
      BY <1>1, <2>3 DEF MailArrives
    <3>2. Fixing => Fixing'
      BY <2>1, <3>1 DEF Fixing, Start, HandlingType
    <3> QED
      BY <2>1, <2>2, <3>1, <3>2, QuietKeyed DEF Off
  <2>4. CASE k # None
    <3>1. Remember(p, k) /\ k \in Keys
      BY <1>1, <2>4 DEF MailArrives
    <3> QED
      BY <2>1, <2>2, <3>1, RememberKeyed DEF SameJoins, WishType, BookType
  <2> QED
    BY <2>3, <2>4
<1>2. CASE Check(h)
  <2>1. UNCHANGED <<known, reg, timer, todo, ahead, saver, torn>> /\ pc[h] = "parsed"
    BY <1>2 DEF Check, book, saving
  <2>2. SameJoins /\ (Fixing => Fixing')
    BY <1>2, <2>1 DEF Check, Finish, SameJoins, Fixing, HandlingType
  <2> QED
    BY <2>1, <2>2, QuietKeyed DEF Off
<1>3. CASE ReadContact(h)
  <2>1. UNCHANGED <<known, reg, timer, todo, ahead, saver, torn>> /\ pc[h] = "read"
    BY <1>3 DEF ReadContact, book, saving
  <2>2. SameJoins /\ (Fixing => Fixing')
    BY <1>3, <2>1 DEF ReadContact, Finish, SameJoins, Fixing, HandlingType
  <2> QED
    BY <2>1, <2>2, QuietKeyed DEF Off
<1>4. CASE WriteContact(h)
  <2>1. UNCHANGED <<known, reg, timer, todo, ahead, saver, torn>> /\ pc[h] = "avatar" /\ Finish(h)
    BY <1>4 DEF WriteContact, saving
  <2>2. SameJoins /\ (Fixing => Fixing')
    BY <2>1 DEF Finish, SameJoins, Fixing, HandlingType
  <2> QED
    BY <2>1, <2>2, QuietKeyed DEF Off
<1>5. ASSUME NEW p \in Peers, Join(h, p) PROVE Keyed'
  <2>1. UNCHANGED <<todo, ahead, saver, torn>> /\ key' = [key EXCEPT ![h] = known[p]]
    BY <1>5 DEF Join, saving
  <2>2. CASE known[p] # None
    <3>1. Remember(p, known[p]) /\ Start(h, p, "join") /\ known[p] \in Keys
      BY <1>5, <2>2 DEF Join, WishType
    <3>2. \A i \in Handlers : pc'[i] = "join" /\ from'[i] # p =>
             pc[i] = "join" /\ from'[i] = from[i] /\ key'[i] = key[i]
      BY <2>1, <3>1 DEF Start, HandlingType
    <3> QED
      BY <2>1, <3>1, <3>2, RememberKeyed DEF WishType, BookType
  <2>3. CASE known[p] = None
    <3>1. /\ Start(h, p, "joined") /\ reg' = [reg EXCEPT ![p] = Joined(p, None)]
          /\ UNCHANGED <<known, timer>>
      BY <1>5, <2>3 DEF Join, Save
    <3>2. Fixing'
      BY <3>1 DEF Fixing, Start, HandlingType
    <3> SUFFICES ASSUME NEW q \in Peers \ torn, known[q] = None PROVE KeyGone(q)'
      BY <2>1, <3>1, <3>2 DEF Keyed
    <3>3. KeyGone(q)
      BY DEF Keyed
    <3>4. ~Off(q)'
      <4>1. q = p => Joined(p, None).key = None
        BY <2>3, <3>3 DEF KeyGone, Off, Joined
      <4> QED
        BY <3>1, <3>3, <4>1 DEF KeyGone, Off, BookType
    <3>5. SameJoins
      BY <2>1, <3>1 DEF Start, SameJoins, HandlingType
    <3> QED
      BY <2>1, <3>1, <3>3, <3>4, <3>5 DEF KeyGone, SameJoins
  <2> QED
    BY <2>2, <2>3
<1>6. CASE JoinSaves(h)
  <2>1. /\ pc[h] = "join" /\ pc' = [pc EXCEPT ![h] = "joined"] /\ key' = [key EXCEPT ![h] = None]
        /\ reg' = [reg EXCEPT ![from[h]] = Joined(from[h], key[h])]
        /\ UNCHANGED <<known, timer, todo, ahead, saver, from, torn>>
    BY <1>6 DEF JoinSaves, Save, saving
  <2>2. Fixing'
    BY <2>1 DEF Fixing, HandlingType
  <2> SUFFICES ASSUME NEW q \in Peers \ torn, known[q] = None PROVE KeyGone(q)'
    BY <2>1, <2>2 DEF Keyed
  <2>3. KeyGone(q)
    BY DEF Keyed
  <2>4. ~Off(q)'
    <3>1. q = from[h] => Joined(from[h], key[h]).key = None
      BY <2>1, <2>3 DEF KeyGone, Off, Joined
    <3> QED
      BY <2>1, <2>3, <3>1 DEF KeyGone, Off, BookType, HandlingType
  <2>5. SameJoins
    BY <2>1 DEF SameJoins, HandlingType
  <2> QED
    BY <2>1, <2>3, <2>4, <2>5 DEF KeyGone, SameJoins
<1>7. CASE JoinEnds(h)
  <2>1. UNCHANGED <<known, reg, todo, ahead, saver, torn>> /\ timer' = TRUE /\ Finish(h)
    BY <1>7 DEF JoinEnds, saving
  <2>2. SameJoins /\ Fixing'
    BY <2>1 DEF Finish, SameJoins, Fixing, HandlingType
  <2> QED
    BY <2>1, <2>2, QuietKeyed DEF Off
<1> QED
  BY <1>1, <1>2, <1>3, <1>4, <1>5, <1>6, <1>7 DEF MailStep

\* A reload makes keys and contacts from the same rows.
LEMMA ReloadKeyed ==
  ASSUME Reload
  PROVE  Keyed'
<1> USE DEF Reload
<1> SUFFICES ASSUME NEW p \in Peers
             PROVE  IF known'[p] = None THEN KeyGone(p)' ELSE LastWriter(p)'
  BY DEF Keyed
<1>1. ~Off(p)'
  BY DEF Off
<1>2. \A s \in Savers : todo'[s][p] = None
  BY DEF NoKeys
<1>3. \A h \in Handlers : pc'[h] = "idle"
  OBVIOUS
<1> QED
  BY <1>1, <1>2, <1>3 DEF KeyGone, LastWriter

-----------------------------------------------------------------------------
LEMMA InitIInv == Init => IInv
<1> SUFFICES ASSUME Init PROVE Keyed
  BY InitBooks DEF IInv
<1> QED
  BY DEF Init, Keyed, KeyGone, Off, NoKeys

LEMMA IInvStep == IInv /\ [Next]_vars => IInv'
<1> SUFFICES ASSUME Books, Keyed, [Next]_vars PROVE Keyed'
  BY BooksStep DEF IInv
<1>1. ASSUME NEW s \in Savers, SaveStep(s) PROVE Keyed'
  BY <1>1, SaveBeginsKeyed, SaveRowsKeyed, NextRowKeyed DEF SaveStep
<1>2. CASE UNCHANGED vars
  BY <1>2, QuietKeyed DEF vars, book, saving, handling, SameJoins, Fixing, Off
<1> QED
  BY <1>1, <1>2, CallKeyed, MailKeyed, ReloadKeyed DEF Next

LEMMA Inductive == Spec => []IInv
  BY InitIInv, IInvStep, PTL DEF Spec

-----------------------------------------------------------------------------
\* In every run each variable holds a value the code can give it, and no handler
\* is among rows it has not read.
THEOREM TypeCorrect == Spec => []TypeOK
<1>1. IInv => TypeOK
  BY DEF IInv, Books
<1> QED
  BY <1>1, Inductive, PTL

\* What a reload would find of a contact is what the registry holds, except for
\* what an avatar wrote back.
THEOREM RecordsAreSaved == Spec => []RowIsRecord
<1>1. IInv => RowIsRecord
  BY DEF IInv, Books
<1> QED
  BY <1>1, Inductive, PTL

\* isBlocked answers what the user asked for last, over any number of reloads,
\* for every peer whose row was not lost to one of the causes `frail' names.
THEOREM BlocksHold == Spec => []BlockInForce
<1>1. IInv => BlockInForce
  BY DEF IInv, Books, Marks, Marked, BlockInForce, IsBlocked
<1> QED
  BY <1>1, Inductive, PTL

\* Once nothing is due or under way, mail to a peer is encrypted with the key its
\* contact has, however many snapshots, mails and handshakes overlapped.  The peers
\* of torn are excepted: a key createContact set while a writer held an older one,
\* and keys of a snapshot that a later one passed.
THEOREM KeysAgree == Spec => []KeysSettle
<1>1. ASSUME IInv PROVE KeysSettle
  <2> SUFFICES ASSUME AtRest, NEW p \in Peers \ torn, Off(p) PROVE FALSE
    BY DEF KeysSettle, Off
  <2>1. ~Fixing
    BY DEF AtRest, Fixing
  <2>2. \A s \in Savers : todo[s][p] = None
    BY <1>1 DEF AtRest, IInv, Books, TypeOK, NoKeys
  <2> QED
    BY <1>1, <2>1, <2>2 DEF IInv, Keyed, KeyGone, LastWriter
<1> QED
  BY <1>1, Inductive, PTL
=============================================================================
