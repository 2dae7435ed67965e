--------------------------- MODULE MailSyncProofs ---------------------------
(***************************************************************************)
(* Theorems about MailSync, for every number of mails, every set of push   *)
(* handlers, any number of crashes and any number of loads.                *)
(***************************************************************************)
EXTENDS MailSync, TLAPS

USE BoundsAssumption

\* The program starts in the invariant.
LEMMA InitIInv == Init => IInv
<1> SUFFICES ASSUME Init PROVE IInv
  OBVIOUS
<1> USE DEF Init, Uids, Procs, Stages, Busy, Claimed, Fetching
<1>1. Flags BY Zenon DEF Flags
<1>2. Ranges BY DEF Ranges, NoLoad
<1>3. Ownership BY DEF Ownership
<1>4. Cursors BY DEF Cursors
<1>5. Reached = {0} \cup LoadCursors /\ Remembered = LoadCursors \ {0} /\ LoadCursors \subseteq {0}
  BY DEF Reached, Remembered, LoadCursors, WorkedOn, NoLoad
<1>6. Coverage BY <1>5 DEF Coverage
<1> QED
  BY <1>1, <1>2, <1>3, <1>4, <1>6 DEF IInv, TypeOK

\* The flags stay Booleans.
LEMMA FlagsStep == Flags /\ [Next]_vars => Flags'
<1> SUFFICES ASSUME Flags, [Next]_vars PROVE Flags'
  OBVIOUS
<1> USE Zenon DEF Flags, relayVars, cursorVars, loopVars, loadVars, histVars
<1>1. CASE Deliver BY <1>1 DEF Deliver
<1>2. CASE Connect BY <1>2 DEF Connect
<1>3. CASE SendOpens BY <1>3 DEF SendOpens
<1>4. ASSUME NEW p \in Pushers, PushArrives(p) PROVE Flags'
  BY <1>4 DEF PushArrives
<1>5. ASSUME NEW p \in Procs, FetchOk(p) PROVE Flags'
  BY <1>5 DEF FetchOk, ProcessIncomingRaw
<1>6. ASSUME NEW p \in Procs, WsFetchFails(p) PROVE Flags'
  BY <1>6 DEF WsFetchFails
<1>7. ASSUME NEW p \in Procs, FetchFails(p) PROVE Flags'
  BY <1>7 DEF FetchFails
<1>8. ASSUME NEW p \in Procs, Parsed(p) PROVE Flags'
  BY <1>8 DEF Parsed
<1>9. ASSUME NEW p \in Procs, Dedup(p) PROVE Flags'
  BY <1>9 DEF Dedup
<1>10. ASSUME NEW p \in Procs, SaveMessage(p) PROVE Flags'
  BY <1>10 DEF SaveMessage
<1>11. ASSUME NEW p \in Procs, HandlerThrows(p) PROVE Flags'
  BY <1>11 DEF HandlerThrows
<1>12. CASE BgStart BY <1>12 DEF BgStart
<1>13. CASE BgListed BY <1>13 DEF BgListed
<1>14. CASE BgNext BY <1>14 DEF BgNext
<1>15. CASE BgDone BY <1>15 DEF BgDone
<1>16. CASE Persist BY <1>16 DEF Persist
<1>17. CASE Crash BY <1>17 DEF Crash
<1>18. CASE Restart BY <1>18 DEF Restart
<1>20. CASE SocketCloses BY <1>20 DEF SocketCloses
<1>21. CASE PushUnheard BY <1>21 DEF PushUnheard
<1>22. ASSUME NEW n \in orphans, OrphanPush(n) PROVE Flags'
  BY <1>22 DEF OrphanPush
<1>23. ASSUME NEW l \in Loaders, LoadReads(l) PROVE Flags'
  BY <1>23 DEF LoadReads
<1>24. ASSUME NEW l \in Loaders, LoadCursor(l) PROVE Flags'
  BY <1>24 DEF LoadCursor
<1>25. ASSUME NEW l \in Loaders, LoadTransport(l) PROVE Flags'
  BY <1>25 DEF LoadTransport
<1>26. ASSUME NEW l \in Loaders, LoadRejects(l) PROVE Flags'
  BY <1>26 DEF LoadRejects
<1>19. CASE UNCHANGED vars BY <1>19 DEF vars
<1> QED
  BY <1>1, <1>2, <1>3, <1>4, <1>5, <1>6, <1>7, <1>8, <1>9, <1>10, <1>11, <1>12,
     <1>13, <1>14, <1>15, <1>16, <1>17, <1>18, <1>19, <1>20, <1>21, <1>22, <1>23, <1>24,
     <1>25, <1>26 DEF Next, Handle

\* A busy handler works on a mail of the mailbox.
LEMMA BusyUid == ASSUME Ownership, NEW p \in Procs, pc[p] \in Busy PROVE uid[p] \in Uids
  BY DEF Ownership

\* Moving a handler to another stage, or ending its work, keeps the types.
LEMMA MoveRanges ==
  ASSUME Ranges, NEW p \in Procs, NEW s \in Stages, Goto(p, s) \/ Return(p)
  PROVE  pc' \in [Procs -> Stages] /\ uid' \in [Procs -> 0 .. MaxUid]
  BY DEF Ranges, Goto, Return, Stages

\* The other variables stay in their ranges.
LEMMA RangesStep == Ranges /\ Ownership /\ [Next]_vars => Ranges'
<1> SUFFICES ASSUME Ranges, Ownership, [Next]_vars PROVE Ranges'
  OBVIOUS
<1> USE DEF relayVars, cursorVars, loopVars, loadVars, histVars
<1>a. Fetcher \in Procs /\ Pushers \subseteq Procs
  BY DEF Procs
<1>b. {"idle", "list", "next", "fetch", "refetch", "parse", "dedup", "save"} \subseteq Stages
  BY DEF Stages, Busy, Claimed, Fetching
<1>c. \A p \in Procs : pc[p] \in Fetching \/ pc[p] \in Claimed => uid[p] \in Uids
  BY BusyUid DEF Busy
<1>1. CASE Deliver
  BY <1>1 DEF Deliver, Ranges
<1>2. CASE Connect
  BY <1>2 DEF Connect, Ranges
<1>3. CASE SendOpens
  BY <1>3 DEF SendOpens, Ranges
<1>4. ASSUME NEW p \in Pushers, PushArrives(p) PROVE Ranges'
  BY <1>4, <1>a, <1>b DEF PushArrives, Ranges
<1>5. ASSUME NEW p \in Procs, FetchOk(p) PROVE Ranges'
  <2>1. uid[p] \in Uids
    BY <1>5, <1>c DEF FetchOk
  <2>2. Goto(p, "parse") \/ Return(p)
    BY <1>5 DEF FetchOk, ProcessIncomingRaw
  <2>3. pc' \in [Procs -> Stages] /\ uid' \in [Procs -> 0 .. MaxUid]
    BY <2>2, <1>b, MoveRanges
  <2>4. seenUIDs' \in SUBSET Uids /\ lastSeenUid' \in 0 .. MaxUid
    BY <1>5, <2>1 DEF FetchOk, ProcessIncomingRaw, Ranges, Uids
  <2> QED
    BY <1>5, <2>3, <2>4 DEF FetchOk, Ranges
<1>6. ASSUME NEW p \in Procs, WsFetchFails(p) PROVE Ranges'
  <2>1. pc' \in [Procs -> Stages] /\ uid' \in [Procs -> 0 .. MaxUid]
    BY <1>6, <1>b, MoveRanges DEF WsFetchFails
  <2> QED
    BY <1>6, <2>1 DEF WsFetchFails, Ranges
<1>7. ASSUME NEW p \in Procs, FetchFails(p) PROVE Ranges'
  <2>1. uid[p] \in Uids
    BY <1>7, <1>c DEF FetchFails, Fetching
  <2>2. pc' \in [Procs -> Stages] /\ uid' \in [Procs -> 0 .. MaxUid]
    BY <1>7, <1>b, MoveRanges DEF FetchFails
  <2> QED
    BY <1>7, <2>1, <2>2 DEF FetchFails, GiveUp, Ranges
<1>8. ASSUME NEW p \in Procs, Parsed(p) PROVE Ranges'
  <2>1. uid[p] \in Uids
    BY <1>8, <1>c DEF Parsed, Claimed
  <2>2. pc' \in [Procs -> Stages] /\ uid' \in [Procs -> 0 .. MaxUid]
    BY <1>8, <1>b, MoveRanges DEF Parsed, Finish
  <2>3. notices' \in [Uids -> Nat] /\ done' \in SUBSET Uids /\ faulted' \in SUBSET Uids
    BY <1>8, <2>1 DEF Parsed, Finish, Ranges
  <2> QED
    BY <1>8, <2>2, <2>3 DEF Parsed, Ranges
<1>9. ASSUME NEW p \in Procs, Dedup(p) PROVE Ranges'
  <2>1. uid[p] \in Uids
    BY <1>9, <1>c DEF Dedup, Claimed
  <2>2. pc' \in [Procs -> Stages] /\ uid' \in [Procs -> 0 .. MaxUid]
    BY <1>9, <1>b, MoveRanges DEF Dedup, Finish
  <2>3. done' \in SUBSET Uids /\ faulted' \in SUBSET Uids
    BY <1>9, <2>1 DEF Dedup, Finish, Ranges
  <2> QED
    BY <1>9, <2>2, <2>3 DEF Dedup, Ranges
<1>10. ASSUME NEW p \in Procs, SaveMessage(p) PROVE Ranges'
  <2>1. uid[p] \in Uids
    BY <1>10, <1>c DEF SaveMessage, Claimed
  <2>2. pc' \in [Procs -> Stages] /\ uid' \in [Procs -> 0 .. MaxUid]
    BY <1>10, <1>b, MoveRanges DEF SaveMessage, Finish
  <2>3. /\ done' \in SUBSET Uids /\ faulted' \in SUBSET Uids
        /\ stored' \in SUBSET {MsgId[u] : u \in Uids}
    BY <1>10, <2>1 DEF SaveMessage, Finish, Ranges
  <2> QED
    BY <1>10, <2>2, <2>3 DEF SaveMessage, Ranges
<1>11. ASSUME NEW p \in Procs, HandlerThrows(p) PROVE Ranges'
  <2>1. uid[p] \in Uids
    BY <1>11, <1>c DEF HandlerThrows
  <2>2. pc' \in [Procs -> Stages] /\ uid' \in [Procs -> 0 .. MaxUid]
    BY <1>11, <1>b, MoveRanges DEF HandlerThrows
  <2> QED
    BY <1>11, <2>1, <2>2 DEF HandlerThrows, GiveUp, Ranges
<1>12. CASE BgStart
  <2>1. pc' \in [Procs -> Stages] /\ uid' \in [Procs -> 0 .. MaxUid]
    BY <1>12, <1>a, <1>b, MoveRanges DEF BgStart
  <2> QED
    BY <1>12, <2>1 DEF BgStart, Ranges
<1>13. CASE BgListed
  <2>1. pc' \in [Procs -> Stages] /\ uid' \in [Procs -> 0 .. MaxUid]
    BY <1>13, <1>a, <1>b, MoveRanges DEF BgListed
  <2>2. (since + 1) .. top \subseteq Uids
    BY DEF Ranges, Uids
  <2>3. todo' \in SUBSET Uids
    BY <1>13, <2>2 DEF BgListed
  <2> QED
    BY <1>13, <2>1, <2>3 DEF BgListed, Ranges
<1>14. CASE BgNext
  <2>1. todo' \in SUBSET Uids
    BY <1>14 DEF BgNext, Ranges
  <2>2. pc' \in [Procs -> Stages] /\ uid' \in [Procs -> 0 .. MaxUid]
    <3>1. PICK u \in todo : \/ UNCHANGED <<pc, uid>>
                            \/ /\ pc' = [pc EXCEPT ![Fetcher] = "refetch"]
                               /\ uid' = [uid EXCEPT ![Fetcher] = u]
      BY <1>14 DEF BgNext
    <3>2. u \in 0 .. MaxUid
      BY DEF Ranges, Uids
    <3> QED
      BY <3>1, <3>2, <1>a, <1>b DEF Ranges
  <2>3. faulted' \in SUBSET Uids
    BY <1>14 DEF BgNext, GiveUp, Ranges
  <2> QED
    BY <1>14, <2>1, <2>2, <2>3 DEF BgNext, Ranges
<1>15. CASE BgDone
  <2>1. pc' \in [Procs -> Stages] /\ uid' \in [Procs -> 0 .. MaxUid]
    BY <1>15, <1>a, <1>b, MoveRanges DEF BgDone
  <2> QED
    BY <1>15, <2>1 DEF BgDone, Ranges
<1>16. CASE Persist
  BY <1>16 DEF Persist, Ranges
<1>17. CASE Crash
  <2>1. faulted' \in SUBSET Uids
    <3>1. 1 .. diskCursor \subseteq Uids
      BY DEF Ranges, Uids
    <3> QED
      BY <1>17, <3>1 DEF Crash, GiveUp, Ranges
  <2>2. pc' \in [Procs -> Stages] /\ uid' \in [Procs -> 0 .. MaxUid]
    BY <1>17, <1>b DEF Crash
  <2>3. notices' \in [Uids -> Nat]
    BY <1>17 DEF Crash
  <2> QED
    BY <1>17, <2>1, <2>2, <2>3 DEF Crash, NoLoad, Ranges
<1>18. CASE Restart
  BY <1>18 DEF Restart, Ranges, Uids
<1>20. CASE SocketCloses
  BY <1>20 DEF SocketCloses, Ranges
<1>21. CASE PushUnheard
  BY <1>21 DEF PushUnheard, GiveUp, Ranges, Uids
<1>22. ASSUME NEW n \in orphans, OrphanPush(n) PROVE Ranges'
  <2>1. n + 1 \in Uids /\ n + 1 \in 0 .. MaxUid
    BY <1>22 DEF OrphanPush, Ranges, Uids
  <2>2. pc' \in [Procs -> Stages] /\ uid' \in [Procs -> 0 .. MaxUid]
    BY <1>22, <1>b, <2>1 DEF OrphanPush, Ranges
  <2>3. orphans' \subseteq 0 .. MaxUid /\ faulted' \in SUBSET Uids
    BY <1>22, <2>1 DEF OrphanPush, GiveUp, Ranges
  <2> QED
    BY <1>22, <2>2, <2>3 DEF OrphanPush, Ranges
<1>23. ASSUME NEW l \in Loaders, LoadReads(l) PROVE Ranges'
  BY <1>23 DEF LoadReads, Ranges
<1>24. ASSUME NEW l \in Loaders, LoadCursor(l) PROVE Ranges'
  <2>1. load[l].cursor \in 0 .. MaxUid
    BY DEF Ranges
  <2>2. seenUIDs' \in SUBSET Uids
    <3>1. {load[l].cursor} \ {0} \subseteq Uids
      BY <2>1 DEF Uids
    <3> QED
      BY <1>24, <3>1 DEF LoadCursor, Ranges
  <2> QED
    BY <1>24, <2>1, <2>2 DEF LoadCursor, Ranges
<1>25. ASSUME NEW l \in Loaders, LoadTransport(l) PROVE Ranges'
  BY <1>25 DEF LoadTransport, NoLoad, Ranges
<1>26. ASSUME NEW l \in Loaders, LoadRejects(l) PROVE Ranges'
  BY <1>26 DEF LoadRejects, NoLoad, Ranges
<1>19. CASE UNCHANGED vars
  BY <1>19 DEF vars, Ranges
<1> QED
  BY <1>1, <1>2, <1>3, <1>4, <1>5, <1>6, <1>7, <1>8, <1>9, <1>10, <1>11, <1>12,
     <1>13, <1>14, <1>15, <1>16, <1>17, <1>18, <1>19, <1>20, <1>21, <1>22, <1>23, <1>24,
     <1>25, <1>26 DEF Next, Handle

\* Handlers keep to their own mail, and each mail past the seenUIDs test has one.
LEMMA OwnershipStep == Ranges /\ Ownership /\ Cursors /\ [Next]_vars => Ownership'
<1> SUFFICES ASSUME Ranges, Ownership, Cursors, [Next]_vars PROVE Ownership'
  OBVIOUS
<1> USE DEF relayVars, cursorVars, loopVars, loadVars, histVars, Ownership, Busy, Claimed, Fetching
<1>a. Fetcher \in Procs /\ Pushers \subseteq Procs /\ Fetcher \notin Pushers
  BY ProcAssumption DEF Procs
<1>t. /\ pc \in [Procs -> Stages] /\ uid \in [Procs -> 0 .. MaxUid]
      /\ seenUIDs \subseteq Uids /\ todo \subseteq Uids /\ done \subseteq Uids
      /\ notices \in [Uids -> Nat] /\ pushed \in Nat /\ top \in 0 .. MaxUid
  BY DEF Ranges
<1>1. CASE Deliver
  BY <1>1, <1>a, <1>t DEF Deliver
<1>2. CASE Connect
  BY <1>2, <1>a, <1>t DEF Connect
<1>3. CASE SendOpens
  BY <1>3, <1>a, <1>t DEF SendOpens
<1>4. ASSUME NEW p \in Pushers, PushArrives(p) PROVE Ownership'
  <2>1. p \in Procs /\ pushed + 1 \in Uids
    BY <1>4, <1>a, <1>t DEF PushArrives, Uids
  <2> QED
    BY <1>4, <2>1, <1>t DEF PushArrives
<1>5. ASSUME NEW p \in Procs, FetchOk(p) PROVE Ownership'
  BY <1>5, <1>a, <1>t DEF FetchOk, ProcessIncomingRaw, Goto, Return
<1>6. ASSUME NEW p \in Procs, WsFetchFails(p) PROVE Ownership'
  BY <1>6, <1>a, <1>t DEF WsFetchFails, Goto
<1>7. ASSUME NEW p \in Procs, FetchFails(p) PROVE Ownership'
  BY <1>7, <1>a, <1>t DEF FetchFails, Return
<1>8. ASSUME NEW p \in Procs, Parsed(p) PROVE Ownership'
  BY <1>8, <1>a, <1>t DEF Parsed, Goto, Return, Finish
<1>9. ASSUME NEW p \in Procs, Dedup(p) PROVE Ownership'
  BY <1>9, <1>a, <1>t DEF Dedup, Goto, Return, Finish
<1>10. ASSUME NEW p \in Procs, SaveMessage(p) PROVE Ownership'
  BY <1>10, <1>a, <1>t DEF SaveMessage, Return, Finish
<1>11. ASSUME NEW p \in Procs, HandlerThrows(p) PROVE Ownership'
  BY <1>11, <1>a, <1>t DEF HandlerThrows, Return
<1>12. CASE BgStart
  BY <1>12, <1>a, <1>t DEF BgStart, Goto
<1>13. CASE BgListed
  BY <1>13, <1>a, <1>t DEF BgListed, Goto
<1>14. CASE BgNext
  BY <1>14, <1>a, <1>t DEF BgNext
<1>15. CASE BgDone
  BY <1>15, <1>a, <1>t DEF BgDone, Goto
<1>16. CASE Persist
  BY <1>16, <1>a, <1>t DEF Persist
<1>17. CASE Crash
  BY <1>17, <1>a, <1>t DEF Crash
<1>18. CASE Restart
  BY <1>18, <1>a, <1>t DEF Restart, Cursors
<1>20. CASE SocketCloses
  BY <1>20, <1>a, <1>t DEF SocketCloses
<1>21. CASE PushUnheard
  BY <1>21, <1>a, <1>t DEF PushUnheard
<1>22. ASSUME NEW n \in orphans, OrphanPush(n) PROVE Ownership'
  <2>1. n + 1 \in Uids
    BY <1>22 DEF OrphanPush, Ranges, Uids
  <2> QED
    BY <1>22, <2>1, <1>a, <1>t DEF OrphanPush
<1>23. ASSUME NEW l \in Loaders, LoadReads(l) PROVE Ownership'
  BY <1>23, <1>a, <1>t DEF LoadReads
<1>24. ASSUME NEW l \in Loaders, LoadCursor(l) PROVE Ownership'
  BY <1>24, <1>a, <1>t DEF LoadCursor
<1>25. ASSUME NEW l \in Loaders, LoadTransport(l) PROVE Ownership'
  BY <1>25, <1>a, <1>t DEF LoadTransport
<1>26. ASSUME NEW l \in Loaders, LoadRejects(l) PROVE Ownership'
  BY <1>26, <1>a, <1>t DEF LoadRejects
<1>19. CASE UNCHANGED vars
  BY <1>19 DEF vars, Ownership
<1> QED
  BY <1>1, <1>2, <1>3, <1>4, <1>5, <1>6, <1>7, <1>8, <1>9, <1>10, <1>11, <1>12, <1>13, <1>14, <1>15, <1>16, <1>17, <1>18, <1>19,
     <1>20, <1>21, <1>22, <1>23, <1>24, <1>25, <1>26 DEF Next, Handle

\* The cursor stays a UID that was seen, and a stopped program keeps nothing.
LEMMA CursorsStep == Ranges /\ Ownership /\ Cursors /\ [Next]_vars => Cursors'
<1> SUFFICES ASSUME Ranges, Ownership, Cursors, [Next]_vars PROVE Cursors'
  OBVIOUS
<1> USE DEF relayVars, cursorVars, loopVars, loadVars, histVars, Cursors
<1>t. /\ pc \in [Procs -> Stages] /\ uid \in [Procs -> 0 .. MaxUid]
      /\ seenUIDs \subseteq Uids /\ Fetcher \in Procs /\ Pushers \subseteq Procs
      /\ lastSeenUid \in Nat /\ diskCursor \in Nat /\ since \in Nat
  BY DEF Ranges, Procs
<1>1. CASE Deliver
  BY <1>1, <1>t DEF Deliver
<1>2. CASE Connect
  BY <1>2, <1>t DEF Connect
<1>3. CASE SendOpens
  BY <1>3, <1>t DEF SendOpens
<1>4. ASSUME NEW p \in Pushers, PushArrives(p) PROVE Cursors'
  BY <1>4, <1>t DEF PushArrives
<1>5. ASSUME NEW p \in Procs, FetchOk(p) PROVE Cursors'
  <2>1. uid[p] \in Uids /\ uid[p] \in Nat
    BY <1>5, BusyUid DEF FetchOk, Busy, Uids
  <2>2. CASE uid[p] \in seenUIDs
    BY <1>5, <2>2, <1>t DEF FetchOk, ProcessIncomingRaw
  <2>3. CASE uid[p] \notin seenUIDs
    <3>1. /\ up /\ up' = up /\ seenUIDs' = seenUIDs \cup {uid[p]}
          /\ lastSeenUid' = IF uid[p] > lastSeenUid THEN uid[p] ELSE lastSeenUid
      BY <1>5, <2>3 DEF FetchOk, ProcessIncomingRaw
    <3> QED
      BY <3>1, <2>1, <1>t
  <2> QED
    BY <2>2, <2>3
<1>6. ASSUME NEW p \in Procs, WsFetchFails(p) PROVE Cursors'
  BY <1>6, <1>t DEF WsFetchFails
<1>7. ASSUME NEW p \in Procs, FetchFails(p) PROVE Cursors'
  BY <1>7, <1>t DEF FetchFails
<1>8. ASSUME NEW p \in Procs, Parsed(p) PROVE Cursors'
  BY <1>8, <1>t DEF Parsed
<1>9. ASSUME NEW p \in Procs, Dedup(p) PROVE Cursors'
  BY <1>9, <1>t DEF Dedup
<1>10. ASSUME NEW p \in Procs, SaveMessage(p) PROVE Cursors'
  BY <1>10, <1>t DEF SaveMessage
<1>11. ASSUME NEW p \in Procs, HandlerThrows(p) PROVE Cursors'
  BY <1>11, <1>t DEF HandlerThrows
<1>12. CASE BgStart
  BY <1>12, <1>t DEF BgStart
<1>13. CASE BgListed
  BY <1>13, <1>t DEF BgListed
<1>14. CASE BgNext
  BY <1>14, <1>t DEF BgNext
<1>15. CASE BgDone
  BY <1>15, <1>t DEF BgDone
<1>16. CASE Persist
  BY <1>16, <1>t DEF Persist
<1>17. CASE Crash
  BY <1>17, <1>t DEF Crash
<1>18. CASE Restart
  BY <1>18, <1>t DEF Restart
<1>20. CASE SocketCloses
  BY <1>20, <1>t DEF SocketCloses
<1>21. CASE PushUnheard
  BY <1>21, <1>t DEF PushUnheard
<1>22. ASSUME NEW n \in orphans, OrphanPush(n) PROVE Cursors'
  BY <1>22, <1>t DEF OrphanPush
<1>23. ASSUME NEW l \in Loaders, LoadReads(l) PROVE Cursors'
  BY <1>23, <1>t DEF LoadReads
<1>24. ASSUME NEW l \in Loaders, LoadCursor(l) PROVE Cursors'
  BY <1>24, <1>t DEF LoadCursor
<1>25. ASSUME NEW l \in Loaders, LoadTransport(l) PROVE Cursors'
  BY <1>25, <1>t DEF LoadTransport
<1>26. ASSUME NEW l \in Loaders, LoadRejects(l) PROVE Cursors'
  BY <1>26, <1>t DEF LoadRejects
<1>19. CASE UNCHANGED vars
  BY <1>19 DEF vars
<1> QED
  BY <1>1, <1>2, <1>3, <1>4, <1>5, <1>6, <1>7, <1>8, <1>9, <1>10, <1>11, <1>12,
     <1>13, <1>14, <1>15, <1>16, <1>17, <1>18, <1>19, <1>20, <1>21, <1>22, <1>23, <1>24,
     <1>25, <1>26 DEF Next, Handle


\* Coverage holds after a step that loses no mail and reaches no point, and lets no
\* mail count as seen, but covered ones.
LEMMA CoverageKept ==
  ASSUME Coverage,
         \A u : Covered(u) => Covered(u)',
         \A u : Accounted(u) => Accounted(u)',
         \A u \in Remembered' : u \in Remembered \/ Accounted(u)',
         \A n \in Reached' : n \in Reached \/ \A u \in 1 .. n : Covered(u)'
  PROVE  Coverage'
  BY DEF Coverage

\* A mail that is accounted for is covered.
LEMMA AccountedCovered == ASSUME NEW u, Accounted(u) PROVE Covered(u)
  BY DEF Accounted, Covered, Owned, InFlight, Working, Busy

\* A mail that was given up or done with is settled, or in the list of those given up.
LEMMA GivenUp ==
  ASSUME Ownership, NEW us, GiveUp(us), stored' = stored, done' = done
  PROVE  /\ faulted \subseteq faulted'
         /\ \A u \in us : Settled(u)' \/ u \in faulted'
  BY DEF Ownership, GiveUp, Settled

\* What is settled stays settled.
LEMMA StaysSettled ==
  ASSUME stored \subseteq stored', done \subseteq done', NEW u, Settled(u)
  PROVE  Settled(u)'
  BY DEF Settled

\* A step of one handler leaves the work of the others alone.
LEMMA OthersWork ==
  ASSUME Ranges, NEW p \in Procs, NEW s \in Stages, Goto(p, s) \/ Return(p),
         todo' = todo, NEW u, InFlight(u), ~Working(p, u)
  PROVE  InFlight(u)'
<1>1. CASE u \in todo
  BY <1>1 DEF InFlight
<1>2. CASE u \notin todo
  <2>1. PICK q \in Procs : Working(q, u)
    BY <1>2 DEF InFlight
  <2>2. q # p
    BY <2>1
  <2>3. pc'[q] = pc[q] /\ uid'[q] = uid[q]
    BY <2>2 DEF Ranges, Goto, Return
  <2> QED
    BY <2>1, <2>3 DEF InFlight, Working
<1> QED
  BY <1>1, <1>2

\* Past the seenUIDs test as well.
LEMMA OthersOwn ==
  ASSUME Ranges, NEW p \in Procs, NEW s \in Stages, Goto(p, s) \/ Return(p),
         NEW u, Owned(u), uid[p] # u \/ pc[p] \notin Claimed
  PROVE  Owned(u)'
<1>1. PICK q \in Procs : pc[q] \in Claimed /\ uid[q] = u
  BY DEF Owned
<1>2. q # p
  BY <1>1
<1>3. pc'[q] = pc[q] /\ uid'[q] = uid[q]
  BY <1>2 DEF Ranges, Goto, Return
<1> QED
  BY <1>1, <1>3 DEF Owned

\* A handler that returns reaches nothing new, and loses no mail but its own.
LEMMA EndsCovered ==
  ASSUME Ranges, Ownership, NEW p \in Procs, NEW m, Working(p, m), Return(p),
         stored \subseteq stored', done \subseteq done', faulted \ {m} \subseteq faulted',
         todo' = todo, Covered(m)', Accounted(m)'
  PROVE  /\ \A u : Covered(u) => Covered(u)'
         /\ \A u : Accounted(u) => Accounted(u)'
         /\ WorkedOn' \subseteq WorkedOn
<1>1. ASSUME NEW u, Covered(u) PROVE Covered(u)'
  <2>1. CASE u = m
    BY <2>1
  <2>2. CASE u # m /\ InFlight(u)
    BY <2>2, OthersWork DEF Stages, Working, Covered
  <2>3. CASE u # m /\ ~InFlight(u)
    BY <1>1, <2>3, StaysSettled DEF Covered
  <2> QED
    BY <2>1, <2>2, <2>3
<1>2. ASSUME NEW u, Accounted(u) PROVE Accounted(u)'
  <2>1. CASE u = m
    BY <2>1
  <2>2. CASE u # m /\ Owned(u)
    BY <2>2, OthersOwn DEF Stages, Working, Accounted
  <2>3. CASE u # m /\ ~Owned(u)
    BY <1>2, <2>3, StaysSettled DEF Accounted
  <2> QED
    BY <2>1, <2>2, <2>3
<1>3. ASSUME NEW q \in Procs, pc'[q] \in Busy
      PROVE  pc[q] \in Busy /\ uid'[q] = uid[q]
  BY <1>3 DEF Ranges, Return, Busy, Claimed, Fetching
<1>4. WorkedOn' \subseteq WorkedOn
  BY <1>3 DEF WorkedOn
<1> QED
  BY <1>1, <1>2, <1>4

\* A handler that goes on with its mail, or the loop between two mails, reaches
\* nothing new and loses no mail.
LEMMA GoesOnCovered ==
  ASSUME Ranges, NEW p \in Procs, NEW s \in Stages, Goto(p, s),
         pc[p] \in Busy <=> s \in Busy, pc[p] \in Claimed => s \in Claimed,
         stored' = stored, done' = done, faulted' = faulted, todo \subseteq todo'
  PROVE  /\ \A u : Covered(u) => Covered(u)'
         /\ \A u : Accounted(u) => Accounted(u)'
         /\ WorkedOn' \subseteq WorkedOn
<1>1. \A q \in Procs : /\ uid'[q] = uid[q]
                       /\ pc[q] \in Busy <=> pc'[q] \in Busy
                       /\ pc[q] \in Claimed => pc'[q] \in Claimed
  BY DEF Ranges, Goto
<1>2. \A u : InFlight(u) => InFlight(u)'
  BY <1>1 DEF InFlight, Working
<1>3. \A u : Owned(u) => Owned(u)'
  BY <1>1 DEF Owned
<1>4. \A u : Settled(u) => Settled(u)'
  BY DEF Settled
<1>5. WorkedOn' \subseteq WorkedOn
  BY <1>1 DEF WorkedOn
<1> QED
  BY <1>2, <1>3, <1>4, <1>5 DEF Covered, Accounted

\* When no handler, queue or row changes, neither does what is covered.
LEMMA IdleStep ==
  ASSUME UNCHANGED <<pc, uid, todo, stored, done>>, faulted \subseteq faulted'
  PROVE  /\ \A u : Covered(u) => Covered(u)'
         /\ \A u : Accounted(u) => Accounted(u)'
         /\ WorkedOn' = WorkedOn
  BY DEF Covered, Accounted, Settled, Owned, InFlight, Working, WorkedOn

\* An idle push handler takes the mail after a point that was reached: the next
\* point is reached, and nothing is lost.
LEMMA TakesNext ==
  ASSUME Ranges, Coverage, NEW p \in Procs, pc[p] = "idle", NEW n \in Nat, n \in Reached,
         pc' = [pc EXCEPT ![p] = "fetch"], uid' = [uid EXCEPT ![p] = n + 1],
         UNCHANGED <<todo, stored, done, faulted>>
  PROVE  /\ \A u : Covered(u) => Covered(u)'
         /\ \A u : Accounted(u) => Accounted(u)'
         /\ WorkedOn' \subseteq WorkedOn \cup {n + 1}
         /\ \A u \in 1 .. n + 1 : Covered(u)'
<1>1. /\ \A q \in Procs : q # p => pc'[q] = pc[q] /\ uid'[q] = uid[q]
      /\ pc'[p] = "fetch" /\ uid'[p] = n + 1
  BY DEF Ranges
<1>2. \A u : InFlight(u) => InFlight(u)'
  BY <1>1 DEF InFlight, Working, Busy, Claimed, Fetching
<1>3. InFlight(n + 1)'
  BY <1>1 DEF InFlight, Working, Busy, Fetching
<1>4. \A u : Owned(u) => Owned(u)'
  BY <1>1 DEF Owned, Claimed
<1>5. \A u : Settled(u) => Settled(u)'
  BY DEF Settled
<1>6. \A u : (Covered(u) => Covered(u)') /\ (Accounted(u) => Accounted(u)')
  BY <1>2, <1>4, <1>5 DEF Covered, Accounted
<1>7. WorkedOn' \subseteq WorkedOn \cup {n + 1}
  BY <1>1 DEF WorkedOn
<1>8. Covered(n + 1)'
  BY <1>3 DEF Covered
<1>9. ASSUME NEW u \in 1 .. n + 1 PROVE Covered(u)'
  <2>1. CASE u \in 1 .. n
    BY <2>1, <1>6 DEF Coverage
  <2>2. CASE u = n + 1
    BY <2>2, <1>8
  <2> QED
    BY <2>1, <2>2
<1> QED
  BY <1>6, <1>7, <1>9

\* A push that nobody works on reaches the next point too: its mail is given up
\* or was seen.
LEMMA PassesNext ==
  ASSUME Ranges, Ownership, Coverage, NEW n \in Nat, n \in Reached,
         GiveUp({n + 1} \ seenUIDs), UNCHANGED <<pc, uid, todo, stored, done>>
  PROVE  /\ \A u : Covered(u) => Covered(u)'
         /\ \A u : Accounted(u) => Accounted(u)'
         /\ WorkedOn' = WorkedOn
         /\ \A u \in 1 .. n + 1 : Covered(u)'
<1>1. faulted \subseteq faulted' /\ \A u \in {n + 1} \ seenUIDs : Settled(u)' \/ u \in faulted'
  BY GivenUp
<1>2. /\ \A u : Covered(u) => Covered(u)'
      /\ \A u : Accounted(u) => Accounted(u)'
      /\ WorkedOn' = WorkedOn
  BY <1>1, IdleStep
<1>3. Covered(n + 1)'
  <2>1. CASE n + 1 \in seenUIDs
    BY <2>1, <1>2, AccountedCovered DEF Coverage, Remembered
  <2>2. CASE n + 1 \notin seenUIDs
    BY <2>2, <1>1 DEF Covered
  <2> QED
    BY <2>1, <2>2
<1>4. ASSUME NEW u \in 1 .. n + 1 PROVE Covered(u)'
  <2>1. CASE u \in 1 .. n
    BY <2>1, <1>2 DEF Coverage
  <2>2. CASE u = n + 1
    BY <2>2, <1>3
  <2> QED
    BY <2>1, <2>2
<1> QED
  BY <1>2, <1>4

\* The loads hold the cursors they held, or the one on disk, or none.
LEMMA LoadsHold ==
  ASSUME Ranges, NEW l \in Loaders, NEW s, NEW r \in {0, diskCursor},
         load' = [load EXCEPT ![l] = [at |-> s, cursor |-> r]]
  PROVE  LoadCursors' \subseteq LoadCursors \cup {0, diskCursor}
  BY DEF LoadCursors, Ranges

\* No action uncovers a mail.
LEMMA CoverageStep ==
  Ranges /\ Ownership /\ Cursors /\ Coverage /\ [Next]_vars => Coverage'
<1> SUFFICES ASSUME Ranges, Ownership, Cursors, Coverage, [Next]_vars PROVE Coverage'
  OBVIOUS
<1> USE DEF relayVars, cursorVars, loopVars, loadVars, histVars
<1>a. Fetcher \in Procs /\ Pushers \subseteq Procs /\ Fetcher \notin Pushers
  BY ProcAssumption DEF Procs
<1>b. \A u \in 1 .. 0 : Covered(u)'
  OBVIOUS
<1>c. load' = load => LoadCursors' = LoadCursors
  BY DEF LoadCursors
<1>d. lastSeenUid = 0 \/ lastSeenUid \in Reached
  BY DEF Cursors, Reached
<1>1. CASE Deliver
  <2>1. Reached' = Reached /\ Remembered' = Remembered
    BY <1>1, <1>c, IdleStep DEF Deliver, Reached, Remembered
  <2> QED
    BY <1>1, <2>1, IdleStep, CoverageKept DEF Deliver
<1>2. CASE Connect
  <2>1. Reached' \subseteq Reached \cup {0} /\ Remembered' = Remembered
    BY <1>2, <1>c, <1>d, IdleStep DEF Connect, Reached, Remembered
  <2> QED
    BY <1>2, <1>b, <2>1, IdleStep, CoverageKept DEF Connect
<1>3. CASE SendOpens
  <2>1. Reached' \subseteq Reached \cup {0} /\ Remembered' = Remembered
    BY <1>3, <1>c, IdleStep DEF SendOpens, Reached, Remembered
  <2> QED
    BY <1>3, <1>b, <2>1, IdleStep, CoverageKept DEF SendOpens
<1>4. ASSUME NEW p \in Pushers, PushArrives(p) PROVE Coverage'
  <2>1. pushed \in Nat /\ pushed \in Reached
    BY DEF Ranges, Reached
  <2>2. /\ \A u : Covered(u) => Covered(u)'
        /\ \A u : Accounted(u) => Accounted(u)'
        /\ WorkedOn' \subseteq WorkedOn \cup {pushed + 1}
        /\ \A u \in 1 .. pushed + 1 : Covered(u)'
    BY <1>4, <1>a, <2>1, TakesNext DEF PushArrives
  <2>3. Reached' \subseteq Reached \cup {pushed + 1} /\ Remembered' = Remembered
    BY <1>4, <1>c, <2>2 DEF PushArrives, Reached, Remembered
  <2> QED
    BY <2>2, <2>3, CoverageKept
<1>5. ASSUME NEW p \in Procs, FetchOk(p) PROVE Coverage'
  <2>1. PICK m \in Uids : m = uid[p]
    BY <1>5, BusyUid DEF FetchOk, Busy
  <2>2. Working(p, m) /\ pc[p] \in Busy /\ pc[p] \notin Claimed
    BY <1>5, <2>1 DEF FetchOk, Working, Busy, Fetching, Claimed
  <2>3. CASE m \in seenUIDs
    <3>1. Return(p) /\ UNCHANGED <<seenUIDs, lastSeenUid>>
      BY <1>5, <2>1, <2>3 DEF FetchOk, ProcessIncomingRaw
    <3>2. Accounted(m)'
      <4>1. CASE Owned(m)
        BY <4>1, <3>1, <2>2, OthersOwn DEF Stages, Accounted
      <4>2. CASE ~Owned(m)
        BY <4>2, <1>5, <2>3 DEF FetchOk, Coverage, Remembered, Accounted, Settled
      <4> QED
        BY <4>1, <4>2
    <3>3. Covered(m)'
      BY <3>2 DEF Accounted, Covered, Owned, InFlight, Working, Busy
    <3>4. /\ \A u : Covered(u) => Covered(u)'
          /\ \A u : Accounted(u) => Accounted(u)'
          /\ WorkedOn' \subseteq WorkedOn
      BY <1>5, <2>2, <3>1, <3>2, <3>3, EndsCovered DEF FetchOk
    <3>5. Reached' \subseteq Reached /\ Remembered' = Remembered
      BY <1>5, <1>c, <3>1, <3>4 DEF FetchOk, Reached, Remembered
    <3> QED
      BY <3>4, <3>5, CoverageKept
  <2>4. CASE m \notin seenUIDs
    <3>1. Goto(p, "parse") /\ seenUIDs' = seenUIDs \cup {m}
      BY <1>5, <2>1, <2>4 DEF FetchOk, ProcessIncomingRaw
    <3>2. /\ \A u : Covered(u) => Covered(u)'
          /\ \A u : Accounted(u) => Accounted(u)'
          /\ WorkedOn' \subseteq WorkedOn
      BY <1>5, <3>1, <2>2, GoesOnCovered DEF FetchOk, Stages, Busy, Claimed
    <3>3. Accounted(m)'
      BY <3>1, <2>1 DEF Ranges, Goto, Accounted, Owned, Claimed
    <3>4. m \in Reached
      BY <2>1, <2>2 DEF Reached, WorkedOn
    <3>5. Reached' \subseteq Reached /\ Remembered' = Remembered \cup {m}
      BY <1>5, <1>c, <3>1, <3>2, <3>4 DEF FetchOk, Reached, Remembered
    <3> QED
      BY <3>2, <3>3, <3>5, CoverageKept
  <2> QED
    BY <2>3, <2>4
<1>6. ASSUME NEW p \in Procs, WsFetchFails(p) PROVE Coverage'
  <2>1. /\ \A u : Covered(u) => Covered(u)'
        /\ \A u : Accounted(u) => Accounted(u)'
        /\ WorkedOn' \subseteq WorkedOn
    BY <1>6, GoesOnCovered DEF WsFetchFails, Stages, Busy, Fetching, Claimed
  <2>2. Reached' \subseteq Reached /\ Remembered' = Remembered
    BY <1>6, <1>c, <2>1 DEF WsFetchFails, Reached, Remembered
  <2> QED
    BY <2>1, <2>2, CoverageKept
<1>7. ASSUME NEW p \in Procs, FetchFails(p) \/ HandlerThrows(p) PROVE Coverage'
  <2>1. PICK m : m = uid[p]
    OBVIOUS
  <2>2. /\ Working(p, m) /\ Return(p) /\ GiveUp({m})
        /\ UNCHANGED <<relayVars, cursorVars, loopVars, loadVars, diskCursor, stored, done>>
    BY <1>7, <2>1 DEF FetchFails, HandlerThrows, Working, Busy, Fetching
  <2>3. faulted \subseteq faulted' /\ (Settled(m)' \/ m \in faulted')
    BY <2>2, GivenUp
  <2>4. Covered(m)' /\ Accounted(m)'
    BY <2>3 DEF Covered, Accounted
  <2>5. /\ \A u : Covered(u) => Covered(u)'
        /\ \A u : Accounted(u) => Accounted(u)'
        /\ WorkedOn' \subseteq WorkedOn
    BY <2>2, <2>3, <2>4, EndsCovered
  <2>6. Reached' \subseteq Reached /\ Remembered' = Remembered
    BY <1>c, <2>2, <2>5 DEF Reached, Remembered
  <2> QED
    BY <2>5, <2>6, CoverageKept
<1>8. ASSUME NEW p \in Procs, Parsed(p) \/ Dedup(p) \/ SaveMessage(p) PROVE Coverage'
  <2>1. PICK m : m = uid[p]
    OBVIOUS
  <2>2. /\ Working(p, m) /\ pc[p] \in Claimed /\ stored \subseteq stored'
        /\ UNCHANGED <<relayVars, cursorVars, loopVars, loadVars, diskCursor>>
    BY <1>8, <2>1 DEF Parsed, Dedup, SaveMessage, Working, Busy, Claimed
  <2>3. \/ Finish(p) /\ (IF Kind[m] = "chat" THEN MsgId[m] \in stored' ELSE TRUE)
        \/ /\ Goto(p, "dedup") \/ Goto(p, "save")
           /\ UNCHANGED <<stored, done, faulted>>
    BY <1>8, <2>1 DEF Parsed, Dedup, SaveMessage
  <2>4. /\ \A u : Covered(u) => Covered(u)'
        /\ \A u : Accounted(u) => Accounted(u)'
        /\ WorkedOn' \subseteq WorkedOn
    <3>1. CASE Finish(p) /\ (IF Kind[m] = "chat" THEN MsgId[m] \in stored' ELSE TRUE)
      <4>1. /\ Return(p) /\ done \subseteq done' /\ faulted \ {m} \subseteq faulted'
            /\ Settled(m)'
        BY <2>1, <3>1 DEF Finish, Settled
      <4>2. Covered(m)' /\ Accounted(m)'
        BY <4>1 DEF Covered, Accounted
      <4> QED
        BY <2>2, <4>1, <4>2, EndsCovered
    <3>2. CASE /\ Goto(p, "dedup") \/ Goto(p, "save")
               /\ UNCHANGED <<stored, done, faulted>>
      BY <2>2, <3>2, GoesOnCovered DEF Stages, Busy, Claimed
    <3> QED
      BY <2>3, <3>1, <3>2
  <2>5. Reached' \subseteq Reached /\ Remembered' = Remembered
    BY <1>c, <2>2, <2>4 DEF Reached, Remembered
  <2> QED
    BY <2>4, <2>5, CoverageKept
<1>12. CASE BgStart
  <2>1. /\ \A u : Covered(u) => Covered(u)'
        /\ \A u : Accounted(u) => Accounted(u)'
        /\ WorkedOn' \subseteq WorkedOn
    BY <1>12, <1>a, GoesOnCovered DEF BgStart, Stages, Busy, Claimed, Fetching
  <2>2. Reached' \subseteq Reached \cup {0} /\ Remembered' = Remembered
    BY <1>12, <1>c, <1>d, <2>1 DEF BgStart, Reached, Remembered
  <2> QED
    BY <1>b, <2>1, <2>2, CoverageKept
<1>13. CASE BgListed
  <2>1. todo = {}
    BY <1>13 DEF BgListed, Ownership
  <2>2. /\ \A u : Covered(u) => Covered(u)'
        /\ \A u : Accounted(u) => Accounted(u)'
        /\ WorkedOn' \subseteq WorkedOn
    BY <1>13, <1>a, <2>1, GoesOnCovered DEF BgListed, Stages, Busy, Claimed, Fetching
  <2>3. since \in Nat /\ top \in Nat /\ since \in Reached
    BY DEF Ranges, Reached
  <2>4. ASSUME NEW t \in todo', NEW u \in 1 .. t PROVE Covered(u)'
    <3>1. todo' = (since + 1) .. top
      BY <1>13, <2>4 DEF BgListed
    <3>2. CASE u <= since
      BY <2>2, <2>3, <3>2 DEF Coverage
    <3>3. CASE u > since
      <4>1. u \in todo'
        BY <2>3, <2>4, <3>1, <3>3
      <4> QED
        BY <4>1 DEF Covered, InFlight
    <3> QED
      BY <2>3, <3>1, <3>2, <3>3
  <2>5. Reached' \subseteq Reached \cup todo' \cup {0} /\ Remembered' = Remembered
    BY <1>13, <1>c, <2>2 DEF BgListed, Reached, Remembered
  <2> QED
    BY <1>b, <2>2, <2>4, <2>5, CoverageKept
<1>14. CASE BgNext
  <2>1. PICK m \in todo : /\ todo' = todo \ {m}
                          /\ IF m \in seenUIDs
                             THEN UNCHANGED <<pc, uid, faulted>>
                             ELSE IF transport = "none"
                             THEN GiveUp({m}) /\ UNCHANGED <<pc, uid>>
                             ELSE /\ pc' = [pc EXCEPT ![Fetcher] = "refetch"]
                                  /\ uid' = [uid EXCEPT ![Fetcher] = m]
                                  /\ UNCHANGED faulted
    BY <1>14 DEF BgNext
  <2>2. pc[Fetcher] \notin Busy /\ m \in Reached
    BY <1>14 DEF BgNext, Busy, Claimed, Fetching, Reached
  <2>3. UNCHANGED <<relayVars, cursorVars, since, loadVars, diskCursor, stored, done>>
    BY <1>14 DEF BgNext
  <2>4. Remembered' = Remembered
    BY <1>c, <2>3 DEF Remembered
  <2>5. CASE m \in seenUIDs \/ transport = "none"
    <3>1. pc' = pc /\ uid' = uid /\ faulted \subseteq faulted'
      BY <2>1, <2>3, <2>5, GivenUp
    <3>2. /\ \A u : Owned(u)' <=> Owned(u)
          /\ \A u : Settled(u)' <=> Settled(u)
          /\ \A u : u # m /\ InFlight(u) => InFlight(u)'
          /\ WorkedOn' = WorkedOn
      BY <2>1, <2>3, <3>1 DEF Owned, Settled, InFlight, Working, WorkedOn
    <3>3. \A u : Accounted(u) => Accounted(u)'
      BY <3>1, <3>2 DEF Accounted
    <3>4. Covered(m)'
      <4>1. CASE m \in seenUIDs
        <5>1. Accounted(m)'
          BY <4>1, <3>3 DEF Coverage, Remembered
        <5> QED
          BY <5>1 DEF Accounted, Covered, Owned, InFlight, Working, Busy
      <4>2. CASE m \notin seenUIDs
        BY <4>2, <2>1, <2>3, <2>5, GivenUp DEF Covered
      <4> QED
        BY <4>1, <4>2
    <3>5. \A u : Covered(u) => Covered(u)'
      BY <3>1, <3>2, <3>4 DEF Covered
    <3>6. Reached' \subseteq Reached
      BY <1>c, <2>1, <2>3, <3>2 DEF Reached
    <3> QED
      BY <2>4, <3>3, <3>5, <3>6, CoverageKept
  <2>6. CASE m \notin seenUIDs /\ transport # "none"
    <3>1. /\ pc'[Fetcher] = "refetch" /\ uid'[Fetcher] = m /\ faulted' = faulted
          /\ \A q \in Procs : q # Fetcher => pc'[q] = pc[q] /\ uid'[q] = uid[q]
      BY <2>1, <2>6, <1>a DEF Ranges
    <3>2. \A u : InFlight(u) => InFlight(u)'
      BY <2>1, <2>2, <3>1, <1>a DEF InFlight, Working, Busy, Fetching
    <3>3. \A u : Owned(u) => Owned(u)'
      BY <2>2, <3>1 DEF Owned, Busy
    <3>4. \A u : (Covered(u) => Covered(u)') /\ (Accounted(u) => Accounted(u)')
      BY <2>3, <3>1, <3>2, <3>3 DEF Covered, Accounted, Settled
    <3>5. WorkedOn' \subseteq WorkedOn \cup {m}
      BY <3>1 DEF WorkedOn
    <3>6. Reached' \subseteq Reached
      BY <1>c, <2>1, <2>2, <2>3, <3>5 DEF Reached
    <3> QED
      BY <2>4, <3>4, <3>6, CoverageKept
  <2> QED
    BY <2>5, <2>6
<1>15. CASE BgDone
  <2>1. /\ \A u : Covered(u) => Covered(u)'
        /\ \A u : Accounted(u) => Accounted(u)'
        /\ WorkedOn' \subseteq WorkedOn
    BY <1>15, <1>a, GoesOnCovered DEF BgDone, Stages, Busy, Claimed, Fetching
  <2>2. Reached' \subseteq Reached /\ Remembered' = Remembered
    BY <1>15, <1>c, <2>1 DEF BgDone, Reached, Remembered
  <2> QED
    BY <2>1, <2>2, CoverageKept
<1>16. CASE Persist
  <2>1. lastSeenUid = 0 \/ lastSeenUid \in seenUIDs
    BY DEF Cursors
  <2>2. Reached' \subseteq Reached \cup {0} /\ Remembered' \subseteq Remembered
    BY <1>16, <1>c, <1>d, <2>1, IdleStep DEF Persist, Reached, Remembered
  <2> QED
    BY <1>16, <1>b, <2>2, IdleStep, CoverageKept DEF Persist
<1>17. CASE Crash
  <2>1. /\ faulted \subseteq faulted' /\ UNCHANGED <<stored, done, diskCursor>>
        /\ \A u \in 1 .. diskCursor : InFlight(u) => Settled(u)' \/ u \in faulted'
    BY <1>17, GivenUp DEF Crash
  <2>2. \A u : Settled(u) => Settled(u)'
    BY <2>1 DEF Settled
  <2>3. diskCursor \in Nat /\ diskCursor \in Reached
    BY DEF Ranges, Reached
  <2>4. ASSUME NEW u \in 1 .. diskCursor PROVE Settled(u)' \/ u \in faulted'
    BY <2>1, <2>2, <2>3 DEF Coverage, Covered
  <2>5. \A q \in Procs : pc'[q] \notin Busy
    BY <1>17 DEF Crash, Busy, Claimed, Fetching
  <2>6. WorkedOn' = {} /\ LoadCursors' \subseteq {0}
    BY <1>17, <2>5 DEF Crash, WorkedOn, LoadCursors, NoLoad
  <2>7. Reached' \subseteq {0, diskCursor} /\ Remembered' \subseteq {diskCursor} \ {0}
    BY <1>17, <2>6 DEF Crash, Reached, Remembered
  <2>8. \A u \in Remembered' : Accounted(u)'
    BY <2>3, <2>4, <2>7 DEF Accounted
  <2>9. \A n \in Reached' : \A u \in 1 .. n : Covered(u)'
    BY <2>4, <2>7 DEF Covered
  <2> QED
    BY <2>8, <2>9 DEF Coverage
<1>18. CASE Restart
  <2>1. Reached' = Reached /\ Remembered' = Remembered
    BY <1>18, <1>c, IdleStep DEF Restart, Reached, Remembered
  <2> QED
    BY <1>18, <2>1, IdleStep, CoverageKept DEF Restart
<1>20. CASE SocketCloses
  <2>1. Reached' \subseteq Reached \cup {0} /\ Remembered' = Remembered
    BY <1>20, <1>c, IdleStep DEF SocketCloses, Reached, Remembered
  <2> QED
    BY <1>20, <1>b, <2>1, IdleStep, CoverageKept DEF SocketCloses
<1>21. CASE PushUnheard
  <2>1. pushed \in Nat /\ pushed \in Reached
    BY DEF Ranges, Reached
  <2>2. /\ \A u : Covered(u) => Covered(u)'
        /\ \A u : Accounted(u) => Accounted(u)'
        /\ WorkedOn' = WorkedOn
        /\ \A u \in 1 .. pushed + 1 : Covered(u)'
    BY <1>21, <2>1, PassesNext DEF PushUnheard
  <2>3. Reached' \subseteq Reached \cup {pushed + 1} /\ Remembered' = Remembered
    BY <1>21, <1>c, <2>2 DEF PushUnheard, Reached, Remembered
  <2> QED
    BY <2>2, <2>3, CoverageKept
<1>22. ASSUME NEW n \in orphans, OrphanPush(n) PROVE Coverage'
  <2>1. n \in Nat /\ n \in Reached
    BY DEF Ranges, Reached
  <2>2. /\ \A u : Covered(u) => Covered(u)'
        /\ \A u : Accounted(u) => Accounted(u)'
        /\ WorkedOn' \subseteq WorkedOn \cup {n + 1}
        /\ \A u \in 1 .. n + 1 : Covered(u)'
    <3>1. CASE transport # "none"
      <4>1. PICK p \in Pushers : /\ pc[p] = "idle"
                                 /\ pc' = [pc EXCEPT ![p] = "fetch"]
                                 /\ uid' = [uid EXCEPT ![p] = n + 1]
        BY <1>22, <3>1 DEF OrphanPush
      <4>2. UNCHANGED <<todo, stored, done, faulted>>
        BY <1>22, <3>1 DEF OrphanPush
      <4> QED
        BY <1>a, <2>1, <4>1, <4>2, TakesNext
    <3>2. CASE transport = "none"
      BY <1>22, <2>1, <3>2, PassesNext DEF OrphanPush
    <3> QED
      BY <3>1, <3>2
  <2>3. Reached' \subseteq Reached \cup {n + 1} /\ Remembered' = Remembered
    BY <1>22, <1>c, <2>2 DEF OrphanPush, Reached, Remembered
  <2> QED
    BY <2>2, <2>3, CoverageKept
<1>23. ASSUME NEW l \in Loaders, LoadReads(l) PROVE Coverage'
  <2>1. LoadCursors' \subseteq LoadCursors \cup {0, diskCursor}
    BY <1>23, LoadsHold DEF LoadReads
  <2>2. Reached' \subseteq Reached \cup {0} /\ Remembered' \subseteq Remembered
    BY <1>23, <2>1, IdleStep DEF LoadReads, Reached, Remembered
  <2> QED
    BY <1>23, <1>b, <2>2, IdleStep, CoverageKept DEF LoadReads
<1>24. ASSUME NEW l \in Loaders, LoadCursor(l) PROVE Coverage'
  <2>1. LoadCursors' \subseteq LoadCursors \cup {0, diskCursor}
    BY <1>24, LoadsHold DEF LoadCursor
  <2>2. load[l].cursor \in LoadCursors
    BY DEF LoadCursors
  <2>3. Reached' \subseteq Reached \cup {0} /\ Remembered' \subseteq Remembered
    BY <1>24, <2>1, <2>2, IdleStep DEF LoadCursor, Reached, Remembered
  <2> QED
    BY <1>24, <1>b, <2>3, IdleStep, CoverageKept DEF LoadCursor
<1>25. ASSUME NEW l \in Loaders, LoadTransport(l) PROVE Coverage'
  <2>1. LoadCursors' \subseteq LoadCursors \cup {0, diskCursor}
    BY <1>25, LoadsHold DEF LoadTransport, NoLoad
  <2>2. Reached' \subseteq Reached \cup {0} /\ Remembered' \subseteq Remembered
    BY <1>25, <2>1, IdleStep DEF LoadTransport, Reached, Remembered
  <2> QED
    BY <1>25, <1>b, <2>2, IdleStep, CoverageKept DEF LoadTransport
<1>26. ASSUME NEW l \in Loaders, LoadRejects(l) PROVE Coverage'
  <2>1. LoadCursors' \subseteq LoadCursors \cup {0, diskCursor}
    BY <1>26, LoadsHold DEF LoadRejects, NoLoad
  <2>2. Reached' \subseteq Reached \cup {0} /\ Remembered' \subseteq Remembered
    BY <1>26, <2>1, IdleStep DEF LoadRejects, Reached, Remembered
  <2> QED
    BY <1>26, <1>b, <2>2, IdleStep, CoverageKept DEF LoadRejects
<1>19. CASE UNCHANGED vars
  <2>1. Reached' = Reached /\ Remembered' = Remembered
    BY <1>19, <1>c, IdleStep DEF vars, Reached, Remembered
  <2> QED
    BY <1>19, <2>1, IdleStep, CoverageKept DEF vars
<1> QED
  BY <1>1, <1>2, <1>3, <1>4, <1>5, <1>6, <1>7, <1>8, <1>12, <1>13, <1>14, <1>15,
     <1>16, <1>17, <1>18, <1>19, <1>20, <1>21, <1>22, <1>23, <1>24, <1>25, <1>26
     DEF Next, Handle

LEMMA IInvStep == IInv /\ [Next]_vars => IInv'
  BY FlagsStep, RangesStep, OwnershipStep, CursorsStep, CoverageStep DEF IInv, TypeOK

LEMMA Inductive == Spec => []IInv
  BY InitIInv, IInvStep, PTL DEF Spec

-----------------------------------------------------------------------------
\* In every run each variable holds a value the code can give it.
THEOREM TypeCorrect == Spec => []TypeOK
<1>1. IInv => TypeOK
  BY DEF IInv
<1> QED
  BY <1>1, Inductive, PTL

\* Whatever the interleaving of pushes, fetches, failures and crashes, no mail
\* disappears behind lastSeenUid without a failure of its own.
THEOREM NoGap == Spec => []NoSilentGap
<1>1. IInv => NoSilentGap
  <2> SUFFICES ASSUME IInv, NEW u \in 1 .. lastSeenUid PROVE Covered(u)
    BY DEF NoSilentGap, Covered
  <2>1. lastSeenUid \in Reached
    BY DEF IInv, TypeOK, Ranges, Cursors, Reached
  <2> QED
    BY <2>1 DEF IInv, Coverage
<1> QED
  BY <1>1, Inductive, PTL

\* Racing handlers announce a mail to the application once per session.
THEOREM Once == Spec => []AnnouncedOnce
<1>1. IInv => AnnouncedOnce
  BY DEF IInv, Ownership, AnnouncedOnce
<1> QED
  BY <1>1, Inductive, PTL

\* Nor does a mail disappear behind the cursor on disk, whatever is written there
\* and whenever the program dies.
THEOREM NoGapBehindDisk == Spec => []NoGapOnDisk
<1>1. IInv => NoGapOnDisk
  BY DEF IInv, Coverage, Covered, Reached, NoGapOnDisk
<1> QED
  BY <1>1, Inductive, PTL

\* The pipeline implements MailDelivery: a chat message that parses is the
\* announcement, saving it keeps it, closing the page starts a new session, and
\* every other step is a stutter.
THEOREM Implements == Spec => DeliveryPromise
<1> USE DEF Delivery!DNext, Delivery!Announce, Delivery!Keep, Delivery!NewSession, Delivery!dvars
<1>1. Init => Delivery!DInit
  BY DEF Init, Delivery!DInit
<1>2. IInv /\ [Next]_vars => [Delivery!DNext]_<<notices, stored>>
  <2> SUFFICES ASSUME IInv, [Next]_vars PROVE [Delivery!DNext]_<<notices, stored>>
    OBVIOUS
  <2>t. notices \in [Uids -> Nat]
    BY DEF IInv, TypeOK, Ranges
  <2>1. ASSUME NEW p \in Procs, Parsed(p) PROVE [Delivery!DNext]_<<notices, stored>>
    <3>1. CASE Kind[uid[p]] = "chat"
      <4>1. uid[p] \in Uids /\ notices[uid[p]] = 0
        BY <2>1 DEF IInv, Ownership, Parsed, Busy, Claimed
      <4>2. Delivery!Announce(uid[p])
        BY <2>1, <3>1, <4>1, <2>t DEF Parsed
      <4> QED
        BY <4>1, <4>2
    <3>2. CASE Kind[uid[p]] # "chat"
      BY <2>1, <3>2 DEF Parsed
    <3> QED
      BY <3>1, <3>2
  <2>2. ASSUME NEW p \in Procs, SaveMessage(p) PROVE [Delivery!DNext]_<<notices, stored>>
    <3>1. uid[p] \in Uids /\ notices[uid[p]] = 1
      BY <2>2 DEF IInv, Ownership, SaveMessage, Busy, Claimed
    <3>2. Delivery!Keep(uid[p])
      BY <2>2, <3>1 DEF SaveMessage
    <3> QED
      BY <3>1, <3>2
  <2>3. CASE Crash
    BY <2>3 DEF Crash
  <2>4. CASE /\ ~Crash
             /\ \A p \in Procs : ~Parsed(p) /\ ~SaveMessage(p)
    BY <2>4 DEF Next, Handle, vars, histVars, Deliver, Connect, SendOpens,
         SocketCloses, PushArrives, PushUnheard,
       FetchOk, WsFetchFails, FetchFails, Dedup, HandlerThrows, BgStart, BgListed,
       BgNext, BgDone, Persist, Restart, OrphanPush,
       LoadReads, LoadCursor, LoadTransport, LoadRejects, loadVars
  <2> QED
    BY <2>1, <2>2, <2>3, <2>4
<1> QED
  BY <1>1, <1>2, Inductive, PTL DEF Spec, DeliveryPromise, Delivery!DSpec
=============================================================================
