---------------------------- MODULE ChatsProofs ----------------------------
(***************************************************************************)
(* Theorems about Chats, for any number of messages, operations and        *)
(* copies, for both stores.  IInv: every operation is at an await of its   *)
(* own code with the rows it needs (About, At, Holds), and whatever row of *)
(* an outgoing message is stored or in hand is true (Truthful), so that    *)
(* writing back a stale one does no harm.  CInv adds who settles what is   *)
(* stored while there is no chat (Settled), and what MemoryStore owes to   *)
(* handing out the rows themselves: who holds the stored chat row holds it *)
(* as it is (OneCounter), a message stored once is one object (Objects),   *)
(* that object accounts for the receipts of an arrival (Accounted), and no *)
(* receipt passes a message of ours that is still to be stored (Effective). *)
(***************************************************************************)
EXTENDS Chats, FiniteSetTheorems, TLAPS

ChatOrNone == ChatRows \cup {NoRow}
MsgOrNone == MsgRows \cup {NoRow}

\* The operation h is well placed.
Placed(h) == About(h) /\ At(h) /\ Holds(h)

\* What one step of h may do to the other operations: nothing but update a row
\* they hold with a row.
Others(h) ==
    \A g \in Handlers \ {h} :
        /\ pc'[g] = pc[g] /\ job'[g] = job[g]
        /\ cbuf[g] # NoRow => cbuf'[g] # NoRow
        /\ \A m \in Msgs : mbuf[g][m] # NoRow => mbuf'[g][m] # NoRow

USE NoRowAssumption

-----------------------------------------------------------------------------
\* Lemmas on rows

LEMMA MsgNat == Msgs \subseteq Nat /\ Incoming \subseteq Msgs /\ Outgoing \subseteq Msgs
             /\ Incoming \cap Outgoing = {}
BY MsgsAssumption DEF Msgs

LEMMA NewRows ==
  ASSUME StoreType
  PROVE  /\ Fresh \in Nat /\ NewChat \in ChatRows /\ NewMsg \in MsgRows
         /\ NewChat # NoRow /\ NewMsg # NoRow /\ NewMsg.seen = FALSE /\ NewChat.unread = 0
<1>1. Fresh \in Nat
  BY DEF StoreType, Fresh
<1>2. NewChat \in ChatRows
  BY <1>1 DEF NewChat, ChatRows
<1>3. NewMsg \in MsgRows
  BY <1>1 DEF NewMsg, MsgRows
<1>4. NewMsg.seen = FALSE /\ NewChat.unread = 0
  BY DEF NewMsg, NewChat
<1> QED
  BY <1>1, <1>2, <1>3, <1>4

LEMMA SeenRow ==
  ASSUME NEW r \in MsgRows
  PROVE  [r EXCEPT !.seen = TRUE] \in MsgRows /\ [r EXCEPT !.seen = TRUE].seen = TRUE
BY DEF MsgRows

\* The other operations stay well placed.
LEMMA OthersPlaced ==
  ASSUME ControlType, WorldType, ownSeen \subseteq ownSeen',
         NEW h \in Handlers, Others(h), NEW g \in Handlers \ {h}, Placed(g)
  PROVE  Placed(g)'
<1>1. pc'[g] = pc[g] /\ job'[g] = job[g] /\ (cbuf[g] # NoRow => cbuf'[g] # NoRow)
      /\ \A m \in Msgs : mbuf[g][m] # NoRow => mbuf'[g][m] # NoRow
  BY DEF Others
<1>2. About(g)'
  BY <1>1 DEF Placed, About
<1>3. At(g)'
  BY <1>1 DEF Placed, At
<1>4. pc[g] \in {"amend", "see", "reply"} \/ (pc[g] = "rewrite" /\ job[g].op = "send")
      => job[g].msg \in Msgs
  BY MsgNat DEF Placed, About, At, WorldType
<1>5. Holds(g)'
  BY <1>1, <1>4 DEF Placed, Holds
<1> QED
  BY <1>2, <1>3, <1>5 DEF Placed

LEMMA Combine ==
  ASSUME IInv, NEW h \in Handlers, TypeOK', Truthful', Others(h), Placed(h)',
         ownSeen \subseteq ownSeen'
  PROVE  IInv'
<1>1. \A g \in Handlers \ {h} : Placed(g)'
  BY OthersPlaced DEF IInv, TypeOK, Placed
<1> QED
  BY <1>1 DEF IInv, Placed

-----------------------------------------------------------------------------
\* How the operations go on

\* Hold leaves the other operations alone, and the rows in hand are true if those
\* taken along are.
LEMMA HoldKeeps ==
  ASSUME IInv, NEW h \in Handlers, NEW l \in Labels, NEW c \in ChatOrNone,
         NEW b \in [Msgs -> MsgOrNone],
         Hold(h, l, c, b), \A m \in Outgoing : Honest(m, b[m]),
         job[h].op = "send" => l = "idle" \/ l = "sending" \/ job[h].msg \in accepted,
         UNCHANGED <<ops, mdns, accepted, peerRead, ownSeen>>,
         \A m \in Outgoing : row'[m] \in {row[m], NoRow}
  PROVE  /\ BufType' /\ ControlType' /\ Truthful' /\ Others(h)
         /\ pc'[h] = l
         /\ l # "idle" => job'[h] = job[h] /\ cbuf'[h] = c /\ mbuf'[h] = b
         /\ l = "idle" => job'[h] = NoJob
<1> USE DEF ChatOrNone, MsgOrNone
<1>1. TypeOK /\ Truthful
  BY DEF IInv
<1>2. NoJob \in Jobs /\ NoMsgs \in [Msgs -> MsgOrNone]
  BY DEF NoJob, Jobs, NoMsgs
<1>3. /\ pc' = [pc EXCEPT ![h] = l]
      /\ job' = [job EXCEPT ![h] = IF l = "idle" THEN NoJob ELSE job[h]]
      /\ cbuf' = [cbuf EXCEPT ![h] = IF l = "idle" THEN NoRow ELSE c]
      /\ mbuf' = [mbuf EXCEPT ![h] = IF l = "idle" THEN NoMsgs ELSE b]
  BY DEF Hold, Goto, Kept, KeptAll
<1>4. ControlType'
  BY <1>1, <1>2, <1>3 DEF TypeOK, ControlType
<1>5. BufType'
  BY <1>1, <1>2, <1>3 DEF TypeOK, BufType
<1>6. Others(h)
  BY <1>1, <1>3 DEF Others, TypeOK, ControlType, BufType
<1>7. /\ pc'[h] = l
      /\ l # "idle" => job'[h] = job[h] /\ cbuf'[h] = c /\ mbuf'[h] = b
      /\ l = "idle" => job'[h] = NoJob /\ mbuf'[h] = NoMsgs
  BY <1>1, <1>3 DEF TypeOK, ControlType, BufType
<1>8. \A m \in Outgoing : Honest(m, row[m])'
  BY <1>1 DEF Truthful, Honest
<1>9. ASSUME NEW m \in Outgoing, NEW g \in Handlers PROVE Honest(m, mbuf[g][m])'
  <2>1. CASE g = h
    BY <1>7, <2>1, MsgNat DEF NoMsgs, Honest
  <2>2. CASE g # h
    <3>1. mbuf'[g] = mbuf[g]
      BY <1>1, <1>3, <2>2 DEF TypeOK, BufType
    <3>2. Honest(m, mbuf[g][m])
      BY <1>1 DEF Truthful
    <3> QED
      BY <3>1, <3>2 DEF Honest
  <2> QED
    BY <2>1, <2>2
<1>10. ASSUME NEW g \in Handlers
       PROVE  /\ job'[g].op = "receipt" => job'[g].msg \in peerRead'
              /\ job'[g].op = "send" /\ pc'[g] # "sending" => job'[g].msg \in accepted'
  <2>1. CASE g = h
    BY <1>1, <1>7, <2>1 DEF NoJob, Truthful
  <2>2. CASE g # h
    BY <1>1, <1>6, <2>2 DEF Truthful, Others
  <2> QED
    BY <2>1, <2>2
<1>11. Truthful'
  BY <1>1, <1>8, <1>9, <1>10 DEF Truthful, Honest
<1> QED
  BY <1>4, <1>5, <1>6, <1>7, <1>11

\* SaveChat likewise; who holds the object sees the change.
LEMMA SaveChatKeeps ==
  ASSUME IInv, NEW h \in Handlers, NEW l \in Labels, NEW c \in ChatRows, NEW n \in Nat,
         SaveChat(h, c, n, l), objects' \in Nat,
         job[h].op = "send" => l = "idle" \/ l = "sending" \/ job[h].msg \in accepted,
         UNCHANGED <<shared, ops, mdns, accepted, peerRead, ownSeen>>
  PROVE  /\ StoreType' /\ BufType' /\ ControlType' /\ Truthful' /\ Others(h)
         /\ counted' \in Nat
         /\ pc'[h] = l
         /\ l # "idle" => job'[h] = job[h] /\ cbuf'[h] = c /\ mbuf'[h] = mbuf[h]
         /\ l = "idle" => job'[h] = NoJob
<1> USE DEF ChatOrNone, MsgOrNone
<1>1. TypeOK /\ Truthful
  BY DEF IInv
<1>2. NoJob \in Jobs /\ NoMsgs \in [Msgs -> MsgOrNone]
  BY DEF NoJob, Jobs, NoMsgs
<1>3. /\ pc' = [pc EXCEPT ![h] = l]
      /\ job' = [job EXCEPT ![h] = IF l = "idle" THEN NoJob ELSE job[h]]
      /\ cbuf' = [g \in Handlers |-> IF g = h THEN (IF l = "idle" THEN NoRow ELSE c)
                                    ELSE IF Same(cbuf[g], c) THEN c ELSE cbuf[g]]
      /\ mbuf' = [mbuf EXCEPT ![h] = IF l = "idle" THEN NoMsgs ELSE mbuf[h]]
      /\ row' = row /\ chat' = c
      /\ counted' \in {n, c.unread}
  BY DEF SaveChat, Goto, Kept, KeptAll
<1>4. ControlType'
  BY <1>1, <1>2, <1>3 DEF TypeOK, ControlType
<1>5. BufType'
  BY <1>1, <1>2, <1>3 DEF TypeOK, BufType
<1>6. StoreType'
  BY <1>1, <1>3 DEF TypeOK, StoreType
<1>7. Others(h)
  BY <1>1, <1>3 DEF Others, TypeOK, ControlType, BufType
<1>8. /\ pc'[h] = l
      /\ l # "idle" => job'[h] = job[h] /\ cbuf'[h] = c /\ mbuf'[h] = mbuf[h]
      /\ l = "idle" => job'[h] = NoJob /\ mbuf'[h] = NoMsgs
  BY <1>1, <1>3 DEF TypeOK, ControlType, BufType
<1>9. ASSUME NEW m \in Outgoing, NEW g \in Handlers PROVE Honest(m, mbuf[g][m])'
  <2>1. mbuf'[g] \in {mbuf[g], NoMsgs}
    BY <1>1, <1>3 DEF TypeOK, BufType
  <2>2. mbuf'[g][m] \in {mbuf[g][m], NoRow}
    BY <2>1, MsgNat DEF NoMsgs
  <2>3. Honest(m, mbuf[g][m])
    BY <1>1 DEF Truthful
  <2> QED
    BY <2>2, <2>3 DEF Honest
<1>10. ASSUME NEW g \in Handlers
       PROVE  /\ job'[g].op = "receipt" => job'[g].msg \in peerRead'
              /\ job'[g].op = "send" /\ pc'[g] # "sending" => job'[g].msg \in accepted'
  <2>1. CASE g = h
    BY <1>1, <1>8, <2>1 DEF NoJob, Truthful
  <2>2. CASE g # h
    BY <1>1, <1>7, <2>2 DEF Truthful, Others
  <2> QED
    BY <2>1, <2>2
<1>11. Truthful'
  BY <1>1, <1>3, <1>9, <1>10 DEF Truthful, Honest
<1>12. counted' \in Nat
  BY <1>3 DEF ChatRows
<1> QED
  BY <1>4, <1>5, <1>6, <1>7, <1>8, <1>11, <1>12

\* SaveMessage of a true row.
LEMMA SaveMessageKeeps ==
  ASSUME IInv, NEW h \in Handlers, NEW l \in Labels, NEW m \in Msgs, NEW r \in MsgRows,
         NEW b \in [Msgs -> MsgOrNone],
         SaveMessage(h, m, r, b, l), objects' \in Nat,
         m \in Outgoing => Honest(m, r), \A k \in Outgoing : Honest(k, b[k]),
         job[h].op = "send" => m \in accepted, job[h].op = "receipt" => m \in peerRead,
         UNCHANGED <<shared, ops, mdns, accepted, peerRead, ownSeen>>
  PROVE  /\ StoreType' /\ BufType' /\ ControlType' /\ Truthful' /\ Others(h)
         /\ pc'[h] = l
         /\ l # "idle" => job'[h] = [op |-> job[h].op, msg |-> m]
                          /\ cbuf'[h] = cbuf[h] /\ mbuf'[h] = b
         /\ l = "idle" => job'[h] = NoJob
<1> USE DEF ChatOrNone, MsgOrNone
<1>1. TypeOK /\ Truthful
  BY DEF IInv
<1>2. NoJob \in Jobs /\ NoMsgs \in [Msgs -> MsgOrNone]
  BY DEF NoJob, Jobs, NoMsgs
<1>3. job[h] \in Jobs /\ m \in Nat
  BY <1>1, MsgNat DEF TypeOK, ControlType
<1>4. [job[h] EXCEPT !.msg = m] = [op |-> job[h].op, msg |-> m]
      /\ [job[h] EXCEPT !.msg = m] \in Jobs
  BY <1>3 DEF Jobs
<1>5. /\ pc' = [pc EXCEPT ![h] = l]
      /\ job' = [job EXCEPT ![h] = IF l = "idle" THEN NoJob ELSE [job[h] EXCEPT !.msg = m]]
      /\ cbuf' = [cbuf EXCEPT ![h] = IF l = "idle" THEN NoRow ELSE cbuf[h]]
      /\ row' = [row EXCEPT ![m] = r] /\ chat' = chat
  BY DEF SaveMessage, Kept
<1>6. mbuf' = [g \in Handlers |-> IF g = h THEN (IF l = "idle" THEN NoMsgs ELSE b)
                                ELSE IF Same(mbuf[g][m], r) THEN [mbuf[g] EXCEPT ![m] = r]
                                ELSE mbuf[g]]
  BY DEF SaveMessage, KeptAll
<1>7. ControlType'
  BY <1>1, <1>2, <1>4, <1>5 DEF TypeOK, ControlType
<1>8. BufType'
  <2>1. cbuf' \in [Handlers -> ChatOrNone]
    BY <1>1, <1>5 DEF TypeOK, BufType
  <2>2. \A g \in Handlers : [mbuf[g] EXCEPT ![m] = r] \in [Msgs -> MsgOrNone]
    BY <1>1 DEF TypeOK, BufType
  <2>3. mbuf' \in [Handlers -> [Msgs -> MsgOrNone]]
    BY <1>1, <1>2, <1>6, <2>2 DEF TypeOK, BufType
  <2> QED
    BY <2>1, <2>3 DEF BufType
<1>9. StoreType'
  BY <1>1, <1>5 DEF TypeOK, StoreType
<1>10. r # NoRow
  OBVIOUS
<1>11. ASSUME NEW g \in Handlers \ {h}, NEW k \in Msgs
       PROVE  mbuf'[g][k] = mbuf[g][k] \/ (k = m /\ mbuf'[g][k] = r)
  BY <1>1, <1>6 DEF TypeOK, BufType
<1>12. Others(h)
  BY <1>1, <1>5, <1>10, <1>11 DEF Others, TypeOK, ControlType, BufType
<1>13. /\ pc'[h] = l
       /\ l # "idle" => job'[h] = [op |-> job[h].op, msg |-> m]
                          /\ cbuf'[h] = cbuf[h] /\ mbuf'[h] = b
       /\ l = "idle" => job'[h] = NoJob /\ mbuf'[h] = NoMsgs
  BY <1>1, <1>4, <1>5, <1>6 DEF TypeOK, ControlType, BufType
<1>14. ASSUME NEW k \in Outgoing PROVE Honest(k, row[k])'
  BY <1>1, <1>5, MsgNat DEF Truthful, Honest, TypeOK, StoreType
<1>15. ASSUME NEW k \in Outgoing, NEW g \in Handlers PROVE Honest(k, mbuf[g][k])'
  <2>1. CASE g = h
    BY <1>13, <2>1, MsgNat DEF NoMsgs, Honest
  <2>2. CASE g # h
    <3>1. Honest(k, mbuf[g][k])
      BY <1>1 DEF Truthful
    <3> QED
      BY <1>11, <2>2, <3>1, MsgNat DEF Honest
  <2> QED
    BY <2>1, <2>2
<1>16. ASSUME NEW g \in Handlers
       PROVE  /\ job'[g].op = "receipt" => job'[g].msg \in peerRead'
              /\ job'[g].op = "send" /\ pc'[g] # "sending" => job'[g].msg \in accepted'
  <2>1. CASE g = h
    BY <1>13, <2>1 DEF NoJob
  <2>2. CASE g # h
    BY <1>1, <1>12, <2>2 DEF Truthful, Others
  <2> QED
    BY <2>1, <2>2
<1>17. Truthful'
  BY <1>1, <1>14, <1>15, <1>16 DEF Truthful, Honest
<1> QED
  BY <1>7, <1>8, <1>9, <1>12, <1>13, <1>17

\* What Placed(h) asks of an operation op about m at l with the rows c and b, when
\* the application has marked the messages own.
FitIn(own, op, m, l, c, b) ==
    /\ op = "chat" => m \in Incoming
    /\ op = "markSeen" => m \in Incoming \cup own
    /\ op \in {"receipt", "send"} => m \in Outgoing
    /\ op \in {"delete", "reaction", "deleteLocal", "sendDelete", "sendAmend"} => m \in Msgs
    /\ l = "mdn" => op \in {"markRead", "markSeen"} /\ m \in Incoming
    /\ l = "create" => op \in {"chat", "delete", "receipt", "reaction", "send"}
    /\ l \in {"ephemeral", "timer", "dedup", "save", "summary"} => op = "chat"
    /\ l \in {"target", "amend"} => op \in {"receipt", "reaction", "sendAmend"}
    /\ l = "erase" => op \in {"delete", "deleteLocal", "sendDelete"}
    /\ l = "sending" => op \in {"send", "sendDelete", "sendAmend"}
    /\ l \in {"lookup", "persist", "reply"} => op = "send"
    /\ l = "preview" => op = "deleteLocal"
    /\ l = "see" => op = "markSeen"
    /\ l \in {"list", "reading", "reset"} => op = "markRead"
    /\ l \in {"rewrite", "count", "reset"} => c # NoRow
    /\ l = "erase" /\ op = "delete" => c # NoRow
    /\ l \in {"amend", "see", "reply"} => b[m] # NoRow
    /\ l = "rewrite" /\ op = "send" => b[m] # NoRow
Fit(op, m, l, c, b) == FitIn(ownSeen, op, m, l, c, b)

LEMMA PlacedFit ==
  ASSUME NEW h \in Handlers
  PROVE  Placed(h) <=> Fit(job[h].op, job[h].msg, pc[h], cbuf[h], mbuf[h])
BY DEF Placed, About, At, Holds, Fit, FitIn

\* An operation that is over is well placed.
LEMMA IdleFits ==
  ASSUME NEW h \in Handlers, pc'[h] = "idle", job'[h] = NoJob
  PROVE  Placed(h)'
BY DEF NoJob, Placed, About, At, Holds

LEMMA HoldStep ==
  ASSUME IInv, NEW h \in Handlers, NEW l \in Labels, NEW c \in ChatOrNone,
         NEW b \in [Msgs -> MsgOrNone],
         Hold(h, l, c, b), \A m \in Outgoing : Honest(m, b[m]),
         job[h].op = "send" => l = "idle" \/ l = "sending" \/ job[h].msg \in accepted,
         UNCHANGED <<ops, mdns, accepted, peerRead, ownSeen>>,
         \A m \in Outgoing : row'[m] \in {row[m], NoRow},
         StoreType', WorldType', HistoryType',
         l = "idle" \/ Fit(job[h].op, job[h].msg, l, c, b)
  PROVE  IInv'
<1>1. /\ BufType' /\ ControlType' /\ Truthful' /\ Others(h)
      /\ pc'[h] = l
      /\ l # "idle" => job'[h] = job[h] /\ cbuf'[h] = c /\ mbuf'[h] = b
      /\ l = "idle" => job'[h] = NoJob
  BY HoldKeeps
<1>2. CASE l = "idle"
  BY <1>1, <1>2, IdleFits, Combine DEF TypeOK
<1>3. CASE l # "idle"
  <2>1. Fit(job'[h].op, job'[h].msg, pc'[h], cbuf'[h], mbuf'[h])
    BY <1>1, <1>3
  <2>2. Placed(h)'
    BY <2>1 DEF Placed, About, At, Holds, Fit, FitIn
  <2> QED
    BY <1>1, <2>2, Combine DEF TypeOK
<1> QED
  BY <1>2, <1>3

\* The same for a step that only reads.
LEMMA HoldQuiet ==
  ASSUME IInv, NEW h \in Handlers, NEW l \in Labels, NEW c \in ChatOrNone,
         NEW b \in [Msgs -> MsgOrNone],
         Hold(h, l, c, b), \A m \in Outgoing : Honest(m, b[m]),
         job[h].op = "send" => l = "idle" \/ l = "sending" \/ job[h].msg \in accepted,
         UNCHANGED <<shared, store, ops, world, history>>,
         l = "idle" \/ Fit(job[h].op, job[h].msg, l, c, b)
  PROVE  IInv'
<1>1. StoreType' /\ WorldType' /\ HistoryType'
  BY DEF IInv, TypeOK, StoreType, WorldType, HistoryType, store, world, history
<1>2. UNCHANGED <<ops, mdns, accepted, peerRead, ownSeen, row>>
  BY DEF store, world
<1> QED
  BY <1>1, <1>2, HoldStep

LEMMA SaveChatStep ==
  ASSUME IInv, NEW h \in Handlers, NEW l \in Labels, NEW c \in ChatRows, NEW n \in Nat,
         SaveChat(h, c, n, l), objects' \in Nat,
         job[h].op = "send" => l = "idle" \/ l = "sending" \/ job[h].msg \in accepted,
         UNCHANGED <<shared, ops, world, filed, receipts, missed, stray>>,
         l = "idle" \/ Fit(job[h].op, job[h].msg, l, c, mbuf[h])
  PROVE  IInv'
<1>0. UNCHANGED <<shared, ops, mdns, accepted, peerRead, ownSeen>>
  BY DEF world
<1>1. /\ StoreType' /\ BufType' /\ ControlType' /\ Truthful' /\ Others(h)
      /\ counted' \in Nat
      /\ pc'[h] = l
      /\ l # "idle" => job'[h] = job[h] /\ cbuf'[h] = c /\ mbuf'[h] = mbuf[h]
      /\ l = "idle" => job'[h] = NoJob
  BY <1>0, SaveChatKeeps
<1>2. WorldType' /\ HistoryType'
  BY <1>1 DEF IInv, TypeOK, WorldType, HistoryType, world
<1>3. CASE l = "idle"
  BY <1>0, <1>1, <1>2, <1>3, IdleFits, Combine DEF TypeOK
<1>4. CASE l # "idle"
  <2>1. Fit(job'[h].op, job'[h].msg, pc'[h], cbuf'[h], mbuf'[h])
    BY <1>1, <1>4
  <2>2. Placed(h)'
    BY <1>0, <2>1 DEF Placed, About, At, Holds, Fit, FitIn
  <2> QED
    BY <1>0, <1>1, <1>2, <2>2, Combine DEF TypeOK
<1> QED
  BY <1>3, <1>4

LEMMA SaveMessageStep ==
  ASSUME IInv, NEW h \in Handlers, NEW l \in Labels, NEW m \in Msgs, NEW r \in MsgRows,
         NEW b \in [Msgs -> MsgOrNone],
         SaveMessage(h, m, r, b, l), objects' \in Nat,
         m \in Outgoing => Honest(m, r), \A k \in Outgoing : Honest(k, b[k]),
         job[h].op = "send" => m \in accepted, job[h].op = "receipt" => m \in peerRead,
         UNCHANGED <<shared, ops, world>>, HistoryType',
         l = "idle" \/ Fit(job[h].op, m, l, cbuf[h], b)
  PROVE  IInv'
<1>0. UNCHANGED <<shared, ops, mdns, accepted, peerRead, ownSeen>> /\ WorldType'
  BY DEF world, IInv, TypeOK, WorldType
<1>1. /\ StoreType' /\ BufType' /\ ControlType' /\ Truthful' /\ Others(h)
      /\ pc'[h] = l
      /\ l # "idle" => job'[h] = [op |-> job[h].op, msg |-> m]
                          /\ cbuf'[h] = cbuf[h] /\ mbuf'[h] = b
      /\ l = "idle" => job'[h] = NoJob
  BY <1>0, SaveMessageKeeps
<1>3. CASE l = "idle"
  BY <1>0, <1>1, <1>3, IdleFits, Combine DEF TypeOK
<1>4. CASE l # "idle"
  <2>1. Fit(job'[h].op, job'[h].msg, pc'[h], cbuf'[h], mbuf'[h])
    BY <1>1, <1>4
  <2>2. Placed(h)'
    BY <1>0, <2>1 DEF Placed, About, At, Holds, Fit, FitIn
  <2> QED
    BY <1>0, <1>1, <2>2, Combine DEF TypeOK
<1> QED
  BY <1>3, <1>4

LEMMA Facts ==
  ASSUME IInv, NEW h \in Handlers
  PROVE  /\ chat \in ChatOrNone /\ row \in [Msgs -> MsgOrNone]
         /\ cbuf[h] \in ChatOrNone /\ mbuf[h] \in [Msgs -> MsgOrNone]
         /\ pc[h] \in Labels /\ job[h] \in Jobs
         /\ Fit(job[h].op, job[h].msg, pc[h], cbuf[h], mbuf[h])
         /\ \A m \in Outgoing : Honest(m, row[m]) /\ Honest(m, mbuf[h][m])
         /\ job[h].op = "receipt" => job[h].msg \in peerRead
         /\ job[h].op = "send" /\ pc[h] # "sending" => job[h].msg \in accepted
<1>1. TypeOK /\ Truthful /\ Placed(h)
  BY DEF IInv, Placed
<1>2. /\ chat \in ChatOrNone /\ row \in [Msgs -> MsgOrNone]
      /\ cbuf[h] \in ChatOrNone /\ mbuf[h] \in [Msgs -> MsgOrNone]
      /\ pc[h] \in Labels /\ job[h] \in Jobs
  BY <1>1 DEF TypeOK, StoreType, BufType, ControlType, ChatOrNone, MsgOrNone
<1> QED
  BY <1>1, <1>2, PlacedFit DEF Truthful

LEMMA ReadStep ==
  ASSUME IInv, NEW h \in Handlers, NEW found \in Labels, NEW missing \in Labels,
         ReadChat(h, found, missing), UNCHANGED <<shared, ops, world, history>>,
         job[h].op = "send" => job[h].msg \in accepted,
         chat # NoRow => found = "idle" \/ Fit(job[h].op, job[h].msg, found, chat, mbuf[h]),
         chat = NoRow => missing = "idle" \/ Fit(job[h].op, job[h].msg, missing, chat, mbuf[h])
  PROVE  IInv'
<1> DEFINE l == IF chat = NoRow THEN missing ELSE found
<1>1. Hold(h, l, chat, mbuf[h]) /\ UNCHANGED store
  BY DEF ReadChat
<1>2. l \in Labels
  OBVIOUS
<1>3. l = "idle" \/ Fit(job[h].op, job[h].msg, l, chat, mbuf[h])
  OBVIOUS
<1> HIDE DEF l
<1> QED
  BY <1>1, <1>2, <1>3, Facts, HoldQuiet

LEMMA SkipStep ==
  ASSUME IInv, NEW h \in Handlers, NEW l \in Labels, Skip(h, l),
         UNCHANGED <<shared, store, ops, world, history>>,
         job[h].op = "send" => l = "idle" \/ job[h].msg \in accepted,
         l = "idle" \/ Fit(job[h].op, job[h].msg, l, cbuf[h], mbuf[h])
  PROVE  IInv'
BY Facts, HoldQuiet DEF Skip

-----------------------------------------------------------------------------
\* Steps several operations share

LEMMA CreateChatStep == ASSUME IInv, NEW h \in Handlers, CreateChat(h) PROVE IInv'
<1> DEFINE l == IF pc[h] = "create" THEN AfterOpen(job[h].op) ELSE "idle"
<1>1. SaveChat(h, NewChat, 0, l) /\ objects' = Fresh
      /\ UNCHANGED <<shared, ops, world, filed, receipts, missed, stray>>
  BY DEF CreateChat
<1>2. Fresh \in Nat /\ NewChat \in ChatRows /\ NewChat # NoRow
  BY NewRows DEF IInv, TypeOK
<1>3. l \in Labels /\ l # "sending"
      /\ (l = "idle" \/ Fit(job[h].op, job[h].msg, l, NewChat, mbuf[h]))
  BY Facts, <1>2 DEF AfterOpen, Labels, Fit, FitIn
<1>4. pc[h] # "sending"
  BY DEF CreateChat
<1> HIDE DEF l
<1> QED
  BY <1>1, <1>2, <1>3, <1>4, Facts, SaveChatStep

LEMMA ReadTargetStep == ASSUME IInv, NEW h \in Handlers, ReadTarget(h) PROVE IInv'
<1> DEFINE m == job[h].msg
           l == IF row[m] = NoRow THEN "idle" ELSE "amend"
           b == [mbuf[h] EXCEPT ![m] = row[m]]
<1>1. /\ pc[h] = "target" /\ Hold(h, l, cbuf[h], b)
      /\ UNCHANGED <<shared, store, ops, world, counted, filed, receipts, stray>>
      /\ missed' \in {missed, missed \cup {m}}
      /\ missed' # missed => job[h].op = "receipt"
  BY DEF ReadTarget
<1>2. m \in Msgs /\ (job[h].op = "receipt" => m \in Outgoing)
      /\ job[h].op \in {"receipt", "reaction", "sendAmend"}
  BY <1>1, Facts, MsgNat DEF Fit, FitIn
<1>3. b \in [Msgs -> MsgOrNone] /\ b[m] = row[m] /\ \A k \in Outgoing : Honest(k, b[k])
  BY <1>2, Facts, MsgNat
<1>4. l \in Labels /\ (l = "idle" \/ Fit(job[h].op, m, l, cbuf[h], b))
  BY <1>1, <1>2, <1>3, Facts DEF Labels, Fit, FitIn
<1>5. StoreType' /\ WorldType' /\ HistoryType'
  BY <1>1, <1>2 DEF IInv, TypeOK, StoreType, WorldType, HistoryType, store, world
<1>6. UNCHANGED <<ops, mdns, accepted, peerRead, ownSeen, row>>
  BY <1>1 DEF store, world
<1> HIDE DEF m, l, b
<1>7. \A k \in Outgoing : row'[k] \in {row[k], NoRow}
  BY <1>6
<1>8. job[h].op # "send"
  BY <1>2
<1> QED
  BY <1>1, <1>3, <1>4, <1>5, <1>6, <1>7, <1>8, Facts, HoldStep DEF m

\* A row written back is a true one.
LEMMA WriteBackStep ==
  ASSUME IInv, NEW h \in Handlers, NEW l \in Labels, NEW m \in Msgs, NEW r \in MsgRows,
         NEW b \in [Msgs -> MsgOrNone],
         WriteBack(h, m, r, b, l),
         m \in Outgoing => Honest(m, r), \A k \in Outgoing : Honest(k, b[k]),
         job[h].op = "send" => m \in accepted, job[h].op = "receipt" => m \in peerRead,
         UNCHANGED <<shared, ops, world, counted, filed, receipts, missed>>,
         l = "idle" \/ Fit(job[h].op, m, l, cbuf[h], b)
  PROVE  IInv'
<1>1. SaveMessage(h, m, r, b, l) /\ objects' = objects /\ stray' \in {stray, stray \cup {m}}
  BY DEF WriteBack
<1>2. HistoryType' /\ objects' \in Nat
  BY <1>1 DEF IInv, TypeOK, HistoryType, StoreType
<1> QED
  BY <1>1, <1>2, SaveMessageStep

LEMMA AmendStep == ASSUME IInv, NEW h \in Handlers, Amend(h) PROVE IInv'
<1> DEFINE m == job[h].msg
           r == mbuf[h][m]
<1>1. /\ pc[h] = "amend"
      /\ job[h].op \in {"receipt", "reaction", "sendAmend"}
      /\ m \in Msgs /\ (job[h].op = "receipt" => m \in Outgoing)
      /\ r \in MsgRows
  BY Facts, MsgNat DEF Amend, Fit, FitIn, MsgOrNone
<1>2. UNCHANGED <<shared, ops, world, counted, filed, receipts, missed>>
  BY DEF Amend
<1>3. "idle" \in Labels
  BY DEF Labels
<1>4. CASE job[h].op = "receipt"
  <2>1. WriteBack(h, m, [r EXCEPT !.seen = TRUE], mbuf[h], "idle")
    BY <1>1, <1>4 DEF Amend
  <2>2. Honest(m, [r EXCEPT !.seen = TRUE])
    BY <1>1, <1>4, Facts DEF Honest, IInv, Truthful
  <2>3. [r EXCEPT !.seen = TRUE] \in MsgRows
    BY <1>1, SeenRow
  <2> HIDE DEF m, r
  <2> QED
    BY <1>1, <1>2, <1>3, <1>4, <2>1, <2>2, <2>3, Facts, WriteBackStep DEF m
<1>5. CASE job[h].op # "receipt"
  <2>1. WriteBack(h, m, r, mbuf[h], "idle")
    BY <1>1, <1>5 DEF Amend
  <2>2. m \in Outgoing => Honest(m, r)
    BY Facts
  <2> HIDE DEF m, r
  <2> QED
    BY <1>1, <1>2, <1>3, <1>5, <2>1, <2>2, Facts, WriteBackStep
<1> QED
  BY <1>4, <1>5

\* A row that goes away does no harm.
LEMMA EraseTypes ==
  ASSUME IInv, NEW m, row' = [row EXCEPT ![m] = NoRow],
         UNCHANGED <<shared, chat, objects, ops, world, history>>
  PROVE  /\ StoreType' /\ WorldType' /\ HistoryType'
         /\ UNCHANGED <<ops, mdns, accepted, peerRead, ownSeen>>
         /\ \A k \in Outgoing : row'[k] \in {row[k], NoRow}
<1>1. StoreType'
  BY DEF IInv, TypeOK, StoreType
<1>2. WorldType' /\ HistoryType' /\ UNCHANGED <<ops, mdns, accepted, peerRead, ownSeen>>
  BY DEF IInv, TypeOK, WorldType, HistoryType, world, history
<1>3. \A k \in Outgoing : row'[k] \in {row[k], NoRow}
  BY MsgNat DEF IInv, TypeOK, StoreType
<1> QED
  BY <1>1, <1>2, <1>3

LEMMA EraseStep == ASSUME IInv, NEW h \in Handlers, Erase(h) PROVE IInv'
<1> DEFINE op == job[h].op
           l == CASE op = "delete" -> "rewrite" [] op = "deleteLocal" -> "preview" [] OTHER -> "idle"
<1>1. /\ pc[h] = "erase" /\ Hold(h, l, cbuf[h], mbuf[h])
      /\ row' = [row EXCEPT ![job[h].msg] = NoRow]
      /\ UNCHANGED <<shared, chat, objects, ops, world, history>>
  BY DEF Erase, Skip
<1>2. l \in Labels /\ op \in {"delete", "deleteLocal", "sendDelete"}
  BY <1>1, Facts DEF Labels, Fit, FitIn
<1>3. l = "idle" \/ Fit(op, job[h].msg, l, cbuf[h], mbuf[h])
  BY <1>1, <1>2, Facts DEF Fit, FitIn
<1> HIDE DEF l
<1> QED
  BY <1>1, <1>2, <1>3, Facts, EraseTypes, HoldStep

LEMMA EraseListedStep == ASSUME IInv, NEW h \in Handlers, EraseListed(h) PROVE IInv'
<1>1. pc[h] = "erasing" /\ UNCHANGED <<shared, chat, objects, ops, world, history>>
  BY DEF EraseListed
<1>2. job[h].op = "send" => job[h].msg \in accepted
  BY <1>1, Facts
<1>3. CASE Skip(h, "idle") /\ UNCHANGED row
  <2>1. UNCHANGED store
    BY <1>1, <1>3 DEF store
  <2> QED
    BY <1>1, <1>2, <1>3, <2>1, SkipStep DEF Labels
<1>4. ASSUME NEW m \in First(Held(h)), row' = [row EXCEPT ![m] = NoRow],
             Hold(h, "erasing", cbuf[h], Without(h, m))
      PROVE  IInv'
  <2>1. Without(h, m) \in [Msgs -> MsgOrNone] /\ \A k \in Outgoing : Honest(k, Without(h, m)[k])
    BY Facts, MsgNat DEF Without, Honest, MsgOrNone, First, Held
  <2>2. Fit(job[h].op, job[h].msg, "erasing", cbuf[h], Without(h, m))
    BY <1>1, Facts DEF Fit, FitIn
  <2>3. "erasing" \in Labels
    BY DEF Labels
  <2> QED
    BY <1>1, <1>2, <1>4, <2>1, <2>2, <2>3, Facts, EraseTypes, HoldStep
<1> QED
  BY <1>3, <1>4 DEF EraseListed

LEMMA PreviewDeletedStep == ASSUME IInv, NEW h \in Handlers, PreviewDeleted(h) PROVE IInv'
<1> SUFFICES ASSUME NEW l \in {"rewrite", "idle"}, ReadChat(h, l, "idle"), pc[h] = "preview",
                    UNCHANGED <<shared, ops, world, history>>
             PROVE  IInv'
  BY DEF PreviewDeleted
<1>1. job[h].op = "deleteLocal"
  BY Facts DEF Fit, FitIn
<1> QED
  BY <1>1, Facts, ReadStep DEF Labels, Fit, FitIn

LEMMA WriteSettingStep ==
  ASSUME IInv, NEW h \in Handlers, NEW l \in Labels, WriteSetting(h, l), pc[h] # "sending",
         UNCHANGED <<shared, ops, world, filed, receipts, missed, stray>>,
         \A c \in ChatRows : l = "idle" \/ Fit(job[h].op, job[h].msg, l, c, mbuf[h])
  PROVE  IInv'
<1> DEFINE c == IF cbuf[h] = NoRow THEN NewChat ELSE cbuf[h]
<1>1. SaveChat(h, c, counted, l) /\ objects' \in {Fresh, objects}
  BY DEF WriteSetting
<1>2. c \in ChatRows /\ Fresh \in Nat /\ objects \in Nat /\ counted \in Nat
  BY NewRows, Facts DEF ChatOrNone, IInv, TypeOK, StoreType, HistoryType
<1> HIDE DEF c
<1> QED
  BY <1>1, <1>2, Facts, SaveChatStep

LEMMA RewriteStep == ASSUME IInv, NEW h \in Handlers, Rewrite(h) PROVE IInv'
<1> SUFFICES ASSUME NEW l \in IF job[h].op = "send" THEN {"idle", "reply"} ELSE {"idle"},
                    SaveChat(h, cbuf[h], counted, l), pc[h] = "rewrite", UNCHANGED objects,
                    UNCHANGED <<shared, ops, world, filed, receipts, missed, stray>>
             PROVE  IInv'
  BY DEF Rewrite
<1>1. cbuf[h] \in ChatRows /\ counted \in Nat /\ objects' \in Nat
  BY Facts DEF Fit, FitIn, ChatOrNone, IInv, TypeOK, StoreType, HistoryType
<1>2. l \in Labels /\ (l = "idle" \/ Fit(job[h].op, job[h].msg, l, cbuf[h], mbuf[h]))
  BY Facts DEF Labels, Fit, FitIn
<1> QED
  BY <1>1, <1>2, Facts, SaveChatStep

-----------------------------------------------------------------------------
\* Incoming mail

LEMMA ReadTimerStep == ASSUME IInv, NEW h \in Handlers, ReadTimer(h) PROVE IInv'
<1>1. pc[h] = "ephemeral" /\ UNCHANGED <<shared, ops, world, history>> /\ job[h].op = "chat"
  BY Facts DEF ReadTimer, Fit, FitIn
<1>2. CASE ReadChat(h, "timer", "timer")
  BY <1>1, <1>2, Facts, ReadStep DEF Labels, Fit, FitIn
<1>3. CASE Skip(h, "dedup") /\ UNCHANGED store
  BY <1>1, <1>3, Facts, SkipStep DEF Labels, Fit, FitIn
<1> QED
  BY <1>2, <1>3 DEF ReadTimer

LEMMA SaveTimerStep == ASSUME IInv, NEW h \in Handlers, SaveTimer(h) PROVE IInv'
<1>1. pc[h] = "timer" /\ WriteSetting(h, "dedup")
      /\ UNCHANGED <<shared, ops, world, filed, receipts, missed, stray>>
  BY DEF SaveTimer
<1>2. \A c \in ChatRows : Fit(job[h].op, job[h].msg, "dedup", c, mbuf[h])
  BY <1>1, Facts DEF Fit, FitIn
<1> QED
  BY <1>1, <1>2, WriteSettingStep DEF Labels

LEMMA DedupStep == ASSUME IInv, NEW h \in Handlers, Dedup(h) PROVE IInv'
<1> DEFINE l == IF row[job[h].msg] = NoRow THEN "save" ELSE "idle"
<1>1. pc[h] = "dedup" /\ Skip(h, l) /\ UNCHANGED <<shared, store, ops, world, history>>
  BY DEF Dedup
<1>2. l \in Labels /\ (l = "idle" \/ Fit(job[h].op, job[h].msg, l, cbuf[h], mbuf[h]))
  BY <1>1, Facts DEF Labels, Fit, FitIn
<1> HIDE DEF l
<1> QED
  BY <1>1, <1>2, Facts, SkipStep

LEMMA SaveIncomingStep == ASSUME IInv, NEW h \in Handlers, SaveIncoming(h) PROVE IInv'
<1> DEFINE m == job[h].msg
<1>1. /\ pc[h] = "save" /\ SaveMessage(h, m, NewMsg, mbuf[h], "summary")
      /\ objects' = Fresh /\ filed' = [filed EXCEPT ![m] = @ + 1]
      /\ UNCHANGED <<shared, ops, world, counted, receipts, missed, stray>>
  BY DEF SaveIncoming
<1>2. m \in Incoming /\ job[h].op = "chat" /\ m \in Msgs /\ m \notin Outgoing
  BY <1>1, Facts, MsgNat DEF Fit, FitIn
<1>3. Fresh \in Nat /\ NewMsg \in MsgRows
  BY NewRows DEF IInv, TypeOK
<1>4. HistoryType'
  BY <1>1, <1>2 DEF IInv, TypeOK, HistoryType
<1>5. "summary" \in Labels /\ Fit(job[h].op, m, "summary", cbuf[h], mbuf[h])
  BY <1>1, <1>2, Facts DEF Labels, Fit, FitIn
<1> HIDE DEF m
<1> QED
  BY <1>1, <1>2, <1>3, <1>4, <1>5, Facts, SaveMessageStep

LEMMA ReadSummaryStep == ASSUME IInv, NEW h \in Handlers, ReadSummary(h) PROVE IInv'
<1>1. pc[h] = "summary" /\ ReadChat(h, "count", "reopen") /\ UNCHANGED <<shared, ops, world, history>>
  BY DEF ReadSummary
<1>2. job[h].op = "chat" /\ job[h].msg \in Incoming
  BY <1>1, Facts DEF Fit, FitIn
<1>3. chat # NoRow => Fit(job[h].op, job[h].msg, "count", chat, mbuf[h])
  BY <1>2 DEF Fit, FitIn
<1>4. Fit(job[h].op, job[h].msg, "reopen", chat, mbuf[h])
  BY <1>2 DEF Fit, FitIn
<1> QED
  BY <1>1, <1>2, <1>3, <1>4, ReadStep DEF Labels

LEMMA ReopenStep == ASSUME IInv, NEW h \in Handlers, Reopen(h) PROVE IInv'
<1>1. pc[h] = "reopen" /\ ReadChat(h, "idle", "recreate") /\ UNCHANGED <<shared, ops, world, history>>
  BY DEF Reopen
<1>2. Fit(job[h].op, job[h].msg, "recreate", chat, mbuf[h])
  BY <1>1, Facts DEF Fit, FitIn
<1>3. job[h].op = "send" => job[h].msg \in accepted
  BY <1>1, Facts
<1> QED
  BY <1>1, <1>2, <1>3, ReadStep DEF Labels

LEMMA CountStep == ASSUME IInv, NEW h \in Handlers, Count(h) PROVE IInv'
<1>1. /\ pc[h] = "count" /\ SaveChat(h, [cbuf[h] EXCEPT !.unread = @ + 1], counted + 1, "idle")
      /\ UNCHANGED <<shared, objects, ops, world, filed, receipts, missed, stray>>
  BY DEF Count
<1>2. cbuf[h] \in ChatRows /\ counted + 1 \in Nat /\ objects' \in Nat
  BY <1>1, Facts DEF Fit, FitIn, ChatOrNone, IInv, TypeOK, StoreType, HistoryType
<1>3. [cbuf[h] EXCEPT !.unread = @ + 1] \in ChatRows
  BY <1>2 DEF ChatRows
<1> QED
  BY <1>1, <1>2, <1>3, SaveChatStep DEF Labels

-----------------------------------------------------------------------------
\* Outgoing mail

LEMMA SentMessageStep == ASSUME IInv, NEW h \in Handlers, SentMessage(h) PROVE IInv'
BY Facts, ReadStep DEF SentMessage, Labels, Fit, FitIn

LEMMA SentDeleteStep == ASSUME IInv, NEW h \in Handlers, SentDelete(h) PROVE IInv'
BY Facts, SkipStep DEF SentDelete, Labels, Fit, FitIn

LEMMA SentAmendStep == ASSUME IInv, NEW h \in Handlers, SentAmend(h) PROVE IInv'
BY Facts, SkipStep DEF SentAmend, Labels, Fit, FitIn

LEMMA SendFailsStep == ASSUME IInv, NEW h \in Handlers, SendFails(h) PROVE IInv'
BY Facts, SkipStep DEF SendFails, Labels

LEMMA LookupStep == ASSUME IInv, NEW h \in Handlers, Lookup(h) PROVE IInv'
BY Facts, ReadStep DEF Lookup, Labels, Fit, FitIn

LEMMA PersistOutgoingStep == ASSUME IInv, NEW h \in Handlers, PersistOutgoing(h) PROVE IInv'
<1> DEFINE m == job[h].msg
           b == [mbuf[h] EXCEPT ![m] = NewMsg]
<1> SUFFICES ASSUME NEW l \in IF cbuf[h] = NoRow THEN {"idle", "reply"} ELSE {"rewrite"},
                    SaveMessage(h, m, NewMsg, b, l), pc[h] = "persist", objects' = Fresh,
                    stray' \in {stray, stray \cup {m}},
                    UNCHANGED <<shared, ops, world, counted, filed, receipts, missed>>
             PROVE  IInv'
  BY DEF PersistOutgoing
<1>1. job[h].op = "send" /\ m \in Outgoing /\ m \in Msgs /\ m \in accepted
  BY Facts, MsgNat DEF Fit, FitIn
<1>2. Fresh \in Nat /\ NewMsg \in MsgRows /\ NewMsg # NoRow /\ NewMsg.seen = FALSE
  BY NewRows DEF IInv, TypeOK
<1>3. Honest(m, NewMsg)
  BY <1>1, <1>2 DEF Honest
<1>4. b \in [Msgs -> MsgOrNone] /\ b[m] = NewMsg
  BY <1>1, <1>2, Facts DEF MsgOrNone
<1>5. \A k \in Outgoing : Honest(k, b[k])
  BY <1>1, <1>3, Facts, MsgNat
<1>6. HistoryType'
  BY <1>1 DEF IInv, TypeOK, HistoryType
<1>7. l \in Labels /\ (l = "idle" \/ Fit(job[h].op, m, l, cbuf[h], b))
  BY <1>1, <1>2, <1>4 DEF Labels, Fit, FitIn
<1> HIDE DEF m, b
<1> QED
  BY <1>1, <1>2, <1>3, <1>4, <1>5, <1>6, <1>7, SaveMessageStep

LEMMA ReplyStep == ASSUME IInv, NEW h \in Handlers, Reply(h) PROVE IInv'
<1> DEFINE m == job[h].msg
<1>1. pc[h] = "reply" /\ WriteBack(h, m, mbuf[h][m], mbuf[h], "idle")
      /\ UNCHANGED <<shared, ops, world, counted, filed, receipts, missed>>
  BY DEF Reply
<1>2. job[h].op = "send" /\ m \in Outgoing /\ m \in Msgs /\ m \in accepted
  BY <1>1, Facts, MsgNat DEF Fit, FitIn
<1>3. mbuf[h][m] \in MsgRows /\ Honest(m, mbuf[h][m])
  BY <1>1, <1>2, Facts DEF Fit, FitIn, MsgOrNone
<1> HIDE DEF m
<1> QED
  BY <1>1, <1>2, <1>3, Facts, WriteBackStep DEF Labels

-----------------------------------------------------------------------------
\* Beginning an operation

\* An idle operation takes up a job; its rows are those it begins with.
LEMMA StartStep ==
  ASSUME IInv, NEW h \in Handlers, pc[h] = "idle", NEW op, NEW m, NEW l \in Labels, NEW c \in ChatOrNone,
         NEW b \in [Msgs -> MsgOrNone],
         [op |-> op, msg |-> m] \in Jobs, l # "idle",
         job' = [job EXCEPT ![h] = [op |-> op, msg |-> m]],
         pc' = [pc EXCEPT ![h] = l], cbuf' = [cbuf EXCEPT ![h] = c], mbuf' = [mbuf EXCEPT ![h] = b],
         \A k \in Outgoing : Honest(k, b[k]),
         op = "receipt" => m \in peerRead, op = "send" /\ l # "sending" => m \in accepted,
         FitIn(ownSeen', op, m, l, c, b),
         UNCHANGED <<row, accepted, peerRead>>, ownSeen \subseteq ownSeen', mdns' \subseteq mdns,
         StoreType', WorldType', HistoryType', ops' \in 0 .. MaxOps
  PROVE  IInv'
<1>1. TypeOK /\ Truthful
  BY DEF IInv
<1>2. ControlType' /\ BufType'
  BY <1>1 DEF TypeOK, ControlType, BufType, ChatOrNone, MsgOrNone
<1>3. pc'[h] = l /\ job'[h] = [op |-> op, msg |-> m] /\ cbuf'[h] = c /\ mbuf'[h] = b
  BY <1>1 DEF TypeOK, ControlType, BufType
<1>4. \A g \in Handlers \ {h} :
         pc'[g] = pc[g] /\ job'[g] = job[g] /\ cbuf'[g] = cbuf[g] /\ mbuf'[g] = mbuf[g]
  BY <1>1 DEF TypeOK, ControlType, BufType
<1>5. Others(h)
  BY <1>4 DEF Others
<1>6. FitIn(ownSeen', job'[h].op, job'[h].msg, pc'[h], cbuf'[h], mbuf'[h])
  BY <1>3
<1>7. Placed(h)'
  BY <1>6 DEF Placed, About, At, Holds, FitIn
<1>8. ASSUME NEW k \in Outgoing, NEW g \in Handlers PROVE Honest(k, mbuf[g][k])'
  <2>1. CASE g = h
    BY <1>3, <2>1 DEF Honest
  <2>2. CASE g # h
    <3>1. Honest(k, mbuf[g][k])
      BY <1>1 DEF Truthful
    <3> QED
      BY <1>4, <2>2, <3>1 DEF Honest
  <2> QED
    BY <2>1, <2>2
<1>9. ASSUME NEW g \in Handlers
      PROVE  /\ job'[g].op = "receipt" => job'[g].msg \in peerRead'
             /\ job'[g].op = "send" /\ pc'[g] # "sending" => job'[g].msg \in accepted'
  <2>1. CASE g = h
    BY <1>3, <2>1
  <2>2. CASE g # h
    BY <1>1, <1>4, <2>2 DEF Truthful
  <2> QED
    BY <2>1, <2>2
<1>10. Truthful'
  BY <1>1, <1>8, <1>9 DEF Truthful, Honest
<1> QED
  BY <1>2, <1>5, <1>7, <1>10, Combine DEF TypeOK

\* A mail opens the chat of its sender, at the await it begins with.
LEMMA DeliverStep ==
  ASSUME IInv, NEW h \in Handlers, NEW op \in Mails, NEW m \in Msgs, Deliver(h, op, m),
         op = "chat" => m \in Incoming, op = "receipt" => m \in mdns,
         mdns' \subseteq mdns, inbox' \in [Incoming -> Nat], ops' \in 0 .. MaxOps
  PROVE  IInv'
<1> DEFINE l == IF chat = NoRow THEN "create" ELSE AfterOpen(op)
<1>1. /\ pc[h] = "idle" /\ job' = [job EXCEPT ![h] = [op |-> op, msg |-> m]]
      /\ pc' = [pc EXCEPT ![h] = l] /\ cbuf' = [cbuf EXCEPT ![h] = chat] /\ mbuf' = mbuf
      /\ UNCHANGED <<shared, store, accepted, peerRead, ownSeen, history>>
  BY DEF Deliver, Start
<1>2. TypeOK /\ Truthful
  BY DEF IInv
<1>3. [op |-> op, msg |-> m] \in Jobs
  BY MsgNat DEF Jobs
<1>4. l \in Labels /\ l # "idle" /\ op # "send" /\ Fit(op, m, l, chat, mbuf[h])
  BY <1>2, MsgNat DEF Mails, AfterOpen, Labels, Fit, FitIn, Truthful, TypeOK, WorldType
<1>5. mbuf' = [mbuf EXCEPT ![h] = mbuf[h]]
  BY <1>1, <1>2 DEF TypeOK, BufType
<1>6. StoreType' /\ WorldType' /\ HistoryType' /\ UNCHANGED row
  BY <1>1, <1>2 DEF TypeOK, StoreType, WorldType, HistoryType, store, history
<1>7. op = "receipt" => m \in peerRead
  BY <1>2 DEF Truthful
<1>8. /\ chat \in ChatOrNone /\ mbuf[h] \in [Msgs -> MsgOrNone]
      /\ \A k \in Outgoing : Honest(k, mbuf[h][k])
      /\ UNCHANGED <<row, accepted, peerRead>> /\ ownSeen \subseteq ownSeen'
  BY <1>1, <1>6, Facts
<1>9. FitIn(ownSeen', op, m, l, chat, mbuf[h])
  BY <1>1, <1>4 DEF Fit, FitIn
<1> HIDE DEF l
<1> QED
  BY <1>1, <1>3, <1>4, <1>5, <1>6, <1>7, <1>8, <1>9, StartStep

LEMMA ChatMailStep == ASSUME IInv, NEW h \in Handlers, NEW m \in Incoming, ChatMail(h, m) PROVE IInv'
<1>1. Deliver(h, "chat", m) /\ inbox[m] > 0 /\ inbox' = [inbox EXCEPT ![m] = @ - 1] /\ UNCHANGED <<mdns, ops>>
  BY DEF ChatMail
<1>2. inbox' \in [Incoming -> Nat] /\ ops' \in 0 .. MaxOps
  BY <1>1 DEF IInv, TypeOK, WorldType, ControlType
<1> QED
  BY <1>1, <1>2, MsgNat, DeliverStep DEF Mails

LEMMA ReceiptMailStep == ASSUME IInv, NEW h \in Handlers, NEW m \in Outgoing, ReceiptMail(h, m) PROVE IInv'
<1>1. Deliver(h, "receipt", m) /\ m \in mdns /\ mdns' = mdns \ {m} /\ UNCHANGED <<inbox, ops>>
  BY DEF ReceiptMail
<1>2. inbox' \in [Incoming -> Nat] /\ ops' \in 0 .. MaxOps
  BY <1>1 DEF IInv, TypeOK, WorldType, ControlType
<1> QED
  BY <1>1, <1>2, MsgNat, DeliverStep DEF Mails

LEMMA OpsBound ==
  ASSUME IInv, ops < MaxOps, ops' = ops + 1
  PROVE  ops' \in 0 .. MaxOps
BY BoundsAssumption DEF IInv, TypeOK, ControlType

LEMMA PeerRequestStep ==
  ASSUME IInv, NEW h \in Handlers, NEW op \in {"delete", "reaction"}, NEW m \in Msgs, PeerRequest(h, op, m)
  PROVE  IInv'
<1>1. Deliver(h, op, m) /\ ops < MaxOps /\ ops' = ops + 1 /\ UNCHANGED <<inbox, mdns>>
  BY DEF PeerRequest
<1>2. inbox' \in [Incoming -> Nat] /\ ops' \in 0 .. MaxOps
  BY <1>1, OpsBound DEF IInv, TypeOK, WorldType
<1> QED
  BY <1>1, <1>2, DeliverStep DEF Mails

\* An operation of the application begins with the rows c and b.
LEMMA CallStep ==
  ASSUME IInv, NEW h \in Handlers, NEW op \in Calls, NEW m \in Nat, Call(h, op, m),
         NEW l \in Labels, l # "idle", NEW c \in ChatOrNone, NEW b \in [Msgs -> MsgOrNone],
         pc' = [pc EXCEPT ![h] = l], cbuf' = [cbuf EXCEPT ![h] = c], mbuf' = [mbuf EXCEPT ![h] = b],
         \A k \in Outgoing : Honest(k, b[k]), op = "send" => l = "sending",
         Fit(op, m, l, c, b), chat' \in ChatOrNone,
         UNCHANGED <<shared, row, objects, world, history>>
  PROVE  IInv'
<1>1. pc[h] = "idle" /\ job' = [job EXCEPT ![h] = [op |-> op, msg |-> m]]
      /\ ops < MaxOps /\ ops' = ops + 1
  BY DEF Call, Start
<1>2. ops' \in 0 .. MaxOps
  BY <1>1, OpsBound
<1>3. [op |-> op, msg |-> m] \in Jobs /\ op # "receipt"
  BY DEF Jobs, Calls
<1>4. StoreType' /\ WorldType' /\ HistoryType'
  BY DEF IInv, TypeOK, StoreType, WorldType, HistoryType, world, history, ChatOrNone
<1>5. UNCHANGED <<row, accepted, peerRead>> /\ ownSeen \subseteq ownSeen' /\ mdns' \subseteq mdns
      /\ FitIn(ownSeen', op, m, l, c, b)
  BY DEF world, Fit, FitIn
<1> QED
  BY <1>1, <1>2, <1>3, <1>4, <1>5, StartStep

LEMMA SameBufs ==
  ASSUME IInv, NEW h \in Handlers
  PROVE  cbuf = [cbuf EXCEPT ![h] = cbuf[h]] /\ mbuf = [mbuf EXCEPT ![h] = mbuf[h]]
BY DEF IInv, TypeOK, BufType

\* CallStep with the rows in hand, and with the row of the chat.
LEMMA BareCallStep ==
  ASSUME IInv, NEW h \in Handlers, NEW op \in Calls, NEW m \in Nat, Call(h, op, m),
         NEW l \in Labels, l # "idle", pc' = [pc EXCEPT ![h] = l], UNCHANGED bufs,
         op = "send" => l = "sending", Fit(op, m, l, cbuf[h], mbuf[h]), chat' \in ChatOrNone,
         UNCHANGED <<shared, row, objects, world, history>>
  PROVE  IInv'
<1>1. cbuf' = [cbuf EXCEPT ![h] = cbuf[h]] /\ mbuf' = [mbuf EXCEPT ![h] = mbuf[h]]
  BY SameBufs DEF bufs
<1>2. /\ cbuf[h] \in ChatOrNone /\ mbuf[h] \in [Msgs -> MsgOrNone]
      /\ \A k \in Outgoing : Honest(k, mbuf[h][k])
  BY Facts
<1> QED
  BY <1>1, <1>2, CallStep

LEMMA ChatCallStep ==
  ASSUME IInv, NEW h \in Handlers, NEW op \in Calls, Call(h, op, 0),
         NEW l \in Labels, l # "idle", pc' = [pc EXCEPT ![h] = l],
         cbuf' = [cbuf EXCEPT ![h] = chat], op # "send", Fit(op, 0, l, chat, mbuf[h]),
         UNCHANGED <<shared, store, mbuf, world, history>>
  PROVE  IInv'
<1>1. mbuf' = [mbuf EXCEPT ![h] = mbuf[h]]
  BY SameBufs
<1>2. /\ chat \in ChatOrNone /\ mbuf[h] \in [Msgs -> MsgOrNone]
      /\ \A k \in Outgoing : Honest(k, mbuf[h][k])
  BY Facts
<1>3. UNCHANGED <<chat, row, objects>>
  BY DEF store
<1> QED
  BY <1>1, <1>2, <1>3, CallStep

LEMMA SendStep == ASSUME IInv, NEW h \in Handlers, NEW m \in Outgoing, Send(h, m) PROVE IInv'
<1>1. /\ Call(h, "send", m) /\ pc' = [pc EXCEPT ![h] = "sending"] /\ UNCHANGED bufs
      /\ UNCHANGED <<shared, row, objects, world, history>> /\ chat' \in {chat, NoRow}
  BY DEF Send, store
<1>2. Fit("send", m, "sending", cbuf[h], mbuf[h]) /\ m \in Nat
  BY MsgNat DEF Fit, FitIn
<1>3. "send" \in Calls /\ "sending" \in Labels
  BY DEF Calls, Labels
<1>4. chat' \in ChatOrNone
  BY <1>1, Facts DEF ChatOrNone
<1> QED
  BY <1>1, <1>2, <1>3, <1>4, BareCallStep

LEMMA SendControlStep ==
  ASSUME IInv, NEW h \in Handlers, NEW op \in {"sendDelete", "sendAmend"}, NEW m \in Msgs,
         SendControl(h, op, m)
  PROVE  IInv'
<1>1. /\ Call(h, op, m) /\ pc' = [pc EXCEPT ![h] = "sending"] /\ UNCHANGED bufs
      /\ UNCHANGED <<shared, row, objects, world, history>> /\ chat' \in {chat, NoRow}
  BY DEF SendControl, store
<1>2. Fit(op, m, "sending", cbuf[h], mbuf[h]) /\ m \in Nat
  BY MsgNat DEF Fit, FitIn
<1>3. op \in Calls /\ "sending" \in Labels
  BY DEF Calls, Labels
<1>4. chat' \in ChatOrNone
  BY <1>1, Facts DEF ChatOrNone
<1> QED
  BY <1>1, <1>2, <1>3, <1>4, BareCallStep

LEMMA DeleteLocalStep ==
  ASSUME IInv, NEW h \in Handlers, NEW m \in Msgs, DeleteLocal(h, m)
  PROVE  IInv'
<1>1. /\ Call(h, "deleteLocal", m) /\ pc' = [pc EXCEPT ![h] = "erase"] /\ UNCHANGED bufs
      /\ UNCHANGED <<shared, row, objects, world, history>> /\ chat' \in {chat, NoRow}
  BY DEF DeleteLocal, store
<1>2. Fit("deleteLocal", m, "erase", cbuf[h], mbuf[h]) /\ m \in Nat
  BY MsgNat DEF Fit, FitIn
<1>3. "deleteLocal" \in Calls /\ "erase" \in Labels
  BY DEF Calls, Labels
<1>4. chat' \in ChatOrNone
  BY <1>1, Facts DEF ChatOrNone
<1> QED
  BY <1>1, <1>2, <1>3, <1>4, BareCallStep

LEMMA DeleteChatStep == ASSUME IInv, NEW h \in Handlers, DeleteChat(h) PROVE IInv'
<1>1. /\ Call(h, "deleteChat", 0) /\ pc' = [pc EXCEPT ![h] = "relist"] /\ UNCHANGED bufs
      /\ UNCHANGED <<shared, row, objects, world, history>> /\ chat' \in {chat, NoRow}
  BY DEF DeleteChat, store
<1>2. Fit("deleteChat", 0, "relist", cbuf[h], mbuf[h]) /\ 0 \in Nat
  BY MsgNat DEF Fit, FitIn
<1>3. "deleteChat" \in Calls /\ "relist" \in Labels
  BY DEF Calls, Labels
<1>4. chat' \in ChatOrNone
  BY <1>1, Facts DEF ChatOrNone
<1> QED
  BY <1>1, <1>2, <1>3, <1>4, BareCallStep

\* A listing of stored messages holds true rows.
LEMMA ListedRows ==
  ASSUME IInv, NEW ms
  PROVE  Listed(ms) \in [Msgs -> MsgOrNone] /\ \A k \in Outgoing : Honest(k, Listed(ms)[k])
<1>1. row \in [Msgs -> MsgOrNone] /\ \A k \in Outgoing : Honest(k, row[k])
  BY DEF IInv, TypeOK, StoreType, MsgOrNone, Truthful
<1>2. Listed(ms) \in [Msgs -> MsgOrNone]
  BY <1>1 DEF Listed, MsgOrNone
<1>3. \A k \in Outgoing : Listed(ms)[k] \in {row[k], NoRow}
  BY MsgNat DEF Listed
<1> QED
  BY <1>1, <1>2, <1>3 DEF Honest

LEMMA ListForDeleteStep == ASSUME IInv, NEW h \in Handlers, ListForDelete(h) PROVE IInv'
<1> DEFINE b == Listed(Oldest(Page))
<1>1. /\ pc[h] = "relist" /\ Hold(h, "erasing", cbuf[h], b)
      /\ stray' = stray \cup (Stored \ Oldest(Page))
      /\ UNCHANGED <<shared, store, ops, world, counted, filed, receipts, missed>>
  BY DEF ListForDelete
<1>2. b \in [Msgs -> MsgOrNone] /\ \A k \in Outgoing : Honest(k, b[k])
  BY ListedRows
<1>3. StoreType' /\ WorldType' /\ HistoryType'
  BY <1>1 DEF IInv, TypeOK, StoreType, WorldType, HistoryType, store, world, Stored
<1>4. UNCHANGED <<ops, mdns, accepted, peerRead, ownSeen>> /\ \A k \in Outgoing : row'[k] \in {row[k], NoRow}
  BY <1>1 DEF world, store
<1>5. Fit(job[h].op, job[h].msg, "erasing", cbuf[h], b)
  BY <1>1, Facts DEF Fit, FitIn
<1> HIDE DEF b
<1> QED
  BY <1>1, <1>2, <1>3, <1>4, <1>5, Facts, HoldStep DEF Labels

LEMMA SweepStep == ASSUME IInv, NEW h \in Handlers, Sweep(h) PROVE IInv'
<1> SUFFICES ASSUME NEW ms \in SUBSET Stored, mbuf' = [mbuf EXCEPT ![h] = Listed(ms)]
             PROVE  IInv'
  BY DEF Sweep
<1>1. /\ Call(h, "sweep", 0) /\ pc' = [pc EXCEPT ![h] = "erasing"] /\ cbuf' = cbuf
      /\ UNCHANGED <<shared, chat, row, objects, world, history>>
  BY DEF Sweep, store
<1>2. Fit("sweep", 0, "erasing", cbuf[h], Listed(ms))
  BY DEF Fit, FitIn
<1>3. "sweep" \in Calls /\ "erasing" \in Labels
  BY DEF Calls, Labels
<1>4. cbuf' = [cbuf EXCEPT ![h] = cbuf[h]] /\ cbuf[h] \in ChatOrNone /\ chat' \in ChatOrNone
  BY <1>1, SameBufs, Facts
<1>5. Listed(ms) \in [Msgs -> MsgOrNone] /\ \A k \in Outgoing : Honest(k, Listed(ms)[k])
  BY ListedRows
<1> QED
  BY <1>1, <1>2, <1>3, <1>4, <1>5, CallStep

LEMMA ChangeStep ==
  ASSUME IInv, NEW h \in Handlers, NEW op \in {"set", "flag"}, Change(h, op)
  PROVE  IInv'
<1>1. /\ Call(h, op, 0) /\ pc' = [pc EXCEPT ![h] = "change"] /\ cbuf' = [cbuf EXCEPT ![h] = chat]
      /\ UNCHANGED <<shared, store, mbuf, world, history>>
  BY DEF Change
<1>2. Fit(op, 0, "change", chat, mbuf[h])
  BY <1>1 DEF Fit, FitIn
<1>3. op \in Calls /\ "change" \in Labels
  BY DEF Calls, Labels
<1> QED
  BY <1>1, <1>2, <1>3, ChatCallStep

LEMMA SaveChangeStep == ASSUME IInv, NEW h \in Handlers, SaveChange(h) PROVE IInv'
BY WriteSettingStep DEF SaveChange, Labels

LEMMA MarkChatReadStep == ASSUME IInv, NEW h \in Handlers, MarkChatRead(h) PROVE IInv'
<1>1. /\ Call(h, "markRead", 0) /\ pc' = [pc EXCEPT ![h] = "reset"] /\ cbuf' = [cbuf EXCEPT ![h] = chat]
      /\ UNCHANGED <<shared, store, mbuf, world, history>> /\ chat # NoRow
  BY DEF MarkChatRead
<1>2. Fit("markRead", 0, "reset", chat, mbuf[h])
  BY <1>1 DEF Fit, FitIn
<1>3. "markRead" \in Calls /\ "reset" \in Labels
  BY DEF Calls, Labels
<1> QED
  BY <1>1, <1>2, <1>3, ChatCallStep

LEMMA ResetUnreadStep == ASSUME IInv, NEW h \in Handlers, ResetUnread(h) PROVE IInv'
<1>1. /\ pc[h] = "reset" /\ SaveChat(h, [cbuf[h] EXCEPT !.unread = 0], 0, "list")
      /\ UNCHANGED <<shared, objects, ops, world, filed, receipts, missed, stray>>
  BY DEF ResetUnread
<1>2. cbuf[h] \in ChatRows /\ job[h].op = "markRead" /\ objects' \in Nat
  BY <1>1, Facts DEF Fit, FitIn, ChatOrNone, IInv, TypeOK, StoreType
<1>3. [cbuf[h] EXCEPT !.unread = 0] \in ChatRows
  BY <1>2 DEF ChatRows
<1>4. \A c : Fit(job[h].op, job[h].msg, "list", c, mbuf[h])
  BY <1>2 DEF Fit, FitIn
<1> QED
  BY <1>1, <1>2, <1>3, <1>4, SaveChatStep DEF Labels

LEMMA ListForReadStep == ASSUME IInv, NEW h \in Handlers, ListForRead(h) PROVE IInv'
<1>1. /\ pc[h] = "list" /\ Hold(h, "reading", NoRow, Listed(Stored))
      /\ UNCHANGED <<shared, store, ops, world, history>>
  BY DEF ListForRead
<1>2. job[h].op = "markRead"
  BY <1>1, Facts DEF Fit, FitIn
<1>3. Fit(job[h].op, job[h].msg, "reading", NoRow, Listed(Stored))
  BY <1>2 DEF Fit, FitIn
<1> QED
  BY <1>1, <1>2, <1>3, ListedRows, HoldQuiet DEF Labels, ChatOrNone

LEMMA ReadNextStep == ASSUME IInv, NEW h \in Handlers, ReadNext(h) PROVE IInv'
<1> DEFINE unseen == {m \in Held(h) \cap Incoming : ~mbuf[h][m].seen}
<1>1. pc[h] = "reading" /\ UNCHANGED <<shared, ops, world, counted, filed, receipts, missed>>
  BY DEF ReadNext
<1>2. job[h].op = "markRead"
  BY <1>1, Facts DEF Fit, FitIn
<1>3. CASE Skip(h, "idle") /\ UNCHANGED <<store, stray>>
  <2>1. UNCHANGED history
    BY <1>1, <1>3 DEF history
  <2> QED
    BY <1>1, <1>2, <1>3, <2>1, SkipStep DEF Labels
<1>4. ASSUME NEW m \in First(unseen),
             WriteBack(h, m, [mbuf[h][m] EXCEPT !.seen = TRUE],
                       [mbuf[h] EXCEPT ![m] = [mbuf[h][m] EXCEPT !.seen = TRUE]], "mdn")
      PROVE  IInv'
  <2> DEFINE r == [mbuf[h][m] EXCEPT !.seen = TRUE]
             b == [mbuf[h] EXCEPT ![m] = r]
  <2>1. m \in Incoming /\ m \in Msgs /\ m \notin Outgoing /\ mbuf[h][m] \in MsgRows
    BY Facts, MsgNat DEF First, Held, MsgOrNone
  <2>2. r \in MsgRows
    BY <2>1, SeenRow
  <2>3. b \in [Msgs -> MsgOrNone] /\ \A k \in Outgoing : b[k] = mbuf[h][k]
    BY <2>1, <2>2, Facts, MsgNat DEF MsgOrNone
  <2>4. \A k \in Outgoing : Honest(k, b[k])
    BY <2>3, Facts
  <2>5. Fit(job[h].op, m, "mdn", cbuf[h], b)
    BY <1>2, <2>1 DEF Fit, FitIn
  <2>6. WriteBack(h, m, r, b, "mdn")
    BY <1>4
  <2> HIDE DEF r, b
  <2> QED
    BY <1>1, <1>2, <2>1, <2>2, <2>3, <2>4, <2>5, <2>6, WriteBackStep DEF Labels
<1> QED
  BY <1>3, <1>4 DEF ReadNext

LEMMA MarkSeenStep == ASSUME IInv, NEW h \in Handlers, NEW m \in Msgs, MarkSeen(h, m) PROVE IInv'
<1> DEFINE b == [mbuf[h] EXCEPT ![m] = row[m]]
<1>1. /\ pc[h] = "idle" /\ job' = [job EXCEPT ![h] = [op |-> "markSeen", msg |-> m]]
      /\ ops < MaxOps /\ ops' = ops + 1
      /\ pc' = [pc EXCEPT ![h] = "see"] /\ cbuf' = cbuf
      /\ mbuf' = [mbuf EXCEPT ![h][m] = row[m]] /\ row[m] # NoRow
      /\ ownSeen' = ownSeen \cup ({m} \cap Outgoing)
      /\ UNCHANGED <<shared, chat, row, objects, inbox, mdns, accepted, peerRead, history>>
  BY DEF MarkSeen, Call, Start, store
<1>2. m \in Nat /\ m \in Incoming \cup ownSeen' /\ ops' \in 0 .. MaxOps
  BY <1>1, MsgNat, OpsBound DEF Msgs
<1>3. mbuf' = [mbuf EXCEPT ![h] = b]
  BY <1>1
<1>4. b \in [Msgs -> MsgOrNone] /\ b[m] = row[m] /\ \A k \in Msgs : b[k] \in {row[k], mbuf[h][k]}
  BY Facts
<1>5. FitIn(ownSeen', "markSeen", m, "see", cbuf[h], b)
  BY <1>1, <1>2, <1>4 DEF FitIn
<1>6. \A k \in Outgoing : Honest(k, b[k])
  BY <1>4, Facts, MsgNat DEF IInv, Truthful
<1>7. "see" \in Labels /\ [op |-> "markSeen", msg |-> m] \in Jobs
  BY <1>2 DEF Calls, Labels, Jobs
<1>8. cbuf' = [cbuf EXCEPT ![h] = cbuf[h]] /\ cbuf[h] \in ChatOrNone
  BY <1>1, SameBufs, Facts
<1>9. StoreType' /\ WorldType' /\ HistoryType'
  BY <1>1 DEF IInv, TypeOK, StoreType, WorldType, HistoryType, history
<1> HIDE DEF b
<1> QED
  BY <1>1, <1>2, <1>3, <1>4, <1>5, <1>6, <1>7, <1>8, <1>9, StartStep

LEMMA SaveSeenStep == ASSUME IInv, NEW h \in Handlers, SaveSeen(h) PROVE IInv'
<1> DEFINE m == job[h].msg
           r == [mbuf[h][m] EXCEPT !.seen = TRUE]
           l == IF m \in Incoming /\ ~mbuf[h][m].seen THEN "mdn" ELSE "idle"
<1>1. /\ pc[h] = "see" /\ WriteBack(h, m, r, NoMsgs, l)
      /\ UNCHANGED <<shared, ops, world, counted, filed, receipts, missed>>
  BY DEF SaveSeen
<1>2. job[h].op = "markSeen" /\ m \in Incoming \cup ownSeen /\ ownSeen \subseteq Outgoing
      /\ mbuf[h][m] # NoRow
  BY <1>1, Facts DEF Fit, FitIn, IInv, TypeOK, WorldType
<1>2a. m \in Msgs /\ mbuf[h][m] \in MsgRows
  BY <1>2, Facts, MsgNat DEF MsgOrNone
<1>3. r \in MsgRows
  BY <1>2a, SeenRow
<1>3a. m \in Outgoing => Honest(m, r)
  BY <1>2, <1>2a, <1>3, MsgNat DEF IInv, Truthful, Honest
<1>4. NoMsgs \in [Msgs -> MsgOrNone] /\ \A k \in Outgoing : Honest(k, NoMsgs[k])
  BY MsgNat DEF NoMsgs, MsgOrNone, Honest
<1>5. l \in Labels /\ (l = "idle" \/ Fit(job[h].op, m, l, cbuf[h], NoMsgs))
  BY <1>2 DEF Labels, Fit, FitIn
<1> HIDE DEF m, r, l
<1> QED
  BY <1>1, <1>2, <1>2a, <1>3, <1>3a, <1>4, <1>5, WriteBackStep

LEMMA SendReceiptStep == ASSUME IInv, NEW h \in Handlers, SendReceipt(h) PROVE IInv'
<1> DEFINE l == IF job[h].op = "markRead" THEN "reading" ELSE "idle"
<1>1. /\ pc[h] = "mdn" /\ receipts' = [receipts EXCEPT ![job[h].msg] = @ + 1] /\ Skip(h, l)
      /\ UNCHANGED <<shared, store, ops, world, counted, filed, missed, stray>>
  BY DEF SendReceipt
<1>2. job[h].op \in {"markRead", "markSeen"} /\ job[h].msg \in Incoming
  BY <1>1, Facts DEF Fit, FitIn
<1>3. StoreType' /\ WorldType' /\ HistoryType'
  BY <1>1, <1>2 DEF IInv, TypeOK, StoreType, WorldType, HistoryType, store, world
<1>4. UNCHANGED <<ops, mdns, accepted, peerRead, ownSeen>> /\ \A k \in Outgoing : row'[k] \in {row[k], NoRow}
  BY <1>1 DEF world, store
<1>5. l \in Labels /\ (l = "idle" \/ Fit(job[h].op, job[h].msg, l, cbuf[h], mbuf[h]))
  BY <1>2 DEF Labels, Fit, FitIn
<1>6. Hold(h, l, cbuf[h], mbuf[h])
  BY <1>1 DEF Skip
<1> HIDE DEF l
<1> QED
  BY <1>2, <1>3, <1>4, <1>5, <1>6, Facts, HoldStep

-----------------------------------------------------------------------------
\* The relay and the peer

LEMMA AcceptStep == ASSUME IInv, NEW h \in Handlers, Accept(h) PROVE IInv'
<1>1. /\ accepted' = accepted \cup {job[h].msg} /\ pc[h] = "sending" /\ job[h].op = "send"
      /\ UNCHANGED <<shared, chat, row, objects, pc, job, cbuf, mbuf, ops, inbox, mdns, peerRead,
                      ownSeen, history>>
  BY DEF Accept, store, bufs
<1>2. job[h].msg \in Outgoing
  BY <1>1, Facts DEF Fit, FitIn
<1>3. TypeOK'
  BY <1>1, <1>2 DEF IInv, TypeOK, StoreType, BufType, ControlType, WorldType, HistoryType, history
<1>4. Truthful'
  BY <1>1 DEF IInv, Truthful, Honest
<1>5. \A g \in Handlers : (About(g) /\ At(g) /\ Holds(g))'
  BY <1>1 DEF IInv, About, At, Holds
<1> QED
  BY <1>3, <1>4, <1>5 DEF IInv

LEMMA PeerReadsStep == ASSUME IInv, NEW m \in Outgoing, PeerReads(m) PROVE IInv'
<1>1. /\ m \in accepted /\ peerRead' = peerRead \cup {m} /\ mdns' = mdns \cup {m}
      /\ UNCHANGED <<shared, chat, row, objects, pc, job, cbuf, mbuf, ops, inbox, accepted, ownSeen, history>>
  BY DEF PeerReads, store, bufs
<1>2. TypeOK'
  BY <1>1 DEF IInv, TypeOK, StoreType, BufType, ControlType, WorldType, HistoryType, history
<1>3. Truthful'
  BY <1>1 DEF IInv, Truthful, Honest
<1>4. \A g \in Handlers : (About(g) /\ At(g) /\ Holds(g))'
  BY <1>1 DEF IInv, About, At, Holds
<1> QED
  BY <1>2, <1>3, <1>4 DEF IInv

-----------------------------------------------------------------------------
LEMMA InitIInv == Init => IInv
<1> SUFFICES ASSUME Init PROVE IInv
  OBVIOUS
<1>1. TypeOK
  BY BoundsAssumption DEF Init, TypeOK, StoreType, BufType, ControlType, WorldType, HistoryType,
     NoMsgs, NoJob, Jobs, Labels
<1>2. Truthful
  BY MsgNat DEF Init, Truthful, Honest, NoMsgs, NoJob
<1>3. \A h \in Handlers : About(h) /\ At(h) /\ Holds(h)
  BY DEF Init, About, At, Holds, NoJob
<1> QED
  BY <1>1, <1>2, <1>3 DEF IInv

LEMMA StutterIInv == IInv /\ UNCHANGED vars => IInv'
BY DEF IInv, TypeOK, StoreType, BufType, ControlType, WorldType, HistoryType, Truthful, Honest, About,
   At, Holds, vars, store, bufs, world, history

LEMMA NextIInv == IInv /\ [Next]_vars => IInv'
<1> SUFFICES ASSUME IInv, [Next]_vars PROVE IInv'
  OBVIOUS
<1>1. ASSUME NEW h \in Handlers, Resume(h) PROVE IInv'
  BY <1>1, CreateChatStep, ReadTargetStep, AmendStep, EraseStep, PreviewDeletedStep, RewriteStep,
     EraseListedStep, ReadTimerStep, SaveTimerStep, DedupStep, SaveIncomingStep, ReadSummaryStep,
     ReopenStep, CountStep, SentMessageStep, SentDeleteStep, SentAmendStep, SendFailsStep, LookupStep,
     PersistOutgoingStep, ReplyStep, ListForDeleteStep, SaveChangeStep, ResetUnreadStep,
     ListForReadStep, ReadNextStep, SaveSeenStep, SendReceiptStep
     DEF Resume
<1>2. ASSUME NEW h \in Handlers, Begin(h) PROVE IInv'
  <2>1. CASE DeleteChat(h) \/ Sweep(h) \/ MarkChatRead(h) \/ \E op \in {"set", "flag"} : Change(h, op)
    BY <2>1, DeleteChatStep, SweepStep, MarkChatReadStep, ChangeStep
  <2>2. CASE \E m \in Incoming : ChatMail(h, m)
    BY <2>2, ChatMailStep
  <2>3. CASE \E m \in Outgoing : ReceiptMail(h, m) \/ Send(h, m)
    BY <2>3, ReceiptMailStep, SendStep
  <2>4. CASE \E m \in Msgs : MarkSeen(h, m) \/ DeleteLocal(h, m)
    BY <2>4, MarkSeenStep, DeleteLocalStep
  <2>5. CASE \E op \in {"delete", "reaction"}, m \in Msgs : PeerRequest(h, op, m)
    BY <2>5, PeerRequestStep
  <2>6. CASE \E op \in {"sendDelete", "sendAmend"}, m \in Msgs : SendControl(h, op, m)
    BY <2>6, SendControlStep
  <2> QED
    BY <1>2, <2>1, <2>2, <2>3, <2>4, <2>5, <2>6 DEF Begin
<1> QED
  BY <1>1, <1>2, AcceptStep, PeerReadsStep, StutterIInv DEF Next

LEMMA Inductive == Spec => []IInv
BY InitIInv, NextIInv, PTL DEF Spec

-----------------------------------------------------------------------------
\* Every variable of the chat, its messages and their operations keeps its type:
\* no operation goes on with a row it does not have.
THEOREM TypeCorrect == Spec => []TypeOK
<1>1. IInv => TypeOK
  BY DEF IInv
<1> QED
  BY <1>1, Inductive, PTL

\* A message of ours has a row only if the relay took it, and a row that says seen
\* only if the peer read it or the application marked it seen itself, over both
\* stores, whichever stale rows were written back in between.
THEOREM RowsAreHonest == Spec => []OutgoingHonest
<1>1. IInv => OutgoingHonest
  BY DEF IInv, Truthful, Honest, OutgoingHonest
<1> QED
  BY <1>1, Inductive, PTL

-----------------------------------------------------------------------------
\* What a step of h leaves of the other operations, and where it takes h.

Elsewhere(h) == \A g \in Handlers \ {h} : pc'[g] = pc[g] /\ job'[g] = job[g]

LEMMA GotoDoes ==
  ASSUME TypeOK, NEW h \in Handlers, NEW l, Goto(h, l)
  PROVE  /\ Elsewhere(h) /\ pc'[h] = l
         /\ job'[h] = IF l = "idle" THEN NoJob ELSE job[h]
BY DEF TypeOK, ControlType, Goto, Elsewhere

LEMMA HoldDoes ==
  ASSUME TypeOK, NEW h \in Handlers, NEW l, NEW c, NEW b, Hold(h, l, c, b)
  PROVE  /\ Elsewhere(h) /\ pc'[h] = l
         /\ job'[h] = IF l = "idle" THEN NoJob ELSE job[h]
         /\ cbuf'[h] = Kept(l, c) /\ mbuf'[h] = KeptAll(l, b)
         /\ \A g \in Handlers \ {h} : cbuf'[g] = cbuf[g] /\ mbuf'[g] = mbuf[g]
         /\ Others(h)
<1>1. Goto(h, l)
  BY DEF Hold
<1>2. /\ Elsewhere(h) /\ pc'[h] = l
      /\ job'[h] = IF l = "idle" THEN NoJob ELSE job[h]
  BY <1>1, GotoDoes
<1>3. /\ cbuf'[h] = Kept(l, c) /\ mbuf'[h] = KeptAll(l, b)
      /\ \A g \in Handlers \ {h} : cbuf'[g] = cbuf[g] /\ mbuf'[g] = mbuf[g]
  BY DEF TypeOK, BufType, Hold
<1> QED
  BY <1>2, <1>3 DEF Others, Elsewhere

LEMMA SaveChatDoes ==
  ASSUME TypeOK, NEW h \in Handlers, NEW l, NEW c \in ChatRows, NEW n, SaveChat(h, c, n, l)
  PROVE  /\ Elsewhere(h) /\ pc'[h] = l
         /\ job'[h] = IF l = "idle" THEN NoJob ELSE job[h]
         /\ chat' = c /\ row' = row
         /\ cbuf'[h] = Kept(l, c) /\ mbuf'[h] = KeptAll(l, mbuf[h])
         /\ \A g \in Handlers \ {h} : /\ cbuf'[g] = IF Same(cbuf[g], c) THEN c ELSE cbuf[g]
                                      /\ mbuf'[g] = mbuf[g]
         /\ Others(h)
<1>1. Goto(h, l)
  BY DEF SaveChat
<1>2. /\ Elsewhere(h) /\ pc'[h] = l
      /\ job'[h] = IF l = "idle" THEN NoJob ELSE job[h]
  BY <1>1, GotoDoes
<1>3. /\ chat' = c /\ row' = row
      /\ cbuf'[h] = Kept(l, c) /\ mbuf'[h] = KeptAll(l, mbuf[h])
      /\ \A g \in Handlers \ {h} : /\ cbuf'[g] = IF Same(cbuf[g], c) THEN c ELSE cbuf[g]
                                   /\ mbuf'[g] = mbuf[g]
  BY DEF TypeOK, BufType, SaveChat
<1> QED
  BY <1>2, <1>3 DEF Others, Elsewhere

LEMMA SaveMessageGoes ==
  ASSUME TypeOK, NEW h \in Handlers, NEW l, NEW m, NEW r, NEW b, SaveMessage(h, m, r, b, l)
  PROVE  /\ Elsewhere(h) /\ pc'[h] = l
         /\ job'[h] = IF l = "idle" THEN NoJob ELSE [op |-> job[h].op, msg |-> m]
<1>1. job[h] \in Jobs
  BY DEF TypeOK, ControlType
<1>2. [job[h] EXCEPT !.msg = m] = [op |-> job[h].op, msg |-> m]
  BY <1>1 DEF Jobs
<1>3. Elsewhere(h) /\ pc'[h] = l /\ job'[h] = IF l = "idle" THEN NoJob ELSE [job[h] EXCEPT !.msg = m]
  BY DEF TypeOK, ControlType, SaveMessage, Elsewhere
<1> QED
  BY <1>2, <1>3

LEMMA SaveMessageDoes ==
  ASSUME TypeOK, NEW h \in Handlers, NEW l, NEW m \in Msgs, NEW r \in MsgRows, NEW b,
         SaveMessage(h, m, r, b, l)
  PROVE  /\ Elsewhere(h) /\ pc'[h] = l
         /\ job'[h] = IF l = "idle" THEN NoJob ELSE [op |-> job[h].op, msg |-> m]
         /\ chat' = chat /\ row' = [row EXCEPT ![m] = r]
         /\ cbuf'[h] = Kept(l, cbuf[h]) /\ mbuf'[h] = KeptAll(l, b)
         /\ \A g \in Handlers \ {h} :
               /\ cbuf'[g] = cbuf[g]
               /\ mbuf'[g] = IF Same(mbuf[g][m], r) THEN [mbuf[g] EXCEPT ![m] = r] ELSE mbuf[g]
         /\ Others(h)
<1>1. r # NoRow
  OBVIOUS
<1>3. /\ Elsewhere(h) /\ pc'[h] = l
      /\ job'[h] = IF l = "idle" THEN NoJob ELSE [op |-> job[h].op, msg |-> m]
  BY SaveMessageGoes
<1>4. /\ chat' = chat /\ row' = [row EXCEPT ![m] = r]
      /\ cbuf'[h] = Kept(l, cbuf[h]) /\ mbuf'[h] = KeptAll(l, b)
      /\ \A g \in Handlers \ {h} :
            /\ cbuf'[g] = cbuf[g]
            /\ mbuf'[g] = IF Same(mbuf[g][m], r) THEN [mbuf[g] EXCEPT ![m] = r] ELSE mbuf[g]
  BY DEF TypeOK, BufType, SaveMessage
<1>5. \A g \in Handlers : mbuf[g] \in [Msgs -> MsgOrNone]
  BY DEF TypeOK, BufType, MsgOrNone
<1>6. ASSUME NEW g \in Handlers \ {h}, NEW k \in Msgs, mbuf[g][k] # NoRow
      PROVE  mbuf'[g][k] # NoRow
  <2>1. CASE Same(mbuf[g][m], r)
    <3>1. mbuf'[g] = [mbuf[g] EXCEPT ![m] = r]
      BY <1>4, <2>1
    <3> QED
      BY <1>1, <1>5, <1>6, <3>1
  <2>2. CASE ~Same(mbuf[g][m], r)
    BY <1>4, <1>6, <2>2
  <2> QED
    BY <2>1, <2>2
<1>7. Others(h)
  BY <1>3, <1>4, <1>6 DEF Others, Elsewhere
<1> QED
  BY <1>3, <1>4, <1>7

\* A beginning operation takes up its job; the rows the others hold stay.
LEMMA StartDoes ==
  ASSUME TypeOK, NEW h \in Handlers, NEW j, NEW l,
         job' = [job EXCEPT ![h] = j], pc' = [pc EXCEPT ![h] = l],
         \A g \in Handlers \ {h} : cbuf'[g] = cbuf[g] /\ mbuf'[g] = mbuf[g]
  PROVE  Elsewhere(h) /\ pc'[h] = l /\ job'[h] = j /\ Others(h)
BY DEF TypeOK, ControlType, Elsewhere, Others

-----------------------------------------------------------------------------
\* NoOrphan: what is stored has somebody who settles it

LEMMA SettledStep ==
  ASSUME Settled, NEW h \in Handlers, Others(h), chat' = NoRow => chat = NoRow,
         chat' = NoRow => \A m \in (Stored \ stray)' :
            Settles(h, m)' \/ (m \in Stored \ stray /\ ~Settles(h, m))
  PROVE  Settled'
<1> SUFFICES ASSUME chat' = NoRow, NEW m \in (Stored \ stray)'
             PROVE  \E g \in Handlers : Settles(g, m)'
  BY DEF Settled
<1>1. CASE Settles(h, m)'
  BY <1>1
<1>2. CASE m \in Stored \ stray /\ ~Settles(h, m)
  <2>1. PICK g \in Handlers : Settles(g, m)
    BY <1>2 DEF Settled
  <2>2. g # h /\ m \in Msgs
    BY <1>2, <2>1 DEF Stored
  <2>3. Settles(g, m)'
    BY <2>1, <2>2 DEF Others, Settles
  <2> QED
    BY <2>3
<1> QED
  BY <1>1, <1>2

\* An operation that settles nothing takes a step that stores nothing.
LEMMA SettledRest ==
  ASSUME Settled, NEW h \in Handlers, Others(h), chat' = NoRow => chat = NoRow,
         pc[h] \notin WritesChat \cup {"relist", "erasing"},
         (Stored \ stray)' \subseteq Stored \ stray
  PROVE  Settled'
<1>1. \A m : ~Settles(h, m)
  BY DEF Settles
<1> QED
  BY <1>1, SettledStep

\* An operation that is about to write the chat settles everything.
LEMMA SettledSoon ==
  ASSUME Settled, NEW h \in Handlers, pc'[h] \in WritesChat \cup {"relist"}
  PROVE  Settled'
BY DEF Settled, Settles

\* Rows go, rows stay.
LEMMA StoredSame ==
  ASSUME IInv, row' \in {row} \/ \E m \in Msgs : row' = [row EXCEPT ![m] = NoRow],
         stray \subseteq stray'
  PROVE  (Stored \ stray)' \subseteq Stored \ stray
<1>1. row \in [Msgs -> MsgOrNone]
  BY DEF IInv, TypeOK, StoreType, MsgOrNone
<1> QED
  BY <1>1 DEF Stored

LEMMA StoredBack ==
  ASSUME IInv, NEW m \in Msgs, NEW r, row' = [row EXCEPT ![m] = r],
         stray' = IF row[m] = NoRow THEN stray \cup {m} ELSE stray
  PROVE  (Stored \ stray)' \subseteq Stored \ stray
<1>1. row \in [Msgs -> MsgOrNone]
  BY DEF IInv, TypeOK, StoreType, MsgOrNone
<1> QED
  BY <1>1 DEF Stored

LEMMA SettledHold ==
  ASSUME IInv, Settled, NEW h \in Handlers, NEW l, NEW c, NEW b, Hold(h, l, c, b),
         UNCHANGED <<chat, row>>, stray \subseteq stray',
         pc[h] \notin WritesChat \cup {"relist", "erasing"}
  PROVE  Settled'
<1>1. Others(h)
  BY HoldDoes DEF IInv
<1>2. (Stored \ stray)' \subseteq Stored \ stray
  BY StoredSame
<1> QED
  BY <1>1, <1>2, SettledRest

LEMMA SettledCall ==
  ASSUME IInv, Settled, NEW h \in Handlers, NEW op, NEW m, Start(h, op, m), NEW l, pc' = [pc EXCEPT ![h] = l],
         UNCHANGED <<chat, row, stray>>,
         \A g \in Handlers \ {h} : cbuf'[g] = cbuf[g] /\ mbuf'[g] = mbuf[g]
  PROVE  Settled'
<1>1. Others(h) /\ pc[h] = "idle"
  BY StartDoes DEF IInv, Start
<1>2. (Stored \ stray)' \subseteq Stored \ stray
  BY StoredSame
<1> QED
  BY <1>1, <1>2, SettledRest DEF WritesChat

LEMMA SettledSaveChat ==
  ASSUME NEW h \in Handlers, NEW l, NEW c \in ChatRows, NEW n, SaveChat(h, c, n, l)
  PROVE  Settled'
<1>1. chat' = c /\ c # NoRow
  BY DEF SaveChat
<1> QED
  BY <1>1 DEF Settled

LEMMA SettledWriteBack ==
  ASSUME IInv, Settled, NEW h \in Handlers, NEW l, NEW m \in Msgs, NEW r \in MsgRows, NEW b,
         WriteBack(h, m, r, b, l),
         pc[h] \notin WritesChat \cup {"relist", "erasing"}
  PROVE  Settled'
<1>0. TypeOK
  BY DEF IInv
<1>1. stray' = IF row[m] = NoRow THEN stray \cup {m} ELSE stray
  BY DEF WriteBack
<1>4. SaveMessage(h, m, r, b, l)
  BY DEF WriteBack
<1>5. Others(h)
  BY <1>0, <1>4, SaveMessageDoes
<1>2. chat' = chat /\ row' = [row EXCEPT ![m] = r]
  BY <1>4 DEF SaveMessage
<1>3. (Stored \ stray)' \subseteq Stored \ stray
  BY <1>1, <1>2, StoredBack
<1> QED
  BY <1>2, <1>3, <1>5, SettledRest

\* What the writing operations write: rows of the chat and of messages.
LEMMA WrittenChat ==
  ASSUME IInv, NEW h \in Handlers
  PROVE  /\ NewChat \in ChatRows
         /\ pc[h] \in {"rewrite", "count", "reset"} => cbuf[h] \in ChatRows
         /\ (IF cbuf[h] = NoRow THEN NewChat ELSE cbuf[h]) \in ChatRows
<1>1. NewChat \in ChatRows
  BY NewRows DEF IInv, TypeOK
<1>2. cbuf[h] \in ChatOrNone /\ Fit(job[h].op, job[h].msg, pc[h], cbuf[h], mbuf[h])
  BY Facts
<1> QED
  BY <1>1, <1>2 DEF Fit, FitIn, ChatOrNone

LEMMA WrittenMessage ==
  ASSUME IInv, NEW h \in Handlers
  PROVE  /\ NewMsg \in MsgRows
         /\ pc[h] \in {"amend", "see", "reply"} => job[h].msg \in Msgs /\ mbuf[h][job[h].msg] \in MsgRows
         /\ \A m \in Held(h) : m \in Msgs /\ mbuf[h][m] \in MsgRows
<1>1. NewMsg \in MsgRows
  BY NewRows DEF IInv, TypeOK
<1>2. /\ mbuf[h] \in [Msgs -> MsgOrNone] /\ Fit(job[h].op, job[h].msg, pc[h], cbuf[h], mbuf[h])
      /\ ownSeen \subseteq Msgs
  BY Facts, MsgNat DEF IInv, TypeOK, WorldType
<1>3. \A m \in Held(h) : m \in Msgs /\ mbuf[h][m] \in MsgRows
  BY <1>2 DEF Held, MsgOrNone
<1>4. pc[h] \in {"amend", "see", "reply"} => job[h].msg \in Msgs /\ mbuf[h][job[h].msg] \in MsgRows
  <2>1. pc[h] \in {"amend", "see", "reply"} => job[h].msg \in Msgs /\ mbuf[h][job[h].msg] # NoRow
    BY <1>2, MsgNat DEF Fit, FitIn
  <2> QED
    BY <1>2, <2>1 DEF MsgOrNone
<1> QED
  BY <1>1, <1>3, <1>4

LEMMA SettledResume ==
  ASSUME IInv, Settled, NEW h \in Handlers, Resume(h)
  PROVE  Settled'
<1>1. CASE CreateChat(h)
  BY <1>1, WrittenChat, SettledSaveChat DEF CreateChat
<1>2. CASE ReadTarget(h)
  <2>1. PICK l, b : Hold(h, l, cbuf[h], b)
    BY <1>2 DEF ReadTarget
  <2>2. UNCHANGED <<chat, row, stray>> /\ pc[h] = "target"
    BY <1>2 DEF ReadTarget, store
  <2> QED
    BY <2>1, <2>2, SettledHold DEF WritesChat
<1>3. CASE Amend(h)
  <2>1. pc[h] = "amend" /\ job[h].msg \in Msgs /\ mbuf[h][job[h].msg] \in MsgRows
    BY <1>3, WrittenMessage DEF Amend
  <2>2. CASE Skip(h, "idle") /\ UNCHANGED <<store, stray>>
    BY <2>1, <2>2, SettledHold DEF Skip, store, WritesChat
  <2>3. ASSUME NEW r \in MsgRows, WriteBack(h, job[h].msg, r, mbuf[h], "idle")
        PROVE  Settled'
    BY <2>1, <2>3, SettledWriteBack DEF WritesChat
  <2>4. [mbuf[h][job[h].msg] EXCEPT !.seen = TRUE] \in MsgRows
    BY <2>1, SeenRow
  <2> QED
    BY <1>3, <2>1, <2>2, <2>3, <2>4 DEF Amend
<1>4. CASE Erase(h)
  <2>1. PICK l : Hold(h, l, cbuf[h], mbuf[h])
    BY <1>4 DEF Erase, Skip
  <2>2. /\ pc[h] = "erase" /\ row' = [row EXCEPT ![job[h].msg] = NoRow] /\ chat' = chat /\ stray' = stray
        /\ job[h].msg \in Msgs
    BY <1>4, Facts DEF Erase, history, Fit, FitIn
  <2>3. Others(h) /\ (Stored \ stray)' \subseteq Stored \ stray
    BY <2>1, <2>2, HoldDoes, StoredSame DEF IInv
  <2> QED
    BY <2>2, <2>3, SettledRest DEF WritesChat
<1>5. CASE PreviewDeleted(h)
  <2>1. PICK l : Hold(h, l, chat, mbuf[h])
    BY <1>5 DEF PreviewDeleted, ReadChat
  <2> QED
    BY <1>5, <2>1, SettledHold DEF PreviewDeleted, ReadChat, store, history, WritesChat
<1>6. CASE Rewrite(h)
  BY <1>6, WrittenChat, SettledSaveChat DEF Rewrite
<1>7. CASE EraseListed(h)
  <2>1. pc[h] = "erasing" /\ chat' = chat /\ stray' = stray
    BY <1>7 DEF EraseListed, history
  <2>2. CASE Held(h) = {} /\ Skip(h, "idle") /\ UNCHANGED row
    <3>1. Others(h) /\ Stored' = Stored
      BY <2>2, HoldDoes DEF IInv, Skip, Stored
    <3>2. \A m \in Stored : ~Settles(h, m)
      BY <2>1, <2>2 DEF Settles, Held, Stored, WritesChat
    <3> QED
      BY <2>1, <3>1, <3>2, SettledStep
  <2>3. ASSUME NEW m \in First(Held(h)), row' = [row EXCEPT ![m] = NoRow],
               Hold(h, "erasing", cbuf[h], Without(h, m))
        PROVE  Settled'
    <3>1. m \in Msgs /\ row \in [Msgs -> MsgOrNone] /\ mbuf[h] \in [Msgs -> MsgOrNone]
      BY Facts DEF First, Held
    <3>2. Others(h) /\ pc'[h] = "erasing" /\ mbuf'[h] = Without(h, m)
      BY <2>3, HoldDoes DEF IInv, KeptAll
    <3>3. ASSUME NEW k \in (Stored \ stray)'
          PROVE  k \in Stored \ stray /\ (Settles(h, k) => Settles(h, k)')
      <4>1. k # m /\ k \in Stored \ stray
        BY <2>1, <2>3, <3>1 DEF Stored
      <4>2. Without(h, m)[k] = mbuf[h][k]
        BY <3>1, <4>1 DEF Without, Stored
      <4> QED
        BY <2>1, <3>2, <4>1, <4>2 DEF Settles, WritesChat
    <3> QED
      BY <2>1, <3>2, <3>3, SettledStep
  <2> QED
    BY <1>7, <2>2, <2>3 DEF EraseListed
<1>8. CASE ReadTimer(h)
  <2>1. PICK l, c : Hold(h, l, c, mbuf[h])
    BY <1>8 DEF ReadTimer, ReadChat, Skip
  <2> QED
    BY <1>8, <2>1, SettledHold DEF ReadTimer, ReadChat, store, history, WritesChat
<1>9. CASE SaveTimer(h) \/ SaveChange(h)
  BY <1>9, WrittenChat, SettledSaveChat DEF SaveTimer, SaveChange, WriteSetting
<1>10. CASE Dedup(h)
  BY <1>10, SettledHold DEF Dedup, Skip, store, history, WritesChat
<1>11. CASE SaveIncoming(h)
  <2>1. pc' = [pc EXCEPT ![h] = "summary"]
    BY <1>11 DEF SaveIncoming, SaveMessage
  <2> QED
    BY <2>1, SettledSoon DEF WritesChat, IInv, TypeOK, ControlType
<1>12. CASE ReadSummary(h) \/ Reopen(h)
  <2>1. PICK l : /\ Hold(h, l, chat, mbuf[h]) /\ UNCHANGED <<chat, row, stray>>
                 /\ l \in {"reopen", "recreate"} \/ chat # NoRow
    BY <1>12 DEF ReadSummary, Reopen, ReadChat, store, history
  <2>2. CASE chat = NoRow
    <3>1. pc'[h] = l
      BY <2>1, HoldDoes DEF IInv
    <3> QED
      BY <2>1, <2>2, <3>1, SettledSoon DEF WritesChat
  <2>3. CASE chat # NoRow
    BY <2>1, <2>3 DEF Settled
  <2> QED
    BY <2>2, <2>3
<1>13. CASE Count(h)
  <2>1. [cbuf[h] EXCEPT !.unread = @ + 1] \in ChatRows
    BY <1>13, WrittenChat DEF Count, ChatRows
  <2> QED
    BY <1>13, <2>1, SettledSaveChat DEF Count
<1>14. CASE SentMessage(h) \/ Lookup(h)
  <2>1. PICK l : Hold(h, l, chat, mbuf[h])
    BY <1>14 DEF SentMessage, Lookup, ReadChat
  <2> QED
    BY <1>14, <2>1, SettledHold DEF SentMessage, Lookup, ReadChat, store, history, WritesChat
<1>15. CASE SentDelete(h) \/ SentAmend(h) \/ SendFails(h)
  BY <1>15, SettledHold DEF SentDelete, SentAmend, SendFails, Skip, store, history, WritesChat
<1>16. CASE PersistOutgoing(h)
  <2> DEFINE m == job[h].msg
  <2>1. PICK l \in IF cbuf[h] = NoRow THEN {"idle", "reply"} ELSE {"rewrite"} :
           SaveMessage(h, m, NewMsg, [mbuf[h] EXCEPT ![m] = NewMsg], l)
    BY <1>16 DEF PersistOutgoing
  <2>2. pc[h] = "persist" /\ m \in Msgs /\ stray' = IF cbuf[h] = NoRow THEN stray \cup {m} ELSE stray
    BY <1>16, Facts, MsgNat DEF PersistOutgoing, Fit, FitIn
  <2>3. chat' = chat /\ row' = [row EXCEPT ![m] = NewMsg] /\ pc' = [pc EXCEPT ![h] = l]
    BY <2>1 DEF SaveMessage
  <2>4. CASE cbuf[h] # NoRow
    BY <2>1, <2>3, <2>4, SettledSoon DEF WritesChat, IInv, TypeOK, ControlType
  <2>5. CASE cbuf[h] = NoRow
    <3>1. Others(h)
      BY <2>1, <2>2, WrittenMessage, SaveMessageDoes DEF IInv
    <3>2. row \in [Msgs -> MsgOrNone]
      BY Facts
    <3>3. (Stored \ stray)' \subseteq Stored \ stray
      BY <2>2, <2>3, <2>5, <3>2 DEF Stored
    <3> QED
      BY <2>2, <2>3, <3>1, <3>3, SettledRest DEF WritesChat
  <2> QED
    BY <2>4, <2>5
<1>17. CASE Reply(h)
  BY <1>17, WrittenMessage, SettledWriteBack DEF Reply, WritesChat
<1>18. CASE ListForDelete(h)
  <2>1. pc[h] = "relist" /\ Hold(h, "erasing", cbuf[h], Listed(Oldest(Page)))
        /\ stray' = stray \cup (Stored \ Oldest(Page)) /\ UNCHANGED <<chat, row>>
    BY <1>18 DEF ListForDelete, store
  <2>2. Others(h) /\ pc'[h] = "erasing" /\ mbuf'[h] = Listed(Oldest(Page))
    BY <2>1, HoldDoes DEF IInv, KeptAll
  <2>3. ASSUME NEW m \in (Stored \ stray)' PROVE Settles(h, m)'
    <3>1. m \in Oldest(Page) /\ m \in Msgs /\ row[m] # NoRow
      BY <2>1 DEF Stored
    <3>2. Listed(Oldest(Page))[m] = row[m]
      BY <3>1 DEF Listed
    <3> QED
      BY <2>2, <3>1, <3>2 DEF Settles
  <2> QED
    BY <2>1, <2>2, <2>3, SettledStep
<1>19. CASE ResetUnread(h)
  <2>1. [cbuf[h] EXCEPT !.unread = 0] \in ChatRows
    BY <1>19, WrittenChat DEF ResetUnread, ChatRows
  <2> QED
    BY <1>19, <2>1, SettledSaveChat DEF ResetUnread
<1>20. CASE ListForRead(h)
  BY <1>20, SettledHold DEF ListForRead, store, history, WritesChat
<1>21. CASE ReadNext(h)
  <2>1. pc[h] = "reading"
    BY <1>21 DEF ReadNext
  <2>2. CASE Skip(h, "idle") /\ UNCHANGED <<store, stray>>
    BY <2>1, <2>2, SettledHold DEF Skip, store, WritesChat
  <2>3. ASSUME NEW m \in Held(h), NEW b,
               WriteBack(h, m, [mbuf[h][m] EXCEPT !.seen = TRUE], b, "mdn")
        PROVE  Settled'
    <3>1. m \in Msgs /\ [mbuf[h][m] EXCEPT !.seen = TRUE] \in MsgRows
      BY WrittenMessage, SeenRow
    <3> QED
      BY <2>1, <2>3, <3>1, SettledWriteBack DEF WritesChat
  <2> QED
    BY <1>21, <2>2, <2>3 DEF ReadNext, First
<1>22. CASE SaveSeen(h)
  <2>1. pc[h] = "see" /\ job[h].msg \in Msgs /\ mbuf[h][job[h].msg] \in MsgRows
    BY <1>22, WrittenMessage DEF SaveSeen
  <2>2. [mbuf[h][job[h].msg] EXCEPT !.seen = TRUE] \in MsgRows
    BY <2>1, SeenRow
  <2>3. PICK l : WriteBack(h, job[h].msg, [mbuf[h][job[h].msg] EXCEPT !.seen = TRUE], NoMsgs, l)
    BY <1>22 DEF SaveSeen
  <2> QED
    BY <2>1, <2>2, <2>3, SettledWriteBack DEF WritesChat
<1>23. CASE SendReceipt(h)
  BY <1>23, SettledHold DEF SendReceipt, Skip, store, WritesChat
<1> QED
  BY <1>1, <1>2, <1>3, <1>4, <1>5, <1>6, <1>7, <1>8, <1>9, <1>10, <1>11, <1>12, <1>13, <1>14, <1>15,
     <1>16, <1>17, <1>18, <1>19, <1>20, <1>21, <1>22, <1>23 DEF Resume

LEMMA SettledDeliver ==
  ASSUME IInv, Settled, NEW h \in Handlers, NEW op, NEW m, Deliver(h, op, m)
  PROVE  Settled'
<1>1. PICK l : pc' = [pc EXCEPT ![h] = l]
  BY DEF Deliver
<1>2. UNCHANGED <<chat, row, stray, mbuf>> /\ cbuf' = [cbuf EXCEPT ![h] = chat] /\ Start(h, op, m)
  BY DEF Deliver, store, history
<1>3. \A g \in Handlers \ {h} : cbuf'[g] = cbuf[g] /\ mbuf'[g] = mbuf[g]
  BY <1>2 DEF IInv, TypeOK, BufType
<1> QED
  BY <1>1, <1>2, <1>3, SettledCall

LEMMA SettledBegin ==
  ASSUME IInv, Settled, NEW h \in Handlers, Begin(h)
  PROVE  Settled'
<1>0. TypeOK
  BY DEF IInv
<1>1. CASE DeleteChat(h)
  <2>1. pc'[h] = "relist"
    BY <1>0, <1>1 DEF DeleteChat, TypeOK, ControlType
  <2> QED
    BY <2>1, SettledSoon
<1>2. CASE Sweep(h)
  <2>1. PICK b : mbuf' = [mbuf EXCEPT ![h] = b]
    BY <1>2 DEF Sweep
  <2>2. \A g \in Handlers \ {h} : cbuf'[g] = cbuf[g] /\ mbuf'[g] = mbuf[g]
    BY <1>0, <1>2, <2>1 DEF Sweep, TypeOK, BufType
  <2> QED
    BY <1>2, <2>2, SettledCall DEF Sweep, Call, store, history
<1>3. CASE MarkChatRead(h) \/ \E op \in {"set", "flag"} : Change(h, op)
  <2>1. cbuf' = [cbuf EXCEPT ![h] = chat] /\ mbuf' = mbuf
    BY <1>3 DEF MarkChatRead, Change
  <2>2. \A g \in Handlers \ {h} : cbuf'[g] = cbuf[g] /\ mbuf'[g] = mbuf[g]
    BY <1>0, <2>1 DEF TypeOK, BufType
  <2> QED
    BY <1>3, <2>2, SettledCall DEF MarkChatRead, Change, Call, store, history
<1>4. CASE \E m \in Incoming : ChatMail(h, m)
  BY <1>4, SettledDeliver DEF ChatMail
<1>5. ASSUME NEW m \in Msgs, MarkSeen(h, m) PROVE Settled'
  <2>1. \A g \in Handlers \ {h} : cbuf'[g] = cbuf[g] /\ mbuf'[g] = mbuf[g]
    BY <1>0, <1>5 DEF MarkSeen, TypeOK, BufType
  <2> QED
    BY <1>5, <2>1, SettledCall DEF MarkSeen, Call, store, history
<1>6. CASE \E m \in Outgoing : ReceiptMail(h, m)
  BY <1>6, SettledDeliver DEF ReceiptMail
<1>7. CASE \E op \in {"delete", "reaction"}, m \in Msgs : PeerRequest(h, op, m)
  BY <1>7, SettledDeliver DEF PeerRequest
<1>8. CASE \E m \in Outgoing : Send(h, m)
  BY <1>8, SettledCall DEF Send, Call, store, history, bufs
<1>9. CASE \E m \in Msgs : DeleteLocal(h, m)
  BY <1>9, SettledCall DEF DeleteLocal, Call, store, history, bufs
<1>10. CASE \E op \in {"sendDelete", "sendAmend"}, m \in Msgs : SendControl(h, op, m)
  BY <1>10, SettledCall DEF SendControl, Call, store, history, bufs
<1> QED
  BY <1>1, <1>2, <1>3, <1>4, <1>5, <1>6, <1>7, <1>8, <1>9, <1>10 DEF Begin

LEMMA SettledSame ==
  ASSUME Settled, UNCHANGED <<chat, row, pc, mbuf, stray>>
  PROVE  Settled'
BY DEF Settled, Settles, Stored

LEMMA SettledNext ==
  ASSUME IInv, Settled, [Next]_vars
  PROVE  Settled'
<1>1. CASE \E h \in Handlers : Resume(h) \/ Begin(h)
  BY <1>1, SettledResume, SettledBegin
<1>2. CASE \E h \in Handlers : Accept(h)
  BY <1>2, SettledSame DEF Accept, store, bufs, history
<1>3. CASE \E m \in Outgoing : PeerReads(m)
  BY <1>3, SettledSame DEF PeerReads, store, bufs, history
<1>4. CASE UNCHANGED vars
  BY <1>4, SettledSame DEF vars, store, bufs, history
<1> QED
  BY <1>1, <1>2, <1>3, <1>4 DEF Next

LEMMA InitSettled == Init => Settled
BY DEF Init, Settled, Stored, NoMsgs

-----------------------------------------------------------------------------
\* UnreadIsExact: the rows of the chat are objects

\* Rows of the chat that are read, dropped or gone.
LEMMA CounterRead ==
  ASSUME OneCounter, objects \in Nat, objects' \in Nat, objects <= objects',
         shared' = shared, counted' = counted, chat' \in {chat, NoRow},
         \A g \in Handlers : cbuf'[g] \in {cbuf[g], chat, NoRow}
  PROVE  OneCounter'
<1> SUFFICES ASSUME shared PROVE OneCounter'
  BY DEF OneCounter
<1>1. /\ chat # NoRow => chat.id \in 1 .. objects /\ chat.unread = counted
      /\ \A g \in Handlers : cbuf[g] # NoRow =>
            /\ cbuf[g].id \in 1 .. objects
            /\ chat # NoRow /\ chat.id = cbuf[g].id => cbuf[g] = chat
            /\ \A k \in Handlers : cbuf[k] # NoRow /\ cbuf[k].id = cbuf[g].id => cbuf[k] = cbuf[g]
  BY DEF OneCounter
<1>2. chat' # NoRow => chat'.id \in 1 .. objects' /\ chat'.unread = counted'
  BY <1>1
<1>3. ASSUME NEW g \in Handlers, cbuf'[g] # NoRow
      PROVE  /\ cbuf'[g].id \in 1 .. objects'
             /\ chat' # NoRow /\ chat'.id = cbuf'[g].id => cbuf'[g] = chat'
             /\ \A k \in Handlers : cbuf'[k] # NoRow /\ cbuf'[k].id = cbuf'[g].id => cbuf'[k] = cbuf'[g]
  <2>1. cbuf'[g].id \in 1 .. objects'
    BY <1>1, <1>3
  <2>2. chat' # NoRow /\ chat'.id = cbuf'[g].id => cbuf'[g] = chat'
    BY <1>1, <1>3
  <2>3. ASSUME NEW k \in Handlers, cbuf'[k] # NoRow, cbuf'[k].id = cbuf'[g].id
        PROVE  cbuf'[k] = cbuf'[g]
    BY <1>1, <1>3, <2>3
  <2> QED
    BY <2>1, <2>2, <2>3
<1> QED
  BY <1>2, <1>3 DEF OneCounter

\* A row c is written that every holder of its object has, and nobody another one.
LEMMA CounterWritten ==
  ASSUME OneCounter, shared, objects \in Nat, objects' \in Nat, objects <= objects',
         NEW c, c # NoRow, chat' = c, c.id \in 1 .. objects', counted' = c.unread,
         \A g \in Handlers : cbuf'[g] # NoRow =>
            cbuf'[g] = c \/ (cbuf'[g] = cbuf[g] /\ cbuf[g].id # c.id)
  PROVE  OneCounter'
<1>1. \A g \in Handlers : cbuf[g] # NoRow =>
            /\ cbuf[g].id \in 1 .. objects
            /\ \A k \in Handlers : cbuf[k] # NoRow /\ cbuf[k].id = cbuf[g].id => cbuf[k] = cbuf[g]
  BY DEF OneCounter
<1>2. ASSUME NEW g \in Handlers, cbuf'[g] # NoRow
      PROVE  /\ cbuf'[g].id \in 1 .. objects'
             /\ chat'.id = cbuf'[g].id => cbuf'[g] = chat'
             /\ \A k \in Handlers : cbuf'[k] # NoRow /\ cbuf'[k].id = cbuf'[g].id => cbuf'[k] = cbuf'[g]
  <2>1. cbuf'[g].id \in 1 .. objects'
    BY <1>1, <1>2
  <2>2. chat'.id = cbuf'[g].id => cbuf'[g] = chat'
    BY <1>2
  <2>3. ASSUME NEW k \in Handlers, cbuf'[k] # NoRow, cbuf'[k].id = cbuf'[g].id
        PROVE  cbuf'[k] = cbuf'[g]
    BY <1>1, <1>2, <2>3
  <2> QED
    BY <2>1, <2>2, <2>3
<1> QED
  BY <1>2 DEF OneCounter

\* saveChat of the row in hand, with the count the row has if it is the stored one.
LEMMA CounterBack ==
  ASSUME IInv, OneCounter, NEW h \in Handlers, NEW l, NEW c \in ChatRows, NEW n, SaveChat(h, c, n, l),
         cbuf[h] # NoRow, c.id = cbuf[h].id, shared /\ chat = cbuf[h] => n = c.unread,
         UNCHANGED <<shared, objects>>
  PROVE  OneCounter'
<1> SUFFICES ASSUME shared PROVE OneCounter'
  BY DEF OneCounter
<1>0. TypeOK /\ objects \in Nat
  BY DEF IInv, TypeOK, StoreType
<1>1. /\ cbuf[h].id \in 1 .. objects
      /\ chat # NoRow /\ chat.id = cbuf[h].id => cbuf[h] = chat
  BY DEF OneCounter
<1>2. chat' = c /\ counted' = IF chat # NoRow /\ chat.id = c.id THEN n ELSE c.unread
  BY DEF SaveChat
<1>3. counted' = c.unread
  BY <1>1, <1>2
<1>4. /\ cbuf'[h] = Kept(l, c)
      /\ \A g \in Handlers \ {h} : cbuf'[g] = IF Same(cbuf[g], c) THEN c ELSE cbuf[g]
  BY <1>0, SaveChatDoes
<1>5. \A g \in Handlers : cbuf'[g] # NoRow =>
            cbuf'[g] = c \/ (cbuf'[g] = cbuf[g] /\ cbuf[g].id # c.id)
  BY <1>4 DEF Kept, Same
<1> QED
  BY <1>0, <1>1, <1>2, <1>3, <1>5, CounterWritten

\* saveChat of a row just created.
LEMMA CounterNew ==
  ASSUME IInv, OneCounter, NEW h \in Handlers, NEW l, NEW n, SaveChat(h, NewChat, n, l),
         objects' = Fresh, shared' = shared
  PROVE  OneCounter'
<1> SUFFICES ASSUME shared PROVE OneCounter'
  BY DEF OneCounter
<1>0. TypeOK /\ objects \in Nat /\ NewChat \in ChatRows /\ NewChat # NoRow
  BY NewRows DEF IInv, TypeOK, StoreType
<1>1. objects' = objects + 1 /\ NewChat.id = objects + 1
  BY DEF Fresh, NewChat
<1>2. /\ chat # NoRow => chat.id \in 1 .. objects
      /\ \A g \in Handlers : cbuf[g] # NoRow => cbuf[g].id \in 1 .. objects
  BY DEF OneCounter
<1>3. chat' = NewChat /\ counted' = IF chat # NoRow /\ chat.id = NewChat.id THEN n ELSE NewChat.unread
  BY DEF SaveChat
<1>4. counted' = NewChat.unread
  BY <1>0, <1>1, <1>2, <1>3
<1>5. /\ cbuf'[h] = Kept(l, NewChat)
      /\ \A g \in Handlers \ {h} : cbuf'[g] = IF Same(cbuf[g], NewChat) THEN NewChat ELSE cbuf[g]
  BY <1>0, SaveChatDoes
<1>6. ASSUME NEW g \in Handlers, cbuf'[g] # NoRow
      PROVE  cbuf'[g] = NewChat \/ (cbuf'[g] = cbuf[g] /\ cbuf[g].id # NewChat.id)
  BY <1>0, <1>1, <1>2, <1>5, <1>6 DEF Kept, Same
<1>7. objects' \in Nat /\ objects <= objects' /\ NewChat.id \in 1 .. objects'
  BY <1>0, <1>1
<1> HIDE DEF NewChat
<1> QED
  BY <1>0, <1>3, <1>4, <1>6, <1>7, CounterWritten

LEMMA CounterSetting ==
  ASSUME IInv, OneCounter, NEW h \in Handlers, NEW l, WriteSetting(h, l), UNCHANGED shared
  PROVE  OneCounter'
<1>1. CASE cbuf[h] = NoRow
  <2>1. SaveChat(h, NewChat, counted, l) /\ objects' = Fresh
    BY <1>1 DEF WriteSetting
  <2> QED
    BY <2>1, CounterNew
<1>2. CASE cbuf[h] # NoRow
  <2>1. SaveChat(h, cbuf[h], counted, l) /\ objects' = objects /\ cbuf[h] \in ChatRows
    BY <1>2, Facts DEF WriteSetting, ChatOrNone
  <2>2. shared /\ chat = cbuf[h] => counted = cbuf[h].unread
    BY <1>2 DEF OneCounter
  <2> QED
    BY <1>2, <2>1, <2>2, CounterBack
<1> QED
  BY <1>1, <1>2

\* Steps that only hold, read or drop the chat row.
LEMMA CounterHold ==
  ASSUME IInv, OneCounter, NEW h \in Handlers, NEW l, NEW c \in {cbuf[h], chat, NoRow}, NEW b, Hold(h, l, c, b),
         UNCHANGED <<shared, chat, objects, counted>>
  PROVE  OneCounter'
<1>1. TypeOK /\ objects \in Nat /\ objects' \in Nat /\ objects <= objects'
  BY DEF IInv, TypeOK, StoreType
<1>2. cbuf'[h] = Kept(l, c) /\ \A g \in Handlers \ {h} : cbuf'[g] = cbuf[g]
  BY <1>1, HoldDoes
<1>3. \A g \in Handlers : cbuf'[g] \in {cbuf[g], chat, NoRow}
  BY <1>2 DEF Kept
<1> QED
  BY <1>1, <1>3, CounterRead

LEMMA CounterMessage ==
  ASSUME IInv, OneCounter, NEW h \in Handlers, NEW l, NEW m, NEW r, NEW b, SaveMessage(h, m, r, b, l),
         UNCHANGED <<shared, counted>>, objects' \in {objects, Fresh}
  PROVE  OneCounter'
<1> SUFFICES ASSUME shared PROVE OneCounter'
  BY DEF OneCounter
<1>1. objects \in Nat /\ objects' \in Nat /\ objects <= objects'
  BY DEF IInv, TypeOK, StoreType, Fresh
<1>2. chat' = chat /\ \A g \in Handlers : cbuf'[g] \in {cbuf[g], chat, NoRow}
  BY DEF SaveMessage, Kept, IInv, TypeOK, BufType
<1> QED
  BY <1>1, <1>2, CounterRead

LEMMA CounterStart ==
  ASSUME IInv, OneCounter, NEW h \in Handlers, UNCHANGED <<shared, objects, counted>>,
         chat' \in {chat, NoRow}, cbuf' \in {cbuf, [cbuf EXCEPT ![h] = chat]}
  PROVE  OneCounter'
<1>1. objects \in Nat /\ objects' \in Nat /\ objects <= objects'
  BY DEF IInv, TypeOK, StoreType
<1>2. \A g \in Handlers : cbuf'[g] \in {cbuf[g], chat, NoRow}
  BY DEF IInv, TypeOK, BufType
<1> QED
  BY <1>1, <1>2, CounterRead

LEMMA CounterResume ==
  ASSUME IInv, OneCounter, NEW h \in Handlers, Resume(h)
  PROVE  OneCounter'
<1>1. CASE CreateChat(h)
  <2>1. PICK l : SaveChat(h, NewChat, 0, l)
    BY <1>1 DEF CreateChat
  <2>2. objects' = Fresh /\ shared' = shared
    BY <1>1 DEF CreateChat
  <2> QED
    BY <2>1, <2>2, CounterNew
<1>2. CASE Rewrite(h)
  <2>1. PICK l : SaveChat(h, cbuf[h], counted, l)
    BY <1>2 DEF Rewrite
  <2>2. cbuf[h] \in ChatRows /\ UNCHANGED <<shared, objects>>
    BY <1>2, WrittenChat DEF Rewrite
  <2>3. shared /\ chat = cbuf[h] => counted = cbuf[h].unread
    BY <2>2 DEF OneCounter
  <2> QED
    BY <2>1, <2>2, <2>3, CounterBack
<1>3. CASE SaveTimer(h) \/ SaveChange(h)
  BY <1>3, CounterSetting DEF SaveTimer, SaveChange
<1>4. CASE Count(h)
  <2> DEFINE c == [cbuf[h] EXCEPT !.unread = @ + 1]
  <2>1. SaveChat(h, c, counted + 1, "idle") /\ UNCHANGED <<shared, objects>> /\ cbuf[h] \in ChatRows
    BY <1>4, WrittenChat DEF Count
  <2>2. c \in ChatRows /\ c.id = cbuf[h].id /\ c.unread = cbuf[h].unread + 1
    BY <2>1 DEF ChatRows
  <2>3. shared /\ chat = cbuf[h] => counted + 1 = c.unread
    BY <2>1, <2>2 DEF OneCounter
  <2> HIDE DEF c
  <2> QED
    BY <2>1, <2>2, <2>3, CounterBack
<1>5. CASE ResetUnread(h)
  <2> DEFINE c == [cbuf[h] EXCEPT !.unread = 0]
  <2>1. SaveChat(h, c, 0, "list") /\ UNCHANGED <<shared, objects>> /\ cbuf[h] \in ChatRows
    BY <1>5, WrittenChat DEF ResetUnread
  <2>2. c \in ChatRows /\ c.id = cbuf[h].id /\ c.unread = 0
    BY <2>1 DEF ChatRows
  <2> HIDE DEF c
  <2> QED
    BY <2>1, <2>2, CounterBack
<1>6. CASE ReadTarget(h)
  <2>1. PICK l, b : Hold(h, l, cbuf[h], b)
    BY <1>6 DEF ReadTarget
  <2> QED
    BY <1>6, <2>1, CounterHold DEF ReadTarget, store
<1>7. CASE Amend(h)
  <2>1. UNCHANGED <<shared, counted>>
    BY <1>7 DEF Amend
  <2>2. CASE Skip(h, "idle") /\ UNCHANGED store
    BY <2>1, <2>2, CounterHold DEF Skip, store
  <2>3. ASSUME NEW r, WriteBack(h, job[h].msg, r, mbuf[h], "idle") PROVE OneCounter'
    BY <2>1, <2>3, CounterMessage DEF WriteBack
  <2> QED
    BY <1>7, <2>2, <2>3 DEF Amend
<1>8. CASE Erase(h)
  <2>1. PICK l : Hold(h, l, cbuf[h], mbuf[h])
    BY <1>8 DEF Erase, Skip
  <2> QED
    BY <1>8, <2>1, CounterHold DEF Erase, history
<1>9. CASE PreviewDeleted(h) \/ ReadSummary(h) \/ Reopen(h) \/ SentMessage(h) \/ Lookup(h)
  <2>1. PICK l : Hold(h, l, chat, mbuf[h])
    BY <1>9 DEF PreviewDeleted, ReadSummary, Reopen, SentMessage, Lookup, ReadChat
  <2> QED
    BY <1>9, <2>1, CounterHold
    DEF PreviewDeleted, ReadSummary, Reopen, SentMessage, Lookup, ReadChat, store, history
<1>10. CASE EraseListed(h)
  <2>1. PICK l, b : Hold(h, l, cbuf[h], b)
    BY <1>10 DEF EraseListed, Skip
  <2> QED
    BY <1>10, <2>1, CounterHold DEF EraseListed, history
<1>11. CASE ReadTimer(h)
  <2>1. UNCHANGED <<shared, chat, objects, counted>>
    BY <1>11 DEF ReadTimer, ReadChat, store, history
  <2>2. CASE Skip(h, "dedup")
    BY <2>1, <2>2, CounterHold DEF Skip
  <2>3. CASE ReadChat(h, "timer", "timer")
    BY <2>1, <2>3, CounterHold DEF ReadChat
  <2> QED
    BY <1>11, <2>2, <2>3 DEF ReadTimer
<1>12. CASE Dedup(h) \/ SentDelete(h) \/ SentAmend(h) \/ SendFails(h) \/ SendReceipt(h)
  <2>1. PICK l : Hold(h, l, cbuf[h], mbuf[h])
    BY <1>12 DEF Dedup, SentDelete, SentAmend, SendFails, SendReceipt, Skip
  <2> QED
    BY <1>12, <2>1, CounterHold DEF Dedup, SentDelete, SentAmend, SendFails, SendReceipt, store, history
<1>13. CASE ListForDelete(h) \/ ListForRead(h)
  <2>1. UNCHANGED <<shared, chat, objects, counted>>
    BY <1>13 DEF ListForDelete, ListForRead, store, history
  <2> QED
    BY <1>13, <2>1, CounterHold DEF ListForDelete, ListForRead
<1>14. CASE SaveIncoming(h)
  BY <1>14, CounterMessage DEF SaveIncoming
<1>15. CASE PersistOutgoing(h)
  <2>1. PICK l : SaveMessage(h, job[h].msg, NewMsg, [mbuf[h] EXCEPT ![job[h].msg] = NewMsg], l)
    BY <1>15 DEF PersistOutgoing
  <2> QED
    BY <1>15, <2>1, CounterMessage DEF PersistOutgoing
<1>16. CASE Reply(h)
  BY <1>16, CounterMessage DEF Reply, WriteBack
<1>17. CASE ReadNext(h)
  <2>1. UNCHANGED <<shared, counted>>
    BY <1>17 DEF ReadNext
  <2>2. CASE Skip(h, "idle") /\ UNCHANGED store
    BY <2>1, <2>2, CounterHold DEF Skip, store
  <2>3. ASSUME NEW m, NEW r, NEW b, WriteBack(h, m, r, b, "mdn") PROVE OneCounter'
    BY <2>1, <2>3, CounterMessage DEF WriteBack
  <2> QED
    BY <1>17, <2>2, <2>3 DEF ReadNext
<1>18. CASE SaveSeen(h)
  <2>1. PICK l, r : WriteBack(h, job[h].msg, r, NoMsgs, l)
    BY <1>18 DEF SaveSeen
  <2> QED
    BY <1>18, <2>1, CounterMessage DEF SaveSeen, WriteBack
<1> QED
  BY <1>1, <1>2, <1>3, <1>4, <1>5, <1>6, <1>7, <1>8, <1>9, <1>10, <1>11, <1>12, <1>13, <1>14, <1>15,
     <1>16, <1>17, <1>18 DEF Resume

LEMMA CounterNext ==
  ASSUME IInv, OneCounter, [Next]_vars
  PROVE  OneCounter'
<1>1. ASSUME NEW h \in Handlers, Begin(h) PROVE OneCounter'
  <2>1. UNCHANGED <<shared, objects, counted>> /\ chat' \in {chat, NoRow}
    BY <1>1 DEF Begin, DeleteChat, Sweep, MarkChatRead, Change, ChatMail, MarkSeen, ReceiptMail, Send,
       DeleteLocal, PeerRequest, SendControl, Deliver, store, history
  <2>2. cbuf' \in {cbuf, [cbuf EXCEPT ![h] = chat]}
    BY <1>1 DEF Begin, DeleteChat, Sweep, MarkChatRead, Change, ChatMail, MarkSeen, ReceiptMail, Send,
       DeleteLocal, PeerRequest, SendControl, Deliver, bufs
  <2> QED
    BY <2>1, <2>2, CounterStart
<1>2. CASE \E h \in Handlers : Accept(h)
  BY <1>2, CounterStart DEF Accept, store, bufs, history
<1>3. ASSUME UNCHANGED <<shared, chat, objects, cbuf, counted>> PROVE OneCounter'
  BY <1>3 DEF OneCounter
<1>4. CASE (\E m \in Outgoing : PeerReads(m)) \/ UNCHANGED vars
  BY <1>3, <1>4 DEF PeerReads, vars, store, bufs, history
<1> QED
  BY <1>1, <1>2, <1>4, CounterResume DEF Next

LEMMA InitCounter == Init => OneCounter
BY DEF Init, OneCounter

-----------------------------------------------------------------------------
\* The rows of a message are objects

\* Rows of messages are read, dropped or deleted.
Reads ==
    \A m \in Msgs : /\ row'[m] \in {row[m], NoRow}
                    /\ \A g \in Handlers : mbuf'[g][m] \in {mbuf[g][m], row[m], NoRow}

\* r is stored as the row of k; who holds its object has r.
Saves(k, r) ==
    /\ \A m \in Msgs \ {k} : /\ row'[m] = row[m]
                             /\ \A g \in Handlers : mbuf'[g][m] \in {mbuf[g][m], NoRow}
    /\ row'[k] = r
    /\ \A g \in Handlers : \/ mbuf'[g][k] \in {r, NoRow}
                           \/ mbuf'[g][k] = mbuf[g][k] /\ mbuf[g][k].id # r.id

LEMMA AliveReads ==
  ASSUME Reads, NEW m \in Msgs
  PROVE  Alive(m)' \subseteq Alive(m)
BY DEF Reads, Alive

LEMMA AliveOther ==
  ASSUME NEW k, NEW r, Saves(k, r), NEW m \in Msgs \ {k}
  PROVE  Alive(m)' \subseteq Alive(m)
BY DEF Saves, Alive

LEMMA AliveSaved ==
  ASSUME NEW k \in Msgs, NEW r, Saves(k, r)
  PROVE  Alive(k)' \subseteq {s \in Alive(k) : s.id # r.id} \cup {r}
BY DEF Saves, Alive

LEMMA SavesMessage ==
  ASSUME TypeOK, shared, NEW h \in Handlers, NEW l, NEW k \in Msgs, NEW r \in MsgRows,
         NEW b \in [Msgs -> MsgOrNone], SaveMessage(h, k, r, b, l),
         \A m \in Msgs \ {k} : b[m] \in {mbuf[h][m], NoRow},
         l = "idle" \/ b[k] \in {r, NoRow} \/ (b[k] = mbuf[h][k] /\ mbuf[h][k].id # r.id)
  PROVE  Saves(k, r)
<1>1. /\ row' = [row EXCEPT ![k] = r] /\ mbuf'[h] = KeptAll(l, b)
      /\ \A g \in Handlers \ {h} :
            mbuf'[g] = IF Same(mbuf[g][k], r) THEN [mbuf[g] EXCEPT ![k] = r] ELSE mbuf[g]
  BY DEF SaveMessage, TypeOK, BufType
<1>2. row \in [Msgs -> MsgOrNone] /\ \A g \in Handlers : mbuf[g] \in [Msgs -> MsgOrNone]
  BY DEF TypeOK, StoreType, BufType, MsgOrNone
<1>3. row'[k] = r /\ \A m \in Msgs \ {k} : row'[m] = row[m]
  BY <1>1, <1>2
<1>4. ASSUME NEW g \in Handlers
      PROVE  /\ \A m \in Msgs \ {k} : mbuf'[g][m] \in {mbuf[g][m], NoRow}
             /\ mbuf'[g][k] \in {r, NoRow} \/ (mbuf'[g][k] = mbuf[g][k] /\ mbuf[g][k].id # r.id)
  <2>1. CASE g = h
    <3>1. CASE l = "idle"
      BY <1>1, <2>1, <3>1 DEF KeptAll, NoMsgs
    <3>2. CASE l # "idle"
      <4>1. mbuf'[g] = b
        BY <1>1, <2>1, <3>2 DEF KeptAll
      <4> QED
        BY <2>1, <3>2, <4>1
    <3> QED
      BY <3>1, <3>2
  <2>2. CASE g # h /\ Same(mbuf[g][k], r)
    <3>1. mbuf'[g] = [mbuf[g] EXCEPT ![k] = r]
      BY <1>1, <2>2
    <3> QED
      BY <1>2, <3>1
  <2>3. CASE g # h /\ ~Same(mbuf[g][k], r)
    <3>1. mbuf'[g] = mbuf[g]
      BY <1>1, <2>3
    <3> QED
      BY <2>3, <3>1 DEF Same
  <2> QED
    BY <2>1, <2>2, <2>3
<1> QED
  BY <1>3, <1>4 DEF Saves

-----------------------------------------------------------------------------
\* Where the operations go

Sendable == {"sending", "create", "lookup", "persist"}

\* h takes up no send and takes none back to before its message was stored.
Sends(h) ==
    /\ Elsewhere(h)
    /\ job'[h].op = "send" => job'[h] = job[h] /\ (pc'[h] \in Sendable => pc[h] \in Sendable)

LEMMA UnsavedKept ==
  ASSUME NEW h \in Handlers, Sends(h), NEW m, NEW g \in Handlers, Unsaved(g, m)'
  PROVE  Unsaved(g, m)
BY DEF Sends, Elsewhere, Unsaved, Sendable

LEMMA OneSendKept ==
  ASSUME NEW h \in Handlers, Sends(h), OneSend
  PROVE  OneSend'
<1>1. \A g \in Handlers : job'[g].op = "send" => job'[g] = job[g]
  BY DEF Sends, Elsewhere
<1> QED
  BY <1>1 DEF OneSend

LEMMA ReceivingKept ==
  ASSUME NEW h \in Handlers, Elsewhere(h), NEW m,
         job[h] = [op |-> "receipt", msg |-> m] => job'[h] = job[h], Receiving(m)
  PROVE  Receiving(m)'
<1>1. PICK g \in Handlers : job[g] = [op |-> "receipt", msg |-> m]
  BY DEF Receiving
<1>2. job'[g] = job[g]
  BY <1>1 DEF Elsewhere
<1> QED
  BY <1>1, <1>2 DEF Receiving

LEMMA ReceiptingKept ==
  ASSUME NEW h \in Handlers, Elsewhere(h), NEW m, pc'[h] = "mdn" => job'[h].msg # m
  PROVE  Receipting(m)' \subseteq Receipting(m)
BY DEF Elsewhere, Receipting

-----------------------------------------------------------------------------
\* One message at a time

LEMMA ObjectsRead ==
  ASSUME NEW m \in Msgs, Objects(m), Alive(m)' \subseteq Alive(m),
         objects \in Nat, objects' \in Nat, objects <= objects', m \in Incoming => filed'[m] = filed[m],
         (\E g \in Handlers : Unsaved(g, m)') => Alive(m) = {} \/ \E g \in Handlers : Unsaved(g, m)
  PROVE  Objects(m)'
<1>1. \A r \in Alive(m)' : r.id \in 1 .. objects'
  BY DEF Objects
<1>2. \A r, s \in Alive(m)' : r.id = s.id => r = s
  BY DEF Objects
<1>3. (m \in Incoming => filed'[m] <= 1) => \A r, s \in Alive(m)' : r = s
  BY DEF Objects
<1>4. m \in Incoming /\ filed'[m] = 0 => Alive(m)' = {}
  BY DEF Objects
<1>5. (\E g \in Handlers : Unsaved(g, m)') => Alive(m)' = {}
  BY DEF Objects
<1> QED
  BY <1>1, <1>2, <1>3, <1>4, <1>5 DEF Objects

\* The row of k that h holds is written back, changed but the same object.
LEMMA ObjectsBack ==
  ASSUME NEW k \in Msgs, Objects(k), NEW r0 \in Alive(k), NEW r, r.id = r0.id,
         Alive(k)' \subseteq {s \in Alive(k) : s.id # r.id} \cup {r},
         objects' = objects, filed' = filed,
         \A g \in Handlers : Unsaved(g, k)' => Unsaved(g, k)
  PROVE  Objects(k)'
<1>1. \A s \in Alive(k)' : s.id \in 1 .. objects'
  BY DEF Objects
<1>2. \A t, s \in Alive(k)' : t.id = s.id => t = s
  BY DEF Objects
<1>3. (k \in Incoming => filed'[k] <= 1) => \A t, s \in Alive(k)' : t = s
  BY DEF Objects
<1>4. ~(k \in Incoming /\ filed'[k] = 0) /\ ~(\E g \in Handlers : Unsaved(g, k)')
  BY DEF Objects
<1> QED
  BY <1>1, <1>2, <1>3, <1>4 DEF Objects

\* A new row of an arrival, and of a message sent.
LEMMA ObjectsFiled ==
  ASSUME NEW k \in Incoming, Objects(k), NEW r, objects \in Nat, objects' = objects + 1, r.id = objects',
         Alive(k)' \subseteq {s \in Alive(k) : s.id # r.id} \cup {r},
         filed[k] \in Nat, filed'[k] = filed[k] + 1,
         \A g \in Handlers : ~Unsaved(g, k)'
  PROVE  Objects(k)'
<1>1. \A s \in Alive(k)' : s.id \in 1 .. objects'
  BY DEF Objects
<1>2. \A t, s \in Alive(k)' : t.id = s.id => t = s
  BY DEF Objects
<1>3. filed'[k] <= 1 => \A t, s \in Alive(k)' : t = s
  <2> SUFFICES ASSUME filed'[k] <= 1 PROVE \A t, s \in Alive(k)' : t = s
    OBVIOUS
  <2>1. filed[k] = 0
    OBVIOUS
  <2>2. Alive(k) = {}
    BY <2>1 DEF Objects
  <2> QED
    BY <2>2
<1>4. filed'[k] # 0
  OBVIOUS
<1> QED
  BY <1>1, <1>2, <1>3, <1>4 DEF Objects

LEMMA ObjectsSent ==
  ASSUME NEW k \in Outgoing, Objects(k), NEW r, objects \in Nat, objects' = objects + 1, r.id = objects',
         Alive(k) = {}, Alive(k)' \subseteq {s \in Alive(k) : s.id # r.id} \cup {r},
         \A g \in Handlers : ~Unsaved(g, k)'
  PROVE  Objects(k)'
<1>1. Alive(k)' \subseteq {r} /\ r.id \in 1 .. objects'
  OBVIOUS
<1>2. k \notin Incoming
  BY MsgNat
<1> QED
  BY <1>1, <1>2 DEF Objects

LEMMA UnseenFinite ==
  ASSUME NEW m, Objects(m), objects \in Nat
  PROVE  IsFiniteSet(Unseen(m)) /\ Cardinality(Unseen(m)) \in Nat
<1>1. Unseen(m) \subseteq 1 .. objects
  BY DEF Objects, Unseen
<1>2. IsFiniteSet(1 .. objects)
  BY FS_Interval
<1> QED
  BY <1>1, <1>2, FS_Subset, FS_CardinalityType

\* The bookkeeping of receipts when the three sets change.
LEMMA AccountedRead ==
  ASSUME NEW m \in Incoming, Objects(m), objects \in Nat, Accounted(m),
         Unseen(m)' \subseteq Unseen(m), Receipting(m)' \subseteq Receipting(m),
         filed[m] \in Nat, receipts[m] \in Nat, filed'[m] = filed[m], receipts'[m] = receipts[m]
  PROVE  Accounted(m)'
<1>1. IsFiniteSet(Receipting(m)) /\ IsFiniteSet(Unseen(m))
  BY UnseenFinite DEF Accounted
<1>2. /\ IsFiniteSet(Receipting(m)') /\ IsFiniteSet(Unseen(m)')
      /\ Cardinality(Receipting(m)') <= Cardinality(Receipting(m))
      /\ Cardinality(Unseen(m)') <= Cardinality(Unseen(m))
  BY <1>1, FS_Subset
<1>3. /\ Cardinality(Receipting(m)) \in Nat /\ Cardinality(Receipting(m)') \in Nat
      /\ Cardinality(Unseen(m)) \in Nat /\ Cardinality(Unseen(m)') \in Nat
  BY <1>1, <1>2, FS_CardinalityType
<1>4. receipts[m] + Cardinality(Receipting(m)) + Cardinality(Unseen(m)) <= filed[m]
  BY DEF Accounted
<1>5. receipts'[m] + Cardinality(Receipting(m)') + Cardinality(Unseen(m)') <= filed'[m]
  BY <1>2, <1>3, <1>4
<1> QED
  BY <1>2, <1>5 DEF Accounted

LEMMA UnseenReads ==
  ASSUME NEW m, Alive(m)' \subseteq Alive(m)
  PROVE  Unseen(m)' \subseteq Unseen(m)
BY DEF Unseen

LEMMA EffectiveKept ==
  ASSUME NEW m \in Outgoing, Effective(m),
         \A g \in Handlers : Unsaved(g, m)' => Unsaved(g, m),
         Receiving(m) => Receiving(m)',
         UNCHANGED <<mdns, peerRead>>, missed \subseteq missed',
         /\ m \in stray \/ row[m] = NoRow \/ row[m].seen
         /\ \A g \in Handlers : ~Unsaved(g, m)
         => m \in stray' \/ row'[m] = NoRow \/ row'[m].seen
  PROVE  Effective(m)'
BY DEF Effective

\* A step that writes no message.
LEMMA MRead ==
  ASSUME IInv, MInv, NEW h \in Handlers, Sends(h), Reads, pc'[h] # "mdn",
         job[h].op = "receipt" => job'[h] = job[h],
         UNCHANGED <<shared, mdns, peerRead, filed, receipts>>,
         missed \subseteq missed', stray \subseteq stray', objects' \in Nat, objects <= objects'
  PROVE  MInv'
<1> SUFFICES ASSUME shared PROVE MInv'
  BY DEF MInv
<1>1. /\ objects \in Nat /\ \A m \in Incoming : filed[m] \in Nat /\ receipts[m] \in Nat
  BY DEF IInv, TypeOK, StoreType, HistoryType
<1>2. /\ \A m \in Msgs : Objects(m)
      /\ \A m \in Incoming : Accounted(m)
      /\ \A m \in Outgoing : Effective(m)
  BY DEF MInv
<1>3. \A m \in Msgs : Alive(m)' \subseteq Alive(m)
  BY AliveReads
<1>4. \A m, g : g \in Handlers /\ Unsaved(g, m)' => Unsaved(g, m)
  BY UnsavedKept
<1>5. ASSUME NEW m \in Msgs PROVE Objects(m)'
  BY <1>1, <1>2, <1>3, <1>4, ObjectsRead
<1>6. ASSUME NEW m \in Incoming PROVE Accounted(m)'
  <2>1. m \in Msgs
    BY MsgNat
  <2>2. Unseen(m)' \subseteq Unseen(m)
    BY <1>3, <2>1, UnseenReads
  <2>3. Receipting(m)' \subseteq Receipting(m)
    BY ReceiptingKept DEF Sends
  <2> QED
    BY <1>1, <1>2, <2>1, <2>2, <2>3, AccountedRead
<1>7. ASSUME NEW m \in Outgoing PROVE Effective(m)'
  <2>1. m \in Msgs
    BY MsgNat
  <2>2. Receiving(m) => Receiving(m)'
    <3>1. job[h] = [op |-> "receipt", msg |-> m] => job'[h] = job[h]
      OBVIOUS
    <3>2. Elsewhere(h)
      BY DEF Sends
    <3> QED
      BY <3>1, <3>2, ReceivingKept
  <2>3. row'[m] \in {row[m], NoRow}
    BY <2>1 DEF Reads
  <2> QED
    BY <1>2, <1>4, <2>2, <2>3, EffectiveKept
<1> QED
  BY <1>5, <1>6, <1>7 DEF MInv

LEMMA AddOne ==
  ASSUME NEW S, IsFiniteSet(S), NEW x
  PROVE  IsFiniteSet(S \cup {x}) /\ Cardinality(S \cup {x}) <= Cardinality(S) + 1
<1>1. Cardinality(S) \in Nat
  BY FS_CardinalityType
<1>2. IsFiniteSet(S \cup {x})
  BY FS_AddElement
<1>3. CASE x \in S
  <2>1. S \cup {x} = S
    BY <1>3
  <2>2. Cardinality(S \cup {x}) = Cardinality(S)
    BY <2>1
  <2> QED
    BY <1>1, <1>2, <2>2
<1>4. CASE x \notin S
  <2>1. Cardinality(S \cup {x}) = Cardinality(S) + 1
    BY <1>4, FS_AddElement
  <2> QED
    BY <1>1, <1>2, <2>1
<1> QED
  BY <1>3, <1>4

\* An unseen object is seen, and its receipt is on the way out.
LEMMA AccountedMarked ==
  ASSUME NEW m \in Incoming, Objects(m), objects \in Nat, Accounted(m), NEW h, NEW i \in Unseen(m),
         Unseen(m)' \subseteq Unseen(m) \ {i}, Receipting(m)' \subseteq Receipting(m) \cup {h},
         filed[m] \in Nat, receipts[m] \in Nat, filed'[m] = filed[m], receipts'[m] = receipts[m]
  PROVE  Accounted(m)'
<1> DEFINE R == Receipting(m)
           U == Unseen(m)
<1>1. IsFiniteSet(R) /\ IsFiniteSet(U) /\ Cardinality(R) \in Nat /\ Cardinality(U) \in Nat
  BY UnseenFinite, FS_CardinalityType DEF Accounted
<1>2. IsFiniteSet(R \cup {h}) /\ Cardinality(R \cup {h}) <= Cardinality(R) + 1
  BY <1>1, AddOne
<1>3. IsFiniteSet(U \ {i}) /\ Cardinality(U \ {i}) = Cardinality(U) - 1
  BY <1>1, FS_RemoveElement
<1>4. IsFiniteSet(Receipting(m)') /\ Cardinality(Receipting(m)') <= Cardinality(R \cup {h})
  BY <1>2, FS_Subset
<1>5. IsFiniteSet(Unseen(m)') /\ Cardinality(Unseen(m)') <= Cardinality(U \ {i})
  BY <1>3, FS_Subset
<1>6. /\ Cardinality(Receipting(m)') \in Nat /\ Cardinality(Unseen(m)') \in Nat
      /\ Cardinality(R \cup {h}) \in Nat /\ Cardinality(U \ {i}) \in Nat
  BY <1>2, <1>3, <1>4, <1>5, FS_CardinalityType
<1>7. receipts[m] + Cardinality(R) + Cardinality(U) <= filed[m]
  BY DEF Accounted
<1>8. receipts'[m] + Cardinality(Receipting(m)') + Cardinality(Unseen(m)') <= filed'[m]
  BY <1>1, <1>2, <1>3, <1>4, <1>5, <1>6, <1>7
<1> QED
  BY <1>4, <1>8 DEF Accounted

\* An arrival is stored.
LEMMA AccountedFiled ==
  ASSUME NEW m \in Incoming, Objects(m), objects \in Nat, Accounted(m), NEW i,
         Unseen(m)' \subseteq Unseen(m) \cup {i}, Receipting(m)' \subseteq Receipting(m),
         filed[m] \in Nat, receipts[m] \in Nat, filed'[m] = filed[m] + 1, receipts'[m] = receipts[m]
  PROVE  Accounted(m)'
<1> DEFINE R == Receipting(m)
           U == Unseen(m)
<1>1. IsFiniteSet(R) /\ IsFiniteSet(U) /\ Cardinality(R) \in Nat /\ Cardinality(U) \in Nat
  BY UnseenFinite, FS_CardinalityType DEF Accounted
<1>2. IsFiniteSet(U \cup {i}) /\ Cardinality(U \cup {i}) <= Cardinality(U) + 1
  BY <1>1, AddOne
<1>4. IsFiniteSet(Receipting(m)') /\ Cardinality(Receipting(m)') <= Cardinality(R)
  BY <1>1, FS_Subset
<1>5. IsFiniteSet(Unseen(m)') /\ Cardinality(Unseen(m)') <= Cardinality(U \cup {i})
  BY <1>2, FS_Subset
<1>6. /\ Cardinality(Receipting(m)') \in Nat /\ Cardinality(Unseen(m)') \in Nat
      /\ Cardinality(U \cup {i}) \in Nat
  BY <1>2, <1>4, <1>5, FS_CardinalityType
<1>7. receipts[m] + Cardinality(R) + Cardinality(U) <= filed[m]
  BY DEF Accounted
<1>8. receipts'[m] + Cardinality(Receipting(m)') + Cardinality(Unseen(m)') <= filed'[m]
  BY <1>1, <1>2, <1>4, <1>5, <1>6, <1>7
<1> QED
  BY <1>4, <1>8 DEF Accounted

\* A receipt goes out.
LEMMA AccountedSent ==
  ASSUME NEW m \in Incoming, Objects(m), objects \in Nat, Accounted(m), NEW h \in Receipting(m),
         Unseen(m)' \subseteq Unseen(m), Receipting(m)' \subseteq Receipting(m) \ {h},
         filed[m] \in Nat, receipts[m] \in Nat, filed'[m] = filed[m], receipts'[m] = receipts[m] + 1
  PROVE  Accounted(m)'
<1> DEFINE R == Receipting(m)
           U == Unseen(m)
<1>1. IsFiniteSet(R) /\ IsFiniteSet(U) /\ Cardinality(R) \in Nat /\ Cardinality(U) \in Nat
  BY UnseenFinite, FS_CardinalityType DEF Accounted
<1>3. IsFiniteSet(R \ {h}) /\ Cardinality(R \ {h}) = Cardinality(R) - 1
  BY <1>1, FS_RemoveElement
<1>4. IsFiniteSet(Receipting(m)') /\ Cardinality(Receipting(m)') <= Cardinality(R \ {h})
  BY <1>3, FS_Subset
<1>5. IsFiniteSet(Unseen(m)') /\ Cardinality(Unseen(m)') <= Cardinality(U)
  BY <1>1, FS_Subset
<1>6. /\ Cardinality(Receipting(m)') \in Nat /\ Cardinality(Unseen(m)') \in Nat
      /\ Cardinality(R \ {h}) \in Nat
  BY <1>3, <1>4, <1>5, FS_CardinalityType
<1>7. receipts[m] + Cardinality(R) + Cardinality(U) <= filed[m]
  BY DEF Accounted
<1>8. receipts'[m] + Cardinality(Receipting(m)') + Cardinality(Unseen(m)') <= filed'[m]
  BY <1>1, <1>3, <1>4, <1>5, <1>6, <1>7
<1> QED
  BY <1>4, <1>8 DEF Accounted

\* A row in hand is written back: it is the same object, and seen if it was.
LEMMA MBack ==
  ASSUME IInv, MInv, NEW h \in Handlers, NEW l \in Labels, NEW k \in Msgs, NEW r \in MsgRows,
         NEW b \in [Msgs -> MsgOrNone], WriteBack(h, k, r, b, l),
         mbuf[h][k] # NoRow, r.id = mbuf[h][k].id, mbuf[h][k].seen => r.seen,
         \A m \in Msgs \ {k} : b[m] \in {mbuf[h][m], NoRow},
         l = "idle" \/ b[k] \in {r, NoRow}, l \notin Sendable,
         job[h].op = "send" => job[h].msg = k,
         job[h].op = "receipt" => job[h].msg = k /\ r.seen,
         l = "mdn" => k \in Incoming /\ ~mbuf[h][k].seen /\ r.seen,
         UNCHANGED <<shared, mdns, peerRead, filed, receipts, missed>>
  PROVE  MInv' /\ Sends(h)
<1> DEFINE r0 == mbuf[h][k]
<1>0. TypeOK /\ objects \in Nat /\ \A m \in Incoming : filed[m] \in Nat /\ receipts[m] \in Nat
  BY DEF IInv, TypeOK, StoreType, HistoryType
<1>1. stray' = (IF row[k] = NoRow THEN stray \cup {k} ELSE stray) /\ objects' = objects
  BY DEF WriteBack
<1>2. SaveMessage(h, k, r, b, l)
  BY DEF WriteBack
<1>3. /\ Elsewhere(h) /\ pc'[h] = l
      /\ job'[h] = IF l = "idle" THEN NoJob ELSE [op |-> job[h].op, msg |-> k]
  BY <1>0, <1>2, SaveMessageGoes
<1>4. job[h] \in Jobs
  BY <1>0 DEF TypeOK, ControlType
<1>5. Sends(h)
  BY <1>3, <1>4 DEF Sends, Jobs, NoJob
<1>6. \A m, g : g \in Handlers /\ Unsaved(g, m)' => Unsaved(g, m)
  BY <1>5, UnsavedKept
<1> SUFFICES ASSUME shared PROVE MInv'
  BY <1>5 DEF MInv
<1>7. /\ \A m \in Msgs : Objects(m)
      /\ \A m \in Incoming : Accounted(m)
      /\ \A m \in Outgoing : Effective(m)
  BY DEF MInv
<1>8. Saves(k, r)
  BY <1>0, <1>2, SavesMessage
<1>9. \A m \in Msgs \ {k} : Alive(m)' \subseteq Alive(m)
  BY <1>8, AliveOther
<1>10. Alive(k)' \subseteq {s \in Alive(k) : s.id # r.id} \cup {r}
  BY <1>8, AliveSaved
<1>11. r0 \in Alive(k)
  BY DEF Alive
<1>12. ASSUME NEW m \in Msgs PROVE Objects(m)'
  <2>1. CASE m = k
    BY <1>1, <1>6, <1>7, <1>10, <1>11, <2>1, ObjectsBack
  <2>2. CASE m # k
    BY <1>0, <1>1, <1>6, <1>7, <1>9, <2>2, ObjectsRead
  <2> QED
    BY <2>1, <2>2
<1>13. ASSUME NEW m \in Incoming PROVE Accounted(m)'
  <2>0. m \in Msgs /\ Objects(m) /\ Accounted(m)
    BY <1>7, MsgNat
  <2>1. CASE m # k
    <3>1. Unseen(m)' \subseteq Unseen(m)
      BY <1>9, <2>0, <2>1, UnseenReads
    <3>2. pc'[h] = "mdn" => job'[h].msg # m
      BY <1>3, <2>1
    <3>3. Receipting(m)' \subseteq Receipting(m)
      BY <1>3, <3>2, ReceiptingKept
    <3> QED
      BY <1>0, <2>0, <3>1, <3>3, AccountedRead
  <2>2. CASE m = k /\ l # "mdn"
    <3>1. Unseen(m)' \subseteq Unseen(m)
      BY <1>10, <1>11, <2>2 DEF Unseen
    <3>2. pc'[h] # "mdn"
      BY <1>3, <2>2
    <3>3. Receipting(m)' \subseteq Receipting(m)
      BY <1>3, <3>2, ReceiptingKept
    <3> QED
      BY <1>0, <2>0, <3>1, <3>3, AccountedRead
  <2>3. CASE m = k /\ l = "mdn"
    <3>1. r0.id \in Unseen(m)
      BY <1>11, <2>3 DEF Unseen
    <3>2. Unseen(m)' \subseteq Unseen(m) \ {r0.id}
      BY <1>10, <2>3 DEF Unseen
    <3>3. Receipting(m)' \subseteq Receipting(m) \cup {h}
      BY <1>3 DEF Elsewhere, Receipting
    <3> HIDE DEF r0
    <3> QED
      BY <1>0, <2>0, <3>1, <3>2, <3>3, AccountedMarked
  <2> QED
    BY <2>1, <2>2, <2>3
<1>14. ASSUME NEW m \in Outgoing PROVE Effective(m)'
  <2>0. m \in Msgs /\ Objects(m) /\ Effective(m) /\ m \notin Incoming
    BY <1>7, MsgNat
  <2>1. row'[k] = r /\ \A j \in Msgs \ {k} : row'[j] = row[j]
    BY <1>8 DEF Saves
  <2>2. m \in stray \/ row[m] = NoRow \/ row[m].seen => m \in stray' \/ row'[m] = NoRow \/ row'[m].seen
    <3>1. CASE m # k
      BY <1>1, <2>0, <2>1, <3>1
    <3>2. CASE m = k /\ row[k] = NoRow
      BY <1>1, <3>2
    <3>3. CASE m = k /\ row[k] # NoRow
      <4>1. row[k] \in Alive(k)
        BY <3>3 DEF Alive
      <4>2. row[k] = r0
        BY <1>11, <2>0, <3>3, <4>1 DEF Objects
      <4> QED
        BY <1>1, <2>1, <3>3, <4>2
    <3> QED
      BY <3>1, <3>2, <3>3
  <2>3. CASE job[h].op = "receipt" /\ m = k
    <3>1. \A g \in Handlers : ~Unsaved(g, m)
      BY <1>11, <2>0, <2>3 DEF Objects
    <3>2. row'[m].seen
      BY <2>1, <2>3
    <3> QED
      BY <1>6, <3>1, <3>2 DEF Effective
  <2>4. CASE ~(job[h].op = "receipt" /\ m = k)
    <3>1. job[h] # [op |-> "receipt", msg |-> m]
      BY <2>4
    <3>2. Receiving(m) => Receiving(m)'
      BY <1>3, <3>1, ReceivingKept
    <3> QED
      BY <1>6, <2>0, <2>2, <3>2, EffectiveKept
  <2> QED
    BY <2>3, <2>4
<1> QED
  BY <1>12, <1>13, <1>14 DEF MInv

-----------------------------------------------------------------------------
\* The operations, the sends and the messages together

Orderly == (\A h \in Handlers : Errand(h)) /\ OneSend /\ MInv

LEMMA ErrandKept ==
  ASSUME NEW h \in Handlers, Elsewhere(h), \A g \in Handlers : Errand(g), Errand(h)'
  PROVE  \A g \in Handlers : Errand(g)'
BY DEF Elsewhere, Errand

\* Where a step that goes on with the same job leads.
LEMMA GoesOn ==
  ASSUME IInv, Orderly, NEW h \in Handlers, NEW l, Elsewhere(h), pc'[h] = l,
         job'[h] = IF l = "idle" THEN NoJob ELSE job[h],
         job[h].op = "receipt" => l \in {"create", "target", "amend"},
         job[h].op = "send" /\ l \in Sendable => pc[h] \in Sendable
  PROVE  Sends(h) /\ OneSend' /\ \A g \in Handlers : Errand(g)'
<1>1. Sends(h)
  BY DEF Sends, NoJob, Sendable
<1>2. Errand(h)'
  BY DEF Errand, NoJob
<1> QED
  BY <1>1, <1>2, OneSendKept, ErrandKept DEF Orderly

LEMMA MHold ==
  ASSUME IInv, Orderly, NEW h \in Handlers, NEW l, NEW c, NEW b, Hold(h, l, c, b),
         \A m \in Msgs : b[m] \in {mbuf[h][m], row[m], NoRow} /\ row'[m] \in {row[m], NoRow},
         l # "mdn", job[h].op = "receipt" => l \in {"create", "target", "amend"},
         job[h].op = "send" /\ l \in Sendable => pc[h] \in Sendable,
         UNCHANGED <<shared, objects, mdns, peerRead, filed, receipts>>,
         missed \subseteq missed', stray \subseteq stray'
  PROVE  Orderly'
<1>0. TypeOK /\ objects \in Nat /\ MInv
  BY DEF IInv, TypeOK, StoreType, Orderly
<1>1. /\ Elsewhere(h) /\ pc'[h] = l
      /\ job'[h] = IF l = "idle" THEN NoJob ELSE job[h]
      /\ mbuf'[h] = KeptAll(l, b) /\ \A g \in Handlers \ {h} : mbuf'[g] = mbuf[g]
  BY <1>0, HoldDoes
<1>2. Sends(h) /\ OneSend' /\ \A g \in Handlers : Errand(g)'
  BY <1>1, GoesOn
<1>3. Reads
  BY <1>1 DEF Reads, KeptAll, NoMsgs
<1>4. job[h].op = "receipt" => job'[h] = job[h]
  BY <1>1
<1>5. objects' \in Nat /\ objects <= objects'
  BY <1>0
<1>6. MInv'
  BY <1>0, <1>1, <1>2, <1>3, <1>4, <1>5, MRead
<1> QED
  BY <1>2, <1>6 DEF Orderly

LEMMA MSkip ==
  ASSUME IInv, Orderly, NEW h \in Handlers, NEW l, Skip(h, l), UNCHANGED row,
         l # "mdn", job[h].op = "receipt" => l \in {"create", "target", "amend"},
         job[h].op = "send" /\ l \in Sendable => pc[h] \in Sendable,
         UNCHANGED <<shared, objects, mdns, peerRead, filed, receipts>>,
         missed \subseteq missed', stray \subseteq stray'
  PROVE  Orderly'
BY MHold DEF Skip

LEMMA MReadChat ==
  ASSUME IInv, Orderly, NEW h \in Handlers, NEW l1, NEW l2, ReadChat(h, l1, l2),
         {l1, l2} \cap {"mdn"} = {}, job[h].op # "receipt",
         \A l \in {l1, l2} : l \in Sendable => pc[h] \in Sendable,
         UNCHANGED <<shared, ops, world, history>>
  PROVE  Orderly'
<1>1. UNCHANGED <<row, objects, mdns, peerRead, filed, receipts, missed, stray>>
  BY DEF ReadChat, store, world, history
<1>2. PICK l \in {l1, l2} : Hold(h, l, chat, mbuf[h])
  BY DEF ReadChat
<1> QED
  BY <1>1, <1>2, MHold

LEMMA MSaveChat ==
  ASSUME IInv, Orderly, NEW h \in Handlers, NEW l, NEW c \in ChatRows, NEW n, SaveChat(h, c, n, l),
         l # "mdn", job[h].op = "receipt" => l \in {"create", "target", "amend"},
         job[h].op = "send" /\ l \in Sendable => pc[h] \in Sendable,
         UNCHANGED <<shared, world, filed, receipts, missed, stray>>, objects' \in {objects, Fresh}
  PROVE  Orderly'
<1>0. TypeOK /\ objects \in Nat /\ MInv
  BY DEF IInv, TypeOK, StoreType, Orderly
<1>1. /\ Elsewhere(h) /\ pc'[h] = l
      /\ job'[h] = IF l = "idle" THEN NoJob ELSE job[h]
      /\ row' = row /\ mbuf'[h] = KeptAll(l, mbuf[h]) /\ \A g \in Handlers \ {h} : mbuf'[g] = mbuf[g]
  BY <1>0, SaveChatDoes
<1>2. Sends(h) /\ OneSend' /\ \A g \in Handlers : Errand(g)'
  BY <1>1, GoesOn
<1>3. Reads
  BY <1>1 DEF Reads, KeptAll, NoMsgs
<1>4. job[h].op = "receipt" => job'[h] = job[h]
  BY <1>1
<1>5. UNCHANGED <<mdns, peerRead>>
  BY DEF world
<1>6. MInv'
  <2> SUFFICES ASSUME shared PROVE MInv'
    BY DEF MInv
  <2>1. objects' \in Nat /\ objects <= objects'
    BY <1>0 DEF Fresh
  <2> QED
    BY <1>0, <1>1, <1>2, <1>3, <1>4, <1>5, <2>1, MRead
<1> QED
  BY <1>2, <1>6 DEF Orderly

\* An operation begins: it is no send, and takes rows of the store along.
LEMMA MStart ==
  ASSUME IInv, Orderly, NEW h \in Handlers, NEW op, NEW m, Start(h, op, m), NEW l, pc' = [pc EXCEPT ![h] = l],
         l \notin {"idle", "mdn"}, op # "send", op = "receipt" => l \in {"create", "target", "amend"},
         row' = row, \A g \in Handlers, k \in Msgs : mbuf'[g][k] \in {mbuf[g][k], row[k], NoRow},
         UNCHANGED <<shared, objects, mdns, peerRead, history>>
  PROVE  Orderly'
<1>0. TypeOK /\ objects \in Nat /\ MInv
  BY DEF IInv, TypeOK, StoreType, Orderly
<1>1. Elsewhere(h) /\ pc'[h] = l /\ job'[h] = [op |-> op, msg |-> m]
  BY <1>0 DEF TypeOK, ControlType, Start, Elsewhere
<1>2. Sends(h) /\ Errand(h)'
  BY <1>1 DEF Sends, Errand
<1>3. OneSend' /\ \A g \in Handlers : Errand(g)'
  BY <1>1, <1>2, OneSendKept, ErrandKept DEF Orderly
<1>4. Reads
  BY DEF Reads
<1>5. job[h].op # "receipt"
  BY DEF Orderly, Errand, Start, NoJob
<1>6. UNCHANGED <<filed, receipts, missed, stray>> /\ objects' \in Nat /\ objects <= objects'
  BY <1>0 DEF history
<1>7. MInv'
  BY <1>0, <1>1, <1>2, <1>4, <1>5, <1>6, MRead
<1> QED
  BY <1>3, <1>7 DEF Orderly

LEMMA MWriteBack ==
  ASSUME IInv, Orderly, NEW h \in Handlers, NEW l \in Labels, NEW k \in Msgs, NEW r \in MsgRows,
         NEW b \in [Msgs -> MsgOrNone], WriteBack(h, k, r, b, l),
         mbuf[h][k] # NoRow, r.id = mbuf[h][k].id, mbuf[h][k].seen => r.seen,
         \A m \in Msgs \ {k} : b[m] \in {mbuf[h][m], NoRow},
         l = "idle" \/ b[k] \in {r, NoRow}, l \in {"idle", "mdn"},
         job[h].op = "send" => job[h].msg = k,
         job[h].op = "receipt" => job[h].msg = k /\ r.seen /\ l = "idle",
         l = "mdn" => k \in Incoming /\ ~mbuf[h][k].seen /\ r.seen,
         UNCHANGED <<shared, ops, world, counted, filed, receipts, missed>>
  PROVE  Orderly'
<1>1. l \notin Sendable /\ UNCHANGED <<mdns, peerRead>>
  BY DEF Sendable, world
<1>2. MInv /\ TypeOK
  BY DEF Orderly, IInv
<1>3. MInv' /\ Sends(h)
  BY <1>1, <1>2, MBack
<1>4. SaveMessage(h, k, r, b, l)
  BY DEF WriteBack
<1>5. /\ Elsewhere(h) /\ pc'[h] = l
      /\ job'[h] = IF l = "idle" THEN NoJob ELSE [op |-> job[h].op, msg |-> k]
  BY <1>2, <1>4, SaveMessageGoes
<1>6. Errand(h)'
  BY <1>5 DEF Errand, NoJob
<1> QED
  BY <1>3, <1>5, <1>6, OneSendKept, ErrandKept DEF Orderly

-----------------------------------------------------------------------------
\* The steps that settle something about one message

LEMMA MSaveIncoming ==
  ASSUME IInv, Orderly, NEW h \in Handlers, SaveIncoming(h)
  PROVE  Orderly'
<1> PICK k, r : k = job[h].msg /\ r = NewMsg
  OBVIOUS
<1>0. objects' = Fresh /\ shared' = shared
  BY DEF SaveIncoming
<1>1. /\ pc[h] = "save" /\ SaveMessage(h, k, r, mbuf[h], "summary") /\ objects' = Fresh
      /\ filed' = [filed EXCEPT ![k] = @ + 1]
      /\ UNCHANGED <<shared, mdns, peerRead, receipts, missed, stray>>
  BY DEF SaveIncoming, world
<1>2. job[h].op = "chat" /\ k \in Incoming /\ k \in Msgs /\ k \notin Outgoing
  BY <1>1, Facts, MsgNat DEF Fit, FitIn
<1>3. /\ TypeOK /\ objects \in Nat /\ r \in MsgRows /\ filed \in [Incoming -> Nat]
      /\ \A m \in Incoming : filed[m] \in Nat /\ receipts[m] \in Nat
  BY NewRows DEF IInv, TypeOK, StoreType, HistoryType
<1>4. Elsewhere(h) /\ pc'[h] = "summary" /\ job'[h] = [op |-> "chat", msg |-> k]
  BY <1>1, <1>2, <1>3, SaveMessageGoes
<1>5. Sends(h) /\ Errand(h)'
  BY <1>4 DEF Sends, Errand
<1>6. OneSend' /\ \A g \in Handlers : Errand(g)'
  BY <1>4, <1>5, OneSendKept, ErrandKept DEF Orderly
<1>7. MInv'
  <2> SUFFICES ASSUME shared PROVE MInv'
    BY <1>0 DEF MInv
  <2>1. objects' = objects + 1 /\ r.id = objects' /\ objects' \in Nat /\ objects <= objects'
    <3>1. objects' = objects + 1
      BY <1>0 DEF Fresh
    <3>2. r.id = objects + 1
      BY DEF Fresh, NewMsg
    <3> QED
      BY <1>3, <3>1, <3>2
  <2>2. /\ \A m \in Msgs : Objects(m)
        /\ \A m \in Incoming : Accounted(m)
        /\ \A m \in Outgoing : Effective(m)
    BY DEF MInv, Orderly
  <2>3. \A m, g : g \in Handlers /\ Unsaved(g, m)' => Unsaved(g, m)
    BY <1>5, UnsavedKept
  <2>4. mbuf[h][k] # NoRow => mbuf[h][k].id # r.id
    <3>1. mbuf[h][k] # NoRow => mbuf[h][k] \in Alive(k)
      BY DEF Alive
    <3>2. mbuf[h][k] # NoRow => mbuf[h][k].id \in 1 .. objects
      BY <1>2, <2>2, <3>1 DEF Objects
    <3> QED
      BY <1>3, <2>1, <3>2
  <2>5. mbuf[h] \in [Msgs -> MsgOrNone]
    BY Facts
  <2>6. Saves(k, r)
    BY <1>1, <1>2, <1>3, <2>4, <2>5, SavesMessage
  <2>7. \A m \in Msgs \ {k} : Alive(m)' \subseteq Alive(m)
    BY <2>6, AliveOther
  <2>8. Alive(k)' \subseteq {s \in Alive(k) : s.id # r.id} \cup {r}
    BY <1>2, <2>6, AliveSaved
  <2>9. filed'[k] = filed[k] + 1 /\ \A m \in Incoming \ {k} : filed'[m] = filed[m]
    BY <1>1, <1>2, <1>3
  <2>10. \A g \in Handlers : ~Unsaved(g, k)
    <3>1. \A g \in Handlers : job[g].op = "send" => job[g].msg \in Outgoing
      BY Facts DEF Fit, FitIn
    <3> QED
      BY <1>2, <3>1 DEF Unsaved
  <2>11. ASSUME NEW m \in Msgs PROVE Objects(m)'
    <3>1. CASE m = k
      BY <1>2, <1>3, <2>1, <2>2, <2>3, <2>8, <2>9, <2>10, <3>1, ObjectsFiled
    <3>2. CASE m # k
      <4>1. Objects(m) /\ Alive(m)' \subseteq Alive(m)
        BY <2>2, <2>7, <3>2
      <4>2. m \in Incoming => filed'[m] = filed[m]
        BY <2>9, <3>2
      <4>3. (\E g \in Handlers : Unsaved(g, m)') => \E g \in Handlers : Unsaved(g, m)
        BY <2>3
      <4> QED
        BY <1>3, <2>1, <4>1, <4>2, <4>3, ObjectsRead
    <3> QED
      BY <3>1, <3>2
  <2>12. ASSUME NEW m \in Incoming PROVE Accounted(m)'
    <3>1. m \in Msgs /\ Objects(m) /\ Accounted(m)
      BY <2>2, MsgNat
    <3>2. Receipting(m)' \subseteq Receipting(m)
      BY <1>4, ReceiptingKept
    <3>3. receipts'[m] = receipts[m]
      BY <1>1
    <3>4. CASE m = k
      <4>1. Unseen(m)' \subseteq Unseen(m) \cup {r.id}
        BY <2>8, <3>4 DEF Unseen
      <4>2. filed'[m] = filed[m] + 1
        BY <2>9, <3>4
      <4> QED
        BY <1>3, <3>1, <3>2, <3>3, <4>1, <4>2, AccountedFiled
    <3>5. CASE m # k
      <4>1. Unseen(m)' \subseteq Unseen(m)
        BY <2>7, <3>1, <3>5, UnseenReads
      <4>2. filed'[m] = filed[m]
        BY <2>9, <3>5
      <4> QED
        BY <1>3, <3>1, <3>2, <3>3, <4>1, <4>2, AccountedRead
    <3> QED
      BY <3>4, <3>5
  <2>13. ASSUME NEW m \in Outgoing PROVE Effective(m)'
    <3>1. Receiving(m) => Receiving(m)'
      BY <1>2, <1>4, ReceivingKept
    <3>2. row'[m] = row[m]
      BY <1>2, <2>6, MsgNat DEF Saves
    <3>3. \A g \in Handlers : Unsaved(g, m)' => Unsaved(g, m)
      BY <2>3
    <3> QED
      BY <1>1, <2>2, <3>1, <3>2, <3>3, EffectiveKept
  <2> QED
    BY <2>11, <2>12, <2>13 DEF MInv
<1> QED
  BY <1>6, <1>7 DEF Orderly

LEMMA MPersist ==
  ASSUME IInv, Orderly, NEW h \in Handlers, PersistOutgoing(h)
  PROVE  Orderly'
<1> PICK k, r, b : k = job[h].msg /\ r = NewMsg /\ b = [mbuf[h] EXCEPT ![k] = r]
  OBVIOUS
<1>0. objects' = Fresh /\ shared' = shared
  BY DEF PersistOutgoing
<1>1. /\ pc[h] = "persist" /\ objects' = Fresh /\ stray \subseteq stray'
      /\ UNCHANGED <<shared, mdns, peerRead, filed, receipts, missed>>
  BY DEF PersistOutgoing, world
<1>2. PICK l \in {"idle", "reply", "rewrite"} : SaveMessage(h, k, r, b, l)
  BY DEF PersistOutgoing
<1>3. job[h].op = "send" /\ k \in Outgoing /\ k \in Msgs /\ k \notin Incoming /\ job[h] \in Jobs
  BY <1>1, Facts, MsgNat DEF Fit, FitIn
<1>4. /\ TypeOK /\ objects \in Nat /\ r \in MsgRows
      /\ \A m \in Incoming : filed[m] \in Nat /\ receipts[m] \in Nat
  BY NewRows DEF IInv, TypeOK, StoreType, HistoryType
<1>5. job[h] = [op |-> "send", msg |-> k]
  BY <1>3 DEF Jobs
<1>6. Elsewhere(h) /\ pc'[h] = l /\ job'[h] = IF l = "idle" THEN NoJob ELSE [op |-> "send", msg |-> k]
  BY <1>2, <1>3, <1>4, SaveMessageGoes
<1>7. Sends(h) /\ Errand(h)'
  BY <1>5, <1>6 DEF Sends, Errand, Sendable, NoJob
<1>8. OneSend' /\ \A g \in Handlers : Errand(g)'
  BY <1>6, <1>7, OneSendKept, ErrandKept DEF Orderly
<1>9. MInv'
  <2> SUFFICES ASSUME shared PROVE MInv'
    BY <1>0 DEF MInv
  <2>1. objects' = objects + 1 /\ r.id = objects' /\ objects' \in Nat /\ objects <= objects'
    <3>1. objects' = objects + 1
      BY <1>0 DEF Fresh
    <3>2. r.id = objects + 1
      BY DEF Fresh, NewMsg
    <3> QED
      BY <1>4, <3>1, <3>2
  <2>2. /\ \A m \in Msgs : Objects(m)
        /\ \A m \in Incoming : Accounted(m)
        /\ \A m \in Outgoing : Effective(m)
    BY DEF MInv, Orderly
  <2>3. \A m, g : g \in Handlers /\ Unsaved(g, m)' => Unsaved(g, m)
    BY <1>7, UnsavedKept
  <2>4. b \in [Msgs -> MsgOrNone] /\ b[k] = r /\ \A m \in Msgs \ {k} : b[m] = mbuf[h][m]
    BY <1>3, <1>4, Facts DEF MsgOrNone
  <2>6. Saves(k, r)
    BY <1>2, <1>3, <1>4, <2>4, SavesMessage
  <2>7. \A m \in Msgs \ {k} : Alive(m)' \subseteq Alive(m)
    BY <2>6, AliveOther
  <2>8. Alive(k)' \subseteq {s \in Alive(k) : s.id # r.id} \cup {r}
    BY <1>3, <2>6, AliveSaved
  <2>9. Unsaved(h, k)
    BY <1>1, <1>5 DEF Unsaved
  <2>10. Alive(k) = {}
    BY <1>3, <2>2, <2>9 DEF Objects
  <2>11. ASSUME NEW g \in Handlers PROVE ~Unsaved(g, k)'
    <3>1. CASE g = h
      BY <1>6, <3>1 DEF Unsaved
    <3>2. CASE g # h
      <4>1. ~Unsaved(g, k)
        BY <1>3, <3>2 DEF Orderly, OneSend, Unsaved
      <4> QED
        BY <2>3, <4>1
    <3> QED
      BY <3>1, <3>2
  <2>12. ASSUME NEW m \in Msgs PROVE Objects(m)'
    <3>1. CASE m = k
      BY <1>3, <1>4, <2>1, <2>2, <2>8, <2>10, <2>11, <3>1, ObjectsSent
    <3>2. CASE m # k
      BY <1>1, <1>4, <2>1, <2>2, <2>3, <2>7, <3>2, ObjectsRead
    <3> QED
      BY <3>1, <3>2
  <2>13. ASSUME NEW m \in Incoming PROVE Accounted(m)'
    <3>1. m \in Msgs /\ m # k /\ Objects(m) /\ Accounted(m)
      BY <1>3, <2>2, MsgNat
    <3>2. Unseen(m)' \subseteq Unseen(m)
      BY <2>7, <3>1, UnseenReads
    <3>3. Receipting(m)' \subseteq Receipting(m)
      BY <1>6, ReceiptingKept
    <3> QED
      BY <1>1, <1>4, <3>1, <3>2, <3>3, AccountedRead
  <2>14. ASSUME NEW m \in Outgoing PROVE Effective(m)'
    <3>0. job[h] # [op |-> "receipt", msg |-> m]
      BY <1>3
    <3>1. Receiving(m) => Receiving(m)'
      BY <1>6, <3>0, ReceivingKept
    <3>2. m # k => row'[m] = row[m]
      BY <2>6, MsgNat DEF Saves
    <3>3. (\A g \in Handlers : ~Unsaved(g, m)) => m # k
      BY <2>9
    <3>4. \A g \in Handlers : Unsaved(g, m)' => Unsaved(g, m)
      BY <2>3
    <3> QED
      BY <1>1, <2>2, <3>1, <3>2, <3>3, <3>4, EffectiveKept
  <2> QED
    BY <2>12, <2>13, <2>14 DEF MInv
<1> QED
  BY <1>8, <1>9 DEF Orderly

LEMMA MSendReceipt ==
  ASSUME IInv, Orderly, NEW h \in Handlers, SendReceipt(h)
  PROVE  Orderly'
<1> PICK k : k = job[h].msg
  OBVIOUS
<1> PICK l : l = IF job[h].op = "markRead" THEN "reading" ELSE "idle"
  OBVIOUS
<1>1. /\ pc[h] = "mdn" /\ Hold(h, l, cbuf[h], mbuf[h]) /\ receipts' = [receipts EXCEPT ![k] = @ + 1]
      /\ UNCHANGED <<shared, row, objects, mdns, peerRead, filed, missed, stray>>
  BY DEF SendReceipt, Skip, store, world
<1>2. job[h].op \in {"markRead", "markSeen"} /\ k \in Incoming
  BY <1>1, Facts DEF Fit, FitIn
<1>3. /\ TypeOK /\ objects \in Nat /\ receipts \in [Incoming -> Nat]
      /\ \A m \in Incoming : filed[m] \in Nat /\ receipts[m] \in Nat
  BY DEF IInv, TypeOK, StoreType, HistoryType
<1>4. /\ Elsewhere(h) /\ pc'[h] = l /\ job'[h] = IF l = "idle" THEN NoJob ELSE job[h]
      /\ mbuf'[h] = KeptAll(l, mbuf[h]) /\ \A g \in Handlers \ {h} : mbuf'[g] = mbuf[g]
  BY <1>1, <1>3, HoldDoes
<1>5. Sends(h) /\ OneSend' /\ \A g \in Handlers : Errand(g)'
  BY <1>2, <1>4, GoesOn DEF Sendable
<1>6. MInv'
  <2> SUFFICES ASSUME shared PROVE MInv'
    BY <1>1 DEF MInv
  <2>1. /\ \A m \in Msgs : Objects(m)
        /\ \A m \in Incoming : Accounted(m)
        /\ \A m \in Outgoing : Effective(m)
    BY DEF MInv, Orderly
  <2>2. \A m, g : g \in Handlers /\ Unsaved(g, m)' => Unsaved(g, m)
    BY <1>5, UnsavedKept
  <2>3. Reads
    BY <1>1, <1>4 DEF Reads, KeptAll, NoMsgs
  <2>4. \A m \in Msgs : Alive(m)' \subseteq Alive(m)
    BY <2>3, AliveReads
  <2>5. objects' \in Nat /\ objects <= objects'
    BY <1>1, <1>3
  <2>6. ASSUME NEW m \in Msgs PROVE Objects(m)'
    BY <1>1, <1>3, <2>1, <2>2, <2>4, <2>5, ObjectsRead
  <2>7. ASSUME NEW m \in Incoming PROVE Accounted(m)'
    <3>1. m \in Msgs /\ Objects(m) /\ Accounted(m) /\ filed'[m] = filed[m]
      BY <1>1, <2>1, MsgNat
    <3>2. Unseen(m)' \subseteq Unseen(m)
      BY <2>4, <3>1, UnseenReads
    <3>3. pc'[h] # "mdn"
      BY <1>4
    <3>4. CASE m = k
      <4>1. h \in Receipting(m)
        BY <1>1, <3>4 DEF Receipting
      <4>2. Receipting(m)' \subseteq Receipting(m) \ {h}
        BY <1>4, <3>3 DEF Elsewhere, Receipting
      <4>3. receipts'[m] = receipts[m] + 1
        BY <1>1, <1>2, <1>3, <3>4
      <4> QED
        BY <1>3, <3>1, <3>2, <4>1, <4>2, <4>3, AccountedSent
    <3>5. CASE m # k
      <4>1. Receipting(m)' \subseteq Receipting(m)
        BY <1>4, <3>3, ReceiptingKept
      <4>2. receipts'[m] = receipts[m]
        BY <1>1, <1>3, <3>5
      <4> QED
        BY <1>3, <3>1, <3>2, <4>1, <4>2, AccountedRead
    <3> QED
      BY <3>4, <3>5
  <2>8. ASSUME NEW m \in Outgoing PROVE Effective(m)'
    <3>1. job[h] # [op |-> "receipt", msg |-> m]
      BY <1>2
    <3>2. Receiving(m) => Receiving(m)'
      BY <1>4, <3>1, ReceivingKept
    <3>3. \A g \in Handlers : Unsaved(g, m)' => Unsaved(g, m)
      BY <2>2
    <3> QED
      BY <1>1, <2>1, <3>2, <3>3, EffectiveKept
  <2> QED
    BY <2>6, <2>7, <2>8 DEF MInv
<1> QED
  BY <1>5, <1>6 DEF Orderly

\* A receipt may find no row: it is missed.
LEMMA MReadTarget ==
  ASSUME IInv, Orderly, NEW h \in Handlers, ReadTarget(h)
  PROVE  Orderly'
<1> PICK k : k = job[h].msg
  OBVIOUS
<1> PICK b : b = [mbuf[h] EXCEPT ![k] = row[k]]
  OBVIOUS
<1> PICK l : l = IF row[k] = NoRow THEN "idle" ELSE "amend"
  OBVIOUS
<1>1. /\ pc[h] = "target" /\ Hold(h, l, cbuf[h], b)
      /\ UNCHANGED <<shared, row, objects, mdns, peerRead, filed, receipts, stray>>
      /\ missed' = IF job[h].op = "receipt" /\ row[k] = NoRow THEN missed \cup {k} ELSE missed
  BY DEF ReadTarget, store, world
<1>2. TypeOK /\ objects \in Nat /\ job[h].op \in {"receipt", "reaction", "sendAmend"} /\ k \in Msgs
      /\ mbuf[h] \in [Msgs -> MsgOrNone]
  BY <1>1, Facts, MsgNat DEF Fit, FitIn, IInv, TypeOK, StoreType
<1>3. \A m \in Msgs : b[m] \in {mbuf[h][m], row[m], NoRow} /\ row'[m] \in {row[m], NoRow}
  BY <1>1, <1>2
<1>4. CASE l = "amend" \/ job[h].op # "receipt"
  BY <1>1, <1>2, <1>3, <1>4, MHold
<1>5. CASE row[k] = NoRow /\ job[h].op = "receipt"
  <2>1. /\ Elsewhere(h) /\ pc'[h] = "idle" /\ job'[h] = NoJob
        /\ mbuf'[h] = NoMsgs /\ \A g \in Handlers \ {h} : mbuf'[g] = mbuf[g]
    BY <1>1, <1>2, <1>5, HoldDoes DEF KeptAll
  <2>2. Sends(h) /\ Errand(h)'
    BY <2>1 DEF Sends, Errand, NoJob
  <2>3. OneSend' /\ \A g \in Handlers : Errand(g)'
    BY <2>1, <2>2, OneSendKept, ErrandKept DEF Orderly
  <2>4. Reads
    BY <1>1, <2>1 DEF Reads, NoMsgs
  <2>5. MInv'
    <3> SUFFICES ASSUME shared PROVE MInv'
      BY <1>1 DEF MInv
    <3>1. /\ \A m \in Msgs : Objects(m)
          /\ \A m \in Incoming : Accounted(m)
          /\ \A m \in Outgoing : Effective(m)
      BY DEF MInv, Orderly
    <3>2. \A m, g : g \in Handlers /\ Unsaved(g, m)' => Unsaved(g, m)
      BY <2>2, UnsavedKept
    <3>3. \A m \in Msgs : Alive(m)' \subseteq Alive(m)
      BY <2>4, AliveReads
    <3>4. objects' \in Nat /\ objects <= objects'
      BY <1>1, <1>2
    <3>5. \A m \in Incoming : filed[m] \in Nat /\ receipts[m] \in Nat
      BY <1>2 DEF TypeOK, HistoryType
    <3>6. ASSUME NEW m \in Msgs PROVE Objects(m)'
      BY <1>1, <1>2, <3>1, <3>2, <3>3, <3>4, ObjectsRead
    <3>7. ASSUME NEW m \in Incoming PROVE Accounted(m)'
      <4>1. m \in Msgs /\ Objects(m) /\ Accounted(m)
        BY <3>1, MsgNat
      <4>2. Unseen(m)' \subseteq Unseen(m)
        BY <3>3, <4>1, UnseenReads
      <4>3. Receipting(m)' \subseteq Receipting(m)
        BY <2>1, ReceiptingKept
      <4> QED
        BY <1>1, <1>2, <3>5, <4>1, <4>2, <4>3, AccountedRead
    <3>8. ASSUME NEW m \in Outgoing PROVE Effective(m)'
      <4>1. CASE m = k
        BY <1>1, <1>5, <4>1 DEF Effective
      <4>2. CASE m # k
        <5>1. job[h] # [op |-> "receipt", msg |-> m]
          BY <4>2
        <5>2. Receiving(m) => Receiving(m)'
          BY <2>1, <5>1, ReceivingKept
        <5>3. \A g \in Handlers : Unsaved(g, m)' => Unsaved(g, m)
          BY <3>2
        <5> QED
          BY <1>1, <3>1, <5>2, <5>3, EffectiveKept
      <4> QED
        BY <4>1, <4>2
    <3> QED
      BY <3>6, <3>7, <3>8 DEF MInv
  <2> QED
    BY <2>3, <2>5 DEF Orderly
<1> QED
  BY <1>4, <1>5

\* Steps that leave the rows of messages alone: a message is sent, a receipt
\* comes in, the peer reads.
LEMMA MUntouched ==
  ASSUME IInv, Orderly, UNCHANGED <<shared, row, mbuf, objects, filed, receipts>>,
         \A m \in Incoming : Receipting(m)' \subseteq Receipting(m),
         \A m \in Msgs : (\E g \in Handlers : Unsaved(g, m)')
            => Alive(m) = {} \/ \E g \in Handlers : Unsaved(g, m),
         shared => \A m \in Outgoing : Effective(m)'
  PROVE  MInv'
<1> SUFFICES ASSUME shared PROVE MInv'
  BY DEF MInv
<1>1. /\ \A m \in Msgs : Objects(m)
      /\ \A m \in Incoming : Accounted(m)
  BY DEF MInv, Orderly
<1>2. objects \in Nat /\ \A m \in Incoming : filed[m] \in Nat /\ receipts[m] \in Nat
  BY DEF IInv, TypeOK, StoreType, HistoryType
<1>3. \A m : Alive(m)' = Alive(m)
  BY DEF Alive
<1>4. ASSUME NEW m \in Msgs PROVE Objects(m)'
  <2>1. (\E g \in Handlers : Unsaved(g, m)') => Alive(m) = {} \/ \E g \in Handlers : Unsaved(g, m)
    OBVIOUS
  <2> QED
    BY <1>1, <1>2, <1>3, <2>1, ObjectsRead
<1>5. ASSUME NEW m \in Incoming PROVE Accounted(m)'
  <2>1. m \in Msgs /\ Objects(m) /\ Accounted(m)
    BY <1>1, MsgNat
  <2>2. Unseen(m)' \subseteq Unseen(m)
    BY <1>3, UnseenReads
  <2> QED
    BY <1>2, <2>1, <2>2, AccountedRead
<1> QED
  BY <1>4, <1>5 DEF MInv

LEMMA MSend ==
  ASSUME IInv, Orderly, NEW h \in Handlers, NEW k \in Outgoing, Send(h, k)
  PROVE  Orderly'
<1>1. /\ pc[h] = "idle" /\ job' = [job EXCEPT ![h] = [op |-> "send", msg |-> k]]
      /\ pc' = [pc EXCEPT ![h] = "sending"] /\ k \notin accepted
      /\ \A g \in Handlers : job[g] # [op |-> "send", msg |-> k]
      /\ UNCHANGED <<shared, row, mbuf, objects, filed, receipts, mdns, peerRead, missed, stray>>
  BY DEF Send, Call, Start, store, bufs, world, history
<1>2. TypeOK /\ Truthful
  BY DEF IInv
<1>3. Elsewhere(h) /\ pc'[h] = "sending" /\ job'[h] = [op |-> "send", msg |-> k]
  BY <1>1, <1>2 DEF TypeOK, ControlType, Elsewhere
<1>4. Errand(h)'
  BY <1>3 DEF Errand
<1>5. \A g \in Handlers : Errand(g)'
  BY <1>3, <1>4, ErrandKept DEF Orderly
<1>6. \A g \in Handlers : job[g].op = "send" => job[g].msg # k
  BY <1>1, <1>2 DEF TypeOK, ControlType, Jobs
<1>7. OneSend'
  BY <1>3, <1>6 DEF Orderly, OneSend, Elsewhere
<1>8. \A m : Receipting(m)' \subseteq Receipting(m)
  BY <1>3 DEF Elsewhere, Receipting
<1>9. Alive(k) = {} /\ k \notin peerRead
  BY <1>1, <1>2, MsgNat DEF Truthful, Honest, Alive
<1>10. \A m, g : g \in Handlers /\ Unsaved(g, m)' => m = k \/ Unsaved(g, m)
  BY <1>3 DEF Unsaved, Elsewhere
<1>11. ASSUME shared, NEW m \in Outgoing PROVE Effective(m)'
  <2>1. CASE m = k
    BY <1>1, <1>9, <2>1 DEF Effective
  <2>2. CASE m # k
    <3>1. job[h] # [op |-> "receipt", msg |-> m]
      BY <1>1 DEF Orderly, Errand, NoJob
    <3>2. Receiving(m) => Receiving(m)'
      BY <1>3, <3>1, ReceivingKept
    <3>3. \A g \in Handlers : Unsaved(g, m)' => Unsaved(g, m)
      BY <1>10, <2>2
    <3>4. Effective(m)
      BY <1>11 DEF Orderly, MInv
    <3> QED
      BY <1>1, <3>2, <3>3, <3>4, EffectiveKept
  <2> QED
    BY <2>1, <2>2
<1>12. MInv'
  BY <1>1, <1>8, <1>9, <1>10, <1>11, MUntouched
<1> QED
  BY <1>5, <1>7, <1>12 DEF Orderly

LEMMA MReceiptMail ==
  ASSUME IInv, Orderly, NEW h \in Handlers, NEW k \in Outgoing, ReceiptMail(h, k)
  PROVE  Orderly'
<1>1. /\ pc[h] = "idle" /\ job' = [job EXCEPT ![h] = [op |-> "receipt", msg |-> k]]
      /\ UNCHANGED <<shared, row, mbuf, objects, filed, receipts, peerRead, missed, stray>>
      /\ mdns' = mdns \ {k}
  BY DEF ReceiptMail, Deliver, Start, store, history
<1>2. PICK l \in {"create", "target"} : pc' = [pc EXCEPT ![h] = l]
  BY DEF ReceiptMail, Deliver, AfterOpen
<1>3. Elsewhere(h) /\ pc'[h] = l /\ job'[h] = [op |-> "receipt", msg |-> k]
  BY <1>1, <1>2 DEF IInv, TypeOK, ControlType, Elsewhere
<1>4. Sends(h) /\ Errand(h)'
  BY <1>3 DEF Errand, Sends
<1>5. OneSend' /\ \A g \in Handlers : Errand(g)'
  BY <1>3, <1>4, OneSendKept, ErrandKept DEF Orderly
<1>6. \A m : Receipting(m)' \subseteq Receipting(m)
  BY <1>3 DEF Elsewhere, Receipting
<1>7. \A m, g : g \in Handlers /\ Unsaved(g, m)' => Unsaved(g, m)
  BY <1>4, UnsavedKept
<1>8. ASSUME shared, NEW m \in Outgoing PROVE Effective(m)'
  <2>1. CASE m = k
    <3>1. Receiving(m)'
      BY <1>3, <2>1 DEF Receiving
    <3> QED
      BY <3>1 DEF Effective
  <2>2. CASE m # k
    <3>1. job[h] # [op |-> "receipt", msg |-> m]
      BY <1>1 DEF Orderly, Errand, NoJob
    <3>2. Receiving(m) => Receiving(m)'
      BY <1>3, <3>1, ReceivingKept
    <3>3. Effective(m) /\ m \notin mdns' => m \notin mdns
      BY <1>1, <1>8, <2>2 DEF Orderly, MInv
    <3>4. \A g \in Handlers : Unsaved(g, m)' => Unsaved(g, m)
      BY <1>7
    <3>5. Effective(m)
      BY <1>8 DEF Orderly, MInv
    <3> QED
      BY <1>1, <3>2, <3>3, <3>4, <3>5 DEF Effective
  <2> QED
    BY <2>1, <2>2
<1>9. MInv'
  BY <1>1, <1>6, <1>7, <1>8, MUntouched
<1> QED
  BY <1>5, <1>9 DEF Orderly

LEMMA MPeerReads ==
  ASSUME IInv, Orderly, NEW k \in Outgoing, PeerReads(k)
  PROVE  Orderly'
<1>1. /\ UNCHANGED <<shared, row, mbuf, objects, filed, receipts, missed, stray, pc, job>>
      /\ peerRead' = peerRead \cup {k} /\ mdns' = mdns \cup {k}
  BY DEF PeerReads, store, bufs, history
<1>2. OneSend' /\ \A g \in Handlers : Errand(g)'
  BY <1>1 DEF Orderly, OneSend, Errand
<1>3. \A m : Receipting(m)' = Receipting(m) /\ (Receiving(m) <=> Receiving(m)')
  BY <1>1 DEF Receipting, Receiving
<1>4. \A m, g : Unsaved(g, m)' <=> Unsaved(g, m)
  BY <1>1 DEF Unsaved
<1>5. ASSUME shared, NEW m \in Outgoing PROVE Effective(m)'
  <2>1. Effective(m)
    BY <1>5 DEF Orderly, MInv
  <2> QED
    BY <1>1, <1>3, <1>4, <2>1 DEF Effective
<1>6. MInv'
  BY <1>1, <1>3, <1>4, <1>5, MUntouched
<1> QED
  BY <1>2, <1>6 DEF Orderly

LEMMA NoReceipt ==
  ASSUME Orderly, NEW h \in Handlers, pc[h] \notin {"create", "target", "amend"}
  PROVE  job[h].op # "receipt"
BY DEF Orderly, Errand

LEMMA OrderlyAmend ==
  ASSUME IInv, Orderly, NEW h \in Handlers, Amend(h)
  PROVE  Orderly'
<1> PICK m, r : m = job[h].msg /\ r = mbuf[h][m]
  OBVIOUS
<1>1. /\ pc[h] = "amend" /\ job[h].op \in {"receipt", "reaction", "sendAmend"}
      /\ m \in Msgs /\ (job[h].op = "receipt" => m \in Outgoing) /\ r \in MsgRows
      /\ mbuf[h] \in [Msgs -> MsgOrNone]
  BY Facts, MsgNat DEF Amend, Fit, FitIn, MsgOrNone
<1>2. UNCHANGED <<shared, ops, world, counted, filed, receipts, missed>>
  BY DEF Amend
<1>3. [r EXCEPT !.seen = TRUE] \in MsgRows /\ [r EXCEPT !.seen = TRUE].id = r.id
      /\ [r EXCEPT !.seen = TRUE].seen /\ "idle" \in Labels
  BY <1>1 DEF MsgRows, Labels
<1>4. CASE job[h].op = "receipt"
  <2>1. WriteBack(h, m, [r EXCEPT !.seen = TRUE], mbuf[h], "idle")
    BY <1>1, <1>4 DEF Amend
  <2> QED
    BY <1>1, <1>2, <1>3, <1>4, <2>1, MWriteBack
<1>5. CASE job[h].op # "receipt"
  <2>1. WriteBack(h, m, r, mbuf[h], "idle")
    BY <1>1, <1>5 DEF Amend
  <2> QED
    BY <1>1, <1>2, <1>3, <1>5, <2>1, MWriteBack
<1> QED
  BY <1>4, <1>5

LEMMA OrderlyReadNext ==
  ASSUME IInv, Orderly, NEW h \in Handlers, ReadNext(h)
  PROVE  Orderly'
<1>1. pc[h] = "reading" /\ UNCHANGED <<shared, ops, world, counted, filed, receipts, missed>>
  BY DEF ReadNext
<1>2. job[h].op = "markRead"
  BY <1>1, Facts DEF Fit, FitIn
<1>3. CASE Skip(h, "idle") /\ UNCHANGED <<store, stray>>
  BY <1>1, <1>2, <1>3, MSkip DEF store, world
<1>4. ASSUME NEW m \in Held(h) \cap Incoming, ~mbuf[h][m].seen, NEW r, r = [mbuf[h][m] EXCEPT !.seen = TRUE],
             NEW b, b = [mbuf[h] EXCEPT ![m] = r], WriteBack(h, m, r, b, "mdn")
      PROVE  Orderly'
  <2>1. m \in Msgs /\ mbuf[h][m] \in MsgRows /\ mbuf[h] \in [Msgs -> MsgOrNone] /\ mbuf[h][m] # NoRow
    BY Facts DEF Held, MsgOrNone
  <2>2. r \in MsgRows /\ r.id = mbuf[h][m].id /\ r.seen
    BY <1>4, <2>1 DEF MsgRows
  <2>3. b \in [Msgs -> MsgOrNone] /\ b[m] = r /\ \A k \in Msgs \ {m} : b[k] = mbuf[h][k]
    BY <1>4, <2>1, <2>2 DEF MsgOrNone
  <2>4. "mdn" \in Labels /\ m \in Incoming /\ ~mbuf[h][m].seen
    BY <1>4 DEF Labels
  <2>5. WriteBack(h, m, r, b, "mdn")
    BY <1>4
  <2>6. job[h].op # "send" /\ job[h].op # "receipt"
    BY <1>2
  <2> QED
    BY <1>1, <2>1, <2>2, <2>3, <2>4, <2>5, <2>6, MWriteBack
<1> QED
  BY <1>3, <1>4 DEF ReadNext, First

LEMMA OrderlySaveSeen ==
  ASSUME IInv, Orderly, NEW h \in Handlers, SaveSeen(h)
  PROVE  Orderly'
<1> PICK m, r, l : /\ m = job[h].msg /\ r = [mbuf[h][m] EXCEPT !.seen = TRUE]
                   /\ l = IF m \in Incoming /\ ~mbuf[h][m].seen THEN "mdn" ELSE "idle"
  OBVIOUS
<1>1. /\ pc[h] = "see" /\ WriteBack(h, m, r, NoMsgs, l)
      /\ UNCHANGED <<shared, ops, world, counted, filed, receipts, missed>>
  BY DEF SaveSeen
<1>2. job[h].op = "markSeen" /\ m \in Msgs /\ mbuf[h][m] \in MsgRows /\ mbuf[h][m] # NoRow
  <2>1. job[h].op = "markSeen" /\ m \in Incoming \cup ownSeen /\ ownSeen \subseteq Outgoing
        /\ mbuf[h][m] # NoRow
    BY <1>1, Facts DEF Fit, FitIn, IInv, TypeOK, WorldType
  <2> QED
    BY <2>1, Facts, MsgNat DEF MsgOrNone
<1>3. r \in MsgRows /\ r.id = mbuf[h][m].id /\ r.seen
  BY <1>2 DEF MsgRows
<1>4. NoMsgs \in [Msgs -> MsgOrNone] /\ \A k \in Msgs : NoMsgs[k] = NoRow
  BY DEF NoMsgs, MsgOrNone
<1>5. l \in Labels /\ l \in {"idle", "mdn"} /\ (l = "mdn" => m \in Incoming /\ ~mbuf[h][m].seen)
  BY DEF Labels
<1>6. job[h].op # "send" /\ job[h].op # "receipt"
  BY <1>2
<1>7. l = "mdn" => m \in Incoming /\ ~mbuf[h][m].seen /\ r.seen
  BY <1>3, <1>5
<1>8. l = "idle" \/ NoMsgs[m] \in {r, NoRow}
  BY <1>2, <1>4
<1>9. \A k \in Msgs \ {m} : NoMsgs[k] \in {mbuf[h][k], NoRow}
  BY <1>4
<1>10. WriteBack(h, m, r, NoMsgs, l)
  BY <1>1
<1> QED
  BY ONLY IInv, Orderly, h \in Handlers, <1>1, <1>2, <1>3, <1>4, <1>5, <1>6, <1>7, <1>8, <1>9, <1>10, MWriteBack

LEMMA OrderlyReply ==
  ASSUME IInv, Orderly, NEW h \in Handlers, Reply(h)
  PROVE  Orderly'
<1> PICK m : m = job[h].msg
  OBVIOUS
<1>1. pc[h] = "reply" /\ WriteBack(h, m, mbuf[h][m], mbuf[h], "idle")
      /\ UNCHANGED <<shared, ops, world, counted, filed, receipts, missed>>
  BY DEF Reply
<1>2. Fit(job[h].op, m, pc[h], cbuf[h], mbuf[h]) /\ mbuf[h] \in [Msgs -> MsgOrNone]
  BY Facts DEF MsgOrNone
<1>3. job[h].op = "send" /\ m \in Msgs /\ mbuf[h][m] # NoRow
  BY <1>1, <1>2, MsgNat DEF Fit, FitIn
<1>4. mbuf[h][m] \in MsgRows
  BY <1>2, <1>3 DEF MsgOrNone
<1> QED
  BY <1>1, <1>2, <1>3, <1>4, MWriteBack DEF Labels

LEMMA OrderlyResume ==
  ASSUME IInv, Orderly, NEW h \in Handlers, Resume(h)
  PROVE  Orderly'
<1> USE DEF Sendable
<1>1. CASE CreateChat(h)
  <2>1. PICK l : SaveChat(h, NewChat, 0, l) /\ l = IF pc[h] = "create" THEN AfterOpen(job[h].op) ELSE "idle"
    BY <1>1 DEF CreateChat
  <2>2. pc[h] \in {"create", "recreate"} /\ objects' = Fresh
        /\ UNCHANGED <<shared, world, filed, receipts, missed, stray>>
    BY <1>1 DEF CreateChat
  <2>3. pc[h] = "create" => job[h].op \in {"chat", "delete", "receipt", "reaction", "send"}
    BY Facts DEF Fit, FitIn
  <2>4. pc[h] = "recreate" => job[h].op # "receipt"
    BY NoReceipt
  <2>5. l # "mdn" /\ (job[h].op = "receipt" => l \in {"create", "target", "amend"})
        /\ (job[h].op = "send" /\ l \in Sendable => pc[h] \in Sendable)
    BY <2>1, <2>2, <2>3, <2>4 DEF AfterOpen
  <2>6. NewChat \in ChatRows
    BY WrittenChat
  <2> QED
    BY <2>1, <2>2, <2>5, <2>6, MSaveChat
<1>2. CASE Erase(h)
  <2>1. PICK l \in {"rewrite", "preview", "idle"} : Hold(h, l, cbuf[h], mbuf[h])
    BY <1>2 DEF Erase, Skip
  <2>2. /\ pc[h] = "erase" /\ row' = [row EXCEPT ![job[h].msg] = NoRow]
        /\ UNCHANGED <<shared, objects, mdns, peerRead, filed, receipts, missed, stray>>
    BY <1>2 DEF Erase, world, history
  <2>3. job[h].op # "receipt"
    BY <2>2, NoReceipt
  <2>4. \A m \in Msgs : row'[m] \in {row[m], NoRow}
    BY <2>2, Facts
  <2> QED
    BY <2>1, <2>2, <2>3, <2>4, MHold
<1>3. CASE EraseListed(h)
  <2>1. /\ pc[h] = "erasing"
        /\ UNCHANGED <<shared, objects, mdns, peerRead, filed, receipts, missed, stray>>
    BY <1>3 DEF EraseListed, world, history
  <2>2. job[h].op # "receipt"
    BY <2>1, NoReceipt
  <2>3. CASE Skip(h, "idle") /\ UNCHANGED row
    BY <2>1, <2>2, <2>3, MSkip
  <2>4. ASSUME NEW m \in First(Held(h)), row' = [row EXCEPT ![m] = NoRow],
               Hold(h, "erasing", cbuf[h], Without(h, m))
        PROVE  Orderly'
    <3>1. \A k \in Msgs : row'[k] \in {row[k], NoRow} /\ Without(h, m)[k] \in {mbuf[h][k], NoRow}
      BY <2>4, Facts DEF Without
    <3> QED
      BY <2>1, <2>2, <2>4, <3>1, MHold
  <2> QED
    BY <1>3, <2>3, <2>4 DEF EraseListed
<1>4. CASE PreviewDeleted(h) \/ ReadSummary(h) \/ Reopen(h)
  <2>1. job[h].op # "receipt"
    BY <1>4, NoReceipt DEF PreviewDeleted, ReadSummary, Reopen
  <2> QED
    BY <1>4, <2>1, MReadChat DEF PreviewDeleted, ReadSummary, Reopen
<1>5. CASE SentMessage(h) \/ Lookup(h)
  <2>1. job[h].op # "receipt"
    BY <1>5, NoReceipt DEF SentMessage, Lookup
  <2> QED
    BY <1>5, <2>1, MReadChat DEF SentMessage, Lookup
<1>6. CASE Rewrite(h)
  <2>1. PICK l \in {"idle", "reply"} : SaveChat(h, cbuf[h], counted, l)
    BY <1>6 DEF Rewrite
  <2>2. job[h].op # "receipt" /\ cbuf[h] \in ChatRows
    BY <1>6, NoReceipt, WrittenChat DEF Rewrite
  <2>3. objects' = objects /\ UNCHANGED <<shared, world, filed, receipts, missed, stray>>
    BY <1>6 DEF Rewrite
  <2> QED
    BY <2>1, <2>2, <2>3, MSaveChat
<1>7. CASE SaveTimer(h) \/ SaveChange(h)
  <2>1. PICK l \in {"dedup", "idle"} : WriteSetting(h, l)
    BY <1>7 DEF SaveTimer, SaveChange
  <2>2. job[h].op # "receipt"
    BY <1>7, NoReceipt DEF SaveTimer, SaveChange
  <2>3. UNCHANGED <<shared, world, filed, receipts, missed, stray>> /\ objects' \in {objects, Fresh}
    BY <1>7 DEF SaveTimer, SaveChange, WriteSetting
  <2>4. PICK c \in ChatRows : SaveChat(h, c, counted, l)
    BY <2>1, WrittenChat DEF WriteSetting
  <2> QED
    BY <2>1, <2>2, <2>3, <2>4, MSaveChat
<1>8. CASE ReadTimer(h)
  <2>1. job[h].op # "receipt" /\ UNCHANGED <<shared, ops, world, history>>
    BY <1>8, NoReceipt DEF ReadTimer
  <2>2. CASE ReadChat(h, "timer", "timer")
    BY <2>1, <2>2, MReadChat
  <2>3. CASE Skip(h, "dedup") /\ UNCHANGED store
    BY <2>1, <2>3, MSkip DEF store, world, history
  <2> QED
    BY <1>8, <2>2, <2>3 DEF ReadTimer
<1>9. CASE Dedup(h) \/ SentDelete(h) \/ SendFails(h)
  <2>1. PICK l \in {"save", "idle", "erase"} : Skip(h, l)
    BY <1>9 DEF Dedup, SentDelete, SendFails
  <2>2. job[h].op # "receipt"
    BY <1>9, NoReceipt DEF Dedup, SentDelete, SendFails
  <2>3. UNCHANGED <<shared, row, objects, mdns, peerRead, filed, receipts, missed, stray>>
    BY <1>9 DEF Dedup, SentDelete, SendFails, store, world, history
  <2> QED
    BY <2>1, <2>2, <2>3, MSkip
<1>10. CASE SentAmend(h)
  <2>1. Skip(h, "target") /\ job[h].op # "send"
        /\ UNCHANGED <<shared, row, objects, mdns, peerRead, filed, receipts, missed, stray>>
    BY <1>10 DEF SentAmend, store, world, history
  <2> QED
    BY <2>1, MSkip
<1>11. CASE Count(h)
  <2>1. [cbuf[h] EXCEPT !.unread = @ + 1] \in ChatRows /\ job[h].op # "receipt"
    BY <1>11, WrittenChat, NoReceipt DEF Count, ChatRows
  <2>2. objects' = objects /\ UNCHANGED <<shared, world, filed, receipts, missed, stray>>
    BY <1>11 DEF Count
  <2>3. SaveChat(h, [cbuf[h] EXCEPT !.unread = @ + 1], counted + 1, "idle")
    BY <1>11 DEF Count
  <2> QED
    BY <2>1, <2>2, <2>3, MSaveChat
<1>12. CASE ResetUnread(h)
  <2>1. [cbuf[h] EXCEPT !.unread = 0] \in ChatRows /\ job[h].op # "receipt"
    BY <1>12, WrittenChat, NoReceipt DEF ResetUnread, ChatRows
  <2>2. objects' = objects /\ UNCHANGED <<shared, world, filed, receipts, missed, stray>>
    BY <1>12 DEF ResetUnread
  <2>3. SaveChat(h, [cbuf[h] EXCEPT !.unread = 0], 0, "list")
    BY <1>12 DEF ResetUnread
  <2> QED
    BY <2>1, <2>2, <2>3, MSaveChat
<1>13. CASE ListForDelete(h) \/ ListForRead(h)
  <2>1. \A ms, k : k \in Msgs => Listed(ms)[k] \in {row[k], NoRow}
    BY DEF Listed
  <2>2. job[h].op # "receipt"
    BY <1>13, NoReceipt DEF ListForDelete, ListForRead
  <2>3. UNCHANGED <<shared, row, objects, mdns, peerRead, filed, receipts, missed>> /\ stray \subseteq stray'
    BY <1>13 DEF ListForDelete, ListForRead, store, world, history
  <2>4. CASE Hold(h, "erasing", cbuf[h], Listed(Oldest(Page)))
    BY <2>1, <2>2, <2>3, <2>4, MHold
  <2>5. CASE Hold(h, "reading", NoRow, Listed(Stored))
    BY <2>1, <2>2, <2>3, <2>5, MHold
  <2> QED
    BY <1>13, <2>4, <2>5 DEF ListForDelete, ListForRead
<1> QED
  BY <1>1, <1>2, <1>3, <1>4, <1>5, <1>6, <1>7, <1>8, <1>9, <1>10, <1>11, <1>12, <1>13, MReadTarget,
     OrderlyAmend, MSaveIncoming, MPersist, OrderlyReply, OrderlyReadNext, OrderlySaveSeen, MSendReceipt
  DEF Resume

LEMMA OrderlyDeliver ==
  ASSUME IInv, Orderly, NEW h \in Handlers, NEW op \in {"chat", "delete", "reaction"}, NEW m,
         Deliver(h, op, m), UNCHANGED mdns
  PROVE  Orderly'
<1>1. PICK l : pc' = [pc EXCEPT ![h] = l] /\ l = IF chat = NoRow THEN "create" ELSE AfterOpen(op)
  BY DEF Deliver
<1>2. l \notin {"idle", "mdn"}
  BY <1>1 DEF AfterOpen
<1>3. Start(h, op, m) /\ mbuf' = mbuf
      /\ row' = row /\ UNCHANGED <<shared, objects, mdns, peerRead, history>>
  BY DEF Deliver, store
<1> QED
  BY <1>1, <1>2, <1>3, MStart

LEMMA MBegin ==
  ASSUME IInv, Orderly, NEW h \in Handlers, NEW op \in Calls \ {"send"}, NEW m \in Nat,
         NEW l \in Labels \ {"idle", "mdn"}, Start(h, op, m), pc' = [pc EXCEPT ![h] = l], row' = row,
         \A g \in Handlers, k \in Msgs : mbuf'[g][k] \in {mbuf[g][k], row[k], NoRow},
         UNCHANGED <<shared, objects, mdns, peerRead, history>>
  PROVE  Orderly'
<1>1. l \notin {"idle", "mdn"} /\ op # "send" /\ (op = "receipt" => l \in {"create", "target", "amend"})
  BY DEF Calls
<1> QED
  BY <1>1, MStart

LEMMA MCall ==
  ASSUME IInv, Orderly, NEW h \in Handlers, NEW op \in Calls \ {"send"}, NEW m \in Nat,
         NEW l \in Labels \ {"idle", "mdn"}, Call(h, op, m), pc' = [pc EXCEPT ![h] = l],
         UNCHANGED <<shared, row, objects, mbuf, world, history>>
  PROVE  Orderly'
<1>1. Start(h, op, m) /\ UNCHANGED <<mdns, peerRead>>
  BY DEF Call, world
<1>2. \A g \in Handlers, k \in Msgs : mbuf'[g][k] \in {mbuf[g][k], row[k], NoRow}
  OBVIOUS
<1> QED
  BY <1>1, <1>2, MBegin

LEMMA OrderlyBegin ==
  ASSUME IInv, Orderly, NEW h \in Handlers, Begin(h)
  PROVE  Orderly'
<1>1. CASE DeleteChat(h)
  <2>1. Call(h, "deleteChat", 0) /\ pc' = [pc EXCEPT ![h] = "relist"]
        /\ UNCHANGED <<shared, row, objects, mbuf, world, history>>
    BY <1>1 DEF DeleteChat, bufs
  <2>2. "deleteChat" \in Calls \ {"send"} /\ "relist" \in Labels \ {"idle", "mdn"} /\ 0 \in Nat
    BY DEF Calls, Labels
  <2> QED
    BY <2>1, <2>2, MCall
<1>2. CASE Sweep(h)
  <2>1. PICK ms \in SUBSET Stored : mbuf' = [mbuf EXCEPT ![h] = Listed(ms)] /\ pc' = [pc EXCEPT ![h] = "erasing"]
    BY <1>2 DEF Sweep
  <2>2. \A k \in Msgs : Listed(ms)[k] \in {row[k], NoRow}
    BY DEF Listed
  <2>3. \A g \in Handlers, k \in Msgs : mbuf'[g][k] \in {mbuf[g][k], row[k], NoRow}
    BY <2>1, <2>2 DEF IInv, TypeOK, BufType
  <2>4. Start(h, "sweep", 0) /\ row' = row /\ UNCHANGED <<shared, objects, mdns, peerRead, history>>
    BY <1>2 DEF Sweep, Call, store, world
  <2>5. "sweep" \in Calls \ {"send"} /\ "erasing" \in Labels \ {"idle", "mdn"}
    BY DEF Calls, Labels
  <2> QED
    BY <2>1, <2>3, <2>4, <2>5, MBegin
<1>3. CASE MarkChatRead(h)
  <2>1. Call(h, "markRead", 0) /\ pc' = [pc EXCEPT ![h] = "reset"]
        /\ UNCHANGED <<shared, row, objects, mbuf, world, history>>
    BY <1>3 DEF MarkChatRead, store
  <2>2. "markRead" \in Calls \ {"send"} /\ "reset" \in Labels \ {"idle", "mdn"} /\ 0 \in Nat
    BY DEF Calls, Labels
  <2> QED
    BY <2>1, <2>2, MCall
<1>4. ASSUME NEW op \in {"set", "flag"}, Change(h, op) PROVE Orderly'
  <2>1. Call(h, op, 0) /\ pc' = [pc EXCEPT ![h] = "change"]
        /\ UNCHANGED <<shared, row, objects, mbuf, world, history>>
    BY <1>4 DEF Change, store
  <2>2. op \in Calls \ {"send"} /\ "change" \in Labels \ {"idle", "mdn"} /\ 0 \in Nat
    BY DEF Calls, Labels
  <2> QED
    BY <2>1, <2>2, MCall
<1>5. CASE \E m \in Incoming : ChatMail(h, m)
  BY <1>5, OrderlyDeliver DEF ChatMail
<1>6. ASSUME NEW m \in Msgs, MarkSeen(h, m) PROVE Orderly'
  <2>1. mbuf' = [mbuf EXCEPT ![h][m] = row[m]] /\ pc' = [pc EXCEPT ![h] = "see"]
    BY <1>6 DEF MarkSeen
  <2>2. \A g \in Handlers, k \in Msgs : mbuf'[g][k] \in {mbuf[g][k], row[k], NoRow}
    BY <2>1 DEF IInv, TypeOK, BufType
  <2>3. Start(h, "markSeen", m) /\ row' = row /\ UNCHANGED <<shared, objects, mdns, peerRead, history>>
    BY <1>6 DEF MarkSeen, Call, store
  <2>4. "markSeen" \in Calls \ {"send"} /\ "see" \in Labels \ {"idle", "mdn"} /\ m \in Nat
    BY MsgNat DEF Calls, Labels
  <2> QED
    BY <2>1, <2>2, <2>3, <2>4, MBegin
<1>7. ASSUME NEW op \in {"delete", "reaction"}, NEW m \in Msgs, PeerRequest(h, op, m) PROVE Orderly'
  BY <1>7, OrderlyDeliver DEF PeerRequest
<1>8. ASSUME NEW m \in Msgs, DeleteLocal(h, m) PROVE Orderly'
  <2>1. Call(h, "deleteLocal", m) /\ pc' = [pc EXCEPT ![h] = "erase"]
        /\ UNCHANGED <<shared, row, objects, mbuf, world, history>>
    BY <1>8 DEF DeleteLocal, store, bufs
  <2>2. "deleteLocal" \in Calls \ {"send"} /\ "erase" \in Labels \ {"idle", "mdn"} /\ m \in Nat
    BY MsgNat DEF Calls, Labels
  <2> QED
    BY <2>1, <2>2, MCall
<1>9. ASSUME NEW op \in {"sendDelete", "sendAmend"}, NEW m \in Msgs, SendControl(h, op, m) PROVE Orderly'
  <2>1. Call(h, op, m) /\ pc' = [pc EXCEPT ![h] = "sending"]
        /\ UNCHANGED <<shared, row, objects, mbuf, world, history>>
    BY <1>9 DEF SendControl, store, bufs
  <2>2. op \in Calls \ {"send"} /\ "sending" \in Labels \ {"idle", "mdn"} /\ m \in Nat
    BY MsgNat DEF Calls, Labels
  <2> QED
    BY <2>1, <2>2, MCall
<1> QED
  BY <1>1, <1>2, <1>3, <1>4, <1>5, <1>6, <1>7, <1>8, <1>9, MSend, MReceiptMail DEF Begin

LEMMA OrderlyUnchanged ==
  ASSUME IInv, Orderly, UNCHANGED <<shared, row, mbuf, objects, pc, job, mdns, peerRead, history>>
  PROVE  Orderly'
<1>1. OneSend' /\ \A g \in Handlers : Errand(g)'
  BY DEF Orderly, OneSend, Errand
<1>2. \A m : Receipting(m)' = Receipting(m) /\ (Receiving(m) <=> Receiving(m)')
  BY DEF Receipting, Receiving
<1>3. \A m, g : Unsaved(g, m)' <=> Unsaved(g, m)
  BY DEF Unsaved
<1>4. UNCHANGED <<filed, receipts, missed, stray>>
  BY DEF history
<1>5. ASSUME shared, NEW m \in Outgoing PROVE Effective(m)'
  <2>1. Effective(m)
    BY <1>5 DEF Orderly, MInv
  <2> QED
    BY <1>2, <1>3, <1>4, <2>1 DEF Effective
<1>6. MInv'
  BY <1>2, <1>3, <1>4, <1>5, MUntouched
<1> QED
  BY <1>1, <1>6 DEF Orderly

LEMMA OrderlyNext ==
  ASSUME IInv, Orderly, [Next]_vars
  PROVE  Orderly'
<1>1. CASE \E h \in Handlers : Accept(h)
  BY <1>1, OrderlyUnchanged DEF Accept, store, bufs
<1>2. CASE UNCHANGED vars
  BY <1>2, OrderlyUnchanged DEF vars, store, bufs, world
<1> QED
  BY <1>1, <1>2, OrderlyResume, OrderlyBegin, MPeerReads DEF Next

LEMMA InitOrderly == Init => Orderly
<1> SUFFICES ASSUME Init PROVE Orderly
  OBVIOUS
<1>1. \A m \in Msgs : Alive(m) = {}
  BY DEF Init, Alive, NoMsgs
<1>2. \A m, h : h \in Handlers => ~Unsaved(h, m)
  BY DEF Init, Unsaved
<1>3. \A m \in Msgs : Objects(m)
  BY <1>1 DEF Objects
<1>4. ASSUME NEW m \in Incoming PROVE Accounted(m)
  <2>1. Receipting(m) = {} /\ Unseen(m) = {}
    BY <1>1, MsgNat DEF Init, Receipting, Unseen
  <2>2. receipts[m] = 0 /\ filed[m] = 0
    BY DEF Init
  <2> QED
    BY <2>1, <2>2, FS_EmptySet DEF Accounted
<1>5. \A m \in Outgoing : Effective(m)
  BY DEF Init, Effective
<1>6. OneSend /\ \A h \in Handlers : Errand(h)
  BY DEF Init, OneSend, Errand, NoJob
<1> QED
  BY <1>3, <1>4, <1>5, <1>6 DEF Orderly, MInv

-----------------------------------------------------------------------------
LEMMA CInductive == Spec => []CInv
<1>1. Init => CInv
  BY InitIInv, InitSettled, InitCounter, InitOrderly DEF CInv, Orderly
<1>2. CInv /\ [Next]_vars => CInv'
  <2> SUFFICES ASSUME CInv, [Next]_vars PROVE CInv'
    OBVIOUS
  <2>1. IInv /\ Settled /\ OneCounter /\ Orderly
    BY DEF CInv, Orderly
  <2>2. IInv' /\ Settled' /\ OneCounter' /\ Orderly'
    BY <2>1, NextIInv, SettledNext, CounterNext, OrderlyNext
  <2> QED
    BY <2>2 DEF CInv, Orderly
<1> QED
  BY <1>1, <1>2, PTL DEF Spec

\* No message is left without a chat that lists it, whatever deletes the chat
\* under an arrival or under a send: over both stores, for any number of each.
THEOREM NothingOrphaned == Spec => []NoOrphan
<1>1. CInv => NoOrphan
  BY DEF CInv, Settled, Settles, NoOrphan, Idle, WritesChat
<1> QED
  BY <1>1, CInductive, PTL

\* The unread counter is what arrived since it was last reset, while drafts,
\* flags and timers write the same row (MemoryStore).
THEOREM CounterExact == Spec => []UnreadIsExact
<1>1. CInv => UnreadIsExact
  BY DEF CInv, OneCounter, UnreadIsExact
<1> QED
  BY <1>1, CInductive, PTL

\* The peer gets one receipt at most for each time its message was stored.
THEOREM OneReceipt == Spec => []ReceiptOnce
<1>1. CInv => ReceiptOnce
  <2> SUFFICES ASSUME CInv, shared, NEW m \in Incoming PROVE receipts[m] <= filed[m]
    BY DEF ReceiptOnce
  <2>1. Accounted(m) /\ Objects(m) /\ objects \in Nat /\ filed[m] \in Nat /\ receipts[m] \in Nat
    BY MsgNat DEF CInv, MInv, IInv, TypeOK, StoreType, HistoryType
  <2>2. Cardinality(Receipting(m)) \in Nat /\ Cardinality(Unseen(m)) \in Nat
    BY <2>1, UnseenFinite, FS_CardinalityType DEF Accounted
  <2> QED
    BY <2>1, <2>2 DEF Accounted
<1> QED
  BY <1>1, CInductive, PTL

\* A receipt that is over has marked its message, unless it came before the
\* message was stored or after it was deleted.
THEOREM ReceiptsTakeEffect == Spec => []ReceiptTakesEffect
<1>1. CInv => ReceiptTakesEffect
  <2> SUFFICES ASSUME CInv, shared, NEW m \in peerRead \ (mdns \cup missed \cup stray),
                      \A h \in Handlers : job[h] # [op |-> "receipt", msg |-> m]
               PROVE  row[m] = NoRow \/ row[m].seen
    BY DEF ReceiptTakesEffect
  <2>1. m \in Outgoing
    BY DEF CInv, IInv, TypeOK, WorldType
  <2>2. ~Receiving(m) /\ Effective(m)
    BY <2>1 DEF CInv, MInv, Receiving
  <2> QED
    BY <2>2 DEF Effective
<1> QED
  BY <1>1, CInductive, PTL

-----------------------------------------------------------------------------
\* SeenIsFinal: every row of the message is the same object

LEMMA WritesBack ==
  ASSUME IInv, NEW h \in Handlers, Amend(h) \/ Reply(h) \/ ReadNext(h) \/ SaveSeen(h)
  PROVE  \/ row' = row
         \/ \E k \in Msgs, r \in MsgRows : /\ mbuf[h][k] # NoRow /\ (mbuf[h][k].seen => r.seen)
                                           /\ row' = [row EXCEPT ![k] = r] /\ filed' = filed
<1>0. \A r \in MsgRows : [r EXCEPT !.seen = TRUE].seen /\ [r EXCEPT !.seen = TRUE] \in MsgRows
  BY DEF MsgRows
<1>1. CASE Amend(h) \/ Reply(h) \/ SaveSeen(h)
  <2>1. job[h].msg \in Msgs /\ mbuf[h][job[h].msg] \in MsgRows
    BY <1>1, WrittenMessage DEF Amend, Reply, SaveSeen
  <2>2. \/ row' = row
        \/ \E r \in {mbuf[h][job[h].msg], [mbuf[h][job[h].msg] EXCEPT !.seen = TRUE]} :
              row' = [row EXCEPT ![job[h].msg] = r]
    BY <1>1 DEF Amend, Reply, SaveSeen, WriteBack, SaveMessage, store
  <2>3. filed' = filed
    BY <1>1 DEF Amend, Reply, SaveSeen
  <2> QED
    BY <1>0, <2>1, <2>2, <2>3
<1>2. CASE ReadNext(h)
  <2>1. \/ row' = row
        \/ \E k \in Held(h) : row' = [row EXCEPT ![k] = [mbuf[h][k] EXCEPT !.seen = TRUE]]
    BY <1>2 DEF ReadNext, WriteBack, SaveMessage, store, First
  <2>2. filed' = filed
    BY <1>2 DEF ReadNext
  <2>3. \A k \in Held(h) : k \in Msgs /\ mbuf[h][k] \in MsgRows
    BY WrittenMessage
  <2> QED
    BY <1>0, <2>1, <2>2, <2>3
<1> QED
  BY <1>1, <1>2

LEMMA RowsKept ==
  ASSUME IInv, NEW h \in Handlers, Resume(h)
  PROVE  \/ \A m \in Msgs : row'[m] \in {row[m], NoRow}
         \/ Amend(h) \/ Reply(h) \/ ReadNext(h) \/ SaveSeen(h)
         \/ SaveIncoming(h) \/ PersistOutgoing(h)
<1>1. row \in [Msgs -> MsgOrNone]
  BY Facts
<1>2. CASE Erase(h)
  BY <1>1, <1>2 DEF Erase
<1>3. CASE EraseListed(h)
  BY <1>1, <1>3 DEF EraseListed
<1>4. CASE CreateChat(h) \/ Rewrite(h) \/ SaveTimer(h) \/ SaveChange(h) \/ Count(h) \/ ResetUnread(h)
  <2>1. row' = row
    BY <1>4 DEF CreateChat, Rewrite, SaveTimer, SaveChange, Count, ResetUnread, WriteSetting, SaveChat
  <2> QED
    BY <2>1
<1>5. CASE ReadTarget(h) \/ PreviewDeleted(h) \/ ReadTimer(h) \/ Dedup(h) \/ ReadSummary(h) \/ Reopen(h)
  <2>1. row' = row
    BY <1>5 DEF ReadTarget, PreviewDeleted, ReadTimer, Dedup, ReadSummary, Reopen, ReadChat, store
  <2> QED
    BY <2>1
<1>6. CASE SentMessage(h) \/ SentDelete(h) \/ SentAmend(h) \/ SendFails(h) \/ Lookup(h)
           \/ ListForDelete(h) \/ ListForRead(h) \/ SendReceipt(h)
  <2>1. row' = row
    BY <1>6 DEF SentMessage, SentDelete, SentAmend, SendFails, Lookup, ListForDelete, ListForRead,
       SendReceipt, ReadChat, store
  <2> QED
    BY <2>1
<1> QED
  BY <1>2, <1>3, <1>4, <1>5, <1>6 DEF Resume

LEMMA SeenStep ==
  ASSUME CInv, [Next]_vars, shared, NEW m \in Msgs
  PROVE  KeepsSeen(m)
<1> SUFFICES ASSUME StoredOnce(m), row[m] # NoRow, row[m].seen, row'[m] # NoRow
             PROVE  row'[m].seen
  BY DEF KeepsSeen
<1>1. IInv /\ Objects(m) /\ row \in [Msgs -> MsgOrNone] /\ filed \in [Incoming -> Nat]
  BY DEF CInv, MInv, IInv, TypeOK, StoreType, HistoryType, MsgOrNone
<1>2. row[m] \in Alive(m)
  BY DEF Alive
<1>3. CASE \A k \in Msgs : row'[k] \in {row[k], NoRow}
  BY <1>3
<1>4. ASSUME NEW h \in Handlers, Amend(h) \/ Reply(h) \/ ReadNext(h) \/ SaveSeen(h)
      PROVE  row'[m].seen
  <2>1. CASE row' = row
    BY <2>1
  <2>2. ASSUME NEW k \in Msgs, NEW r \in MsgRows, mbuf[h][k] # NoRow, mbuf[h][k].seen => r.seen,
               row' = [row EXCEPT ![k] = r], filed' = filed
        PROVE  row'[m].seen
    <3>1. CASE k # m
      BY <1>1, <2>2, <3>1
    <3>2. CASE k = m
      <4>1. mbuf[h][m] \in Alive(m)
        BY <2>2, <3>2 DEF Alive
      <4>2. mbuf[h][m] = row[m]
        BY <1>1, <1>2, <2>2, <4>1 DEF Objects, StoredOnce
      <4>3. row'[m] = r
        BY <1>1, <2>2, <3>2
      <4> QED
        BY <2>2, <3>2, <4>2, <4>3
    <3> QED
      BY <3>1, <3>2
  <2> QED
    BY <1>1, <1>4, <2>1, <2>2, WritesBack
<1>5. ASSUME NEW h \in Handlers, SaveIncoming(h) PROVE row'[m].seen
  <2>1. pc[h] = "save" /\ row' = [row EXCEPT ![job[h].msg] = NewMsg]
        /\ filed' = [filed EXCEPT ![job[h].msg] = @ + 1]
    BY <1>5 DEF SaveIncoming, SaveMessage
  <2>2. job[h].msg \in Incoming
    BY <1>1, <2>1, Facts DEF Fit, FitIn
  <2>3. CASE job[h].msg = m
    <3>1. filed'[m] = filed[m] + 1 /\ filed[m] \in Nat /\ m \in Incoming
      BY <1>1, <2>1, <2>2, <2>3
    <3>2. filed[m] = 0
      BY <3>1 DEF StoredOnce
    <3> QED
      BY <1>1, <1>2, <3>1, <3>2 DEF Objects
  <2>4. CASE job[h].msg # m
    BY <1>1, <2>1, <2>4
  <2> QED
    BY <2>3, <2>4
<1>6. ASSUME NEW h \in Handlers, PersistOutgoing(h) PROVE row'[m].seen
  <2>1. pc[h] = "persist" /\ row' = [row EXCEPT ![job[h].msg] = NewMsg]
    BY <1>6 DEF PersistOutgoing, SaveMessage
  <2>2. job[h] \in Jobs /\ job[h].op = "send"
    BY <1>1, <2>1, Facts DEF Fit, FitIn
  <2>3. CASE job[h].msg = m
    <3>1. job[h] = [op |-> "send", msg |-> m]
      BY <2>2, <2>3 DEF Jobs
    <3>2. Unsaved(h, m)
      BY <2>1, <3>1 DEF Unsaved
    <3> QED
      BY <1>1, <1>2, <3>2 DEF Objects
  <2>4. CASE job[h].msg # m
    BY <1>1, <2>1, <2>4
  <2> QED
    BY <2>3, <2>4
<1>7. CASE \E h \in Handlers : Resume(h)
  BY <1>1, <1>3, <1>4, <1>5, <1>6, <1>7, RowsKept
<1>8. CASE row' = row
  BY <1>8
<1>9. ASSUME NEW h \in Handlers, Begin(h) PROVE row' = row
  BY <1>9 DEF Begin, DeleteChat, Sweep, MarkChatRead, Change, ChatMail, MarkSeen, ReceiptMail, Send,
     DeleteLocal, PeerRequest, SendControl, Deliver, store
<1>10. CASE (\E h \in Handlers : Accept(h)) \/ (\E k \in Outgoing : PeerReads(k)) \/ UNCHANGED vars
  BY <1>8, <1>10 DEF Accept, PeerReads, vars, store
<1> QED
  BY <1>7, <1>8, <1>9, <1>10 DEF Next

\* A message that was seen stays seen while it exists, whoever writes back the row
\* it read before, unless a second copy was stored over it (MemoryStore).
THEOREM SeenStays == Spec => SeenIsFinal
<1>1. CInv /\ [Next]_vars => [shared => \A m \in Msgs : KeepsSeen(m)]_row
  BY SeenStep
<1> QED
  BY <1>1, CInductive, PTL DEF Spec, SeenIsFinal
=============================================================================
