-------------------------- MODULE SecureJoinProofs --------------------------
(***************************************************************************)
(* Theorems about SecureJoin, for any number of accounts, joins, handlers, *)
(* invites and reloads.                                                    *)
(***************************************************************************)
EXTENDS SecureJoin, TLAPS

USE JoinBounds, NobodyAssumption

\* Before the first invite the invariant holds.
LEMMA InitIInv == Init => IInv
<1> SUFFICES ASSUME Init PROVE IInv
  OBVIOUS
<1> USE DEF Init
<1>1. TypeOK
  BY DEF TypeOK, NoWork, Waiting
<1>2. HasUri /\ MailsKept /\ NoPhaseSkipped /\ ConfirmedMeansAccepted /\ MutualVerification
  BY DEF HasUri, MailsKept, NoPhaseSkipped, ConfirmedMeansAccepted, MutualVerification
<1> QED
  BY <1>1, <1>2 DEF IInv

-----------------------------------------------------------------------------
(* Joins and their URIs.                                                   *)

\* A URI that was set names two accounts and an invite.
LEMMA UriType ==
  ASSUME TypeOK, NEW j \in Joins, uri[j] # NoUri
  PROVE  uri[j].me \in Acc /\ uri[j].peer \in Acc /\ uri[j].gen \in Gens
  BY DEF TypeOK

\* Whoever waits for a mail of this account has a URI of this account.
LEMMA WaitersType ==
  ASSUME TypeOK, NEW m \in Mails, NEW stage \in Waiting, NEW j \in Waiters(m, stage)
  PROVE  j \in Joins /\ pc[j] = stage /\ uri[j] # NoUri /\ uri[j].me = m.to /\ uri[j].peer = m.from
<1>1. j \in Joins /\ pc[j] = stage /\ uri[j].me = m.to /\ uri[j].peer = m.from
  BY DEF Waiters
<1>2. m.to \in Acc
  BY DEF Mails
<1> QED
  BY <1>1, <1>2 DEF NoUri

\* Proofs and answers are mails.
LEMMA ProofIsMail ==
  ASSUME TypeOK, NEW j \in Joins, uri[j] # NoUri
  PROVE  Proof(j) \in Mails /\ Proof(j).step = "request-with-auth"
<1>1. uri[j].me \in Acc /\ uri[j].peer \in Acc /\ uri[j].gen \in Gens
  BY UriType
<1>2. uri[j].gen \in 0 .. MaxGen
  BY <1>1 DEF Gens
<1> QED
  BY <1>1, <1>2 DEF Proof, Mail, Mails, Steps

LEMMA AnswerIsMail ==
  ASSUME NEW m \in Mails, NEW step \in Steps, NEW g \in 0 .. MaxGen
  PROVE  /\ Answer(m, step, g) \subseteq Mails
         /\ \A n \in Answer(m, step, g) : n.step = step /\ n.from = m.to /\ n.to = m.from
  BY DEF Answer, Mail, Mails

-----------------------------------------------------------------------------
(* What the receipt of a mail does to the joins.                           *)

\* Every join stays where it is, is asked for its proof, or ends.
LEMMA ReceiveEffect ==
  ASSUME TypeOK, NEW m \in Mails, NEW answers \in SUBSET Mails, Receive(m, answers)
  PROVE  /\ keys' \in [Acc -> SUBSET Acc] /\ active' \in [Acc -> Joins \cup {NoJoin}]
         /\ pc' \in [Joins -> {"idle", "requesting", "proving", "saving"} \cup Waiting]
         /\ result' \in [Joins -> {"none", "confirmed", "unconfirmed", "failed"}]
         /\ \A n \in net' : \/ n \in net \cup answers
                            \/ n \in Mails /\ n.step = "request-with-auth"
         /\ \A j \in Joins :
                \/ pc'[j] = pc[j] /\ result'[j] = result[j]
                \/ /\ uri[j] # NoUri /\ uri[j].me = m.to /\ uri[j].peer = m.from
                   /\ \/ pc'[j] = "proving" /\ m.step \in AuthRequired /\ result'[j] = result[j]
                      \/ pc'[j] = "saving" /\ result'[j] = "unconfirmed"
                      \/ pc'[j] = "saving" /\ result'[j] = "confirmed" /\ m.step = "contact-confirm"
<1> DEFINE fourth == Phase4Wakes(m)
           prove == IF m.step # "pubkey" /\ m.from \in keys'[m.to] THEN Phase2Wakes(m) ELSE {}
           end == (Phase2Wakes(m) \ prove) \cup fourth
<1>1. /\ pc' = [j \in Joins |->
             IF j \in prove THEN "proving" ELSE IF j \in end THEN "saving" ELSE pc[j]]
      /\ result' = [j \in Joins |->
             IF j \in fourth THEN "confirmed" ELSE IF j \in end THEN "unconfirmed" ELSE result[j]]
      /\ active' = IF end = {} THEN active ELSE [active EXCEPT ![m.to] = NoJoin]
      /\ net' = (net \ {m}) \cup {Proof(j) : j \in prove} \cup answers
  BY DEF Receive
<1>2. keys' \in [Acc -> SUBSET Acc]
  BY DEF Receive, Learn, TypeOK, Mails
<1>3. \A j \in fourth : /\ m.step = "contact-confirm" /\ j \in Joins /\ uri[j] # NoUri
                        /\ uri[j].me = m.to /\ uri[j].peer = m.from
  BY WaitersType DEF Phase4Wakes, Waiting
<1>4. \A j \in Phase2Wakes(m) : /\ m.step \in AuthRequired \cup {"pubkey"} /\ j \in Joins
                                /\ uri[j] # NoUri /\ uri[j].me = m.to /\ uri[j].peer = m.from
  BY WaitersType DEF Phase2Wakes, Waiting
<1>5. \A j \in prove : j \in Phase2Wakes(m) /\ m.step # "pubkey"
  OBVIOUS
<1>6. \A j \in end : j \in Phase2Wakes(m) \/ j \in fourth
  OBVIOUS
<1>7. \A j \in prove : j \notin fourth
  BY <1>3, <1>4, <1>5 DEF AuthRequired
<1>8. \A j \in fourth : j \in end /\ j \notin prove
  BY <1>7
<1> HIDE DEF fourth, prove, end
<1>9. active' \in [Acc -> Joins \cup {NoJoin}]
  BY <1>1 DEF TypeOK
<1>10. /\ pc' \in [Joins -> {"idle", "requesting", "proving", "saving"} \cup Waiting]
       /\ result' \in [Joins -> {"none", "confirmed", "unconfirmed", "failed"}]
  BY <1>1 DEF TypeOK
<1>11. \A j \in prove : Proof(j) \in Mails /\ Proof(j).step = "request-with-auth"
  BY <1>4, <1>5, ProofIsMail
<1>12. \A n \in net' : \/ n \in net \cup answers
                       \/ n \in Mails /\ n.step = "request-with-auth"
  BY <1>1, <1>11
<1>13. ASSUME NEW j \in Joins
       PROVE  \/ pc'[j] = pc[j] /\ result'[j] = result[j]
              \/ /\ uri[j] # NoUri /\ uri[j].me = m.to /\ uri[j].peer = m.from
                 /\ \/ pc'[j] = "proving" /\ m.step \in AuthRequired /\ result'[j] = result[j]
                    \/ pc'[j] = "saving" /\ result'[j] = "unconfirmed"
                    \/ pc'[j] = "saving" /\ result'[j] = "confirmed" /\ m.step = "contact-confirm"
  <2>1. CASE j \in prove
    <3>1. pc'[j] = "proving" /\ m.step \in AuthRequired
      BY <1>1, <1>4, <1>5, <2>1
    <3>2. j \notin fourth /\ j \notin Phase2Wakes(m) \ prove
      BY <1>7, <2>1
    <3>3. j \notin end
      BY <3>2 DEF end
    <3>4. result'[j] = result[j]
      BY <1>1, <3>2, <3>3
    <3> QED
      BY <3>1, <3>4, <1>4, <1>5, <2>1
  <2>2. CASE j \in fourth
    BY <1>1, <1>3, <1>8, <2>2
  <2>3. CASE j \in end /\ j \notin fourth /\ j \notin prove
    BY <1>1, <1>4, <1>6, <2>3
  <2>4. CASE j \notin end /\ j \notin fourth /\ j \notin prove
    BY <1>1, <2>4
  <2> QED
    BY <2>1, <2>2, <2>3, <2>4
<1> QED
  BY <1>2, <1>9, <1>10, <1>12, <1>13

-----------------------------------------------------------------------------
(* Types.                                                                  *)

\* The actions of invites, of the joiner and of other clients.
LEMMA JoinerType ==
  ASSUME TypeOK, HasUri,
         \/ \E a \in Acc : Invite(a) \/ Flush(a) \/ Reload(a)
         \/ \E a, p \in Acc, g \in Gens : ForeignAsks(a, p, g) \/ \E j \in Joins : Join(j, a, p, g)
         \/ \E j \in Joins : JoinStep(j)
  PROVE  TypeOK'
<1>1. ASSUME NEW a \in Acc, Invite(a) PROVE TypeOK'
  BY <1>1 DEF Invite, TypeOK
<1>2. ASSUME NEW a \in Acc, Flush(a) PROVE TypeOK'
  BY <1>2 DEF Flush, TypeOK
<1>3. ASSUME NEW a \in Acc, Reload(a) PROVE TypeOK'
  <2>1. \A h \in Handlers : job[h].acc = a => job[h].peer \in Acc
    BY DEF TypeOK, NoWork
  <2>2. broken' \subseteq Acc \X Acc
    BY <1>3, <2>1 DEF Reload, TypeOK
  <2>3. job' \in [Handlers ->
          [stage : {"answering", "confirming", "marking"}, acc : Acc, peer : Acc] \cup {NoWork}]
    BY <1>3 DEF Reload, TypeOK
  <2>4. /\ pc' \in [Joins -> {"idle", "requesting", "proving", "saving"} \cup Waiting]
        /\ result' \in [Joins -> {"none", "confirmed", "unconfirmed", "failed"}]
    BY <1>3 DEF Reload, TypeOK
  <2> QED
    BY <1>3, <2>2, <2>3, <2>4 DEF Reload, TypeOK
<1>4. ASSUME NEW a \in Acc, NEW p \in Acc, NEW g \in Gens, ForeignAsks(a, p, g) PROVE TypeOK'
  <2>1. Mail("request-pubkey", a, p, g, NoJoin) \in Mails
    BY DEF Mail, Mails, Steps, Gens
  <2> QED
    BY <1>4, <2>1 DEF ForeignAsks, Send, TypeOK
<1>5. ASSUME NEW a \in Acc, NEW p \in Acc, NEW g \in Gens, NEW j \in Joins, Join(j, a, p, g)
      PROVE  TypeOK'
  <2>1. Mail("request", a, p, g, j) \in Mails
    BY DEF Mail, Mails, Steps, Gens
  <2> QED
    BY <1>5, <2>1 DEF Join, Send, TypeOK
<1>6. ASSUME NEW j \in Joins, JoinStep(j) PROVE TypeOK'
  <2>1. ASSUME NEW r \in {"unconfirmed", "failed"}, Ends(j, r)
        PROVE  /\ pc' \in [Joins -> {"idle", "requesting", "proving", "saving"} \cup Waiting]
               /\ result' \in [Joins -> {"none", "confirmed", "unconfirmed", "failed"}]
               /\ active' \in [Acc -> Joins \cup {NoJoin}]
    BY <2>1 DEF Ends, TypeOK
  <2>2. CASE Sent(j)
    <3>1. pc' \in [Joins -> {"idle", "requesting", "proving", "saving"} \cup Waiting]
      BY <2>2 DEF Sent, TypeOK, Waiting
    <3> QED
      BY <2>2, <3>1 DEF Sent, TypeOK
  <2>3. CASE RequestRejected(j)
    BY <2>1, <2>3 DEF RequestRejected, TypeOK
  <2>4. CASE ProofRejected(j)
    BY <2>1, <2>4 DEF ProofRejected, GivesUp, TypeOK
  <2>5. CASE TimesOut(j)
    <3>1. Ends(j, "unconfirmed") \/ Ends(j, "failed")
      BY <2>5 DEF TimesOut, GivesUp
    <3> QED
      BY <2>1, <2>5, <3>1 DEF TimesOut, TypeOK
  <2>6. CASE Save(j)
    <3>1. uri[j].me \in Acc /\ uri[j].peer \in Acc
      BY <2>6, UriType DEF Save, HasUri
    <3>2. verified' \in [Acc -> SUBSET Acc]
      BY <2>6, <3>1 DEF Save, TypeOK
    <3>3. broken' \subseteq Acc \X Acc
      BY <2>6, <3>1 DEF Save, TypeOK
    <3>4. pc' \in [Joins -> {"idle", "requesting", "proving", "saving"} \cup Waiting]
      BY <2>6 DEF Save, TypeOK
    <3> QED
      BY <2>6, <3>2, <3>3, <3>4 DEF Save, TypeOK
  <2> QED
    BY <1>6, <2>2, <2>3, <2>4, <2>5, <2>6 DEF JoinStep
<1> QED
  BY <1>1, <1>2, <1>3, <1>4, <1>5, <1>6

\* The receipt of a mail.
LEMMA ReceiptType ==
  ASSUME TypeOK, NEW m \in net,
         \/ GetsAnswer(m)
         \/ \E h \in Handlers : GetsRequest(h, m) \/ GetsPubkeyRequest(h, m) \/ GetsProof(h, m)
  PROVE  TypeOK'
<1>m. m \in Mails /\ m.to \in Acc /\ m.from \in Acc /\ m.gen \in 0 .. MaxGen
  BY DEF TypeOK, Mails
<1> DEFINE Jobs == [stage : {"answering", "confirming", "marking"}, acc : Acc, peer : Acc]
                   \cup {NoWork}
<1>w. ASSUME NEW h \in Handlers, NEW stage \in {"answering", "confirming", "marking"},
             Work(h, stage, m)
      PROVE  job' \in [Handlers -> Jobs]
  BY <1>m, <1>w DEF Work, TypeOK
<1> HIDE DEF Jobs
<1>r. ASSUME NEW answers \in SUBSET Mails, Receive(m, answers)
      PROVE  /\ keys' \in [Acc -> SUBSET Acc] /\ active' \in [Acc -> Joins \cup {NoJoin}]
             /\ pc' \in [Joins -> {"idle", "requesting", "proving", "saving"} \cup Waiting]
             /\ result' \in [Joins -> {"none", "confirmed", "unconfirmed", "failed"}]
             /\ net' \subseteq Mails
  BY <1>m, <1>r, ReceiveEffect DEF TypeOK
<1>a. /\ Answer(m, "auth-required", 0) \subseteq Mails
      /\ Answer(m, "auth-required-clear", 0) \subseteq Mails
      /\ Answer(m, "pubkey", m.gen) \subseteq Mails
      /\ Answer(m, "contact-confirm", 0) \subseteq Mails
  BY <1>m, AnswerIsMail DEF Steps
<1>1. CASE GetsAnswer(m)
  BY <1>1, <1>r DEF GetsAnswer, TypeOK
<1>2. ASSUME NEW h \in Handlers, GetsRequest(h, m) PROVE TypeOK'
  <2>1. job' \in [Handlers -> Jobs]
    BY <1>2, <1>w DEF GetsRequest, TypeOK, Jobs
  <2>2. answered' \subseteq Acc \X Acc
    BY <1>2, <1>m DEF GetsRequest, TypeOK
  <2>3. \E answers \in SUBSET Mails : Receive(m, answers)
    BY <1>2, <1>a DEF GetsRequest
  <2> QED
    BY <1>2, <1>r, <2>1, <2>2, <2>3 DEF GetsRequest, TypeOK, Jobs
<1>3. ASSUME NEW h \in Handlers, GetsPubkeyRequest(h, m) PROVE TypeOK'
  <2>1. job' \in [Handlers -> Jobs]
    BY <1>3, <1>w DEF GetsPubkeyRequest, TypeOK, Jobs
  <2>2. \E answers \in SUBSET Mails : Receive(m, answers)
    BY <1>3, <1>a DEF GetsPubkeyRequest
  <2> QED
    BY <1>3, <1>r, <2>1, <2>2 DEF GetsPubkeyRequest, TypeOK, Jobs
<1>4. ASSUME NEW h \in Handlers, GetsProof(h, m) PROVE TypeOK'
  <2>1. job' \in [Handlers -> Jobs]
    BY <1>4, <1>w DEF GetsProof, TypeOK, Jobs
  <2>2. accepted' \subseteq Acc \X Acc
    BY <1>4, <1>m DEF GetsProof, TypeOK
  <2>3. \E answers \in SUBSET Mails : Receive(m, answers)
    BY <1>4, <1>a DEF GetsProof
  <2> QED
    BY <1>4, <1>r, <2>1, <2>2, <2>3 DEF GetsProof, TypeOK, Jobs
<1> QED
  BY <1>1, <1>2, <1>3, <1>4

\* The steps of a handler after its first await.
LEMMA HandlerType ==
  ASSUME TypeOK, NEW h \in Handlers, JobSent(h) \/ JobFails(h) \/ Mark(h)
  PROVE  TypeOK'
<1>1. job[h] # NoWork => /\ job[h].acc \in Acc /\ job[h].peer \in Acc
                         /\ job[h].stage \in {"answering", "confirming", "marking"}
  BY DEF TypeOK
<1>2. CASE JobSent(h)
  BY <1>1, <1>2 DEF JobSent, TypeOK, NoWork
<1>3. CASE JobFails(h)
  BY <1>1, <1>3 DEF JobFails, TypeOK
<1>4. CASE Mark(h)
  BY <1>1, <1>4 DEF Mark, TypeOK, NoWork
<1> QED
  BY <1>2, <1>3, <1>4

LEMMA TypeStep == TypeOK /\ HasUri /\ [Next]_vars => TypeOK'
<1> SUFFICES ASSUME TypeOK, HasUri, [Next]_vars PROVE TypeOK'
  OBVIOUS
<1>1. CASE UNCHANGED vars
  BY <1>1 DEF vars, TypeOK
<1>2. CASE Next
  BY <1>2, JoinerType, ReceiptType, HandlerType DEF Next
<1> QED
  BY <1>1, <1>2

-----------------------------------------------------------------------------
(* What any step does to the parts of the invariant.                       *)

\* The joins whose phase moves on have heard of the inviter in this step.
Heard(j, steps) ==
    /\ uri'[j] = uri[j] /\ uri[j] # NoUri
    /\ \E m \in net : m.step \in steps /\ uri[j].peer = m.from /\ uri[j].me = m.to

HistoriesGrow == answered \subseteq answered' /\ accepted \subseteq accepted'

JoinMoves(j) ==
    /\ pc[j] # "idle" \/ result[j] # "none" => uri'[j] = uri[j]
    /\ pc'[j] # "idle" \/ result'[j] # "none" => uri'[j] # NoUri
    /\ pc'[j] \in {"proving", "phase4"} =>
          pc[j] \in {"proving", "phase4"} \/ Heard(j, AuthRequired)
    /\ result'[j] = "confirmed" => result[j] = "confirmed" \/ Heard(j, {"contact-confirm"})

Confirming(h, a, b) ==
    job[h].stage \in {"confirming", "marking"} /\ job[h].acc = a /\ job[h].peer = b

MailAdded(n) ==
    \/ n \in net
    \/ n.step \notin AuthRequired \cup {"contact-confirm"}
    \/ n.step \in AuthRequired /\ <<n.from, n.to>> \in answered'
    \/ /\ n.step = "contact-confirm" /\ <<n.from, n.to>> \in accepted'
       /\ \E h \in Handlers : Confirming(h, n.from, n.to)'

Effect == HistoriesGrow /\ (\A j \in Joins : JoinMoves(j)) /\ (\A n \in net' : MailAdded(n))

\* A step that sends no answer and wakes nobody.
LEMMA QuietEffect ==
  ASSUME TypeOK, HasUri, UNCHANGED <<net, uri, answered, accepted>>,
         \A j \in Joins : /\ pc'[j] \in {pc[j], "idle", "saving", "phase2", "phase4"}
                          /\ pc'[j] = "phase4" => pc[j] \in {"proving", "phase4"}
                          /\ result'[j] \in {result[j], "unconfirmed", "failed"}
                          /\ pc[j] = "idle" => pc'[j] = "idle" /\ result'[j] = result[j]
  PROVE  Effect
<1>1. ASSUME NEW j \in Joins PROVE JoinMoves(j)
  BY <1>1 DEF JoinMoves, HasUri
<1> QED
  BY <1>1 DEF Effect, HistoriesGrow, MailAdded

LEMMA JoinerEffect ==
  ASSUME TypeOK, HasUri,
         \/ \E a \in Acc : Invite(a) \/ Flush(a) \/ Reload(a)
         \/ \E a, p \in Acc, g \in Gens : ForeignAsks(a, p, g) \/ \E j \in Joins : Join(j, a, p, g)
         \/ \E j \in Joins : JoinStep(j)
  PROVE  Effect
<1>1. ASSUME NEW a \in Acc, Invite(a) \/ Flush(a) PROVE Effect
  BY <1>1, QuietEffect DEF Invite, Flush
<1>2. ASSUME NEW a \in Acc, Reload(a) PROVE Effect
  BY <1>2, QuietEffect DEF Reload
<1>3. ASSUME NEW a \in Acc, NEW p \in Acc, NEW g \in Gens, ForeignAsks(a, p, g) PROVE Effect
  <2>1. \A n \in net' : MailAdded(n)
    BY <1>3 DEF ForeignAsks, Send, Mail, MailAdded, AuthRequired
  <2>2. ASSUME NEW j \in Joins PROVE JoinMoves(j)
    BY <1>3 DEF ForeignAsks, JoinMoves, HasUri
  <2> QED
    BY <1>3, <2>1, <2>2 DEF ForeignAsks, Effect, HistoriesGrow
<1>4. ASSUME NEW a \in Acc, NEW p \in Acc, NEW g \in Gens, NEW i \in Joins, Join(i, a, p, g)
      PROVE  Effect
  <2>1. \A n \in net' : MailAdded(n)
    BY <1>4 DEF Join, Send, Mail, MailAdded, AuthRequired
  <2>2. ASSUME NEW j \in Joins PROVE JoinMoves(j)
    <3>1. CASE j = i
      <4>1. uri'[j] = [me |-> a, peer |-> p, gen |-> g] /\ pc'[j] = "requesting"
            /\ pc[j] = "idle" /\ result[j] = "none" /\ result'[j] = "none"
        BY <1>4, <3>1 DEF Join, TypeOK
      <4>2. uri'[j].me = a /\ NoUri.me = NoAcc
        BY <4>1 DEF NoUri
      <4> QED
        BY <4>1, <4>2 DEF JoinMoves
    <3>2. CASE j # i
      BY <1>4, <3>2 DEF Join, JoinMoves, TypeOK, HasUri
    <3> QED
      BY <3>1, <3>2
  <2> QED
    BY <1>4, <2>1, <2>2 DEF Join, Effect, HistoriesGrow
<1>5. ASSUME NEW j \in Joins, JoinStep(j) PROVE Effect
  <2>1. ASSUME NEW r \in {"unconfirmed", "failed"}, Ends(j, r), pc[j] # "idle",
               UNCHANGED <<net, uri, answered, accepted>>
        PROVE  Effect
    <3>1. \A i \in Joins :
             IF i = j THEN pc'[i] \in {"idle", "saving"} /\ result'[i] = r
                      ELSE pc'[i] = pc[i] /\ result'[i] = result[i]
      BY <2>1 DEF Ends, TypeOK
    <3> QED
      BY <2>1, <3>1, QuietEffect
  <2>2. CASE Sent(j)
    BY <2>2, QuietEffect DEF Sent, TypeOK
  <2>3. CASE RequestRejected(j)
    BY <2>1, <2>3 DEF RequestRejected
  <2>4. CASE ProofRejected(j)
    BY <2>1, <2>4 DEF ProofRejected, GivesUp
  <2>5. CASE TimesOut(j)
    <3>1. Ends(j, "unconfirmed") \/ Ends(j, "failed")
      BY <2>5 DEF TimesOut, GivesUp
    <3> QED
      BY <2>1, <2>5, <3>1 DEF TimesOut, Waiting
  <2>6. CASE Save(j)
    BY <2>6, QuietEffect DEF Save, TypeOK
  <2> QED
    BY <1>5, <2>2, <2>3, <2>4, <2>5, <2>6 DEF JoinStep
<1> QED
  BY <1>1, <1>2, <1>3, <1>4, <1>5

\* A mail is received: what it wakes has heard it, what it is answered is new.
LEMMA ReceiptEffect ==
  ASSUME TypeOK, HasUri, NEW m \in net,
         \/ GetsAnswer(m)
         \/ \E h \in Handlers : GetsRequest(h, m) \/ GetsPubkeyRequest(h, m) \/ GetsProof(h, m)
  PROVE  Effect
<1>m. m \in Mails /\ m.gen \in 0 .. MaxGen
  BY DEF TypeOK, Mails
<1>r. ASSUME NEW answers \in SUBSET Mails, Receive(m, answers), UNCHANGED uri
      PROVE  /\ \A j \in Joins : JoinMoves(j)
             /\ \A n \in net' : n \in answers \/ MailAdded(n)
  <2>1. \A n \in net' : \/ n \in net \cup answers
                        \/ n \in Mails /\ n.step = "request-with-auth"
    BY <1>m, <1>r, ReceiveEffect
  <2>2. \A n \in net' : n \in answers \/ MailAdded(n)
    BY <2>1 DEF MailAdded, AuthRequired
  <2>3. ASSUME NEW j \in Joins PROVE JoinMoves(j)
    <3>1. \/ pc'[j] = pc[j] /\ result'[j] = result[j]
          \/ /\ uri[j] # NoUri /\ uri[j].me = m.to /\ uri[j].peer = m.from
             /\ \/ pc'[j] = "proving" /\ m.step \in AuthRequired /\ result'[j] = result[j]
                \/ pc'[j] = "saving" /\ result'[j] = "unconfirmed"
                \/ pc'[j] = "saving" /\ result'[j] = "confirmed" /\ m.step = "contact-confirm"
      BY <1>m, <1>r, ReceiveEffect
    <3> QED
      BY <1>r, <3>1 DEF JoinMoves, Heard, HasUri
  <2> QED
    BY <2>2, <2>3
<1>a. ASSUME NEW step \in {"auth-required", "auth-required-clear", "pubkey", "contact-confirm"},
             NEW g \in 0 .. MaxGen
      PROVE  /\ Answer(m, step, g) \in SUBSET Mails
             /\ \A n \in Answer(m, step, g) : n.step = step /\ n.from = m.to /\ n.to = m.from
  BY <1>m, AnswerIsMail DEF Steps
<1>1. CASE GetsAnswer(m)
  BY <1>1, <1>r DEF GetsAnswer, Effect, HistoriesGrow
<1>2. ASSUME NEW h \in Handlers, GetsRequest(h, m) PROVE Effect
  <2>1. CASE token[m.to] = m.gen
    <3>1. PICK step \in AuthRequired : Receive(m, Answer(m, step, 0))
      BY <1>2, <2>1 DEF GetsRequest, AuthRequired
    <3>2. /\ Answer(m, step, 0) \in SUBSET Mails
          /\ \A n \in Answer(m, step, 0) : n.step = step /\ n.from = m.to /\ n.to = m.from
      BY <1>a DEF AuthRequired
    <3>3. answered' = answered \cup {<<m.to, m.from>>} /\ UNCHANGED <<uri, accepted>>
      BY <1>2, <2>1 DEF GetsRequest
    <3>4. \A n \in Answer(m, step, 0) : MailAdded(n)
      BY <3>2, <3>3 DEF MailAdded
    <3> QED
      BY <1>r, <3>1, <3>2, <3>3, <3>4 DEF Effect, HistoriesGrow
  <2>2. CASE token[m.to] # m.gen
    BY <1>2, <1>r, <2>2 DEF GetsRequest, Effect, HistoriesGrow
  <2> QED
    BY <2>1, <2>2
<1>3. ASSUME NEW h \in Handlers, GetsPubkeyRequest(h, m) PROVE Effect
  <2>1. \A n \in Answer(m, "pubkey", m.gen) : MailAdded(n)
    BY <1>a, <1>m DEF MailAdded, AuthRequired
  <2>2. Answer(m, "pubkey", m.gen) \in SUBSET Mails
    BY <1>a, <1>m
  <2>3. UNCHANGED <<uri, answered, accepted>>
    BY <1>3 DEF GetsPubkeyRequest
  <2>4. Receive(m, Answer(m, "pubkey", m.gen)) \/ Receive(m, {})
    BY <1>3 DEF GetsPubkeyRequest
  <2> QED
    BY <1>r, <2>1, <2>2, <2>3, <2>4 DEF Effect, HistoriesGrow
<1>4. ASSUME NEW h \in Handlers, GetsProof(h, m) PROVE Effect
  <2>1. CASE token[m.to] # 0 /\ token[m.to] = m.gen
    <3>1. /\ Receive(m, Answer(m, "contact-confirm", 0)) /\ Work(h, "confirming", m)
          /\ accepted' = accepted \cup {<<m.to, m.from>>} /\ UNCHANGED <<uri, answered>>
      BY <1>4, <2>1 DEF GetsProof
    <3>2. Confirming(h, m.to, m.from)'
      BY <3>1 DEF Work, Confirming, TypeOK
    <3>3. \A n \in Answer(m, "contact-confirm", 0) : MailAdded(n)
      BY <1>a, <3>1, <3>2 DEF MailAdded
    <3> QED
      BY <1>a, <1>r, <3>1, <3>3 DEF Effect, HistoriesGrow
  <2>2. CASE ~(token[m.to] # 0 /\ token[m.to] = m.gen)
    <3>1. Receive(m, {}) /\ UNCHANGED <<uri, answered, accepted>>
      BY <1>4, <2>2 DEF GetsProof
    <3> QED
      BY <1>r, <3>1 DEF Effect, HistoriesGrow
  <2> QED
    BY <2>1, <2>2
<1> QED
  BY <1>1, <1>2, <1>3, <1>4

LEMMA NextEffect == TypeOK /\ HasUri /\ [Next]_vars => Effect
<1> SUFFICES ASSUME TypeOK, HasUri, [Next]_vars PROVE Effect
  OBVIOUS
<1>1. CASE UNCHANGED vars
  BY <1>1, QuietEffect DEF vars
<1>2. ASSUME NEW h \in Handlers, JobSent(h) \/ JobFails(h) \/ Mark(h) PROVE Effect
  BY <1>2, QuietEffect DEF JobSent, JobFails, Mark
<1> QED
  BY <1>1, <1>2, JoinerEffect, ReceiptEffect DEF Next

-----------------------------------------------------------------------------
(* The inductive invariant.                                                *)

\* What backs a confirmed join is only replaced by something that backs it too.
LEMMA BackedStays ==
  ASSUME TypeOK, [Next]_vars, NEW a \in Acc, NEW b \in Acc, Backed(a, b)
  PROVE  Backed(a, b)'
<1>1. CASE UNCHANGED vars
  BY <1>1 DEF vars, Backed
<1>k. ASSUME UNCHANGED <<verified, job, broken>> PROVE Backed(a, b)'
  BY <1>k DEF Backed
<1>w. ASSUME NEW h \in Handlers, NEW m \in net,
             NEW stage \in {"answering", "confirming", "marking"},
             job[h] = NoWork, Work(h, stage, m), UNCHANGED <<verified, broken>>
      PROVE  Backed(a, b)'
  <2>1. \A i \in Handlers : i # h => job'[i] = job[i]
    BY <1>w DEF Work, TypeOK
  <2>2. job[h].stage \notin {"confirming", "marking"}
    BY <1>w DEF NoWork
  <2> QED
    BY <1>w, <2>1, <2>2 DEF Backed
<1>2. ASSUME NEW c \in Acc, Invite(c) \/ Flush(c) PROVE Backed(a, b)'
  BY <1>2, <1>k DEF Invite, Flush
<1>3. ASSUME NEW c \in Acc, Reload(c) PROVE Backed(a, b)'
  <2>1. CASE c = a
    BY <1>3, <2>1 DEF Reload, Backed, TypeOK
  <2>2. CASE c # a
    <3>1. \A h \in Handlers : job[h].acc = a => job'[h] = job[h]
      BY <1>3, <2>2 DEF Reload
    <3> QED
      BY <1>3, <3>1 DEF Reload, Backed
  <2> QED
    BY <2>1, <2>2
<1>4. ASSUME NEW c \in Acc, NEW p \in Acc, NEW g \in Gens,
             ForeignAsks(c, p, g) \/ \E j \in Joins : Join(j, c, p, g)
      PROVE  Backed(a, b)'
  BY <1>4, <1>k DEF ForeignAsks, Join
<1>5. ASSUME NEW j \in Joins, JoinStep(j) PROVE Backed(a, b)'
  <2>1. CASE Save(j)
    <3>1. CASE result[j] = "confirmed"
      BY <2>1, <3>1 DEF Save, Backed, TypeOK
    <3>2. CASE result[j] # "confirmed"
      BY <2>1, <3>2 DEF Save, Backed, TypeOK
    <3> QED
      BY <3>1, <3>2
  <2>2. CASE Sent(j) \/ RequestRejected(j) \/ ProofRejected(j) \/ TimesOut(j)
    BY <2>2, <1>k DEF Sent, RequestRejected, ProofRejected, TimesOut
  <2> QED
    BY <1>5, <2>1, <2>2 DEF JoinStep
<1>6. ASSUME NEW m \in net, GetsAnswer(m) PROVE Backed(a, b)'
  BY <1>6, <1>k DEF GetsAnswer
<1>7. ASSUME NEW m \in net, NEW h \in Handlers,
             GetsRequest(h, m) \/ GetsPubkeyRequest(h, m) \/ GetsProof(h, m)
      PROVE  Backed(a, b)'
  <2>1. job[h] = NoWork /\ UNCHANGED <<verified, broken>>
    BY <1>7 DEF GetsRequest, GetsPubkeyRequest, GetsProof
  <2>2. UNCHANGED job \/ \E stage \in {"answering", "confirming", "marking"} : Work(h, stage, m)
    BY <1>7 DEF GetsRequest, GetsPubkeyRequest, GetsProof
  <2> QED
    BY <1>k, <1>w, <2>1, <2>2
<1>8. ASSUME NEW h \in Handlers, JobSent(h) PROVE Backed(a, b)'
  <2>1. ASSUME NEW i \in Handlers, Confirming(i, a, b) PROVE Confirming(i, a, b)'
    BY <1>8, <2>1 DEF JobSent, Confirming, TypeOK, NoWork
  <2> QED
    BY <1>8, <2>1 DEF JobSent, Backed, Confirming
<1>9. ASSUME NEW h \in Handlers, JobFails(h) PROVE Backed(a, b)'
  BY <1>9 DEF JobFails, Backed, TypeOK
<1>10. ASSUME NEW h \in Handlers, Mark(h) PROVE Backed(a, b)'
  BY <1>10 DEF Mark, Backed, TypeOK
<1> QED
  BY <1>1, <1>2, <1>3, <1>4, <1>5, <1>6, <1>7, <1>8, <1>9, <1>10 DEF Next

LEMMA IInvStep == IInv /\ [Next]_vars => IInv'
<1> SUFFICES ASSUME IInv, [Next]_vars PROVE IInv'
  OBVIOUS
<1> USE DEF IInv
<1>1. TypeOK'
  BY TypeStep
<1>2. Effect
  BY NextEffect
<1>3. HasUri'
  BY <1>2 DEF Effect, JoinMoves, HasUri
<1>4. ASSUME NEW n \in net'
      PROVE  /\ n.step \in AuthRequired => <<n.from, n.to>> \in answered'
             /\ n.step = "contact-confirm" =>
                   <<n.from, n.to>> \in accepted' /\ Backed(n.from, n.to)'
  <2>1. MailAdded(n) /\ HistoriesGrow
    BY <1>2, <1>4 DEF Effect
  <2>2. n.from \in Acc /\ n.to \in Acc
    BY <1>1, <1>4 DEF TypeOK, Mails
  <2>3. CASE n \in net
    BY <2>1, <2>2, <2>3, BackedStays DEF MailsKept, HistoriesGrow
  <2>4. CASE n \notin net
    BY <2>1, <2>4 DEF MailAdded, Backed, Confirming, AuthRequired
  <2> QED
    BY <2>3, <2>4
<1>5. MailsKept'
  BY <1>4 DEF MailsKept
<1>6. ASSUME NEW j \in Joins, pc'[j] \in {"proving", "phase4"}
      PROVE  <<uri'[j].peer, uri'[j].me>> \in answered'
  <2>1. JoinMoves(j) /\ HistoriesGrow
    BY <1>2 DEF Effect
  <2>2. CASE pc[j] \in {"proving", "phase4"}
    BY <2>1, <2>2 DEF JoinMoves, HistoriesGrow, NoPhaseSkipped
  <2>3. CASE Heard(j, AuthRequired)
    BY <2>1, <2>3 DEF Heard, HistoriesGrow, MailsKept
  <2> QED
    BY <1>6, <2>1, <2>2, <2>3 DEF JoinMoves
<1>7. ASSUME NEW j \in Joins, result'[j] = "confirmed"
      PROVE  /\ <<uri'[j].peer, uri'[j].me>> \in accepted'
             /\ \E a, b \in Acc : a = uri'[j].peer /\ b = uri'[j].me /\ Backed(a, b)'
  <2>1. JoinMoves(j) /\ HistoriesGrow
    BY <1>2 DEF Effect
  <2>2. CASE result[j] = "confirmed"
    <3>1. uri'[j] = uri[j] /\ uri[j].peer \in Acc /\ uri[j].me \in Acc
      BY <2>1, <2>2, UriType DEF JoinMoves, HasUri
    <3> QED
      BY <2>1, <2>2, <3>1, BackedStays
      DEF HistoriesGrow, ConfirmedMeansAccepted, MutualVerification
  <2>3. CASE Heard(j, {"contact-confirm"})
    <3>1. PICK m \in net : /\ m.step = "contact-confirm"
                           /\ uri[j].peer = m.from /\ uri[j].me = m.to
      BY <2>3 DEF Heard
    <3>2. uri'[j] = uri[j] /\ m.from \in Acc /\ m.to \in Acc
      BY <2>3, <3>1 DEF Heard, TypeOK, Mails
    <3> QED
      BY <2>1, <3>1, <3>2, BackedStays DEF HistoriesGrow, MailsKept
  <2> QED
    BY <1>7, <2>1, <2>2, <2>3 DEF JoinMoves
<1>8. NoPhaseSkipped' /\ ConfirmedMeansAccepted'
  BY <1>6, <1>7 DEF NoPhaseSkipped, ConfirmedMeansAccepted
<1>9. MutualVerification'
  BY <1>7 DEF MutualVerification, Backed
<1> QED
  BY <1>1, <1>3, <1>5, <1>8, <1>9

LEMMA Inductive == Spec => []IInv
  BY InitIInv, IInvStep, PTL DEF Spec

-----------------------------------------------------------------------------
\* In every run each variable holds a value the code can give it.
THEOREM TypeCorrect == Spec => []TypeOK
<1>1. IInv => TypeOK
  BY DEF IInv
<1> QED
  BY <1>1, Inductive, PTL

\* No joiner sends its proof before the inviter has answered a request of it.
THEOREM PhasesInOrder == Spec => []NoPhaseSkipped
<1>1. IInv => NoPhaseSkipped
  BY DEF IInv
<1> QED
  BY <1>1, Inductive, PTL

\* No join ends verified unless the inviter has checked a proof of this joiner.
THEOREM ConfirmedOnlyAfterProof == Spec => []ConfirmedMeansAccepted
<1>1. IInv => ConfirmedMeansAccepted
  BY DEF IInv
<1> QED
  BY <1>1, Inductive, PTL

\* A join that ended verified is backed by its inviter, or something of the
\* inviter's own went wrong.
THEOREM BothSidesAgree == Spec => []MutualVerification
<1>1. IInv => MutualVerification
  BY DEF IInv
<1> QED
  BY <1>1, Inductive, PTL
=============================================================================
