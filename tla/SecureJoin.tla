----------------------------- MODULE SecureJoin -----------------------------
(***************************************************************************)
(* The SecureJoin handshake between accounts that run this SDK:            *)
(*   lib/securejoin.ts     secureJoin (joiner), handleIncomingSecureJoin   *)
(*   account/securejoin.ts generateSecureJoinURI, secureJoin,              *)
(*                         handleIncomingSecureJoin (inviter, joiner)      *)
(*   account/base.ts       waitForMessage                                  *)
(* Every account plays both parts, several joins run at once, and a mail   *)
(* wakes every waiter whose predicate it meets.  Mail is lost, delayed and *)
(* reordered, and delivered once (MailSync); sends reject although the     *)
(* mail may have left; waiters time out.  The vg- steps differ from the    *)
(* vc- steps in their names only and are not told apart.  Contact rows and *)
(* keys are written in the tick that changes them in memory.               *)
(***************************************************************************)
EXTENDS Naturals

CONSTANTS
    Acc,        \* accounts
    NoAcc,      \* no account
    Joins,      \* invocations of secureJoin
    NoJoin,     \* no invocation
    Handlers,   \* concurrent invocations of handleIncomingSecureJoin
    MaxGen,     \* bound: invites an account ever creates
    MaxReloads, \* bound: times a page is closed and opened again
    MaxForeign  \* bound: mails of other clients

ASSUME JoinBounds == MaxGen \in Nat /\ MaxReloads \in Nat /\ MaxForeign \in Nat
ASSUME NobodyAssumption == NoAcc \notin Acc /\ NoJoin \notin Joins

\* An invite is named by the generation of the token pair (invite number, auth).
Gens == 1 .. MaxGen
Steps == {"request", "auth-required", "auth-required-clear", "request-with-auth",
          "contact-confirm", "request-pubkey", "pubkey"}

\* gen: the invite whose number or auth the mail carries, 0 for none.  by: the
\* join it belongs to; no code reads it, it keeps equal mails apart.
Mails == [step : Steps, from : Acc, to : Acc, gen : 0 .. MaxGen, by : Joins \cup {NoJoin}]

\* Mail whose Autocrypt header is protected by encryption; from any other mail
\* the header may be stripped on the way.
Sealed == {"auth-required", "request-with-auth", "contact-confirm"}
AuthRequired == {"auth-required", "auth-required-clear"}

VARIABLES
    issued,   \* issued[a]: invites account a has created
    token,    \* token[a]: myInviteNumber and myAuthToken, 0 when empty
    saved,    \* saved[a]: the tokens in the account row
    keys,     \* keys[a]: peers whose key account a knows
    verified, \* verified[a]: peers whose contact is verified
    active,   \* active[a]: the join activeSecureJoinAuth and -InviterFp come from
    net,      \* the mails on the way; one that stays there is lost
    pc,       \* pc[j]: what join j awaits
    uri,      \* uri[j]: who joins whom with which invite
    result,   \* result[j]: how lib secureJoin ended
    job,      \* job[h]: what handler h works on
    reloads,  \* pages closed so far
    foreign,  \* mails of other clients so far
    answered, \* history: <<inviter, joiner>> of every auth-required sent
    accepted, \* history: <<inviter, joiner>> of every proof that was checked
    broken    \* history: <<inviter, joiner>> whose confirmation went wrong, or was undone

vars == <<issued, token, saved, keys, verified, active, net, pc, uri, result, job,
          reloads, foreign, answered, accepted, broken>>

Waiting == {"phase2", "phase4"}
NoUri == [me |-> NoAcc, peer |-> NoAcc, gen |-> 0]
NoWork == [stage |-> "idle", acc |-> NoAcc, peer |-> NoAcc]

Init ==
    /\ issued = [a \in Acc |-> 0] /\ token = [a \in Acc |-> 0] /\ saved = [a \in Acc |-> 0]
    /\ keys = [a \in Acc |-> {}] /\ verified = [a \in Acc |-> {}]
    /\ active = [a \in Acc |-> NoJoin]
    /\ net = {}
    /\ pc = [j \in Joins |-> "idle"] /\ uri = [j \in Joins |-> NoUri]
    /\ result = [j \in Joins |-> "none"]
    /\ job = [h \in Handlers |-> NoWork]
    /\ reloads = 0 /\ foreign = 0
    /\ answered = {} /\ accepted = {} /\ broken = {}

-----------------------------------------------------------------------------
(* Helpers.                                                                *)

Mail(step, a, b, g, j) == [step |-> step, from |-> a, to |-> b, gen |-> g, by |-> j]
Proof(j) == Mail("request-with-auth", uri[j].me, uri[j].peer, uri[j].gen, j)

Send(m) == net' = net \cup {m}

\* What an inviter sends back for m.
Answer(m, step, g) == {Mail(step, m.to, m.from, g, m.by)}

\* parseIncoming stores the sender's key, unless its header was stripped.
Learn(m) ==
    \/ keys' = [keys EXCEPT ![m.to] = @ \cup {m.from}]
    \/ m.step \notin Sealed /\ UNCHANGED keys

\* lib secureJoin returns or throws: the finally clears the active auth,
\* whichever join set it.
Ends(j, r) ==
    /\ pc' = [pc EXCEPT ![j] = IF r = "failed" THEN "idle" ELSE "saving"]
    /\ result' = [result EXCEPT ![j] = r]
    /\ active' = [active EXCEPT ![uri[j].me] = NoJoin]

\* The catch of secureJoin: without the inviter's key it throws.
GivesUp(j) == Ends(j, IF uri[j].peer \in keys[uri[j].me] THEN "unconfirmed" ELSE "failed")

Work(h, stage, m) == job' = [job EXCEPT ![h] = [stage |-> stage, acc |-> m.to, peer |-> m.from]]

-----------------------------------------------------------------------------
(* Invites.                                                                *)

\* generateSecureJoinURI with new tokens; its flush runs on in the background.
Invite(a) ==
    /\ issued[a] < MaxGen
    /\ issued' = [issued EXCEPT ![a] = @ + 1]
    /\ token' = [token EXCEPT ![a] = issued[a] + 1]
    /\ UNCHANGED <<saved, keys, verified, active, net, pc, uri, result, job, reloads,
                   foreign, answered, accepted, broken>>

\* saveToStore: by that flush, or by any later snapshot.  Bound: only while a
\* reload may still read what is written.
Flush(a) ==
    /\ reloads < MaxReloads
    /\ saved[a] # token[a]
    /\ saved' = [saved EXCEPT ![a] = token[a]]
    /\ UNCHANGED <<issued, token, keys, verified, active, net, pc, uri, result, job,
                   reloads, foreign, answered, accepted, broken>>

\* The page of a is closed and its account loaded again.
Reload(a) ==
    /\ reloads < MaxReloads
    /\ reloads' = reloads + 1
    /\ token' = [token EXCEPT ![a] = saved[a]]
    /\ active' = [active EXCEPT ![a] = NoJoin]
    /\ pc' = [j \in Joins |-> IF uri[j].me = a THEN "idle" ELSE pc[j]]
    /\ result' = [j \in Joins |-> IF uri[j].me = a /\ pc[j] # "idle" THEN "failed" ELSE result[j]]
    /\ job' = [h \in Handlers |-> IF job[h].acc = a THEN NoWork ELSE job[h]]
    /\ broken' = broken \cup {<<a, p>> : p \in {job[h].peer : h \in {i \in Handlers : job[i].acc = a}}}
    /\ UNCHANGED <<issued, saved, keys, verified, net, uri, foreign, answered, accepted>>

-----------------------------------------------------------------------------
(* The joiner.                                                             *)

\* secureJoin: phase 1 goes out, on an invite p created at some time.
Join(j, a, p, g) ==
    /\ pc[j] = "idle" /\ result[j] = "none"
    /\ a # p /\ g <= issued[p]
    /\ uri' = [uri EXCEPT ![j] = [me |-> a, peer |-> p, gen |-> g]]
    /\ active' = [active EXCEPT ![a] = j]
    /\ pc' = [pc EXCEPT ![j] = "requesting"]
    /\ Send(Mail("request", a, p, g, j))
    /\ UNCHANGED <<issued, token, saved, keys, verified, result, job, reloads, foreign,
                   answered, accepted, broken>>

\* The send is done and the waiter for the next phase registered.  An answer
\* that came in before finds nobody waiting.
Sent(j) ==
    /\ pc[j] \in {"requesting", "proving"}
    /\ pc' = [pc EXCEPT ![j] = IF pc[j] = "requesting" THEN "phase2" ELSE "phase4"]
    /\ UNCHANGED <<issued, token, saved, keys, verified, active, net, uri, result, job,
                   reloads, foreign, answered, accepted, broken>>

\* The first send is outside the try.
RequestRejected(j) ==
    /\ pc[j] = "requesting"
    /\ Ends(j, "failed")
    /\ UNCHANGED <<issued, token, saved, keys, verified, net, uri, job, reloads, foreign,
                   answered, accepted, broken>>

ProofRejected(j) ==
    /\ pc[j] = "proving"
    /\ GivesUp(j)
    /\ UNCHANGED <<issued, token, saved, keys, verified, net, uri, job, reloads, foreign,
                   answered, accepted, broken>>

\* Mutant: no timer behind the last waiter.
TimesOutOnce(j) ==
    /\ pc[j] = "phase2"
    /\ GivesUp(j)
    /\ UNCHANGED <<issued, token, saved, keys, verified, net, uri, job, reloads, foreign,
                   answered, accepted, broken>>

\* 30 s without phase 2, or 10 s without phase 4.
TimesOut(j) ==
    /\ pc[j] \in Waiting
    /\ IF pc[j] = "phase2" THEN GivesUp(j) ELSE Ends(j, "unconfirmed")
    /\ UNCHANGED <<issued, token, saved, keys, verified, net, uri, job, reloads, foreign,
                   answered, accepted, broken>>

\* account secureJoin writes the contact with what the handshake yielded.
Save(j) ==
    /\ pc[j] = "saving"
    /\ pc' = [pc EXCEPT ![j] = "idle"]
    /\ IF result[j] = "confirmed"
       THEN /\ verified' = [verified EXCEPT ![uri[j].me] = @ \cup {uri[j].peer}]
            /\ UNCHANGED broken
       ELSE /\ verified' = [verified EXCEPT ![uri[j].me] = @ \ {uri[j].peer}]
            /\ broken' = broken \cup {<<uri[j].me, uri[j].peer>>}
    /\ UNCHANGED <<issued, token, saved, keys, active, net, uri, result, job, reloads,
                   foreign, answered, accepted>>

-----------------------------------------------------------------------------
(* A mail arrives: processIncomingRaw first wakes the waiters it concerns,  *)
(* then handleIncomingSecureJoin answers it when it is for an inviter.      *)

Waiters(m, stage) ==
    {j \in Joins : pc[j] = stage /\ uri[j].me = m.to /\ uri[j].peer = m.from}

\* Mutant: the waiter for phase 2 takes any handshake mail of the inviter.
AnyStepWakes(m) == Waiters(m, "phase2")

\* The waiters for phase 2 that m wakes.  A pubkey mail is symmetrically
\* encrypted: it is a handshake mail only to who holds its auth token.
Phase2Wakes(m) ==
    IF m.step \in AuthRequired
         \/ (m.step = "pubkey" /\ \E j \in Joins :
                /\ active[m.to] = j /\ uri[j].peer = m.from /\ uri[j].gen = m.gen)
    THEN Waiters(m, "phase2")
    ELSE {}

Phase4Wakes(m) == IF m.step = "contact-confirm" THEN Waiters(m, "phase4") ELSE {}

\* m is parsed, every waiter it wakes goes on (with the proof when m asks for it
\* and the key is known, to its end otherwise), and the answers are sent.
Receive(m, answers) ==
    /\ Learn(m)
    /\ LET fourth == Phase4Wakes(m)
           prove == IF m.step # "pubkey" /\ m.from \in keys'[m.to] THEN Phase2Wakes(m) ELSE {}
           end == (Phase2Wakes(m) \ prove) \cup fourth
       IN  /\ pc' = [j \in Joins |->
                 IF j \in prove THEN "proving" ELSE IF j \in end THEN "saving" ELSE pc[j]]
           /\ result' = [j \in Joins |->
                 IF j \in fourth THEN "confirmed" ELSE IF j \in end THEN "unconfirmed" ELSE result[j]]
           /\ active' = IF end = {} THEN active ELSE [active EXCEPT ![m.to] = NoJoin]
           /\ net' = (net \ {m}) \cup {Proof(j) : j \in prove} \cup answers

GetsAnswer(m) ==
    /\ m.step \in AuthRequired \cup {"pubkey", "contact-confirm"}
    /\ Receive(m, {})
    /\ UNCHANGED <<issued, token, saved, verified, uri, job, reloads, foreign, answered,
                   accepted, broken>>

\* request: the right invite number is answered, in clear without a key.
GetsRequest(h, m) ==
    /\ m.step = "request" /\ job[h] = NoWork
    /\ IF token[m.to] = m.gen
       THEN /\ Receive(m, IF m.from \in keys'[m.to]
                          THEN Answer(m, "auth-required", 0)
                          ELSE Answer(m, "auth-required-clear", 0))
            /\ answered' = answered \cup {<<m.to, m.from>>}
            /\ Work(h, "answering", m)
       ELSE Receive(m, {}) /\ UNCHANGED <<answered, job>>
    /\ UNCHANGED <<issued, token, saved, verified, uri, reloads, foreign, accepted, broken>>

\* request-pubkey, which only other clients send: decrypts with the right auth.
GetsPubkeyRequest(h, m) ==
    /\ m.step = "request-pubkey" /\ job[h] = NoWork
    /\ IF token[m.to] = m.gen
       THEN Receive(m, Answer(m, "pubkey", m.gen)) /\ Work(h, "answering", m)
       ELSE Receive(m, {}) /\ UNCHANGED job
    /\ UNCHANGED <<issued, token, saved, verified, uri, reloads, foreign, answered,
                   accepted, broken>>

\* Mutant: any proof is confirmed.
ConfirmsUnchecked(h, m) ==
    /\ m.step = "request-with-auth" /\ job[h] = NoWork
    /\ IF token[m.to] = 0
       THEN Receive(m, {}) /\ UNCHANGED <<accepted, job>>
       ELSE /\ Receive(m, Answer(m, "contact-confirm", 0))
            /\ accepted' = IF token[m.to] = m.gen THEN accepted \cup {<<m.to, m.from>>} ELSE accepted
            /\ Work(h, "confirming", m)
    /\ UNCHANGED <<issued, token, saved, verified, uri, reloads, foreign, answered, broken>>

\* request-with-auth: the right auth is confirmed, to a peer whose key is known,
\* for the mail itself carried it protected.  With a wrong auth the library
\* returns without a word, and the caller goes on to mark the peer.
GetsProof(h, m) ==
    /\ m.step = "request-with-auth" /\ job[h] = NoWork
    /\ IF token[m.to] = 0
       THEN Receive(m, {}) /\ UNCHANGED <<accepted, job>>
       ELSE IF token[m.to] = m.gen
       THEN /\ Receive(m, Answer(m, "contact-confirm", 0))
            /\ accepted' = accepted \cup {<<m.to, m.from>>}
            /\ Work(h, "confirming", m)
       ELSE Receive(m, {}) /\ Work(h, "marking", m) /\ UNCHANGED accepted
    /\ UNCHANGED <<issued, token, saved, verified, uri, reloads, foreign, answered, broken>>

\* Mutant: the handler that confirmed does not mark.
ConfirmEnds(h) ==
    /\ job[h].stage \in {"answering", "confirming"}
    /\ job' = [job EXCEPT ![h] = NoWork]
    /\ UNCHANGED <<issued, token, saved, keys, verified, active, net, pc, uri, result,
                   reloads, foreign, answered, accepted, broken>>

\* The send of handler h is done: an answer ends the work, a confirmation is
\* followed by the mark.
JobSent(h) ==
    /\ job[h].stage \in {"answering", "confirming"}
    /\ job' = [job EXCEPT ![h] = IF @.stage = "answering" THEN NoWork ELSE [@ EXCEPT !.stage = "marking"]]
    /\ UNCHANGED <<issued, token, saved, keys, verified, active, net, pc, uri, result,
                   reloads, foreign, answered, accepted, broken>>

\* The send rejects, or the store throws while the peer is being marked.
JobFails(h) ==
    /\ job[h] # NoWork
    /\ job' = [job EXCEPT ![h] = NoWork]
    /\ broken' = broken \cup {<<job[h].acc, job[h].peer>>}
    /\ UNCHANGED <<issued, token, saved, keys, verified, active, net, pc, uri, result,
                   reloads, foreign, answered, accepted>>

\* rememberPeerKey is done: the contact is written as verified.
Mark(h) ==
    /\ job[h].stage = "marking"
    /\ verified' = [verified EXCEPT ![job[h].acc] = @ \cup {job[h].peer}]
    /\ job' = [job EXCEPT ![h] = NoWork]
    /\ UNCHANGED <<issued, token, saved, keys, active, net, pc, uri, result, reloads,
                   foreign, answered, accepted, broken>>

-----------------------------------------------------------------------------
(* Other clients of an account.                                            *)

\* Another client on account a asks for the key of p, with an invite of p.
ForeignAsks(a, p, g) ==
    /\ foreign < MaxForeign /\ a # p /\ g <= issued[p]
    /\ foreign' = foreign + 1
    /\ Send(Mail("request-pubkey", a, p, g, NoJoin))
    /\ UNCHANGED <<issued, token, saved, keys, verified, active, pc, uri, result, job,
                   reloads, answered, accepted, broken>>

-----------------------------------------------------------------------------
JoinStep(j) ==
    Sent(j) \/ RequestRejected(j) \/ ProofRejected(j) \/ TimesOut(j) \/ Save(j)

Next ==
    \/ \E a \in Acc : Invite(a) \/ Flush(a) \/ Reload(a)
    \/ \E a, p \in Acc, g \in Gens : ForeignAsks(a, p, g) \/ \E j \in Joins : Join(j, a, p, g)
    \/ \E j \in Joins : JoinStep(j)
    \/ \E m \in net :
        \/ GetsAnswer(m)
        \/ \E h \in Handlers : GetsRequest(h, m) \/ GetsPubkeyRequest(h, m) \/ GetsProof(h, m)
    \/ \E h \in Handlers : JobSent(h) \/ JobFails(h) \/ Mark(h)

Spec == Init /\ [][Next]_vars

\* Sends settle and timers fire.  (A send over an open socket whose relay never
\* answers does not: see ClosingSettles of Transport.)
FairSpec == Spec /\ \A j \in Joins : WF_vars(JoinStep(j))

-----------------------------------------------------------------------------
\* Every variable ranges over the values the code can give it.
TypeOK ==
    /\ issued \in [Acc -> 0 .. MaxGen] /\ token \in [Acc -> 0 .. MaxGen]
    /\ saved \in [Acc -> 0 .. MaxGen]
    /\ keys \in [Acc -> SUBSET Acc] /\ verified \in [Acc -> SUBSET Acc]
    /\ active \in [Acc -> Joins \cup {NoJoin}]
    /\ net \subseteq Mails
    /\ pc \in [Joins -> {"idle", "requesting", "proving", "saving"} \cup Waiting]
    /\ uri \in [Joins -> [me : Acc, peer : Acc, gen : Gens] \cup {NoUri}]
    /\ result \in [Joins -> {"none", "confirmed", "unconfirmed", "failed"}]
    /\ job \in [Handlers ->
          [stage : {"answering", "confirming", "marking"}, acc : Acc, peer : Acc] \cup {NoWork}]
    /\ reloads \in 0 .. MaxReloads /\ foreign \in 0 .. MaxForeign
    /\ answered \subseteq Acc \X Acc /\ accepted \subseteq Acc \X Acc
    /\ broken \subseteq Acc \X Acc

\* A joiner only proves its auth to an inviter that answered a request of this
\* joiner, although both may be joining each other at once and requests of the
\* inviter pass the same waiters (lib/securejoin.ts:758-759).
NoPhaseSkipped ==
    \A j \in Joins :
        pc[j] \in {"proving", "phase4"} => <<uri[j].peer, uri[j].me>> \in answered

\* secureJoin reports verified only when the inviter has checked a proof of this
\* joiner, however late, lost or crossed the mails of several joins are.
ConfirmedMeansAccepted ==
    \A j \in Joins : result[j] = "confirmed" => <<uri[j].peer, uri[j].me>> \in accepted

\* Inviter a has b as verified or is about to, unless its page was closed or a
\* send of its own rejected on the way, or it saved an unconfirmed join of its own.
Backed(a, b) ==
    \/ b \in verified[a]
    \/ \E h \in Handlers :
          job[h].stage \in {"confirming", "marking"} /\ job[h].acc = a /\ job[h].peer = b
    \/ <<a, b>> \in broken

\* Both sides agree: a join that ended verified is backed by its inviter.
MutualVerification ==
    \A j \in Joins : result[j] = "confirmed" => Backed(uri[j].peer, uri[j].me)

\* A join that was ever started knows whom it joins.
HasUri == \A j \in Joins : pc[j] # "idle" \/ result[j] # "none" => uri[j] # NoUri

\* The mails that are still on their way keep what the properties say of the
\* joins that will read them.
MailsKept ==
    \A m \in net :
        /\ m.step \in AuthRequired => <<m.from, m.to>> \in answered
        /\ m.step = "contact-confirm" => <<m.from, m.to>> \in accepted /\ Backed(m.from, m.to)

IInv ==
    TypeOK /\ HasUri /\ MailsKept /\ NoPhaseSkipped /\ ConfirmedMeansAccepted /\ MutualVerification

\* Whatever is lost, a join ends: no waiter is left registered for ever.
JoinSettles == \A j \in Joins : pc[j] # "idle" ~> pc[j] = "idle"

-----------------------------------------------------------------------------
(* What comments and docs say and the code does not keep. *)

\* account/securejoin.ts:102: "After joiner proves auth, mark peer verified".
\* A handler only marks a peer whose proof was checked.
MarkedAfterProof ==
    \A h \in Handlers :
        job[h].stage = "marking" => <<job[h].acc, job[h].peer>> \in accepted
=============================================================================
