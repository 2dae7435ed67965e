------------------------------ MODULE Transport ------------------------------
(***************************************************************************)
(* lib/transport.ts: one WebSocket to a relay with requests correlated by  *)
(* req_id, shared by every caller of the account.  Sockets come and go;    *)
(* this.ws is the newest one, but the handlers of an older socket that is  *)
(* still closing stay attached and reach the same pendingRequests map.     *)
(* The browser delivers open, message and close events between any two     *)
(* awaits of the callers.  It never delivers a message on a socket that is *)
(* not OPEN, and ends every CLOSING socket with a close event.  The relay  *)
(* answers what it was asked in any order, several times, or never.  REST  *)
(* requests share no state with the socket and only return.                *)
(***************************************************************************)
EXTENDS Naturals, FiniteSets

CONSTANTS
    Callers,    \* concurrent users of the Transport: send, fetchMessage, connect
    Handshake,  \* asks with the list_messages request that onopen sends
    MaxSockets, \* bound: WebSocket objects ever created
    MaxCalls    \* bound: sends and fetches ever started

Sockets == 1 .. MaxSockets

ASSUME TransportBounds == MaxSockets \in Nat /\ MaxCalls \in Nat
ASSUME HandshakeAssumption == Handshake \notin Callers

VARIABLES
    ws,         \* this.ws, 0 for null
    sock,       \* sock[s]: readyState, "none" before the WebSocket is created
    promise,    \* promise[s]: what the connect() call that created s returned
    timer,      \* the sockets whose 12 s authTimer is armed
    pending,    \* this.pendingRequests: records [id, sock, by]
    reqCounter, \* this.reqCounter
    pc,         \* pc[c]: what caller c awaits
    joined,     \* joined[c]: the socket whose connect() promise c awaits, 0 for a resolved one
    calls,      \* sends and fetches started so far
    asked,      \* history: the requests the relay was sent, as in pending
    proven      \* history: sockets on which the relay accepted the credentials

vars == <<ws, sock, promise, timer, pending, reqCounter, pc, joined, calls, asked, proven>>

States == {"none", "connecting", "open", "closing", "closed"}
Requests == [id : Nat, sock : Sockets, by : Callers \cup {Handshake}]

Live(s) == sock[s] \in {"connecting", "open"}
isConnected == ws # 0 /\ sock[ws] = "open"

Init ==
    /\ ws = 0
    /\ sock = [s \in Sockets |-> "none"]
    /\ promise = [s \in Sockets |-> "none"]
    /\ timer = {} /\ pending = {} /\ reqCounter = 0
    /\ pc = [c \in Callers |-> "idle"]
    /\ joined = [c \in Callers |-> 0]
    /\ calls = 0 /\ asked = {} /\ proven = {}

-----------------------------------------------------------------------------
(* Helpers.                                                                *)

\* this.ws?.close() in the state ss of the sockets.
CloseWs(ss) ==
    [s \in Sockets |-> IF s = ws /\ ss[s] \in {"connecting", "open"} THEN "closing" ELSE ss[s]]

\* done(err) for the connect() calls that created the sockets in S.
Fail(S) ==
    promise' = [s \in Sockets |-> IF s \in S /\ promise[s] = "pending" THEN "failed" ELSE promise[s]]

\* The callers of the requests in R go on, with an answer or an error.
Release(R) ==
    pc' = [c \in Callers |-> IF \E e \in R : e.by = c THEN "idle" ELSE pc[c]]

\* The sockets whose handshake is among the requests in R.
Shaking(R) == {e.sock : e \in {r \in R : r.by = Handshake}}

\* Mutant: the size of the map as the request id.
AskBySize(s, by) ==
    LET e == [id |-> Cardinality(pending) + 1, sock |-> s, by |-> by]
    IN  /\ reqCounter' = reqCounter + 1
        /\ pending' = {r \in pending : r.id # e.id} \cup {e}
        /\ asked' = asked \cup {e}

\* ++this.reqCounter, pendingRequests.set, ws.send: on socket s, for by.
Ask(s, by) ==
    LET e == [id |-> reqCounter + 1, sock |-> s, by |-> by]
    IN  /\ reqCounter' = reqCounter + 1
        /\ pending' = {r \in pending : r.id # e.id} \cup {e}
        /\ asked' = asked \cup {e}

\* send and fetchMessage(s) past their connection test: by WebSocket when it is
\* open (wsRequest), by REST otherwise.
Request(c) ==
    IF isConnected
    THEN /\ Ask(ws, c)
         /\ pc' = [pc EXCEPT ![c] = "waiting"]
    ELSE /\ pc' = [pc EXCEPT ![c] = "rest"]
         /\ UNCHANGED <<pending, reqCounter, asked>>

\* Mutant: connect() joins an open socket only.
ConnectTwice(c, stage) ==
    /\ pc' = [pc EXCEPT ![c] = stage]
    /\ IF isConnected
       THEN joined' = [joined EXCEPT ![c] = 0] /\ UNCHANGED <<ws, sock, promise>>
       ELSE \E s \in Sockets :
            /\ sock[s] = "none" /\ \A t \in 1 .. (s - 1) : sock[t] # "none"
            /\ ws' = s
            /\ sock' = [sock EXCEPT ![s] = "connecting"]
            /\ promise' = [promise EXCEPT ![s] = "pending"]
            /\ joined' = [joined EXCEPT ![c] = s]

\* connect(): joins a socket that is open or opening with a resolved promise;
\* otherwise creates one.  close() on a stale this.ws has no effect any more.
ConnectCall(c, stage) ==
    /\ pc' = [pc EXCEPT ![c] = stage]
    /\ IF ws # 0 /\ Live(ws)
       THEN /\ joined' = [joined EXCEPT ![c] = 0]
            /\ UNCHANGED <<ws, sock, promise>>
       ELSE \E s \in Sockets :
            /\ sock[s] = "none" /\ \A t \in 1 .. (s - 1) : sock[t] # "none"
            /\ ws' = s
            /\ sock' = [sock EXCEPT ![s] = "connecting"]
            /\ promise' = [promise EXCEPT ![s] = "pending"]
            /\ joined' = [joined EXCEPT ![c] = s]

ConnectSettled(c) == joined[c] \notin {s \in Sockets : promise[s] = "pending"}

-----------------------------------------------------------------------------
(* The callers.                                                            *)

Connect(c) ==
    /\ pc[c] = "idle"
    /\ ConnectCall(c, "connecting")
    /\ UNCHANGED <<timer, pending, reqCounter, calls, asked, proven>>

ConnectReturns(c) ==
    /\ pc[c] = "connecting" /\ ConnectSettled(c)
    /\ pc' = [pc EXCEPT ![c] = "idle"]
    /\ joined' = [joined EXCEPT ![c] = 0]
    /\ UNCHANGED <<ws, sock, promise, timer, pending, reqCounter, calls, asked, proven>>

\* fetchMessage, fetchMessages, and a send that finds the socket open.
Fetch(c) ==
    /\ pc[c] = "idle" /\ calls < MaxCalls
    /\ calls' = calls + 1
    /\ Request(c)
    /\ UNCHANGED <<ws, sock, promise, timer, joined, proven>>

\* A send that finds it closed or opening calls connect(0) first.
SendConnects(c) ==
    /\ pc[c] = "idle" /\ calls < MaxCalls /\ ~isConnected
    /\ calls' = calls + 1
    /\ ConnectCall(c, "sending")
    /\ UNCHANGED <<timer, pending, reqCounter, asked, proven>>

\* Whether or not connect(0) threw, send looks at the socket again.
SendGoesOn(c) ==
    /\ pc[c] = "sending" /\ ConnectSettled(c)
    /\ Request(c)
    /\ joined' = [joined EXCEPT ![c] = 0]
    /\ UNCHANGED <<ws, sock, promise, timer, calls, proven>>

RestReturns(c) ==
    /\ pc[c] = "rest"
    /\ pc' = [pc EXCEPT ![c] = "idle"]
    /\ UNCHANGED <<ws, sock, promise, timer, pending, reqCounter, joined, calls, asked, proven>>

\* disconnect(): this.ws is null before the pending requests are rejected, so
\* a rejected handshake closes nothing more.
Disconnect ==
    /\ ws # 0
    /\ sock' = CloseWs(sock)
    /\ ws' = 0
    /\ Fail(Shaking(pending))
    /\ Release(pending)
    /\ timer' = timer \ Shaking(pending)
    /\ pending' = {}
    /\ UNCHANGED <<reqCounter, joined, calls, asked, proven>>

-----------------------------------------------------------------------------
(* The events of the browser and the relay.                                *)

\* Mutant: the handshake has no timer.
OpensUntimed(s) ==
    /\ sock[s] = "connecting"
    /\ sock' = [sock EXCEPT ![s] = "open"]
    /\ Ask(s, Handshake)
    /\ UNCHANGED <<ws, promise, timer, pc, joined, calls, proven>>

\* onopen: the request that proves the credentials, with its timer.
Opens(s) ==
    /\ sock[s] = "connecting"
    /\ sock' = [sock EXCEPT ![s] = "open"]
    /\ timer' = timer \cup {s}
    /\ Ask(s, Handshake)
    /\ UNCHANGED <<ws, promise, pc, joined, calls, proven>>

\* The relay or the network starts to close an open socket.
StartsToClose(s) ==
    /\ sock[s] = "open"
    /\ sock' = [sock EXCEPT ![s] = "closing"]
    /\ UNCHANGED <<ws, promise, timer, pending, reqCounter, pc, joined, calls, asked, proven>>

\* onerror, onclose: every pending request is rejected, whichever socket it was
\* sent on, and a rejected handshake closes the socket that is current now.
Closed(s) ==
    /\ sock[s] \in {"connecting", "open", "closing"}
    /\ LET ss == [sock EXCEPT ![s] = "closed"]
       IN  sock' = IF Shaking(pending) # {} THEN CloseWs(ss) ELSE ss
    /\ Fail(Shaking(pending) \cup {s})
    /\ Release(pending)
    /\ timer' = timer \ Shaking(pending)
    /\ pending' = {}
    /\ UNCHANGED <<ws, reqCounter, joined, calls, asked, proven>>

\* onmessage with a req_id: the pending request of that id is settled; a
\* handshake that is refused closes the current socket.
Answered(a, ok) ==
    /\ a \in asked /\ sock[a.sock] = "open"
    /\ \E e \in pending :
        /\ e.id = a.id
        /\ pending' = pending \ {e}
        /\ Release({e})
        /\ timer' = timer \ Shaking({e})
        /\ IF e.by # Handshake
           THEN UNCHANGED <<sock, promise, proven>>
           ELSE IF ok
           THEN /\ promise' = [promise EXCEPT ![e.sock] = IF @ = "pending" THEN "ok" ELSE @]
                /\ proven' = proven \cup {e.sock}
                /\ UNCHANGED sock
           ELSE /\ sock' = CloseWs(sock)
                /\ Fail({e.sock})
                /\ UNCHANGED proven
    /\ UNCHANGED <<ws, reqCounter, joined, calls, asked>>

\* Mutant: the timer rejects and leaves the socket open.
TimeoutLeavesOpen(s) ==
    /\ s \in timer
    /\ timer' = timer \ {s}
    /\ Fail({s})
    /\ UNCHANGED <<ws, sock, pending, reqCounter, pc, joined, calls, asked, proven>>

\* authTimer: gives the connect() up and closes the socket that is current now.
AuthTimeout(s) ==
    /\ s \in timer
    /\ timer' = timer \ {s}
    /\ Fail({s})
    /\ sock' = CloseWs(sock)
    /\ UNCHANGED <<ws, pending, reqCounter, pc, joined, calls, asked, proven>>

-----------------------------------------------------------------------------
CallerStep(c) ==
    \/ Connect(c) \/ ConnectReturns(c) \/ Fetch(c)
    \/ SendConnects(c) \/ SendGoesOn(c) \/ RestReturns(c)

SocketStep(s) == Opens(s) \/ StartsToClose(s) \/ Closed(s) \/ AuthTimeout(s)

Next ==
    \/ \E c \in Callers : CallerStep(c)
    \/ \E s \in Sockets : SocketStep(s)
    \/ \E a \in asked, ok \in BOOLEAN : Answered(a, ok)
    \/ Disconnect

Spec == Init /\ [][Next]_vars

-----------------------------------------------------------------------------
\* Every variable ranges over the values the code can give it.
TypeOK ==
    /\ ws \in 0 .. MaxSockets
    /\ sock \in [Sockets -> States]
    /\ promise \in [Sockets -> {"none", "pending", "ok", "failed"}]
    /\ timer \in SUBSET Sockets
    /\ pending \in SUBSET Requests /\ asked \in SUBSET Requests
    /\ reqCounter \in Nat /\ calls \in Nat
    /\ pc \in [Callers -> {"idle", "connecting", "sending", "waiting", "rest"}]
    /\ joined \in [Callers -> 0 .. MaxSockets]
    /\ proven \in SUBSET Sockets

\* However connect(), send, disconnect() and the closing of old sockets
\* interleave, at most one socket is open or opening, and it is this.ws: no
\* socket is left behind that still receives pushes (transport.ts:154-159).
OneLiveSocket == \A s \in Sockets : Live(s) => s = ws

\* A caller that waits for an answer has exactly one entry in pendingRequests:
\* no entry is overwritten, dropped without being settled, or settled twice,
\* although every socket's close event empties the one map they share.
NoLostWaiter ==
    \A c \in Callers :
        LET mine == {e \in pending : e.by = c}
        IN  IF pc[c] = "waiting"
            THEN \E e \in mine : mine = {e}
            ELSE mine = {}

\* An entry never outlives its socket: the close event that settles the
\* requests of a dead socket is still to come as long as one is pending.
PendingHasSocket == \A e \in pending : sock[e.sock] \in {"open", "closing"}

\* An armed authTimer belongs to a handshake that is still pending: the timer
\* of a connection that was proven or refused never fires on a later one.
TimerHasHandshake ==
    \A s \in timer : promise[s] = "pending" /\ s \in Shaking(pending)

\* A connect() that reports failure leaves no usable socket behind, although
\* every failure path closes this.ws and not the socket it is about.
FailedIsNotLive == \A s \in Sockets : promise[s] = "failed" => ~Live(s)

\* Whatever was reused, reordered or answered twice: the answer to a request
\* settles the entry of the caller that asked, or none.
AnswerReachesAsker ==
    \A a \in asked, e \in pending :
        sock[a.sock] = "open" /\ a.id = e.id => a = e

-----------------------------------------------------------------------------
(* The inductive invariant behind the safety properties.                   *)

\* Ids are never reused, and the map holds only what was asked.
Ids ==
    /\ pending \subseteq asked
    /\ \A a \in asked : a.id <= reqCounter
    /\ \A a, b \in asked : a.id = b.id => a = b

\* What a socket has been through, seen from its readyState.
Lifecycle ==
    /\ ws # 0 => sock[ws] # "none"
    /\ \A s \in Sockets : sock[s] = "connecting" => promise[s] = "pending"
    /\ \A a \in asked : sock[a.sock] \in {"open", "closing", "closed"}
    /\ \A a, b \in asked :
          a.by = Handshake /\ b.by = Handshake /\ a.sock = b.sock => a = b

IInv ==
    /\ TypeOK /\ Ids /\ Lifecycle
    /\ OneLiveSocket /\ PendingHasSocket /\ NoLostWaiter
    /\ TimerHasHandshake /\ FailedIsNotLive

-----------------------------------------------------------------------------
(* Liveness.  The browser ends the opening and the closing of a socket, and *)
(* timers fire.  The relay need not answer, and nothing closes an open one. *)

Fairness ==
    /\ \A s \in Sockets :
        /\ WF_vars(Opens(s) \/ (sock[s] # "open" /\ Closed(s)))
        /\ WF_vars(AuthTimeout(s))

FairSpec == Spec /\ Fairness

\* A connect() always returns, even when the relay accepts the socket and stays
\* silent (the 12 s timer of transport.ts:189), and a request whose socket is
\* closing is settled.  (On a socket that stays open with a silent relay it waits
\* forever: wsRequest has no timeout.)
CallsSettle ==
    /\ \A s \in Sockets : promise[s] = "pending" ~> promise[s] \in {"ok", "failed"}
    /\ \A c \in Callers :
           (\E e \in pending : e.by = c /\ sock[e.sock] = "closing") ~> pc[c] # "waiting"

-----------------------------------------------------------------------------
(* What a comment says and the code does not keep. *)

\* transport.ts:186-187: "Prove credentials with a real mailbox list before
\* treating as connected."  A request of a caller is only sent on a socket
\* whose credentials have been proven.
OnlyProvenIsUsed == \A e \in pending : e.by # Handshake => e.sock \in proven
=============================================================================
