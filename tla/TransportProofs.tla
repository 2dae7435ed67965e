-------------------------- MODULE TransportProofs --------------------------
(***************************************************************************)
(* Theorems about the relays of an account: the transport of one of them   *)
(* (Transport), the mailboxes read through them (Mailboxes) and the list   *)
(* of them that is kept (Relays), for any number of sockets, callers,      *)
(* mailboxes, pushes, servers, identities and loads.  The three modules    *)
(* share no variable, and are proved one after the other.                  *)
(***************************************************************************)
EXTENDS Transport, Mailboxes, Relays, SequenceTheorems, WellFoundedInduction, TLAPS

USE TransportBounds, HandshakeAssumption

\* A new Transport is in the invariant.
LEMMA InitIInv == Init => IInv
<1> SUFFICES ASSUME Init PROVE IInv
  OBVIOUS
<1> USE DEF Init, Live
<1>1. TypeOK
  BY DEF TypeOK, Sockets, States
<1>2. Ids /\ Lifecycle
  BY DEF Ids, Lifecycle
<1>3. OneLiveSocket /\ PendingHasSocket /\ NoLostWaiter
  BY DEF OneLiveSocket, PendingHasSocket, NoLostWaiter
<1>4. TimerHasHandshake /\ FailedIsNotLive
  BY DEF TimerHasHandshake, FailedIsNotLive
<1> QED
  BY <1>1, <1>2, <1>3, <1>4 DEF IInv

-----------------------------------------------------------------------------
(* What the helpers do.                                                    *)

\* A request gets a new id and its own entry.
LEMMA AskAdds ==
  ASSUME TypeOK, Ids, NEW s \in Sockets, NEW by \in Callers \cup {Handshake}, Ask(s, by)
  PROVE  \E e \in Requests :
            /\ e.sock = s /\ e.by = by /\ e.id = reqCounter + 1
            /\ reqCounter' = reqCounter + 1
            /\ pending' = pending \cup {e} /\ asked' = asked \cup {e}
            /\ Ids' /\ reqCounter' \in Nat
<1> DEFINE e == [id |-> reqCounter + 1, sock |-> s, by |-> by]
<1>1. reqCounter \in Nat /\ \A r \in pending : r.id <= reqCounter /\ r.id \in Nat
  BY DEF TypeOK, Ids, Requests
<1>2. e \in Requests /\ e.sock = s /\ e.by = by /\ e.id = reqCounter + 1
  BY <1>1 DEF Requests
<1>3. pending' = {r \in pending : r.id # e.id} \cup {e} /\ asked' = asked \cup {e}
      /\ reqCounter' = reqCounter + 1
  BY DEF Ask
<1> HIDE DEF e
<1>4. \A r \in pending : r.id # e.id
  BY <1>1, <1>2
<1>5. pending' = pending \cup {e}
  BY <1>3, <1>4
<1>6. \A a \in asked : a.id <= reqCounter /\ a.id \in Nat
  BY DEF TypeOK, Ids, Requests
<1>7. Ids'
  BY <1>1, <1>2, <1>3, <1>5, <1>6 DEF Ids
<1> QED
  BY <1>1, <1>2, <1>3, <1>5, <1>7

\* close() touches the current socket, and only when it is live.
LEMMA CloseWsCloses ==
  ASSUME NEW ss \in [Sockets -> States]
  PROVE  /\ CloseWs(ss) \in [Sockets -> States]
         /\ \A s \in Sockets :
               IF s = ws /\ ss[s] \in {"connecting", "open"}
               THEN CloseWs(ss)[s] = "closing"
               ELSE CloseWs(ss)[s] = ss[s]
  BY DEF CloseWs, States

\* connect() leaves everything as it is, or adds a socket when none is live.
LEMMA ConnectCallAdds ==
  ASSUME TypeOK, OneLiveSocket, NEW c \in Callers,
         NEW stage \in {"connecting", "sending"}, ConnectCall(c, stage)
  PROVE  /\ pc' = [pc EXCEPT ![c] = stage]
         /\ joined' \in [Callers -> 0 .. MaxSockets]
         /\ \/ UNCHANGED <<ws, sock, promise>>
            \/ \E s \in Sockets :
                  /\ sock[s] = "none" /\ ws' = s
                  /\ sock' = [sock EXCEPT ![s] = "connecting"]
                  /\ promise' = [promise EXCEPT ![s] = "pending"]
                  /\ \A t \in Sockets : ~Live(t)
<1>1. CASE ws # 0 /\ Live(ws)
  BY <1>1 DEF ConnectCall, TypeOK
<1>2. CASE ~(ws # 0 /\ Live(ws))
  <2>1. \A t \in Sockets : ~Live(t)
    BY <1>2 DEF OneLiveSocket, Sockets
  <2>2. Sockets \subseteq 0 .. MaxSockets
    BY DEF Sockets
  <2> QED
    BY <1>2, <2>1, <2>2 DEF ConnectCall, TypeOK
<1> QED
  BY <1>1, <1>2

-----------------------------------------------------------------------------
(* Steps of the same kind.                                                 *)

\* A caller that moves between stages that await no answer disturbs nothing.
LEMMA MoveStep ==
  ASSUME IInv, NEW c \in Callers, NEW stage \in {"idle", "connecting", "sending", "rest"},
         pc[c] # "waiting", pc' = [pc EXCEPT ![c] = stage],
         joined' \in [Callers -> 0 .. MaxSockets], calls' \in Nat,
         UNCHANGED <<ws, sock, promise, timer, pending, reqCounter, asked, proven>>
  PROVE  IInv'
<1> USE DEF IInv, Live
<1>1. TypeOK'
  BY DEF TypeOK
<1>2. Ids' /\ Lifecycle' /\ OneLiveSocket' /\ PendingHasSocket'
  BY DEF Ids, Lifecycle, OneLiveSocket, PendingHasSocket
<1>3. NoLostWaiter'
  BY DEF NoLostWaiter, TypeOK
<1>4. TimerHasHandshake' /\ FailedIsNotLive'
  BY DEF TimerHasHandshake, FailedIsNotLive, Shaking
<1> QED
  BY <1>1, <1>2, <1>3, <1>4

\* connect() and the connect(0) of send.
LEMMA ConnectStep ==
  ASSUME IInv, NEW c \in Callers, NEW stage \in {"connecting", "sending"},
         pc[c] = "idle", ConnectCall(c, stage), calls' \in Nat,
         UNCHANGED <<timer, pending, reqCounter, asked, proven>>
  PROVE  IInv'
<1>1. TypeOK /\ OneLiveSocket
  BY DEF IInv
<1>2. CASE UNCHANGED <<ws, sock, promise>>
  BY <1>1, <1>2, ConnectCallAdds, MoveStep
<1>3. CASE ~UNCHANGED <<ws, sock, promise>>
  <2>1. PICK s \in Sockets :
            /\ sock[s] = "none" /\ ws' = s
            /\ sock' = [sock EXCEPT ![s] = "connecting"]
            /\ promise' = [promise EXCEPT ![s] = "pending"]
            /\ \A t \in Sockets : ~Live(t)
    BY <1>1, <1>3, ConnectCallAdds
  <2>2. pc' = [pc EXCEPT ![c] = stage] /\ joined' \in [Callers -> 0 .. MaxSockets]
    BY <1>1, ConnectCallAdds
  <2>3. TypeOK'
    BY <1>1, <2>1, <2>2 DEF TypeOK, Sockets, States
  <2>4. \A t \in Sockets : t # s => sock'[t] = sock[t] /\ promise'[t] = promise[t]
    BY <1>1, <2>1 DEF TypeOK
  <2>5. sock'[s] = "connecting" /\ promise'[s] = "pending"
    BY <1>1, <2>1 DEF TypeOK
  <2>6. \A a \in asked : a.sock \in Sockets /\ a.sock # s
    BY <1>1, <2>1 DEF IInv, Lifecycle, TypeOK, Requests
  <2>7. Ids'
    BY DEF IInv, Ids
  <2>8. Lifecycle'
    BY <2>1, <2>4, <2>5, <2>6 DEF IInv, Lifecycle
  <2>9. OneLiveSocket'
    BY <2>1, <2>4 DEF OneLiveSocket, Live
  <2>10. PendingHasSocket'
    BY <2>4, <2>6 DEF IInv, PendingHasSocket, Ids
  <2>11. NoLostWaiter'
    BY <1>1, <2>2 DEF IInv, NoLostWaiter, TypeOK
  <2>12. TimerHasHandshake'
    BY <1>1, <2>4, <2>5 DEF IInv, TimerHasHandshake, TypeOK, Shaking
  <2>13. FailedIsNotLive'
    BY <2>4, <2>5 DEF IInv, FailedIsNotLive, Live
  <2> QED
    BY <2>3, <2>7, <2>8, <2>9, <2>10, <2>11, <2>12, <2>13 DEF IInv
<1> QED
  BY <1>2, <1>3

\* A request by WebSocket or REST.
LEMMA RequestStep ==
  ASSUME IInv, NEW c \in Callers, pc[c] # "waiting", Request(c),
         joined' \in [Callers -> 0 .. MaxSockets], calls' \in Nat,
         UNCHANGED <<ws, sock, promise, timer, proven>>
  PROVE  IInv'
<1>1. CASE ~isConnected
  BY <1>1, MoveStep DEF Request
<1>2. CASE isConnected
  <2>1. ws \in Sockets /\ sock[ws] = "open"
    BY <1>2 DEF IInv, TypeOK, isConnected, Sockets
  <2>2. Ask(ws, c) /\ pc' = [pc EXCEPT ![c] = "waiting"]
    BY <1>2 DEF Request
  <2>3. PICK e \in Requests :
            /\ e.sock = ws /\ e.by = c /\ e.id = reqCounter + 1
            /\ reqCounter' = reqCounter + 1
            /\ pending' = pending \cup {e} /\ asked' = asked \cup {e}
            /\ Ids' /\ reqCounter' \in Nat
    BY <2>1, <2>2, AskAdds DEF IInv
  <2>4. TypeOK'
    BY <2>2, <2>3 DEF IInv, TypeOK
  <2>5. Lifecycle'
    BY <2>1, <2>3 DEF IInv, Lifecycle
  <2>6. OneLiveSocket' /\ FailedIsNotLive'
    BY DEF IInv, OneLiveSocket, FailedIsNotLive, Live
  <2>7. PendingHasSocket'
    BY <2>1, <2>3 DEF IInv, PendingHasSocket
  <2>8. NoLostWaiter'
    BY <2>2, <2>3 DEF IInv, NoLostWaiter, TypeOK
  <2>9. TimerHasHandshake'
    BY <2>3 DEF IInv, TimerHasHandshake, Shaking
  <2> QED
    BY <2>3, <2>4, <2>5, <2>6, <2>7, <2>8, <2>9 DEF IInv
<1> QED
  BY <1>1, <1>2

\* onclose and disconnect() empty the map: nobody waits and no timer is armed.
LEMMA EmptyStep ==
  ASSUME IInv, pending' = {}, Release(pending), timer' = timer \ Shaking(pending),
         UNCHANGED <<reqCounter, joined, calls, asked, proven>>
  PROVE  /\ Ids' /\ PendingHasSocket' /\ NoLostWaiter' /\ TimerHasHandshake'
         /\ timer' = {}
         /\ pc' \in [Callers -> {"idle", "connecting", "sending", "waiting", "rest"}]
<1>1. pc' \in [Callers -> {"idle", "connecting", "sending", "waiting", "rest"}]
  BY DEF IInv, TypeOK, Release
<1>2. \A c \in Callers : pc'[c] # "waiting"
  BY DEF IInv, TypeOK, NoLostWaiter, Release
<1>3. timer' = {}
  BY DEF IInv, TimerHasHandshake
<1>4. Ids' /\ PendingHasSocket'
  BY DEF IInv, Ids, PendingHasSocket
<1>5. NoLostWaiter' /\ TimerHasHandshake'
  BY <1>2, <1>3 DEF NoLostWaiter, TimerHasHandshake
<1> QED
  BY <1>1, <1>3, <1>4, <1>5

LEMMA FailTypes ==
  ASSUME TypeOK, NEW S, Fail(S)
  PROVE  /\ promise' \in [Sockets -> {"none", "pending", "ok", "failed"}]
         /\ \A s \in Sockets :
               IF s \in S /\ promise[s] = "pending"
               THEN promise'[s] = "failed" ELSE promise'[s] = promise[s]
  BY DEF TypeOK, Fail

\* The sockets with a handshake in the map are open or closing.
LEMMA ShakingSockets ==
  ASSUME IInv, NEW s \in Shaking(pending)
  PROVE  s \in Sockets /\ sock[s] \in {"open", "closing"}
  BY DEF IInv, TypeOK, Requests, Shaking, PendingHasSocket

LEMMA DisconnectStep == IInv /\ Disconnect => IInv'
<1> SUFFICES ASSUME IInv, Disconnect PROVE IInv'
  OBVIOUS
<1>1. /\ Ids' /\ PendingHasSocket' /\ NoLostWaiter' /\ TimerHasHandshake' /\ timer' = {}
      /\ pc' \in [Callers -> {"idle", "connecting", "sending", "waiting", "rest"}]
  BY EmptyStep DEF Disconnect
<1>2. /\ sock' \in [Sockets -> States] /\ ws' = 0
      /\ \A s \in Sockets : IF s = ws /\ sock[s] \in {"connecting", "open"}
                            THEN sock'[s] = "closing" ELSE sock'[s] = sock[s]
  BY CloseWsCloses DEF Disconnect, IInv, TypeOK
<1>3. /\ promise' \in [Sockets -> {"none", "pending", "ok", "failed"}]
      /\ \A s \in Sockets : IF s \in Shaking(pending) /\ promise[s] = "pending"
                            THEN promise'[s] = "failed" ELSE promise'[s] = promise[s]
  BY FailTypes DEF Disconnect, IInv
<1>4. \A s \in Sockets : ~Live(s)'
  BY <1>2 DEF IInv, OneLiveSocket, Live
<1>5. TypeOK'
  BY <1>1, <1>2, <1>3 DEF IInv, TypeOK, Disconnect
<1>6. Lifecycle'
  <2>1. \A s \in Sockets : sock[s] \in {"open", "closing", "closed"}
                              => sock'[s] \in {"open", "closing", "closed"}
    BY <1>2
  <2>2. \A a \in asked : a.sock \in Sockets
    BY DEF IInv, TypeOK, Requests
  <2>3. asked' = asked
    BY DEF Disconnect
  <2> QED
    BY <1>2, <1>4, <2>1, <2>2, <2>3 DEF IInv, Lifecycle, Live
<1>7. OneLiveSocket' /\ FailedIsNotLive'
  BY <1>4 DEF OneLiveSocket, FailedIsNotLive
<1> QED
  BY <1>1, <1>5, <1>6, <1>7 DEF IInv

LEMMA ClosedStep == ASSUME IInv, NEW s \in Sockets, Closed(s) PROVE IInv'
<1>1. /\ Ids' /\ PendingHasSocket' /\ NoLostWaiter' /\ TimerHasHandshake' /\ timer' = {}
      /\ pc' \in [Callers -> {"idle", "connecting", "sending", "waiting", "rest"}]
  BY EmptyStep DEF Closed
<1>2. /\ sock' \in [Sockets -> States]
      /\ sock'[s] = "closed"
      /\ \A t \in Sockets \ {s} :
            \/ sock'[t] = sock[t] /\ (Shaking(pending) # {} => ~(t = ws /\ Live(t)))
            \/ t = ws /\ Live(t) /\ sock'[t] = "closing"
  <2> DEFINE ss == [sock EXCEPT ![s] = "closed"]
  <2>1. ss \in [Sockets -> States] /\ ss[s] = "closed"
        /\ \A t \in Sockets \ {s} : ss[t] = sock[t]
    BY DEF IInv, TypeOK, States
  <2>2. sock' = IF Shaking(pending) # {} THEN CloseWs(ss) ELSE ss
    BY DEF Closed
  <2> HIDE DEF ss
  <2>3. CASE Shaking(pending) # {}
    <3>1. sock' = CloseWs(ss)
      BY <2>2, <2>3
    <3> QED
      BY <2>1, <2>3, <3>1, CloseWsCloses DEF Live
  <2>4. CASE Shaking(pending) = {}
    BY <2>1, <2>2, <2>4
  <2> QED
    BY <2>3, <2>4
<1>3. /\ promise' \in [Sockets -> {"none", "pending", "ok", "failed"}]
      /\ \A t \in Sockets :
            IF t \in Shaking(pending) \cup {s} /\ promise[t] = "pending"
            THEN promise'[t] = "failed" ELSE promise'[t] = promise[t]
  BY FailTypes DEF Closed, IInv
<1>4. ws' = ws /\ asked' = asked
  BY DEF Closed
<1>5. TypeOK'
  BY <1>1, <1>2, <1>3 DEF IInv, TypeOK, Closed
<1>6. \A t \in Sockets : Live(t)' => Live(t) /\ t # s /\ sock'[t] = sock[t]
  BY <1>2 DEF Live
<1>7. OneLiveSocket'
  BY <1>4, <1>6 DEF IInv, OneLiveSocket
<1>8. FailedIsNotLive'
  <2> SUFFICES ASSUME NEW t \in Sockets, promise'[t] = "failed", Live(t)' PROVE FALSE
    BY DEF FailedIsNotLive
  <2>1. Live(t) /\ t # s /\ t = ws /\ sock'[t] = sock[t]
    BY <1>6 DEF IInv, OneLiveSocket
  <2>2. Shaking(pending) = {}
    BY <1>2, <2>1 DEF Live
  <2>3. promise'[t] = promise[t]
    BY <1>3, <2>1, <2>2
  <2> QED
    BY <2>1, <2>3 DEF IInv, FailedIsNotLive
<1>9. Lifecycle'
  <2>1. \A t \in Sockets : sock[t] \in {"open", "closing", "closed"}
                              => sock'[t] \in {"open", "closing", "closed"}
    BY <1>2
  <2>2. \A a \in asked : a.sock \in Sockets
    BY DEF IInv, TypeOK, Requests
  <2>3. ASSUME NEW t \in Sockets, sock'[t] = "connecting" PROVE promise'[t] = "pending"
    <3>1. sock[t] = "connecting" /\ t # s
      BY <1>6, <2>3 DEF Live
    <3>2. t \notin Shaking(pending)
      BY <3>1, ShakingSockets
    <3> QED
      BY <1>3, <3>1, <3>2 DEF IInv, Lifecycle
  <2>4. ws' # 0 => sock'[ws'] # "none"
    BY <1>2, <1>4 DEF IInv, Lifecycle, TypeOK, Live, Sockets
  <2> QED
    BY <1>4, <2>1, <2>2, <2>3, <2>4 DEF IInv, Lifecycle
<1> QED
  BY <1>1, <1>5, <1>7, <1>8, <1>9 DEF IInv

LEMMA OpensStep == ASSUME IInv, NEW s \in Sockets, Opens(s) PROVE IInv'
<1>1. PICK e \in Requests :
          /\ e.sock = s /\ e.by = Handshake /\ e.id = reqCounter + 1
          /\ reqCounter' = reqCounter + 1
          /\ pending' = pending \cup {e} /\ asked' = asked \cup {e}
          /\ Ids' /\ reqCounter' \in Nat
  BY AskAdds DEF IInv, Opens
<1>2. sock[s] = "connecting" /\ sock' = [sock EXCEPT ![s] = "open"] /\ timer' = timer \cup {s}
  BY DEF Opens
<1>3. sock'[s] = "open" /\ \A t \in Sockets : t # s => sock'[t] = sock[t]
  BY <1>2 DEF IInv, TypeOK
<1>4. UNCHANGED <<ws, promise, pc, joined, calls, proven>>
  BY DEF Opens
<1>5. TypeOK'
  BY <1>1, <1>2, <1>4 DEF IInv, TypeOK, States
<1>6. \A a \in asked : a.sock \in Sockets /\ a.sock # s
  BY <1>2 DEF IInv, TypeOK, Requests, Lifecycle
<1>7. Lifecycle'
  <2>1. ws' # 0 => sock'[ws'] # "none"
    BY <1>3, <1>4 DEF IInv, Lifecycle, TypeOK, Sockets
  <2>2. \A t \in Sockets : sock'[t] = "connecting" => promise'[t] = "pending"
    BY <1>3, <1>4 DEF IInv, Lifecycle
  <2>3. \A a \in asked' : sock'[a.sock] \in {"open", "closing", "closed"}
    BY <1>1, <1>3, <1>6 DEF IInv, Lifecycle
  <2>4. \A a, b \in asked' :
           a.by = Handshake /\ b.by = Handshake /\ a.sock = b.sock => a = b
    BY <1>1, <1>6 DEF IInv, Lifecycle
  <2> QED
    BY <2>1, <2>2, <2>3, <2>4 DEF Lifecycle
<1>8. OneLiveSocket' /\ FailedIsNotLive'
  BY <1>2, <1>3, <1>4 DEF IInv, OneLiveSocket, FailedIsNotLive, Live, Lifecycle
<1>9. PendingHasSocket'
  BY <1>1, <1>3, <1>6 DEF IInv, PendingHasSocket, Ids
<1>10. NoLostWaiter'
  BY <1>1, <1>4 DEF IInv, NoLostWaiter
<1>11. TimerHasHandshake'
  <2>1. \A t \in Shaking(pending) : t \in Shaking(pending)'
    BY <1>1 DEF Shaking
  <2>2. s \in Shaking(pending)' /\ promise'[s] = "pending"
    BY <1>1, <1>2, <1>4 DEF Shaking, IInv, Lifecycle
  <2> QED
    BY <1>2, <1>4, <2>1, <2>2 DEF IInv, TimerHasHandshake
<1> QED
  BY <1>1, <1>5, <1>7, <1>8, <1>9, <1>10, <1>11 DEF IInv

LEMMA StartsToCloseStep == ASSUME IInv, NEW s \in Sockets, StartsToClose(s) PROVE IInv'
<1> USE DEF IInv, StartsToClose
<1>1. sock' \in [Sockets -> States] /\ sock'[s] = "closing"
      /\ \A t \in Sockets : t # s => sock'[t] = sock[t]
  BY DEF TypeOK, States
<1>2. \A a \in asked : a.sock \in Sockets
  BY DEF TypeOK, Requests
<1>3. TypeOK'
  BY <1>1 DEF TypeOK
<1>4. Lifecycle'
  BY <1>1, <1>2 DEF Lifecycle, TypeOK, Sockets
<1>5. OneLiveSocket' /\ FailedIsNotLive'
  BY <1>1 DEF OneLiveSocket, FailedIsNotLive, Live
<1>6. PendingHasSocket' /\ Ids'
  BY <1>1, <1>2 DEF PendingHasSocket, Ids
<1>7. NoLostWaiter' /\ TimerHasHandshake'
  BY DEF NoLostWaiter, TimerHasHandshake, Shaking
<1> QED
  BY <1>3, <1>4, <1>5, <1>6, <1>7

\* authTimer, and a handshake that is refused: the current socket is closed.
LEMMA ClosesCurrent ==
  ASSUME IInv, sock' = CloseWs(sock), ws' = ws, asked' = asked,
         NEW s \in Sockets, sock[s] \in {"open", "closing"}, Fail({s}),
         UNCHANGED <<reqCounter, joined, calls, proven>>,
         pending' \subseteq pending
  PROVE  /\ sock' \in [Sockets -> States]
         /\ promise' \in [Sockets -> {"none", "pending", "ok", "failed"}]
         /\ \A t \in Sockets : t # s => promise'[t] = promise[t]
         /\ Lifecycle' /\ OneLiveSocket' /\ FailedIsNotLive' /\ PendingHasSocket'
<1>1. /\ sock' \in [Sockets -> States]
      /\ \A t \in Sockets : IF t = ws /\ sock[t] \in {"connecting", "open"}
                            THEN sock'[t] = "closing" ELSE sock'[t] = sock[t]
  BY CloseWsCloses DEF IInv, TypeOK
<1>2. /\ promise' \in [Sockets -> {"none", "pending", "ok", "failed"}]
      /\ \A t \in Sockets : t # s => promise'[t] = promise[t]
  BY FailTypes DEF IInv
<1>3. \A t \in Sockets : ~Live(t)'
  BY <1>1 DEF IInv, OneLiveSocket, Live
<1>4. \A a \in asked : a.sock \in Sockets
  BY DEF IInv, TypeOK, Requests
<1>5. Lifecycle'
  BY <1>1, <1>3, <1>4 DEF IInv, Lifecycle, TypeOK, Sockets, Live
<1>6. PendingHasSocket'
  BY <1>1, <1>4 DEF IInv, PendingHasSocket, Ids
<1> QED
  BY <1>1, <1>2, <1>3, <1>5, <1>6 DEF OneLiveSocket, FailedIsNotLive

LEMMA AuthTimeoutStep == ASSUME IInv, NEW s \in Sockets, AuthTimeout(s) PROVE IInv'
<1>1. sock[s] \in {"open", "closing"} /\ timer' = timer \ {s}
  BY ShakingSockets DEF IInv, TimerHasHandshake, AuthTimeout
<1>2. /\ sock' \in [Sockets -> States]
      /\ promise' \in [Sockets -> {"none", "pending", "ok", "failed"}]
      /\ \A t \in Sockets : t # s => promise'[t] = promise[t]
      /\ Lifecycle' /\ OneLiveSocket' /\ FailedIsNotLive' /\ PendingHasSocket'
  BY <1>1, ClosesCurrent DEF AuthTimeout
<1>3. TypeOK'
  BY <1>1, <1>2 DEF IInv, TypeOK, AuthTimeout
<1>4. Ids' /\ NoLostWaiter'
  BY DEF IInv, Ids, NoLostWaiter, AuthTimeout
<1>5. TimerHasHandshake'
  BY <1>1, <1>2 DEF IInv, TimerHasHandshake, TypeOK, Shaking, AuthTimeout
<1> QED
  BY <1>2, <1>3, <1>4, <1>5 DEF IInv

LEMMA AnsweredStep ==
  ASSUME IInv, NEW a \in asked, NEW ok \in BOOLEAN, Answered(a, ok) PROVE IInv'
<1>1. PICK e \in pending :
        /\ e.id = a.id
        /\ pending' = pending \ {e}
        /\ Release({e})
        /\ timer' = timer \ Shaking({e})
        /\ IF e.by # Handshake
           THEN UNCHANGED <<sock, promise, proven>>
           ELSE IF ok
           THEN /\ promise' = [promise EXCEPT ![e.sock] = IF @ = "pending" THEN "ok" ELSE @]
                /\ proven' = proven \cup {e.sock}
                /\ UNCHANGED sock
           ELSE /\ sock' = CloseWs(sock)
                /\ Fail({e.sock})
                /\ UNCHANGED proven
  BY DEF Answered
<1>2. e = a /\ e \in Requests /\ e.sock \in Sockets /\ sock[e.sock] = "open"
  BY <1>1 DEF IInv, Ids, TypeOK, Requests, Answered
<1>3. UNCHANGED <<ws, reqCounter, joined, calls, asked>>
  BY DEF Answered
<1>4. Ids'
  BY <1>1, <1>3 DEF IInv, Ids
<1>5. pc' \in [Callers -> {"idle", "connecting", "sending", "waiting", "rest"}]
  BY <1>1 DEF Release, IInv, TypeOK
<1>6. NoLostWaiter'
  BY <1>1 DEF IInv, NoLostWaiter, Release
<1>7. CASE e.by # Handshake
  <2>1. sock' = sock /\ promise' = promise /\ proven' = proven
    BY <1>1, <1>7
  <2>2. timer' = timer /\ Shaking(pending)' = Shaking(pending)
    BY <1>1, <1>7 DEF Shaking
  <2>3. TypeOK'
    BY <1>1, <1>3, <1>5, <2>1, <2>2 DEF IInv, TypeOK
  <2>4. Lifecycle' /\ OneLiveSocket' /\ FailedIsNotLive'
    BY <1>3, <2>1 DEF IInv, Lifecycle, OneLiveSocket, FailedIsNotLive, Live
  <2>5. PendingHasSocket' /\ TimerHasHandshake'
    BY <1>1, <2>1, <2>2 DEF IInv, PendingHasSocket, TimerHasHandshake
  <2> QED
    BY <1>4, <1>6, <2>3, <2>4, <2>5 DEF IInv
<1>8. CASE e.by = Handshake
  <2>1. timer' = timer \ {e.sock}
    BY <1>1, <1>8 DEF Shaking
  <2>2. \A t \in Shaking(pending) : t # e.sock => t \in Shaking(pending)'
    BY <1>1 DEF Shaking
  <2>3. CASE ok
    <3>1. /\ promise' = [promise EXCEPT ![e.sock] = IF @ = "pending" THEN "ok" ELSE @]
          /\ proven' = proven \cup {e.sock} /\ sock' = sock
      BY <1>1, <1>8, <2>3
    <3>2. \A t \in Sockets : /\ t # e.sock => promise'[t] = promise[t]
                             /\ promise'[t] = "failed" => promise[t] = "failed"
      BY <1>2, <3>1 DEF IInv, TypeOK
    <3>3. TypeOK'
      BY <1>1, <1>2, <1>3, <1>5, <2>1, <3>1 DEF IInv, TypeOK
    <3>4. Lifecycle' /\ OneLiveSocket' /\ FailedIsNotLive'
      BY <1>2, <1>3, <3>1, <3>2 DEF IInv, Lifecycle, OneLiveSocket, FailedIsNotLive, Live
    <3>5. PendingHasSocket' /\ TimerHasHandshake'
      BY <1>1, <2>1, <2>2, <3>1, <3>2 DEF IInv, PendingHasSocket, TimerHasHandshake, TypeOK
    <3> QED
      BY <1>4, <1>6, <3>3, <3>4, <3>5 DEF IInv
  <2>4. CASE ~ok
    <3>1. sock' = CloseWs(sock) /\ Fail({e.sock}) /\ proven' = proven
      BY <1>1, <1>8, <2>4
    <3>2. /\ sock' \in [Sockets -> States]
          /\ promise' \in [Sockets -> {"none", "pending", "ok", "failed"}]
          /\ \A t \in Sockets : t # e.sock => promise'[t] = promise[t]
          /\ Lifecycle' /\ OneLiveSocket' /\ FailedIsNotLive' /\ PendingHasSocket'
      <4>1. PICK s \in Sockets : s = e.sock
        BY <1>2
      <4> QED
        BY <1>1, <1>2, <1>3, <3>1, <4>1, ClosesCurrent
    <3>3. TypeOK'
      BY <1>1, <1>3, <1>5, <2>1, <3>1, <3>2 DEF IInv, TypeOK
    <3>4. TimerHasHandshake'
      BY <2>1, <2>2, <3>2 DEF IInv, TimerHasHandshake, TypeOK
    <3> QED
      BY <1>4, <1>6, <3>2, <3>3, <3>4 DEF IInv
  <2> QED
    BY <2>3, <2>4
<1> QED
  BY <1>7, <1>8

-----------------------------------------------------------------------------
LEMMA IInvStep == IInv /\ [Next]_vars => IInv'
<1> SUFFICES ASSUME IInv, [Next]_vars PROVE IInv'
  OBVIOUS
<1>t. calls \in Nat /\ calls + 1 \in Nat /\ joined \in [Callers -> 0 .. MaxSockets]
      /\ \A c \in Callers : [joined EXCEPT ![c] = 0] \in [Callers -> 0 .. MaxSockets]
  BY DEF IInv, TypeOK
<1>1. ASSUME NEW c \in Callers, Connect(c) PROVE IInv'
  BY <1>1, <1>t, ConnectStep DEF Connect
<1>2. ASSUME NEW c \in Callers, ConnectReturns(c) PROVE IInv'
  BY <1>2, <1>t, MoveStep DEF ConnectReturns
<1>3. ASSUME NEW c \in Callers, Fetch(c) PROVE IInv'
  BY <1>3, <1>t, RequestStep DEF Fetch
<1>4. ASSUME NEW c \in Callers, SendConnects(c) PROVE IInv'
  BY <1>4, <1>t, ConnectStep DEF SendConnects
<1>5. ASSUME NEW c \in Callers, SendGoesOn(c) PROVE IInv'
  BY <1>5, <1>t, RequestStep DEF SendGoesOn
<1>6. ASSUME NEW c \in Callers, RestReturns(c) PROVE IInv'
  BY <1>6, <1>t, MoveStep DEF RestReturns
<1>7. CASE UNCHANGED vars
  BY <1>7 DEF vars, IInv, TypeOK, Ids, Lifecycle, OneLiveSocket, PendingHasSocket,
     NoLostWaiter, TimerHasHandshake, FailedIsNotLive, Live, Shaking
<1> QED
  BY <1>1, <1>2, <1>3, <1>4, <1>5, <1>6, <1>7, OpensStep, StartsToCloseStep, ClosedStep,
     AuthTimeoutStep, AnsweredStep, DisconnectStep DEF Next, CallerStep, SocketStep

LEMMA Inductive == Spec => []IInv
  BY InitIInv, IInvStep, PTL DEF Spec

-----------------------------------------------------------------------------
\* In every run each variable holds a value the code can give it.
THEOREM TypeCorrect == Spec => []TypeOK
<1>1. IInv => TypeOK
  BY DEF IInv
<1> QED
  BY <1>1, Inductive, PTL

\* At most one socket is open or opening, and it is this.ws.
THEOREM OneLive == Spec => []OneLiveSocket
<1>1. IInv => OneLiveSocket
  BY DEF IInv
<1> QED
  BY <1>1, Inductive, PTL

\* Every caller that waits for an answer has its entry in pendingRequests, and
\* the entry's socket still has its close event to come.
THEOREM WaiterIsHeld == Spec => [](NoLostWaiter /\ PendingHasSocket)
<1>1. IInv => NoLostWaiter /\ PendingHasSocket
  BY DEF IInv
<1> QED
  BY <1>1, Inductive, PTL

\* No authTimer outlives the handshake it guards.
THEOREM TimerIsHeld == Spec => []TimerHasHandshake
<1>1. IInv => TimerHasHandshake
  BY DEF IInv
<1> QED
  BY <1>1, Inductive, PTL

\* A connect() that failed left no usable socket, although every failure path
\* closes this.ws and not the socket it is about.
THEOREM FailureCloses == Spec => []FailedIsNotLive
<1>1. IInv => FailedIsNotLive
  BY DEF IInv
<1> QED
  BY <1>1, Inductive, PTL

\* An answer settles the request it answers or none.
THEOREM AnswersMatch == Spec => []AnswerReachesAsker
<1>1. IInv => AnswerReachesAsker
  BY DEF IInv, Ids, AnswerReachesAsker
<1> QED
  BY <1>1, Inductive, PTL

-----------------------------------------------------------------------------
(* Mailboxes *)

USE UidAssumption

LEMMA BoxedInit == BoxInit => BInv
<1> SUFFICES ASSUME BoxInit PROVE BInv
  OBVIOUS
<1>1. Filed
  BY DEF BoxInit, Filed, Nobody, Resting
<1>2. OneMailPerUid
  BY DEF BoxInit, OneMailPerUid, Uids
<1>3. Owing
  BY DEF BoxInit, Owing, Resting
<1> QED
  BY <1>1, <1>2, <1>3 DEF BInv

\* A mail is taken for processing, or dropped because its UID was seen.
LEMMA BoxedProcess ==
  ASSUME Filed, OneMailPerUid, NEW m \in Mails, ProcessIncomingRaw(m)
  PROVE  /\ OneMailPerUid' /\ m.uid \in seenUIDs' /\ seenUIDs \subseteq seenUIDs'
         /\ seenUIDs' \subseteq Uids /\ lastSeenUid' \in Nat /\ processed' \in [Mails -> Nat]
<1>1. m.uid \in Uids /\ m.uid \in Nat
  BY DEF Mails, Uids
<1>2. CASE m.uid \in seenUIDs
  BY <1>1, <1>2 DEF ProcessIncomingRaw, account, OneMailPerUid, Filed
<1>3. CASE m.uid \notin seenUIDs
  <2>1. /\ seenUIDs' = seenUIDs \cup {m.uid} /\ lastSeenUid' \in {lastSeenUid, m.uid}
        /\ processed' = [processed EXCEPT ![m] = @ + 1]
    BY <1>3 DEF ProcessIncomingRaw
  <2>2. \A n \in Mails : n.uid = m.uid => processed[n] = 0
    BY <1>1, <1>3 DEF OneMailPerUid, Filed
  <2>3. /\ \A n \in Mails : processed'[n] = IF n = m THEN 1 ELSE processed[n]
        /\ processed' \in [Mails -> Nat]
    BY <2>1, <2>2 DEF Filed
  <2>4. ASSUME NEW u \in Uids
        PROVE  LET taken == {n \in Mails : n.uid = u /\ processed'[n] > 0} IN
               /\ u \in seenUIDs' <=> taken # {}
               /\ \A k, n \in taken : k = n /\ processed'[k] = 1
    <3>1. CASE u = m.uid
      BY <2>1, <2>2, <2>3, <3>1
    <3>2. CASE u # m.uid
      <4>1. {n \in Mails : n.uid = u /\ processed'[n] > 0} = {n \in Mails : n.uid = u /\ processed[n] > 0}
        BY <2>3, <3>2
      <4>2. \A n \in Mails : n.uid = u => processed'[n] = processed[n]
        BY <2>3, <3>2
      <4> QED
        BY <2>1, <3>2, <4>1, <4>2 DEF OneMailPerUid
    <3> QED
      BY <3>1, <3>2
  <2>5. OneMailPerUid'
    BY <2>4 DEF OneMailPerUid
  <2> QED
    BY <1>1, <2>1, <2>3, <2>5 DEF Filed
<1> QED
  BY <1>2, <1>3

\* A step of the relays or of a push leaves the loop and what it owes alone.
LEMMA BoxedAside ==
  ASSUME Owing, UNCHANGED <<loop, owed>>, missed \subseteq missed', seenUIDs \subseteq seenUIDs',
         Filed, \A b \in Boxes \cup Relays : top[b] <= top'[b] /\ top'[b] \in Nat
  PROVE  Owing'
<1>1. \A m \in owed : m.box \in Boxes \cup Relays /\ m.uid \in Nat /\ top[m.box] \in Nat
  BY DEF Filed, Mails, Uids
<1>2. \A m \in owed' : m.uid <= top'[m.box]
  BY <1>1 DEF Owing
<1>3. \A m : Waits(m)' <=> Waits(m)
  BY DEF Waits, Ahead
<1> QED
  BY <1>2, <1>3 DEF Owing

\* The relays and the pushes keep the invariant.
LEMMA BoxedPush ==
  ASSUME BInv,
         \/ \E b \in Boxes \cup Relays : Deliver(b)
         \/ \E a \in Announced : Reconnect(a) \/ \E h \in Pushers : PushArrives(h, a)
         \/ \E h \in Pushers : PushFetched(h) \/ PushFails(h)
  PROVE  BInv'
<1> USE DEF BInv
<1>1. /\ top \in [Boxes \cup Relays -> 0..MaxUid] /\ pushed \in [Announced -> Nat]
      /\ push \in [Pushers -> Mails \cup {Nobody}] /\ Announced \subseteq Boxes \cup Relays
  BY DEF Filed, Announced, Boxes
<1>2. CASE \E b \in Boxes \cup Relays : Deliver(b)
  <2>1. PICK b \in Boxes \cup Relays : Deliver(b)
    BY <1>2
  <2>2. top' \in [Boxes \cup Relays -> 0..MaxUid] /\ \A c \in Boxes \cup Relays : top[c] <= top'[c] /\ top'[c] \in Nat
    BY <1>1, <2>1 DEF Deliver
  <2>3. Filed' /\ OneMailPerUid'
    BY <2>1, <2>2 DEF Deliver, Filed, OneMailPerUid, account
  <2>4. Owing'
    BY <2>1, <2>2, BoxedAside DEF Deliver, account
  <2> QED
    BY <2>3, <2>4
<1>3. ASSUME UNCHANGED <<top, loop, owed>>, missed \subseteq missed', seenUIDs \subseteq seenUIDs'
      PROVE  Owing'
  <2>1. \A b \in Boxes \cup Relays : top[b] <= top'[b] /\ top'[b] \in Nat
    BY <1>1, <1>3
  <2> QED
    BY <1>3, <2>1, BoxedAside
<1>4. CASE \E a \in Announced : Reconnect(a)
  <2>1. PICK a \in Announced, u \in 0..lastSeenUid :
          pushed' = [pushed EXCEPT ![a] = u] /\ UNCHANGED <<top, account, push, loop, missed, owed>>
    BY <1>4 DEF Reconnect
  <2>2. Filed' /\ OneMailPerUid'
    BY <2>1 DEF Filed, OneMailPerUid, account
  <2> QED
    BY <1>3, <2>1, <2>2 DEF account
<1>5. CASE \E a \in Announced, h \in Pushers : PushArrives(h, a)
  <2>1. PICK a \in Announced, h \in Pushers : PushArrives(h, a)
    BY <1>5
  <2>2. [box |-> a, uid |-> pushed[a] + 1] \in Mails /\ pushed' \in [Announced -> Nat]
    BY <1>1, <2>1 DEF PushArrives, Mails, Uids
  <2>3. push' \in [Pushers -> Mails \cup {Nobody}]
    BY <1>1, <2>1, <2>2 DEF PushArrives
  <2>4. Filed' /\ OneMailPerUid'
    BY <2>1, <2>2, <2>3 DEF PushArrives, Filed, OneMailPerUid, account
  <2> QED
    BY <1>3, <2>1, <2>4 DEF PushArrives, account
<1>6. ASSUME NEW h \in Pushers, PushFetched(h) PROVE BInv'
  <2> DEFINE m == [box |-> Inbox, uid |-> push[h].uid]
  <2>1. m \in Mails
    BY <1>1, <1>6 DEF PushFetched, Mails, Uids, Boxes, Nobody
  <2>2. ProcessIncomingRaw(m) /\ push' = [push EXCEPT ![h] = Nobody] /\ UNCHANGED <<top, pushed, loop, missed, owed>>
    BY <1>6 DEF PushFetched
  <2> HIDE DEF m
  <2>3. /\ OneMailPerUid' /\ seenUIDs \subseteq seenUIDs'
        /\ seenUIDs' \subseteq Uids /\ lastSeenUid' \in Nat /\ processed' \in [Mails -> Nat]
    BY <2>1, <2>2, BoxedProcess
  <2>4. Filed'
    BY <2>2, <2>3 DEF Filed
  <2> QED
    BY <1>3, <2>2, <2>3, <2>4
<1>7. ASSUME NEW h \in Pushers, PushFails(h) PROVE BInv'
  <2>1. Filed' /\ OneMailPerUid'
    BY <1>7 DEF PushFails, Filed, OneMailPerUid, account
  <2> QED
    BY <1>3, <1>7, <2>1 DEF PushFails, account
<1> QED
  BY <1>2, <1>4, <1>5, <1>6, <1>7

\* A list has a lowest UID.
Less == {ss \in Nat \X Nat : ss[1] < ss[2]}

LEMMA LessFounded == IsWellFoundedOn(Less, Nat)
BY NatLessThanWellFounded DEF OpToRel, Less

LEMMA LowestExists ==
  ASSUME NEW S \in SUBSET Uids, S # {}
  PROVE  \E u \in S : \A v \in S : u <= v
<1>1. S \subseteq Nat
  BY DEF Uids
<1>2. PICK u \in S : \A v \in S : <<v, u>> \notin Less
  BY <1>1, LessFounded, WFMin
<1>3. ASSUME NEW v \in S PROVE u <= v
  <2>1. <<v, u>> \in Nat \X Nat /\ <<v, u>>[1] = v /\ <<v, u>>[2] = u
    BY <1>1
  <2>2. ~(v < u)
    BY <1>2, <2>1 DEF Less
  <2> QED
    BY <1>1, <2>2
<1> QED
  BY <1>3

\* So does backgroundFetch.
LEMMA BoxedLoop ==
  ASSUME BInv, (\E w \in Watchable : BgStart(w)) \/ BgListed \/ BgNext \/ BgFetched \/ BgNextBox \/ BgDone
  PROVE  BInv'
<1> USE DEF BInv
<1>1. /\ Filed /\ Owing /\ loop.boxes \in Seq(Boxes) /\ loop.todo \subseteq Uids
      /\ \A m \in Mails : m.uid \in Uids /\ m.box \in Boxes \cup Relays
  BY DEF Filed, Mails
<1>2. ASSUME UNCHANGED <<top, pushed, account, push>>, owed' \subseteq Mails,
             loop' \in [at : {"idle", "list", "next", "fetch"}, boxes : Seq(Boxes), todo : SUBSET Uids,
                        uid : 0..MaxUid, since : Nat],
             loop'.at \in {"next", "fetch"} => loop'.boxes # <<>>, loop'.at = "fetch" => loop'.uid # 0
      PROVE  Filed' /\ OneMailPerUid'
  <2>1. Filed'
    BY <1>1, <1>2 DEF Filed, account
  <2> QED
    BY <1>2, <2>1 DEF account, OneMailPerUid
<1>3. ASSUME NEW w \in Watchable, BgStart(w) PROVE BInv'
  <2>1. w \in Seq(Boxes)
    <3>1. PICK n \in {1, 2} : w \in [1..n -> Boxes]
      BY DEF Watchable
    <3> QED
      BY <3>1
  <2>2. /\ UNCHANGED <<top, pushed, account, push, missed>>
        /\ loop' = [at |-> "list", boxes |-> w, todo |-> {}, uid |-> 0, since |-> lastSeenUid]
        /\ owed' = {m \in Mails : m.box \in ToSet(w) /\ m.uid <= top[m.box]}
    BY <1>3 DEF BgStart, Resting
  <2>3. Filed' /\ OneMailPerUid'
    BY <1>1, <1>2, <2>1, <2>2 DEF Filed
  <2>4. \A m \in owed' : m.box \in ToSet(Ahead') /\ m.uid <= top'[m.box]
    BY <2>2 DEF Ahead
  <2> QED
    BY <2>3, <2>4 DEF Owing, Waits
<1>4. CASE BgListed
  <2> DEFINE b == Head(loop.boxes)
  <2>1. /\ loop.at = "list" /\ loop.boxes # <<>> /\ UNCHANGED <<top, pushed, account, push, owed>>
        /\ b \in Boxes /\ Tail(loop.boxes) \in Seq(Boxes)
    BY <1>1, <1>4 DEF BgListed
  <2>4. ASSUME NEW x \in ToSet(loop.boxes) PROVE x = b \/ x \in ToSet(Tail(loop.boxes))
    <3>1. PICK i \in 1..Len(loop.boxes) : x = loop.boxes[i]
      BY <1>1 DEF ToSet
    <3>2. CASE i = 1
      BY <3>1, <3>2
    <3>3. CASE i # 1
      <4>1. i - 1 \in 1..Len(Tail(loop.boxes)) /\ Tail(loop.boxes)[i - 1] = x
        BY <1>1, <2>1, <3>1, <3>3
      <4>2. DOMAIN Tail(loop.boxes) = 1..Len(Tail(loop.boxes))
        BY <2>1
      <4> QED
        BY <4>1, <4>2 DEF ToSet
    <3> QED
      BY <3>2, <3>3
  <2>2. CASE /\ loop' = [loop EXCEPT !.at = "next", !.todo = {u \in Uids : loop.since < u /\ u <= top[b]}]
             /\ UNCHANGED missed
    <3>1. /\ loop'.at = "next" /\ loop'.boxes = loop.boxes /\ loop'.since = loop.since
          /\ loop'.todo = {u \in Uids : loop.since < u /\ u <= top[b]}
      BY <1>1, <2>2 DEF Filed
    <3>2. Filed' /\ OneMailPerUid'
      BY <1>1, <1>2, <2>1, <2>2, <3>1 DEF Filed
    <3>3. ASSUME NEW m \in owed \ missed, Waits(m), ~(m.uid <= loop.since) PROVE Waits(m)'
      <4>1. m.box \in ToSet(loop.boxes) /\ m.uid \in Uids /\ m.uid <= top[m.box]
        BY <1>1, <2>1, <3>3 DEF Waits, Ahead, Owing, Filed
      <4>2. CASE m.box = b
        <5>1. m.uid \in loop'.todo
          BY <1>1, <3>1, <3>3, <4>1, <4>2 DEF Filed, Uids
        <5> QED
          BY <3>1, <4>2, <5>1 DEF Waits
      <4>3. CASE m.box \in ToSet(Tail(loop.boxes))
        BY <3>1, <4>3 DEF Waits, Ahead
      <4> QED
        BY <2>4, <4>1, <4>2, <4>3
    <3>4. Owing'
      BY <1>1, <2>1, <2>2, <3>1, <3>3 DEF Owing, account
    <3> QED
      BY <3>2, <3>4
  <2>3. CASE loop' = [loop EXCEPT !.boxes = Tail(@)] /\ missed' = missed \cup {m \in owed : m.box = b}
    <3>1. loop'.at = "list" /\ loop'.boxes = Tail(loop.boxes) /\ loop'.since = loop.since
      BY <1>1, <2>1, <2>3 DEF Filed
    <3>2. Filed' /\ OneMailPerUid'
      BY <1>1, <1>2, <2>1, <2>3, <3>1 DEF Filed
    <3>3. ASSUME NEW m \in owed' \ missed', Waits(m) PROVE Waits(m)'
      <4>1. m.box \in ToSet(loop.boxes) /\ m.box # b
        BY <2>1, <2>3, <3>3 DEF Waits, Ahead
      <4> QED
        BY <2>4, <3>1, <4>1 DEF Waits, Ahead
    <3>4. Owing'
      BY <1>1, <2>1, <2>3, <3>1, <3>3 DEF Owing, account
    <3> QED
      BY <3>2, <3>4
  <2> QED
    BY <1>4, <2>2, <2>3 DEF BgListed
<1>5. CASE BgNext
  <2>1. PICK u \in Uids : u = Lowest(loop.todo) /\ u \in loop.todo
    <3>1. \E u \in loop.todo : \A v \in loop.todo : u <= v
      BY <1>1, <1>5, LowestExists DEF BgNext
    <3> QED
      BY <1>1, <3>1 DEF Lowest
  <2>2. /\ loop.at = "next" /\ UNCHANGED <<top, pushed, account, push, missed, owed>>
        /\ loop' = [loop EXCEPT !.todo = @ \ {u}, !.uid = IF u \in seenUIDs THEN 0 ELSE u,
                                !.at = IF u \in seenUIDs THEN "next" ELSE "fetch"]
    BY <1>5, <2>1 DEF BgNext
  <2>3. /\ loop'.boxes = loop.boxes /\ loop'.since = loop.since /\ loop'.todo = loop.todo \ {u}
        /\ IF u \in seenUIDs THEN loop'.at = "next" /\ loop'.uid = 0 ELSE loop'.at = "fetch" /\ loop'.uid = u
    BY <1>1, <2>2 DEF Filed
  <2>7. u # 0 /\ u \in 0..MaxUid
    BY DEF Uids
  <2> DEFINE LoopType == [at : {"idle", "list", "next", "fetch"}, boxes : Seq(Boxes),
                          todo : SUBSET Uids, uid : 0..MaxUid, since : Nat]
  <2>8. loop' \in LoopType
    <3>1. loop \in LoopType /\ loop.todo \ {u} \in SUBSET Uids /\ 0 \in 0..MaxUid
      BY <1>1 DEF Filed
    <3>2. CASE u \in seenUIDs
      <4>1. loop' = [loop EXCEPT !.todo = @ \ {u}, !.uid = 0, !.at = "next"]
        BY <2>2, <3>2
      <4> QED
        BY <3>1, <4>1
    <3>3. CASE u \notin seenUIDs
      <4>1. loop' = [loop EXCEPT !.todo = @ \ {u}, !.uid = u, !.at = "fetch"]
        BY <2>2, <3>3
      <4> QED
        BY <2>7, <3>1, <4>1
    <3> QED
      BY <3>2, <3>3
  <2>9. /\ loop'.at \in {"next", "fetch"} => loop'.boxes # <<>>
        /\ loop'.at = "fetch" => loop'.uid # 0
    BY <1>1, <2>2, <2>3, <2>7 DEF Filed
  <2>4. Filed' /\ OneMailPerUid'
    BY <1>1, <1>2, <2>2, <2>8, <2>9 DEF Filed
  <2>5. ASSUME NEW m, Waits(m), m.uid \notin seenUIDs PROVE Waits(m)'
    BY <2>2, <2>3, <2>5 DEF Waits, Ahead
  <2>6. Owing'
    BY <1>1, <2>2, <2>3, <2>5 DEF Owing, account
  <2> QED
    BY <2>4, <2>6
<1>6. CASE BgFetched
  <2> DEFINE m == [box |-> Head(loop.boxes), uid |-> loop.uid]
  <2>1. m \in Mails
    BY <1>1, <1>6 DEF BgFetched, Filed, Mails, Uids
  <2>2. /\ loop.at = "fetch" /\ UNCHANGED <<top, pushed, push, owed>>
        /\ loop' = [loop EXCEPT !.at = "next", !.uid = 0]
    BY <1>6 DEF BgFetched
  <2>3. loop'.at = "next" /\ loop'.boxes = loop.boxes /\ loop'.since = loop.since /\ loop'.todo = loop.todo
    BY <1>1, <2>2 DEF Filed
  <2>8. loop' \in [at : {"idle", "list", "next", "fetch"}, boxes : Seq(Boxes), todo : SUBSET Uids,
                   uid : 0..MaxUid, since : Nat]
    <3>1. 0 \in 0..MaxUid
      OBVIOUS
    <3> QED
      BY <1>1, <2>2, <3>1 DEF Filed
  <2>9. /\ loop'.at \in {"next", "fetch"} => loop'.boxes # <<>>
        /\ loop'.at = "fetch" => loop'.uid # 0
    BY <1>1, <2>2, <2>3 DEF Filed
  <2>4. ASSUME NEW n \in Mails, Waits(n), n # m PROVE Waits(n)'
    <3>1. ~(n.box = Head(loop.boxes) /\ n.uid = loop.uid)
      BY <2>4 DEF Mails
    <3> QED
      BY <2>2, <2>3, <2>4, <3>1 DEF Waits, Ahead
  <2>5. (ProcessIncomingRaw(m) /\ UNCHANGED missed) \/ (missed' = missed \cup {m} /\ UNCHANGED account)
    BY <1>6 DEF BgFetched
  <2>6. CASE ProcessIncomingRaw(m) /\ UNCHANGED missed
    <3> HIDE DEF m
    <3>1. /\ OneMailPerUid' /\ m.uid \in seenUIDs' /\ seenUIDs \subseteq seenUIDs'
          /\ seenUIDs' \subseteq Uids /\ lastSeenUid' \in Nat /\ processed' \in [Mails -> Nat]
      BY <2>1, <2>6, BoxedProcess
    <3>2. Filed'
      BY <1>1, <2>2, <2>8, <2>9, <3>1 DEF Filed
    <3>3. ASSUME NEW n \in owed' \ missed'
          PROVE  n.uid <= loop'.since \/ n.uid \in seenUIDs' \/ Waits(n)'
      <4>1. n \in Mails /\ (n.uid <= loop.since \/ n.uid \in seenUIDs \/ Waits(n))
        BY <1>1, <2>2, <2>6, <3>3 DEF Owing, Filed
      <4> QED
        BY <2>3, <2>4, <3>1, <4>1
    <3>4. Owing'
      BY <1>1, <2>2, <3>3 DEF Owing
    <3> QED
      BY <3>1, <3>2, <3>4
  <2>7. CASE missed' = missed \cup {m} /\ UNCHANGED account
    <3> HIDE DEF m
    <3>1. Filed' /\ OneMailPerUid'
      BY <1>1, <1>2, <2>2, <2>7, <2>8, <2>9 DEF Filed
    <3>2. ASSUME NEW n \in owed' \ missed'
          PROVE  n.uid <= loop'.since \/ n.uid \in seenUIDs' \/ Waits(n)'
      <4>1. n \in Mails /\ n # m /\ (n.uid <= loop.since \/ n.uid \in seenUIDs \/ Waits(n))
        BY <1>1, <2>2, <2>7, <3>2 DEF Owing, Filed
      <4> QED
        BY <2>3, <2>4, <2>7, <4>1 DEF account
    <3>3. Owing'
      BY <1>1, <2>2, <3>2 DEF Owing
    <3> QED
      BY <3>1, <3>3
  <2> QED
    BY <2>5, <2>6, <2>7
<1>7. CASE BgNextBox
  <2>1. /\ loop.at = "next" /\ loop.todo = {} /\ UNCHANGED <<top, pushed, account, push, missed, owed>>
        /\ loop' = [loop EXCEPT !.at = "list", !.boxes = Tail(@)]
    BY <1>7 DEF BgNextBox
  <2>2. loop'.at = "list" /\ loop'.boxes = Tail(loop.boxes) /\ loop'.since = loop.since
        /\ Tail(loop.boxes) \in Seq(Boxes)
    BY <1>1, <2>1 DEF Filed
  <2>3. Filed' /\ OneMailPerUid'
    BY <1>1, <1>2, <2>1, <2>2 DEF Filed
  <2>4. \A m : Waits(m) => Waits(m)'
    BY <2>1, <2>2 DEF Waits, Ahead
  <2>5. Owing'
    BY <1>1, <2>1, <2>2, <2>4 DEF Owing, account
  <2> QED
    BY <2>3, <2>5
<1>8. CASE BgDone
  <2>1. UNCHANGED <<top, pushed, account, push, missed>> /\ loop' = Resting /\ owed' = {}
    BY <1>8 DEF BgDone
  <2>2. Filed' /\ OneMailPerUid'
    BY <1>1, <1>2, <2>1 DEF Resting
  <2> QED
    BY <2>1, <2>2 DEF Owing
<1> QED
  BY <1>3, <1>4, <1>5, <1>6, <1>7, <1>8

LEMMA BoxedInductive == BoxSpec => []BInv
<1>1. BInv /\ [BoxNext]_boxVars => BInv'
  <2>1. CASE UNCHANGED boxVars
    <3>1. UNCHANGED <<top, pushed, seenUIDs, lastSeenUid, push, loop, processed, missed, owed>>
      BY <2>1 DEF boxVars
    <3> QED
      BY <3>1 DEF BInv, Filed, OneMailPerUid, Owing, Waits, Ahead
  <2> QED
    BY <2>1, BoxedPush, BoxedLoop DEF BoxNext
<1> QED
  BY <1>1, BoxedInit, PTL DEF BoxSpec

-----------------------------------------------------------------------------
\* However many pushes and fetches overlap, over whatever mailboxes and relays,
\* each UID the account has seen was one mail, processed once.
THEOREM OneMail == BoxSpec => []OneMailPerUid
<1>1. BInv => OneMailPerUid
  BY DEF BInv
<1> QED
  BY <1>1, BoxedInductive, PTL

\* When a fetch of the watched mailboxes is over, whatever it did not process has
\* a cause: the cursor it began with, a failed request or another mail's UID.
THEOREM LossHasACause == BoxSpec => LossIsAClash
<1>1. ASSUME BInv, BgDone PROVE CauseKnown
  <2> SUFFICES ASSUME NEW m \in owed \ missed
               PROVE  \/ processed[m] > 0 \/ m.uid <= loop.since
                      \/ \E n \in Mails : n.uid = m.uid /\ n # m /\ processed[n] > 0
    BY DEF CauseKnown
  <2>1. m \in Mails /\ m.uid \in Uids
    BY <1>1 DEF BInv, Filed, Mails
  <2>2. ~Waits(m)
    BY <1>1 DEF BgDone, Waits, Ahead, ToSet
  <2>3. m.uid <= loop.since \/ m.uid \in seenUIDs
    BY <1>1, <2>2 DEF BInv, Owing, BgDone
  <2>4. m.uid \in seenUIDs => \E n \in Mails : n.uid = m.uid /\ processed[n] > 0
    BY <1>1, <2>1 DEF BInv, OneMailPerUid
  <2> QED
    BY <2>3, <2>4
<1>2. BInv /\ [BoxNext]_boxVars => [BgDone => CauseKnown]_boxVars
  BY <1>1
<1> QED
  BY <1>2, BoxedInductive, PTL DEF BoxSpec, LossIsAClash

-----------------------------------------------------------------------------
(* Relays *)

Injective(s) == \A i, j \in 1..Len(s) : s[i] = s[j] => i = j
\* Induction as a fact about sets: the provers cannot instantiate NatInduction.
LEMMA Counting ==
  ASSUME NEW S, 0 \in S, \A n \in Nat : n \in S => n + 1 \in S
  PROVE  Nat \subseteq S
<1> DEFINE T == Nat \ S
<1> SUFFICES ASSUME T # {} PROVE FALSE
  OBVIOUS
<1>1. PICK x \in T : \A y \in T : <<y, x>> \notin Less
  BY LessFounded, WFMin
<1>2. x - 1 \in Nat /\ x - 1 < x
  BY <1>1
<1>3. <<x - 1, x>> \in Nat \X Nat /\ <<x - 1, x>>[1] = x - 1 /\ <<x - 1, x>>[2] = x
  BY <1>2
<1>4. <<x - 1, x>> \in Less
  BY <1>2, <1>3 DEF Less
<1>5. x - 1 \in S
  BY <1>1, <1>2, <1>4
<1> QED
  BY <1>1, <1>2, <1>5

\* What Filter computes, up to the n-th element.
Filters(g, s, S, n) ==
    g = [i \in 0..n |->
           IF i = 0 THEN <<>> ELSE IF s[i] \in S THEN Append(g[i - 1], s[i]) ELSE g[i - 1]]

LEMMA FilterExists ==
  ASSUME NEW s, NEW S, NEW n \in Nat
  PROVE  \E g : Filters(g, s, S, n)
<1> DEFINE N == {m \in Nat : \E g : Filters(g, s, S, m)}
<1>1. 0 \in N
  <2> DEFINE g == [i \in 0..0 |-> <<>>]
  <2>1. Filters(g, s, S, 0)
    BY DEF Filters
  <2> QED
    BY <2>1
<1>2. ASSUME NEW m \in Nat, m \in N PROVE m + 1 \in N
  <2>1. PICK g : Filters(g, s, S, m)
    BY <1>2
  <2> DEFINE x == IF s[m + 1] \in S THEN Append(g[m], s[m + 1]) ELSE g[m]
             h == [i \in 0..m + 1 |-> IF i = m + 1 THEN x ELSE g[i]]
  <2>2. \A i \in 0..m : h[i] = g[i]
    OBVIOUS
  <2>3. \A i \in 0..m + 1 :
           h[i] = IF i = 0 THEN <<>> ELSE IF s[i] \in S THEN Append(h[i - 1], s[i]) ELSE h[i - 1]
    <3> SUFFICES ASSUME NEW i \in 0..m + 1
                 PROVE  h[i] = IF i = 0 THEN <<>>
                               ELSE IF s[i] \in S THEN Append(h[i - 1], s[i]) ELSE h[i - 1]
      OBVIOUS
    <3>1. CASE i = m + 1
      <4>1. h[i] = x /\ h[i - 1] = g[m] /\ i # 0
        BY <3>1
      <4> HIDE DEF h
      <4> QED
        BY <3>1, <4>1
    <3>2. CASE i \in 0..m
      <4>1. h[i] = g[i] /\ (i # 0 => i - 1 \in 0..m /\ h[i - 1] = g[i - 1])
        BY <3>2, <2>2
      <4>2. g[i] = IF i = 0 THEN <<>> ELSE IF s[i] \in S THEN Append(g[i - 1], s[i]) ELSE g[i - 1]
        BY <2>1, <3>2 DEF Filters
      <4> HIDE DEF h
      <4> QED
        BY <4>1, <4>2
    <3> QED
      BY <3>1, <3>2
  <2>4. h = [i \in 0..m + 1 |-> h[i]]
    OBVIOUS
  <2> HIDE DEF h
  <2>5. Filters(h, s, S, m + 1)
    BY <2>3, <2>4 DEF Filters
  <2> QED
    BY <2>5
<1> HIDE DEF N
<1>3. n \in N
  BY <1>1, <1>2, Counting
<1> QED
  BY <1>3 DEF N

LEMMA FilterSpec ==
  ASSUME NEW A, NEW s \in Seq(A), NEW S
  PROVE  /\ Filter(s, S) \in Seq(A)
         /\ ToSet(Filter(s, S)) = ToSet(s) \cap S
         /\ Injective(s) => Injective(Filter(s, S))
<1> DEFINE n == Len(s)
           f == CHOOSE g : Filters(g, s, S, n)
           In(i) == {s[j] : j \in 1..i}
           G == {i \in Nat : i <= n =>
                   /\ f[i] \in Seq(A) /\ ToSet(f[i]) = In(i) \cap S
                   /\ Injective(s) => Injective(f[i])}
<1>1. n \in Nat
  OBVIOUS
<1>2. Filters(f, s, S, n)
  BY <1>1, FilterExists
<1>3. Filter(s, S) = f[n]
  BY DEF Filter, Filters
<1> HIDE DEF f
<1>8. \A k \in 0..n :
         f[k] = IF k = 0 THEN <<>> ELSE IF s[k] \in S THEN Append(f[k - 1], s[k]) ELSE f[k - 1]
  <2> HIDE DEF n
  <2> QED
    BY <1>2 DEF Filters
<1>4. 0 \in G
  <2>1. f[0] = <<>>
    BY <1>1, <1>8
  <2>2. f[0] \in Seq(A) /\ Len(f[0]) = 0
    BY <2>1
  <2>3. ToSet(f[0]) = {} /\ Injective(f[0])
    BY <2>2 DEF ToSet, Injective
  <2>4. In(0) = {}
    OBVIOUS
  <2> QED
    BY <2>2, <2>3, <2>4
<1>5. ASSUME NEW i \in Nat, i \in G PROVE i + 1 \in G
  <2> SUFFICES ASSUME i + 1 <= n
               PROVE  /\ f[i + 1] \in Seq(A) /\ ToSet(f[i + 1]) = In(i + 1) \cap S
                      /\ Injective(s) => Injective(f[i + 1])
    OBVIOUS
  <2>1. f[i + 1] = IF s[i + 1] \in S THEN Append(f[i], s[i + 1]) ELSE f[i]
    <3>1. i + 1 \in 0..n /\ i + 1 # 0 /\ (i + 1) - 1 = i
      BY <1>1
    <3> HIDE DEF n
    <3> QED
      BY <1>8, <3>1
  <2>2. /\ f[i] \in Seq(A) /\ ToSet(f[i]) = In(i) \cap S
        /\ Injective(s) => Injective(f[i])
    BY <1>5, <1>1
  <2>3. s[i + 1] \in A
    BY <1>1
  <2>4. In(i + 1) = In(i) \cup {s[i + 1]}
    OBVIOUS
  <2> HIDE DEF In
  <2>5. CASE s[i + 1] \notin S
    BY <2>1, <2>2, <2>4, <2>5
  <2>6. CASE s[i + 1] \in S
    <3> DEFINE t == f[i]
               x == s[i + 1]
    <3>1. t \in Seq(A) /\ x \in A /\ f[i + 1] = Append(t, x)
      BY <2>1, <2>2, <2>3, <2>6
    <3>2. x \in In(i) => \E j \in 1..i : s[j] = s[i + 1]
      BY DEF In
    <3>3. Injective(s) => x \notin ToSet(t)
      BY <2>2, <3>2, <1>1 DEF Injective
    <3> HIDE DEF t, x
    <3>4. /\ Append(t, x) \in Seq(A) /\ Len(Append(t, x)) = Len(t) + 1 /\ Len(t) \in Nat
          /\ \A j \in 1..Len(t) : Append(t, x)[j] = t[j]
          /\ Append(t, x)[Len(t) + 1] = x
      BY <3>1
    <3>5. ToSet(Append(t, x)) = ToSet(t) \cup {x}
      BY <3>4 DEF ToSet
    <3>6. Injective(t) /\ x \notin ToSet(t) => Injective(Append(t, x))
      BY <3>4 DEF Injective, ToSet
    <3> QED
      BY <2>2, <2>4, <2>6, <3>1, <3>3, <3>4, <3>5, <3>6 DEF t, x
  <2> QED
    BY <2>5, <2>6
<1> HIDE DEF G
<1>6. n \in G
  BY <1>1, <1>4, <1>5, Counting
<1>7. In(n) = ToSet(s)
  BY DEF ToSet
<1> QED
  BY <1>3, <1>6, <1>7, <1>1 DEF G

\* Lists of relays.  A row is of any number here, for a reload makes one of its own.

AnyRows == [id : Nat, url : Urls, email : Emails]

LEMMA RowsAreAny == RelayRows \subseteq AnyRows /\ RelayIds \subseteq Nat /\ MaxIds \in Nat
BY RelayBoundAssumption DEF RelayRows, AnyRows, RelayIds

\* A server that is in a list has a first row.
LEMMA FirstIs ==
  ASSUME NEW list \in Seq(AnyRows), NEW s \in SitesOf(list)
  PROVE  First(s, list) \in DOMAIN list /\ list[First(s, list)].url.site = s
<1>1. At(s, list) # {} /\ At(s, list) \subseteq Nat
  BY DEF At, SitesOf, ToSet
<1>2. PICK i \in At(s, list) : \A k \in At(s, list) : <<k, i>> \notin Less
  BY <1>1, LessFounded, WFMin
<1>3. ASSUME NEW k \in At(s, list) PROVE i <= k
  <2>1. <<k, i>> \in Nat \X Nat /\ <<k, i>>[1] = k /\ <<k, i>>[2] = i
    BY <1>1
  <2>2. ~(k < i)
    BY <1>2, <2>1 DEF Less
  <2> QED
    BY <1>1, <2>2
<1>4. First(s, list) \in At(s, list)
  BY <1>3 DEF First
<1> QED
  BY <1>4 DEF At

\* What merging the first n rows of a list has made.
Merged(out, list, n) ==
    /\ out \in Seq(AnyRows) /\ Deduped(out)
    /\ \A i \in 1..n : \E k \in DOMAIN out : out[k].url.site = list[i].url.site
    /\ \A k \in DOMAIN out : \E i, j \in 1..n :
          /\ list[i].url.site = out[k].url.site /\ list[j].url.site = out[k].url.site
          /\ out[k].id = list[i].id /\ out[k].email = list[j].email
          /\ \A m \in 1..n : list[m].url.site = out[k].url.site => i <= m /\ m <= j

LEMMA MergeStep ==
  ASSUME NEW list \in Seq(AnyRows), NEW n \in Nat, n + 1 <= Len(list), NEW out, Merged(out, list, n)
  PROVE  Merged(Merge(out, list[n + 1]), list, n + 1)
<1> DEFINE r == list[n + 1]
           s == r.url.site
           new == Merge(out, r)
<1>1. out \in Seq(AnyRows) /\ r \in AnyRows /\ Len(list) \in Nat /\ DOMAIN out = 1..Len(out) /\ Len(out) \in Nat
  BY DEF Merged
<1>2. \A m \in 1..n + 1 : m \in 1..n \/ m = n + 1
  OBVIOUS
<1>3. CASE s \in SitesOf(out)
  <2>1. PICK f \in DOMAIN out : f = First(s, out) /\ out[f].url.site = s
    BY <1>1, <1>3, FirstIs
  <2>2. new = [out EXCEPT ![f].email = r.email]
    BY <1>3, <2>1 DEF Merge
  <2>3. /\ DOMAIN new = DOMAIN out /\ new \in Seq(AnyRows)
        /\ \A k \in DOMAIN out : new[k].url = out[k].url /\ new[k].id = out[k].id
                                 /\ new[k].email = IF k = f THEN r.email ELSE out[k].email
    <3> DEFINE q == [out[f] EXCEPT !.email = r.email]
    <3>6. out[f] \in AnyRows
      BY <1>1, <2>1
    <3>1. out[f] \in AnyRows /\ r.email \in Emails
      BY <1>1, <3>6 DEF AnyRows
    <3>2. q \in AnyRows /\ q.url = out[f].url /\ q.id = out[f].id /\ q.email = r.email
      BY <3>1 DEF AnyRows
    <3>3. new = [out EXCEPT ![f] = q]
      BY <2>2
    <3> HIDE DEF q, new
    <3>4. DOMAIN new = DOMAIN out /\ \A k \in DOMAIN out : new[k] = IF k = f THEN q ELSE out[k]
      BY <1>1, <2>1, <3>3
    <3>5. new \in Seq(AnyRows)
      BY <1>1, <2>1, <3>2, <3>3
    <3> QED
      BY <3>2, <3>4, <3>5
  <2>4. \A k \in DOMAIN out : out[k].url.site = s => k = f
    BY <2>1 DEF Merged, Deduped
  <2> HIDE DEF new
  <2>5. Deduped(new)
    BY <2>3 DEF Merged, Deduped
  <2>6. \A i \in 1..n + 1 : \E k \in DOMAIN new : new[k].url.site = list[i].url.site
    <3>1. ASSUME NEW i \in 1..n PROVE \E k \in DOMAIN new : new[k].url.site = list[i].url.site
      <4>1. PICK k \in DOMAIN out : out[k].url.site = list[i].url.site
        BY DEF Merged
      <4> QED
        BY <2>3, <4>1
    <3>2. f \in DOMAIN new /\ new[f].url.site = list[n + 1].url.site
      BY <2>1, <2>3
    <3> QED
      BY <1>2, <3>1, <3>2
  <2>7. ASSUME NEW k \in DOMAIN new
        PROVE  \E i, j \in 1..n + 1 :
                 /\ list[i].url.site = new[k].url.site /\ list[j].url.site = new[k].url.site
                 /\ new[k].id = list[i].id /\ new[k].email = list[j].email
                 /\ \A m \in 1..n + 1 : list[m].url.site = new[k].url.site => i <= m /\ m <= j
    <3>1. PICK i, j \in 1..n :
            /\ list[i].url.site = out[k].url.site /\ list[j].url.site = out[k].url.site
            /\ out[k].id = list[i].id /\ out[k].email = list[j].email
            /\ \A m \in 1..n : list[m].url.site = out[k].url.site => i <= m /\ m <= j
      BY <2>3, <2>7 DEF Merged
    <3>2. i \in 1..n + 1 /\ j \in 1..n + 1 /\ n + 1 \in 1..n + 1 /\ i <= n + 1
      OBVIOUS
    <3>3. CASE k = f
      <4>1. \A m \in 1..n + 1 : list[m].url.site = new[k].url.site => i <= m /\ m <= n + 1
        BY <1>2, <2>3, <2>7, <3>1, <3>2
      <4> QED
        BY <2>1, <2>3, <2>7, <3>1, <3>2, <3>3, <4>1
    <3>4. CASE k # f
      <4>1. \A m \in 1..n + 1 : list[m].url.site = new[k].url.site => m \in 1..n
        BY <1>2, <2>3, <2>4, <2>7, <3>4
      <4> QED
        BY <2>3, <2>7, <3>1, <3>2, <3>4, <4>1
    <3> QED
      BY <3>3, <3>4
  <2> QED
    BY <2>3, <2>5, <2>6, <2>7 DEF Merged, new
<1>4. CASE s \notin SitesOf(out)
  <2> DEFINE a == [r EXCEPT !.url = NormalizeServerUrl(@)]
             L == Len(out)
  <2>1. a \in AnyRows /\ a.url.site = s /\ a.id = r.id /\ a.email = r.email
    BY <1>1 DEF AnyRows, Urls, NormalizeServerUrl
  <2>2. new = Append(out, a)
    BY <1>4 DEF Merge
  <2> HIDE DEF a
  <2>3. /\ new \in Seq(AnyRows) /\ DOMAIN new = 1..L + 1 /\ L \in Nat /\ new[L + 1] = a
        /\ \A k \in 1..L : new[k] = out[k]
    BY <1>1, <2>1, <2>2
  <2>4. \A k \in 1..L : out[k].url.site # s
    BY <1>1, <1>4 DEF SitesOf, ToSet
  <2> HIDE DEF new
  <2>5. \A k \in DOMAIN new : k \in 1..L \/ k = L + 1
    BY <2>3
  <2> HIDE DEF L
  <2>6. DOMAIN out = 1..L
    BY <1>1 DEF L
  <2>7. Deduped(new)
    <3>1. \A i, k \in 1..L : new[i].url.site = new[k].url.site => i = k
      BY <2>3, <2>6 DEF Merged, Deduped
    <3>2. \A i \in 1..L : new[i].url.site # new[L + 1].url.site
      BY <2>1, <2>3, <2>4
    <3> QED
      BY <2>5, <3>1, <3>2 DEF Deduped
  <2>8. ASSUME NEW m \in 1..n PROVE list[m].url.site # s
    <3>1. PICK k \in DOMAIN out : out[k].url.site = list[m].url.site
      BY DEF Merged
    <3> QED
      BY <2>4, <2>6, <3>1
  <2>9. \A i \in 1..n + 1 : \E k \in DOMAIN new : new[k].url.site = list[i].url.site
    <3>1. ASSUME NEW i \in 1..n PROVE \E k \in DOMAIN new : new[k].url.site = list[i].url.site
      <4>1. PICK k \in 1..L : out[k].url.site = list[i].url.site
        BY <2>6 DEF Merged
      <4> QED
        BY <2>3, <4>1
    <3>2. L + 1 \in DOMAIN new /\ new[L + 1].url.site = list[n + 1].url.site
      BY <2>1, <2>3
    <3> QED
      BY <1>2, <3>1, <3>2
  <2>10. ASSUME NEW k \in DOMAIN new
         PROVE  \E i, j \in 1..n + 1 :
                  /\ list[i].url.site = new[k].url.site /\ list[j].url.site = new[k].url.site
                  /\ new[k].id = list[i].id /\ new[k].email = list[j].email
                  /\ \A m \in 1..n + 1 : list[m].url.site = new[k].url.site => i <= m /\ m <= j
    <3>1. CASE k \in 1..L
      <4>1. PICK i, j \in 1..n :
              /\ list[i].url.site = out[k].url.site /\ list[j].url.site = out[k].url.site
              /\ out[k].id = list[i].id /\ out[k].email = list[j].email
              /\ \A m \in 1..n : list[m].url.site = out[k].url.site => i <= m /\ m <= j
        BY <2>6, <3>1 DEF Merged
      <4>2. \A m \in 1..n + 1 : list[m].url.site = new[k].url.site => m \in 1..n
        BY <1>2, <2>3, <2>4, <3>1
      <4>3. i \in 1..n + 1 /\ j \in 1..n + 1 /\ new[k] = out[k]
        BY <2>3, <3>1
      <4> QED
        BY <4>1, <4>2, <4>3
    <3>2. CASE k = L + 1
      <4>1. new[k] = a
        BY <2>3, <3>2
      <4>2. \A m \in 1..n + 1 : list[m].url.site = s => m = n + 1
        BY <1>2, <2>8
      <4>3. n + 1 \in 1..n + 1 /\ n + 1 <= n + 1
        OBVIOUS
      <4> QED
        BY <2>1, <4>1, <4>2, <4>3
    <3> QED
      BY <2>5, <3>1, <3>2
  <2> QED
    BY <2>3, <2>7, <2>9, <2>10 DEF Merged, new
<1> QED
  BY <1>3, <1>4

\* The fold of dedupeRelaysByServerUrl, up to the n-th row.
Merging(g, list, n) == g = [i \in 0..n |-> IF i = 0 THEN <<>> ELSE Merge(g[i - 1], list[i])]

LEMMA MergingExists ==
  ASSUME NEW list, NEW n \in Nat
  PROVE  \E g : Merging(g, list, n)
<1> DEFINE N == {m \in Nat : \E g : Merging(g, list, m)}
<1>1. 0 \in N
  <2> DEFINE g == [i \in 0..0 |-> <<>>]
  <2>1. Merging(g, list, 0)
    BY DEF Merging
  <2> QED
    BY <2>1
<1>2. ASSUME NEW m \in Nat, m \in N PROVE m + 1 \in N
  <2>1. PICK g : Merging(g, list, m)
    BY <1>2
  <2> DEFINE x == Merge(g[m], list[m + 1])
             h == [i \in 0..m + 1 |-> IF i = m + 1 THEN x ELSE g[i]]
  <2>2. \A i \in 0..m : h[i] = g[i]
    OBVIOUS
  <2>3. \A i \in 0..m + 1 : h[i] = IF i = 0 THEN <<>> ELSE Merge(h[i - 1], list[i])
    <3> SUFFICES ASSUME NEW i \in 0..m + 1
                 PROVE  h[i] = IF i = 0 THEN <<>> ELSE Merge(h[i - 1], list[i])
      OBVIOUS
    <3>1. CASE i = m + 1
      <4>1. h[i] = x /\ h[i - 1] = g[m] /\ i # 0
        BY <3>1
      <4> HIDE DEF h
      <4> QED
        BY <3>1, <4>1
    <3>2. CASE i \in 0..m
      <4>1. h[i] = g[i] /\ (i # 0 => i - 1 \in 0..m /\ h[i - 1] = g[i - 1])
        BY <3>2, <2>2
      <4>2. g[i] = IF i = 0 THEN <<>> ELSE Merge(g[i - 1], list[i])
        BY <2>1, <3>2 DEF Merging
      <4> HIDE DEF h
      <4> QED
        BY <4>1, <4>2
    <3> QED
      BY <3>1, <3>2
  <2>4. h = [i \in 0..m + 1 |-> h[i]]
    OBVIOUS
  <2> HIDE DEF h
  <2>5. Merging(h, list, m + 1)
    BY <2>3, <2>4 DEF Merging
  <2> QED
    BY <2>5
<1> HIDE DEF N
<1>3. n \in N
  BY <1>1, <1>2, Counting
<1> QED
  BY <1>3 DEF N

LEMMA DedupeMerges ==
  ASSUME NEW list \in Seq(AnyRows)
  PROVE  Merged(DedupeRelays(list), list, Len(list))
<1> DEFINE n == Len(list)
           f == CHOOSE g : Merging(g, list, n)
           G == {i \in Nat : i <= n => Merged(f[i], list, i)}
<1>1. n \in Nat
  OBVIOUS
<1>2. Merging(f, list, n)
  BY <1>1, MergingExists
<1>3. DedupeRelays(list) = f[n]
  BY DEF DedupeRelays, Merging
<1> HIDE DEF f
<1>4. \A k \in 0..n : f[k] = IF k = 0 THEN <<>> ELSE Merge(f[k - 1], list[k])
  <2> HIDE DEF n
  <2> QED
    BY <1>2 DEF Merging
<1>5. 0 \in G
  <2>1. f[0] = <<>>
    BY <1>1, <1>4
  <2>2. f[0] \in Seq(AnyRows) /\ DOMAIN f[0] = {}
    BY <2>1
  <2> QED
    BY <2>2 DEF Merged, Deduped
<1>6. ASSUME NEW i \in Nat, i \in G PROVE i + 1 \in G
  <2> SUFFICES ASSUME i + 1 <= n PROVE Merged(f[i + 1], list, i + 1)
    OBVIOUS
  <2>1. Merged(f[i], list, i)
    BY <1>1, <1>6
  <2>2. f[i + 1] = Merge(f[i], list[i + 1])
    <3>1. i + 1 \in 0..n /\ i + 1 # 0 /\ (i + 1) - 1 = i
      BY <1>1
    <3> HIDE DEF n
    <3> QED
      BY <1>4, <3>1
  <2> QED
    BY <2>1, <2>2, MergeStep
<1> HIDE DEF G
<1>7. n \in G
  BY <1>1, <1>5, <1>6, Counting
<1> QED
  BY <1>1, <1>3, <1>7 DEF G

\* saveToStore writes one row for each server, which has the id of its first
\* relay and the identity of one of them.
LEMMA DedupeSpec ==
  ASSUME NEW list \in Seq(AnyRows), NEW out, out = DedupeRelays(list)
  PROVE  /\ out \in Seq(AnyRows) /\ Deduped(out) /\ SitesOf(out) = SitesOf(list)
         /\ \A k \in DOMAIN out : \E i, j \in DOMAIN list :
              /\ list[i].url.site = out[k].url.site /\ list[j].url.site = out[k].url.site
              /\ out[k].id = list[i].id /\ out[k].email = list[j].email
              /\ \A m \in DOMAIN list : list[m].url.site = out[k].url.site => i <= m /\ m <= j
<1>1. Merged(out, list, Len(list)) /\ DOMAIN list = 1..Len(list)
  BY DedupeMerges
<1>2. \A s \in SitesOf(out) : s \in SitesOf(list)
  <2> SUFFICES ASSUME NEW k \in DOMAIN out PROVE \E i \in DOMAIN list : list[i].url.site = out[k].url.site
    BY DEF SitesOf, ToSet
  <2> QED
    BY <1>1 DEF Merged
<1>3. \A s \in SitesOf(list) : s \in SitesOf(out)
  <2> SUFFICES ASSUME NEW i \in DOMAIN list PROVE \E k \in DOMAIN out : list[i].url.site = out[k].url.site
    BY DEF SitesOf, ToSet
  <2>1. PICK k \in DOMAIN out : out[k].url.site = list[i].url.site
    BY <1>1 DEF Merged
  <2> QED
    BY <2>1
<1> QED
  BY <1>1, <1>2, <1>3 DEF Merged

\* What is written has each id once if the relays have.
LEMMA DedupeSound ==
  ASSUME NEW list \in Seq(RelayRows), Unique(list), NEW n \in Nat, UpTo(list, n), NEW out, out = DedupeRelays(list)
  PROVE  /\ out \in Seq(RelayRows) /\ Unique(out) /\ UpTo(out, n)
         /\ \A k \in DOMAIN out : \E j \in DOMAIN list :
               list[j].url.site = out[k].url.site /\ out[k].email = list[j].email
<1>1. list \in Seq(AnyRows)
  BY RowsAreAny
<1>2. /\ out \in Seq(AnyRows) /\ Deduped(out)
      /\ \A k \in DOMAIN out : \E i, j \in DOMAIN list :
           /\ list[i].url.site = out[k].url.site /\ list[j].url.site = out[k].url.site
           /\ out[k].id = list[i].id /\ out[k].email = list[j].email
           /\ \A m \in DOMAIN list : list[m].url.site = out[k].url.site => i <= m /\ m <= j
  <2>1. out = DedupeRelays(list)
    OBVIOUS
  <2> HIDE DEF UpTo, Unique
  <2> QED
    BY ONLY <1>1, <2>1, DedupeSpec
<1>3. \A i \in DOMAIN list : list[i] \in RelayRows
  OBVIOUS
<1>4. \A k \in DOMAIN out : out[k].id \in RelayIds /\ out[k].id <= n
  BY <1>2, <1>3 DEF UpTo, RelayRows
<1>5. \A k \in DOMAIN out : out[k] \in RelayRows
  <2>1. \A k \in DOMAIN out : out[k] \in AnyRows
    BY <1>2
  <2> QED
    BY <1>4, <2>1 DEF AnyRows, RelayRows
<1>6. out \in Seq(RelayRows)
  BY <1>2, <1>5
<1>7. Unique(out)
  <2> SUFFICES ASSUME NEW k \in DOMAIN out, NEW q \in DOMAIN out, out[k].id = out[q].id PROVE k = q
    BY DEF Unique
  <2>1. PICK i \in DOMAIN list : list[i].url.site = out[k].url.site /\ out[k].id = list[i].id
    BY <1>2
  <2>2. PICK j \in DOMAIN list : list[j].url.site = out[q].url.site /\ out[q].id = list[j].id
    BY <1>2
  <2>3. i = j
    BY <2>1, <2>2 DEF Unique
  <2> QED
    BY <1>2, <2>1, <2>2, <2>3 DEF Deduped
<1> QED
  BY <1>2, <1>4, <1>6, <1>7 DEF UpTo

-----------------------------------------------------------------------------
LEMMA Joined ==
  ASSUME NEW S, NEW A \in Seq(S), NEW x \in S, NEW B \in Seq(S), NEW cat, cat = A \o <<x>> \o B
  PROVE  /\ cat \in Seq(S) /\ Len(cat) = Len(A) + 1 + Len(B) /\ Len(A) \in Nat /\ Len(B) \in Nat
         /\ DOMAIN A = 1..Len(A) /\ DOMAIN B = 1..Len(B) /\ DOMAIN cat = 1..Len(cat)
         /\ \A i \in 1..Len(A) : cat[i] = A[i]
         /\ cat[Len(A) + 1] = x
         /\ \A i \in 1..Len(B) : cat[Len(A) + 1 + i] = B[i]
<1>1. PICK M \in Seq(S) : M = A \o <<x>>
  <2>1. <<x>> \in Seq(S)
    OBVIOUS
  <2>2. A \o <<x>> \in Seq(S)
    BY <2>1
  <2> QED
    BY <2>2
<1>2. /\ Len(M) = Len(A) + 1 /\ M[Len(A) + 1] = x /\ \A i \in 1..Len(A) : M[i] = A[i]
      /\ Len(A) \in Nat /\ DOMAIN A = 1..Len(A)
  BY <1>1
<1>3. cat = M \o B
  BY <1>1
<1>4. /\ cat \in Seq(S) /\ Len(cat) = Len(M) + Len(B) /\ Len(B) \in Nat
      /\ DOMAIN B = 1..Len(B) /\ DOMAIN cat = 1..Len(cat)
      /\ \A i \in 1..Len(M) : cat[i] = M[i]
      /\ \A i \in 1..Len(B) : cat[Len(M) + i] = B[i]
  <2>1. /\ M \o B \in Seq(S) /\ Len(M \o B) = Len(M) + Len(B) /\ Len(B) \in Nat
    OBVIOUS
  <2>2. \A i \in 1..Len(M) : (M \o B)[i] = M[i]
    OBVIOUS
  <2>3. \A i \in 1..Len(B) : (M \o B)[Len(M) + i] = B[i]
    OBVIOUS
  <2>4. cat \in Seq(S) /\ Len(cat) = Len(M) + Len(B)
    BY <1>3, <2>1
  <2>5. DOMAIN B = 1..Len(B) /\ DOMAIN cat = 1..Len(cat)
    BY <2>4
  <2>6. \A i \in 1..Len(M) : cat[i] = M[i]
    BY <1>3, <2>2
  <2>7. \A i \in 1..Len(B) : cat[Len(M) + i] = B[i]
    BY <1>3, <2>3
  <2> QED
    BY <2>1, <2>4, <2>5, <2>6, <2>7
<1>5. \A i \in 1..Len(A) : i \in 1..Len(M)
  BY <1>2
<1>6. Len(A) + 1 \in 1..Len(M)
  BY <1>2
<1> QED
  BY <1>2, <1>4, <1>5, <1>6

\* The identity a reload gives a relay, and its number.
Restored(acct, r) ==
    IF r.url.site = acct.site THEN r.email = acct.email
    ELSE \E j \in DOMAIN acct.relays : acct.relays[j].url.site = r.url.site /\ acct.relays[j].email = r.email
Numbered(acct, r, n) ==
    \/ r.url.site = acct.site /\ r.id = n
    \/ \E i \in DOMAIN acct.relays : acct.relays[i].url.site = r.url.site /\ acct.relays[i].id = r.id

\* What a reload makes of a row: one relay for each server the row lists, with
\* the identity listed there, and the row's own identity on its own server.
LEMMA RebuiltSpec ==
  ASSUME NEW acct \in Snapshots, Deduped(acct.relays), NEW list \in Seq(RelayRows), NEW n \in Nat,
         NEW out, out = Rebuilt(acct, list, n)
  PROVE  /\ out \in Seq(AnyRows) /\ Deduped(out) /\ SitesOf(out) = SitesOf(acct.relays) \cup {acct.site}
         /\ \A k \in DOMAIN out : Restored(acct, out[k]) /\ Numbered(acct, out[k], n)
<1> DEFINE own(id) == [id |-> id, url |-> Plain(acct.site), email |-> acct.email]
           here == Filter(list, {r \in ToSet(list) : r.url.site = acct.site})
           A == acct.relays
           B == [i \in DOMAIN here |-> own(here[i].id)]
           cat == A \o <<own(n)>> \o B
           a == Len(A)
<1>1. A \in Seq(RelayRows) /\ acct.site \in Sites /\ acct.email \in Emails
  BY DEF Snapshots
<1>2. ASSUME NEW r \in Nat
      PROVE  own(r) \in AnyRows /\ own(r).url.site = acct.site /\ own(r).email = acct.email /\ own(r).id = r
  BY <1>1 DEF AnyRows, Urls, Plain
<1>3. here \in Seq(RelayRows)
  BY FilterSpec
<1>4. A \in Seq(AnyRows) /\ here \in Seq(AnyRows)
  BY <1>1, <1>3, RowsAreAny
<1>5. \A i \in DOMAIN here : here[i].id \in Nat
  <2>1. \A i \in DOMAIN here : here[i] \in AnyRows
    BY <1>4
  <2> QED
    BY <2>1 DEF AnyRows
<1>6. out = DedupeRelays(cat)
  BY DEF Rebuilt
<1> HIDE DEF own, here
<1>7. own(n) \in AnyRows /\ cat = A \o <<own(n)>> \o B
  BY <1>2
<1>8. /\ B \in Seq(AnyRows) /\ DOMAIN B = DOMAIN here
      /\ \A i \in DOMAIN B : B[i].url.site = acct.site /\ B[i].email = acct.email
  <2>1. DOMAIN here = 1..Len(here) /\ Len(here) \in Nat
    BY <1>3
  <2>2. \A i \in DOMAIN here : own(here[i].id) \in AnyRows
    BY <1>2, <1>5
  <2>3. B \in [1..Len(here) -> AnyRows]
    BY <2>1, <2>2
  <2>4. B \in Seq(AnyRows)
    BY <2>1, <2>3
  <2> QED
    BY <1>2, <1>5, <2>4
<1> HIDE DEF B, A
<1>9. /\ cat \in Seq(AnyRows) /\ Len(cat) = a + 1 + Len(B) /\ a \in Nat /\ Len(B) \in Nat
      /\ DOMAIN A = 1..a /\ DOMAIN B = 1..Len(B) /\ DOMAIN cat = 1..Len(cat)
      /\ \A i \in 1..a : cat[i] = A[i]
      /\ cat[a + 1] = own(n)
      /\ \A i \in 1..Len(B) : cat[a + 1 + i] = B[i]
  <2>1. A \in Seq(AnyRows) /\ B \in Seq(AnyRows)
    BY <1>4, <1>8
  <2> HIDE DEF cat
  <2> QED
    BY <1>7, <2>1, Joined
<1> HIDE DEF cat, a
<1>10. \A i \in DOMAIN cat : i \in 1..a \/ i = a + 1 \/ (i - (a + 1) \in DOMAIN B /\ cat[i] = B[i - (a + 1)])
  <2> SUFFICES ASSUME NEW i \in DOMAIN cat, i > a + 1 PROVE i - (a + 1) \in DOMAIN B /\ cat[i] = B[i - (a + 1)]
    BY <1>9
  <2>1. PICK j \in 1..Len(B) : j = i - (a + 1)
    BY <1>9
  <2>2. i = a + 1 + j
    BY <1>9, <2>1
  <2> QED
    BY <1>9, <2>1, <2>2
<1>11. \A i \in DOMAIN cat : i \notin 1..a => cat[i].url.site = acct.site /\ cat[i].email = acct.email
  BY <1>2, <1>8, <1>9, <1>10
<1>12. a + 1 \in DOMAIN cat /\ \A i \in 1..a : i \in DOMAIN cat
  BY <1>9
<1>13. /\ out \in Seq(AnyRows) /\ Deduped(out) /\ SitesOf(out) = SitesOf(cat)
       /\ \A k \in DOMAIN out : \E i, j \in DOMAIN cat :
            /\ cat[i].url.site = out[k].url.site /\ cat[j].url.site = out[k].url.site
            /\ out[k].id = cat[i].id /\ out[k].email = cat[j].email
            /\ \A m \in DOMAIN cat : cat[m].url.site = out[k].url.site => i <= m /\ m <= j
  <2>1. cat \in Seq(AnyRows)
    BY <1>9
  <2> QED
    BY ONLY <1>6, <2>1, DedupeSpec
<1>14. SitesOf(cat) = SitesOf(A) \cup {acct.site}
  <2>1. \A s \in SitesOf(cat) : s \in SitesOf(A) \cup {acct.site}
    BY <1>9, <1>11 DEF SitesOf, ToSet
  <2>2. acct.site \in SitesOf(cat)
    BY <1>11, <1>9, <1>12 DEF SitesOf, ToSet
  <2>3. \A s \in SitesOf(A) : s \in SitesOf(cat)
    BY <1>9, <1>12 DEF SitesOf, ToSet
  <2> QED
    BY <2>1, <2>2, <2>3
<1>15. ASSUME NEW k \in DOMAIN out
       PROVE  /\ IF out[k].url.site = acct.site THEN out[k].email = acct.email
                 ELSE \E j \in DOMAIN A : A[j].url.site = out[k].url.site /\ A[j].email = out[k].email
              /\ \/ out[k].url.site = acct.site /\ out[k].id = n
                 \/ \E i \in DOMAIN A : A[i].url.site = out[k].url.site /\ A[i].id = out[k].id
  <2>1. PICK i \in DOMAIN cat, j \in DOMAIN cat :
            /\ cat[i].url.site = out[k].url.site /\ cat[j].url.site = out[k].url.site
            /\ out[k].id = cat[i].id /\ out[k].email = cat[j].email
            /\ \A m \in DOMAIN cat : cat[m].url.site = out[k].url.site => i <= m /\ m <= j
    BY <1>13
  <2>2. i \in Nat /\ j \in Nat /\ a \in Nat
    BY <1>9
  <2>3. out[k].url.site = acct.site => i <= a + 1 /\ a + 1 <= j
    <3>1. cat[a + 1].url.site = acct.site
      BY <1>2, <1>9
    <3> QED
      BY <1>12, <2>1, <3>1
  <2>4. CASE out[k].url.site = acct.site
    <3>1. j \notin 1..a
      BY <2>2, <2>3, <2>4
    <3>2. out[k].email = acct.email
      BY <1>11, <2>1, <3>1
    <3>3. CASE i = a + 1
      BY <1>2, <1>9, <2>1, <2>4, <3>2, <3>3
    <3>4. CASE i # a + 1
      <4>1. i \in 1..a
        BY <1>9, <2>2, <2>3, <2>4, <3>4
      <4>2. A[i].url.site = out[k].url.site /\ A[i].id = out[k].id /\ i \in DOMAIN A
        BY <1>9, <2>1, <4>1
      <4> QED
        BY <2>4, <3>2, <4>2
    <3> QED
      BY <3>3, <3>4
  <2>5. CASE out[k].url.site # acct.site
    <3>1. i \in 1..a /\ j \in 1..a
      BY <1>11, <2>1, <2>5
    <3>2. /\ A[i].url.site = out[k].url.site /\ A[i].id = out[k].id /\ i \in DOMAIN A
          /\ A[j].url.site = out[k].url.site /\ A[j].email = out[k].email /\ j \in DOMAIN A
      BY <1>9, <2>1, <3>1
    <3> QED
      BY <2>5, <3>2
  <2> QED
    BY <2>4, <2>5
<1> QED
  BY <1>13, <1>14, <1>15 DEF A, Restored, Numbered
\* A reload gives no relay the id of another: its new id is above those of the row.
LEMMA RebuiltSound ==
  ASSUME NEW acct \in Snapshots, NEW n \in Nat, n + 1 \in RelayIds,
         Deduped(acct.relays), Unique(acct.relays), UpTo(acct.relays, n), NEW list \in Seq(RelayRows),
         NEW out, out = Rebuilt(acct, list, n + 1)
  PROVE  out \in Seq(RelayRows) /\ Unique(out) /\ UpTo(out, n + 1)
<1> DEFINE A == acct.relays
<1>1. /\ out \in Seq(AnyRows) /\ Deduped(out)
      /\ \A k \in DOMAIN out :
           \/ out[k].url.site = acct.site /\ out[k].id = n + 1
           \/ \E i \in DOMAIN A : A[i].url.site = out[k].url.site /\ A[i].id = out[k].id
  <2>1. /\ acct \in Snapshots /\ Deduped(acct.relays) /\ list \in Seq(RelayRows) /\ n + 1 \in Nat
        /\ out = Rebuilt(acct, list, n + 1)
    OBVIOUS
  <2> QED
    BY ONLY <2>1, RebuiltSpec DEF Numbered
<1>2. \A i \in DOMAIN A : A[i].id \in RelayIds /\ A[i].id <= n
  <2>1. A \in Seq(RelayRows)
    BY DEF Snapshots
  <2>2. \A i \in DOMAIN A : A[i] \in RelayRows
    BY <2>1
  <2> QED
    BY <2>2 DEF UpTo, RelayRows
<1>3. \A k \in DOMAIN out : out[k].id \in RelayIds /\ out[k].id <= n + 1
  <2>1. \A i \in DOMAIN A : A[i].id <= n + 1
    <3>1. \A i \in DOMAIN A : A[i].id \in Nat /\ A[i].id <= n
      BY <1>2, RowsAreAny
    <3> HIDE DEF A
    <3> QED
      BY <3>1
  <2> HIDE DEF A
  <2> QED
    BY <1>1, <1>2, <2>1
<1>4. \A k \in DOMAIN out : out[k] \in RelayRows
  <2>1. \A k \in DOMAIN out : out[k] \in AnyRows
    BY <1>1
  <2> QED
    BY <1>3, <2>1 DEF AnyRows, RelayRows
<1>5. out \in Seq(RelayRows)
  BY <1>1, <1>4
<1>6. ASSUME NEW k \in DOMAIN out, NEW q \in DOMAIN out, out[k].id = out[q].id PROVE k = q
  <2>1. ASSUME NEW r \in DOMAIN out
        PROVE  IF out[r].id = n + 1 THEN out[r].url.site = acct.site
               ELSE \E i \in DOMAIN A : A[i].url.site = out[r].url.site /\ A[i].id = out[r].id
    <3>1. \A i \in DOMAIN A : A[i].id # n + 1
      BY <1>2, RowsAreAny
    <3> QED
      BY <1>1, <3>1
  <2>2. out[k].url.site = out[q].url.site
    <3>1. CASE out[k].id = n + 1
      BY <1>6, <2>1, <3>1
    <3>2. CASE out[k].id # n + 1
      <4>1. PICK i \in DOMAIN A : A[i].url.site = out[k].url.site /\ A[i].id = out[k].id
        BY <2>1, <3>2
      <4>2. PICK j \in DOMAIN A : A[j].url.site = out[q].url.site /\ A[j].id = out[q].id
        BY <1>6, <2>1, <3>2
      <4>3. i = j
        BY <1>6, <4>1, <4>2 DEF Unique
      <4> QED
        BY <4>1, <4>2, <4>3
    <3> QED
      BY <3>1, <3>2
  <2> QED
    BY <1>1, <2>2 DEF Deduped
<1> QED
  BY <1>3, <1>5, <1>6 DEF Unique, UpTo

LEMMA UniqueIsInjective ==
  ASSUME NEW list \in Seq(RelayRows), Unique(list)
  PROVE  Injective(list) /\ \A r, x \in ToSet(list) : r.id = x.id => r = x
<1>1. DOMAIN list = 1..Len(list)
  OBVIOUS
<1> QED
  BY <1>1 DEF Unique, Injective, ToSet

\* An injective list of rows that differ in their ids.
LEMMA InjectiveIsUnique ==
  ASSUME NEW list \in Seq(RelayRows), Injective(list), \A r, x \in ToSet(list) : r.id = x.id => r = x
  PROVE  Unique(list)
<1>1. DOMAIN list = 1..Len(list)
  OBVIOUS
<1> QED
  BY <1>1 DEF Unique, Injective, ToSet

\* Setting credentials: the rows of other servers stay, and the server has one row.
LEMMA UpsertedSpec ==
  ASSUME NEW list \in Seq(RelayRows), Unique(list), NEW c \in Credentials, NEW k \in RelayIds,
         IF c.site \in SitesOf(list) THEN k = Row(c.site, list).id ELSE \A i \in DOMAIN list : list[i].id # k,
         NEW row, row = [id |-> k, url |-> Plain(c.site), email |-> c.email],
         NEW out, out = Upserted(list, c, k)
  PROVE  /\ row \in RelayRows /\ out \in Seq(RelayRows) /\ Unique(out)
         /\ ToSet(out) = {r \in ToSet(list) : r.url.site # c.site} \cup {row}
<1>1. row \in RelayRows /\ row.id = k /\ row.url.site = c.site /\ row.email = c.email
  BY DEF RelayRows, Urls, Plain, Credentials
<1>2. list \in Seq(AnyRows) /\ DOMAIN list = 1..Len(list)
  BY RowsAreAny
<1>3. CASE c.site \notin SitesOf(list)
  <2>1. out = Append(list, row)
    BY <1>3 DEF Upserted
  <2>2. /\ out \in Seq(RelayRows) /\ DOMAIN out = 1..Len(list) + 1 /\ out[Len(list) + 1] = row
        /\ Len(list) \in Nat /\ \A i \in 1..Len(list) : out[i] = list[i]
    BY <1>1, <2>1
  <2>3. \A i \in 1..Len(list) : list[i].id # k /\ list[i].url.site # c.site
    BY <1>2, <1>3 DEF SitesOf, ToSet
  <2>4. \A i \in DOMAIN out : i \in 1..Len(list) \/ i = Len(list) + 1
    BY <2>2
  <2>5. Unique(out)
    BY <1>1, <1>2, <2>2, <2>3, <2>4 DEF Unique
  <2>6. ToSet(out) = ToSet(list) \cup {row}
    BY <1>2, <2>2, <2>4 DEF ToSet
  <2>7. \A r \in ToSet(list) : r.url.site # c.site
    BY <1>2, <2>3 DEF ToSet
  <2> QED
    BY <1>1, <2>2, <2>5, <2>6, <2>7
<1>4. CASE c.site \in SitesOf(list)
  <2> DEFINE kept == Filter(list, {r \in ToSet(list) : r.url.site = c.site => r.id = k})
  <2>1. PICK f \in DOMAIN list : list[f].url.site = c.site /\ list[f].id = k
    BY <1>2, <1>4, FirstIs DEF Row
  <2>2. kept \in Seq(RelayRows) /\ Injective(kept)
        /\ ToSet(kept) = ToSet(list) \cap {r \in ToSet(list) : r.url.site = c.site => r.id = k}
    BY UniqueIsInjective, FilterSpec
  <2>3. out = [i \in DOMAIN kept |-> IF kept[i].id = k THEN row ELSE kept[i]]
    BY <1>4 DEF Upserted
  <2>4. \A r, x \in ToSet(list) : r.id = x.id => r = x
    BY UniqueIsInjective
  <2>5. Unique(kept)
    BY <2>2, <2>4, InjectiveIsUnique
  <2> HIDE DEF kept
  <2>6. /\ DOMAIN kept = 1..Len(kept) /\ Len(kept) \in Nat /\ DOMAIN out = DOMAIN kept
        /\ \A i \in DOMAIN kept : kept[i] \in RelayRows /\ kept[i] \in ToSet(kept)
    BY <2>2, <2>3 DEF ToSet
  <2>7. \A i \in DOMAIN kept : out[i] \in RelayRows /\ out[i].id = kept[i].id
    BY <1>1, <2>3, <2>6
  <2>8. out \in Seq(RelayRows)
    <3>1. out \in [1..Len(kept) -> RelayRows]
      BY <2>3, <2>6, <2>7
    <3> QED
      BY <2>6, <3>1
  <2>9. Unique(out)
    BY <2>5, <2>6, <2>7 DEF Unique
  <2>10. list[f] \in ToSet(list) /\ list[f] \in ToSet(kept)
    BY <2>1, <2>2 DEF ToSet
  <2>11. \A r \in ToSet(kept) : r.id = k <=> r.url.site = c.site
    BY <2>1, <2>2, <2>4, <2>10
  <2>12. \A r \in ToSet(out) : r = row \/ (r \in ToSet(list) /\ r.url.site # c.site)
    <3> SUFFICES ASSUME NEW i \in DOMAIN out
                 PROVE  out[i] = row \/ (out[i] \in ToSet(list) /\ out[i].url.site # c.site)
      BY DEF ToSet
    <3>1. kept[i] \in ToSet(kept) /\ out[i] = IF kept[i].id = k THEN row ELSE kept[i]
      BY <2>3, <2>6
    <3> QED
      BY <2>2, <2>11, <3>1
  <2>13. row \in ToSet(out)
    <3>1. PICK i \in DOMAIN kept : kept[i] = list[f]
      BY <2>10 DEF ToSet
    <3>2. out[i] = row
      BY <2>1, <2>3, <3>1
    <3> QED
      BY <2>6, <3>2 DEF ToSet
  <2>14. ASSUME NEW r \in ToSet(list), r.url.site # c.site PROVE r \in ToSet(out)
    <3>1. r \in ToSet(kept) /\ r.id # k
      BY <2>2, <2>11, <2>14
    <3>2. PICK i \in DOMAIN kept : kept[i] = r
      BY <3>1 DEF ToSet
    <3>3. out[i] = r
      BY <2>3, <3>1, <3>2
    <3> QED
      BY <2>6, <3>3 DEF ToSet
  <2> QED
    BY <1>1, <2>8, <2>9, <2>12, <2>13, <2>14
<1> QED
  BY <1>3, <1>4

\* Removing a row by its place.
LEMMA RemovedSpec ==
  ASSUME NEW list \in Seq(RelayRows), NEW i \in DOMAIN list, Unique(list), NEW out, out = RemoveAt(list, i)
  PROVE  out \in Seq(RelayRows) /\ Unique(out) /\ ToSet(out) = ToSet(list) \ {list[i]}
<1> DEFINE n == Len(list)
<1>1. n \in Nat /\ DOMAIN list = 1..n /\ i \in 1..n
  OBVIOUS
<1>2. PICK p : p = SubSeq(list, 1, i - 1)
  OBVIOUS
<1>3. PICK q : q = SubSeq(list, i + 1, n)
  OBVIOUS
<1>4. p \in Seq(RelayRows) /\ Len(p) = i - 1 /\ \A k \in 1..i - 1 : p[k] = list[k]
  <2>1. \A k \in 1..i - 1 : list[k] \in RelayRows
    BY <1>1
  <2>2. 1 \in Int /\ i - 1 \in Int
    BY <1>1
  <2>3. /\ p \in Seq(RelayRows)
        /\ Len(p) = IF 1 <= i - 1 THEN i - 1 - 1 + 1 ELSE 0
        /\ \A k \in 1..i - 1 - 1 + 1 : p[k] = list[1 + k - 1]
    BY ONLY <1>2, <2>1, <2>2, SubSeqProperties
  <2> QED
    BY <1>1, <2>3
<1>5. q \in Seq(RelayRows) /\ Len(q) = n - i /\ \A k \in 1..n - i : q[k] = list[i + k]
  <2>1. \A k \in i + 1..n : list[k] \in RelayRows
    BY <1>1
  <2>2. n \in Int /\ i + 1 \in Int
    BY <1>1
  <2>3. /\ q \in Seq(RelayRows)
        /\ Len(q) = IF i + 1 <= n THEN n - (i + 1) + 1 ELSE 0
        /\ \A k \in 1..n - (i + 1) + 1 : q[k] = list[i + 1 + k - 1]
    BY ONLY <1>3, <2>1, <2>2, SubSeqProperties
  <2> HIDE DEF n
  <2>4. Len(q) = n - i
    BY <1>1, <2>3
  <2>5. ASSUME NEW k \in 1..n - i PROVE q[k] = list[i + k]
    <3>1. k \in 1..n - (i + 1) + 1 /\ i + 1 + k - 1 = i + k
      BY <1>1
    <3> QED
      BY <2>3, <3>1
  <2> QED
    BY <2>3, <2>4, <2>5
<1>6. out = p \o q
  BY <1>2, <1>3 DEF RemoveAt
<1> HIDE DEF n
<1>7. /\ out \in Seq(RelayRows) /\ Len(out) = n - 1 /\ DOMAIN out = 1..n - 1
      /\ \A k \in 1..n - 1 : out[k] = IF k < i THEN list[k] ELSE list[k + 1]
  <2>1. p \o q \in Seq(RelayRows) /\ Len(p \o q) = Len(p) + Len(q)
    <3>1. p \in Seq(RelayRows) /\ q \in Seq(RelayRows)
      BY <1>4, <1>5
    <3> QED
      BY ONLY <3>1
  <2>2. \A k \in 1..Len(p) : (p \o q)[k] = p[k]
    OBVIOUS
  <2>3. \A k \in 1..Len(q) : (p \o q)[Len(p) + k] = q[k]
    OBVIOUS
  <2>4. ASSUME NEW k \in 1..n - 1 PROVE out[k] = IF k < i THEN list[k] ELSE list[k + 1]
    <3>1. CASE k < i
      BY <1>1, <1>4, <1>6, <2>2, <3>1
    <3>2. CASE ~(k < i)
      <4>1. PICK d \in 1..n - i : k = (i - 1) + d
        <5>1. k - (i - 1) \in 1..n - i /\ k = (i - 1) + (k - (i - 1))
          BY <1>1, <3>2
        <5> QED
          BY <5>1
      <4>2. out[k] = q[d]
        BY <1>4, <1>5, <1>6, <2>3, <4>1
      <4>3. i + d = k + 1
        BY <1>1, <4>1
      <4> QED
        BY <1>5, <3>2, <4>2, <4>3
    <3> QED
      BY <3>1, <3>2
  <2>5. out \in Seq(RelayRows) /\ Len(out) = n - 1
    BY <1>1, <1>4, <1>5, <1>6, <2>1
  <2> QED
    BY <2>4, <2>5
<1>8. Unique(out)
  <2> SUFFICES ASSUME NEW k \in 1..n - 1, NEW m \in 1..n - 1, out[k].id = out[m].id PROVE k = m
    BY <1>7 DEF Unique
  <2>1. PICK a \in 1..n : a = IF k < i THEN k ELSE k + 1
    BY <1>1
  <2>2. PICK b \in 1..n : b = IF m < i THEN m ELSE m + 1
    BY <1>1
  <2>3. out[k] = list[a] /\ out[m] = list[b]
    BY <1>7, <2>1, <2>2
  <2>4. a = b
    BY <1>1, <2>3 DEF Unique
  <2> QED
    BY <1>1, <2>1, <2>2, <2>4
<1>9. \A r \in ToSet(out) : r \in ToSet(list) \ {list[i]}
  <2> SUFFICES ASSUME NEW k \in 1..n - 1 PROVE out[k] \in ToSet(list) /\ out[k] # list[i]
    BY <1>7 DEF ToSet
  <2>1. PICK j \in 1..n : out[k] = list[j] /\ j # i
    <3>1. k \in 1..n /\ k + 1 \in 1..n
      BY <1>1
    <3> QED
      BY <1>1, <1>7, <3>1
  <2>2. list[j].id # list[i].id
    BY <1>1, <2>1 DEF Unique
  <2> QED
    BY <1>1, <2>1, <2>2 DEF ToSet
<1>10. ASSUME NEW j \in 1..n, j # i PROVE list[j] \in ToSet(out)
  <2>1. CASE j < i
    <3>1. j \in 1..n - 1 /\ out[j] = list[j]
      BY <1>1, <1>7, <2>1
    <3> QED
      BY <1>7, <3>1 DEF ToSet
  <2>2. CASE ~(j < i)
    <3>1. j - 1 \in 1..n - 1 /\ ~(j - 1 < i) /\ (j - 1) + 1 = j
      BY <1>1, <1>10, <2>2
    <3>2. out[j - 1] = list[j]
      BY <1>7, <3>1
    <3> QED
      BY <1>7, <3>1, <3>2 DEF ToSet
  <2> QED
    BY <2>1, <2>2
<1>11. \A r \in ToSet(list) \ {list[i]} : r \in ToSet(out)
  BY <1>1, <1>10 DEF ToSet
<1> QED
  BY <1>7, <1>8, <1>9, <1>11
-----------------------------------------------------------------------------
(* The keys and sockets of the transports *)

LEMMA TwoSpellings ==
  /\ \A s \in Sites : /\ Plain(s) \in Urls /\ Plain(s).site = s /\ ~Plain(s).slash
                      /\ Slashed(s) \in Urls /\ Slashed(s).site = s /\ Slashed(s).slash
                      /\ Plain(s) # Slashed(s)
  /\ \A u \in Urls : u.site \in Sites /\ u = IF u.slash THEN Slashed(u.site) ELSE Plain(u.site)
<1>1. \A s \in Sites : /\ Plain(s) \in Urls /\ Plain(s).site = s /\ ~Plain(s).slash
                       /\ Slashed(s) \in Urls /\ Slashed(s).site = s /\ Slashed(s).slash
  BY DEF Urls, Plain, Slashed
<1>2. \A s \in Sites : Plain(s) # Slashed(s)
  BY <1>1
<1>3. \A u \in Urls : u.site \in Sites /\ u = IF u.slash THEN Slashed(u.site) ELSE Plain(u.site)
  BY DEF Urls, Plain, Slashed
<1> QED
  BY <1>1, <1>2, <1>3

\* upsertRelay takes a transport of the server, or an unused one.
LEMMA CredentialsWire ==
  ASSUME Wired, NEW c, c.site \in Sites, NEW found, SetCredentials(c, found)
  PROVE  Wired'
<1> DEFINE p == Plain(c.site)
           q == Slashed(c.site)
<1>1. PICK t \in AnyFor(c.site) : transports' = [transports EXCEPT ![p] = t, ![q] = None]
  BY DEF SetCredentials
<1>2. socket' = socket /\ p \in Urls /\ q \in Urls /\ p.site = c.site /\ p # q
  BY TwoSpellings DEF SetCredentials
<1>3. t \in Transports /\ socket[t] \in {c.site, None}
  BY <1>2, TwoSpellings DEF AnyFor, Unused, Wired
<1>4. \A u \in Urls : transports[u] = t => u \in {p, q}
  BY <1>2, <1>3, NoneAssumption DEF AnyFor, Unused, Wired
<1> HIDE DEF p, q
<1>5. /\ transports' \in [Urls -> Transports \cup {None}]
      /\ \A u \in Urls : transports'[u] = IF u = p THEN t ELSE IF u = q THEN None ELSE transports[u]
  BY <1>1, <1>2, <1>3 DEF Wired
<1>6. \A u, v \in Urls : transports'[u] = transports'[v] => u = v \/ transports'[u] = None
  BY <1>4, <1>5 DEF Wired
<1>7. \A u \in Urls : transports'[u] # None => socket'[transports'[u]] \in {u.site, None}
  BY <1>2, <1>3, <1>5 DEF Wired
<1> QED
  BY <1>2, <1>5, <1>6, <1>7 DEF Wired

\* A new relay has an unused transport.
LEMMA AddsWire ==
  ASSUME Wired, NEW u \in Urls, NEW e, Adds(u, e)
  PROVE  Wired'
<1>1. PICK t \in Unused : transports' = [transports EXCEPT ![u] = t]
  BY DEF Adds
<1>2. /\ socket' = socket /\ t \in Transports /\ socket[t] = None
      /\ \A v \in Urls : transports[v] # t
  BY DEF Adds, Unused
<1>3. /\ transports' \in [Urls -> Transports \cup {None}]
      /\ \A v \in Urls : transports'[v] = IF v = u THEN t ELSE transports[v]
  BY <1>1, <1>2 DEF Wired
<1> QED
  BY <1>2, <1>3 DEF Wired

LEMMA ConnectWires ==
  ASSUME Wired, NEW s \in Sites, ConnectTo(s)
  PROVE  Wired'
<1> DEFINE p == Plain(s)
<1>1. PICK t \in For(s) :
        /\ transports' = [u \in Urls |-> IF u = p THEN t ELSE IF transports[u] = t THEN None ELSE transports[u]]
        /\ socket' = [socket EXCEPT ![t] = s]
  BY DEF ConnectTo
<1>2. p \in Urls /\ p.site = s
  BY TwoSpellings
<1>3. t \in Transports
  BY TwoSpellings DEF For, Unused, Wired
<1> HIDE DEF p
<1>4. /\ transports' \in [Urls -> Transports \cup {None}]
      /\ \A u \in Urls : transports'[u] = IF u = p THEN t ELSE IF transports[u] = t THEN None ELSE transports[u]
  BY <1>1, <1>2, <1>3 DEF Wired
<1>5. socket' \in [Transports -> Sites \cup {None}] /\ \A x \in Transports : socket'[x] = IF x = t THEN s ELSE socket[x]
  BY <1>1, <1>3 DEF Wired
<1>6. \A u, v \in Urls : transports'[u] = transports'[v] => u = v \/ transports'[u] = None
  BY <1>3, <1>4, NoneAssumption DEF Wired
<1>7. ASSUME NEW u \in Urls, transports'[u] # None PROVE socket'[transports'[u]] \in {u.site, None}
  <2>1. CASE u = p
    BY <1>2, <1>3, <1>4, <1>5, <2>1
  <2>2. CASE u # p
    <3>1. transports'[u] = transports[u] /\ transports[u] # t /\ transports[u] \in Transports
      BY <1>4, <1>7, <2>2 DEF Wired
    <3> QED
      BY <1>5, <1>7, <3>1 DEF Wired
  <2> QED
    BY <2>1, <2>2
<1> QED
  BY <1>4, <1>5, <1>6, <1>7 DEF Wired

LEMMA DisconnectWires ==
  ASSUME Wired, NEW keys,
         transports' = [u \in Urls |-> IF u \in keys THEN None ELSE transports[u]],
         \A t \in Transports : socket'[t] \in {socket[t], None}, socket' = [t \in Transports |-> socket'[t]]
  PROVE  Wired'
<1>1. /\ transports' \in [Urls -> Transports \cup {None}]
      /\ \A u \in Urls : transports'[u] \in {transports[u], None}
  BY DEF Wired
<1>2. \A t \in Transports : socket'[t] \in Sites \cup {None}
  BY DEF Wired
<1>3. socket' \in [Transports -> Sites \cup {None}]
  BY <1>2
<1>4. \A u, v \in Urls : transports'[u] = transports'[v] => u = v \/ transports'[u] = None
  BY <1>1 DEF Wired
<1>5. ASSUME NEW u \in Urls, transports'[u] # None PROVE socket'[transports'[u]] \in {u.site, None}
  <2>1. transports'[u] = transports[u] /\ transports[u] \in Transports
    BY <1>1, <1>5 DEF Wired
  <2> QED
    BY <1>5, <2>1 DEF Wired
<1> QED
  BY <1>1, <1>3, <1>4, <1>5 DEF Wired

LEMMA RemoveWires ==
  ASSUME Wired, NEW i \in DOMAIN relays, RemoveRelay(i)
  PROVE  Wired'
<1> DEFINE u == relays[i].url
<1>1. /\ transports' = [transports EXCEPT ![u] = None]
      /\ socket' = [t \in Transports |-> IF t = transports[u] THEN None ELSE socket[t]]
  BY DEF RemoveRelay
<1> HIDE DEF u
<1>2. transports' = [v \in Urls |-> IF v \in {u} THEN None ELSE transports[v]]
  BY <1>1 DEF Wired
<1>3. \A t \in Transports : socket'[t] \in {socket[t], None}
  BY <1>1
<1>4. socket' = [t \in Transports |-> socket'[t]]
  BY <1>1
<1> QED
  BY <1>2, <1>3, <1>4, DisconnectWires

LEMMA LoadWires ==
  ASSUME Wired, NEW l \in Loads, LoadTransports(l)
  PROVE  Wired'
<1>1. PICK f \in [Sites -> Transports \cup {None}] :
        /\ \A s \in Sites : IF s \in SitesOf(relays) THEN f[s] \in {t \in Transports : socket[t] = None} ELSE f[s] = None
        /\ \A s, x \in SitesOf(relays) : f[s] = f[x] => s = x
        /\ transports' = [u \in Urls |-> IF u.slash THEN None ELSE f[u.site]]
  BY DEF LoadTransports
<1>2. socket' = socket
  BY DEF LoadTransports
<1>3. \A u \in Urls : u.site \in Sites
  BY TwoSpellings
<1>4. /\ transports' \in [Urls -> Transports \cup {None}]
      /\ \A u \in Urls : transports'[u] = IF u.slash THEN None ELSE f[u.site]
  BY <1>1, <1>3
<1>5. ASSUME NEW u \in Urls, transports'[u] # None
      PROVE  /\ u = Plain(u.site) /\ u.site \in SitesOf(relays)
             /\ transports'[u] = f[u.site] /\ socket[transports'[u]] = None
  <2>1. ~u.slash /\ transports'[u] = f[u.site]
    BY <1>4, <1>5
  <2> QED
    BY <1>1, <1>3, <1>5, <2>1, TwoSpellings
<1>6. ASSUME NEW u \in Urls, NEW v \in Urls, transports'[u] = transports'[v], transports'[u] # None
      PROVE  u = v
  <2>1. u.site = v.site
    BY <1>1, <1>5, <1>6
  <2> QED
    BY <1>5, <1>6, <2>1
<1> QED
  BY <1>2, <1>4, <1>5, <1>6 DEF Wired

LEMMA WiredStep ==
  ASSUME Wired, Loading, [RelaysNext]_relaysVars
  PROVE  Wired'
<1>1. ASSUME UNCHANGED <<transports, socket>> PROVE Wired'
  BY <1>1 DEF Wired
<1>2. CASE Persist \/ PersistFails
  BY <1>1, <1>2 DEF Persist, PersistFails, wires
<1>3. ASSUME NEW c \in Credentials, Repins(c) PROVE Wired'
  BY <1>3, CredentialsWire DEF Repins, Credentials
<1>4. ASSUME NEW u \in Urls, NEW e \in Emails, AddRelay(u, e) PROVE Wired'
  BY <1>4, AddsWire DEF AddRelay
<1>5. ASSUME NEW s \in Sites, NEW e \in Emails, Register(s, e) PROVE Wired'
  BY <1>5, AddsWire, TwoSpellings DEF Register
<1>6. ASSUME NEW i \in DOMAIN relays, RemoveRelay(i) PROVE Wired'
  BY <1>6, RemoveWires
<1>7. ASSUME NEW s \in Sites, ConnectTo(s) PROVE Wired'
  BY <1>7, ConnectWires
<1>8. ASSUME NEW t \in Transports, SocketCloses(t) PROVE Wired'
  <2>1. transports' = transports /\ socket' = [socket EXCEPT ![t] = None]
    BY <1>8 DEF SocketCloses
  <2>2. /\ socket' \in [Transports -> Sites \cup {None}]
        /\ \A x \in Transports : socket'[x] \in {socket[x], None}
    BY <2>1 DEF Wired
  <2> QED
    BY <2>1, <2>2 DEF Wired
<1>9. ASSUME NEW keys, DisconnectFrom(keys) PROVE Wired'
  <2>1. /\ transports' = [u \in Urls |-> IF u \in keys THEN None ELSE transports[u]]
        /\ socket' = [t \in Transports |-> IF \E u \in keys : transports[u] = t THEN None ELSE socket[t]]
    BY <1>9 DEF DisconnectFrom
  <2>2. \A t \in Transports : socket'[t] \in {socket[t], None}
    BY <2>1
  <2>3. socket' = [t \in Transports |-> socket'[t]]
    BY <2>1
  <2> QED
    BY <2>1, <2>2, <2>3, DisconnectWires
<1>10. ASSUME NEW l \in Loads, NEW then \in Pins \cup {None}, LoadBegins(l, then) PROVE Wired'
  BY <1>1, <1>10 DEF LoadBegins, wires
<1>11. ASSUME NEW l \in Loads,
              LoadFindsNone(l) \/ LoadFinds(l) \/ LoadReadsAgain(l) \/ LoadRelays(l) \/ LoadRejects(l)
       PROVE  Wired'
  BY <1>1, <1>11 DEF LoadFindsNone, LoadFinds, LoadReadsAgain, LoadRelays, LoadRejects, wires
<1>12. ASSUME NEW l \in Loads, LoadTransports(l) PROVE Wired'
  BY <1>12, LoadWires
<1>13. ASSUME NEW l \in Loads, LoadPins(l) PROVE Wired'
  <2>1. load[l].then \in Pins
    BY <1>13 DEF LoadPins, Loading
  <2>2. load[l].then.site \in Sites
    BY <2>1 DEF Pins
  <2>3. PICK c : c = [site |-> load[l].then.site, email |-> load[l].then.email]
    OBVIOUS
  <2>4. \E found : SetCredentials(c, found)
    BY <1>13, <2>3 DEF LoadPins
  <2> QED
    BY <2>2, <2>3, <2>4, CredentialsWire
<1>14. CASE UNCHANGED relaysVars
  BY <1>1, <1>14 DEF relaysVars, wires
<1> QED
  BY <1>2, <1>3, <1>4, <1>5, <1>6, <1>7, <1>8, <1>9, <1>10, <1>11, <1>12, <1>13, <1>14 DEF RelaysNext
-----------------------------------------------------------------------------
(* The rows in memory, on disk and in the loads *)

LEMMA RowIds ==
  ASSUME NEW list \in Seq(RelayRows), NEW i \in DOMAIN list
  PROVE  list[i] \in RelayRows /\ list[i].id \in RelayIds /\ list[i].id \in Nat
<1>1. list[i] \in RelayRows
  OBVIOUS
<1> QED
  BY <1>1, RowsAreAny DEF RelayRows

LEMMA PrimaryIs ==
  ASSUME NEW list \in Seq(RelayRows), Unique(list), NEW i \in DOMAIN list
  PROVE  PrimaryOf(list, list[i].id) = list[i]
<1> DEFINE here == {k \in DOMAIN list : list[k].id = list[i].id}
<1>1. here = {i}
  BY DEF Unique
<1>2. PrimaryOf(list, list[i].id) = list[IF here = {} THEN 1 ELSE CHOOSE k \in here : TRUE]
  BY DEF PrimaryOf
<1> HIDE DEF here
<1> QED
  BY <1>1, <1>2

LEMMA PrimaryListed ==
  ASSUME Listed, relays # <<>>
  PROVE  PrimaryRelay \in ToSet(relays) /\ PrimaryRelay \in RelayRows /\ PrimaryRelay.id = primary
<1>1. PICK i \in DOMAIN relays : relays[i].id = primary
  BY DEF Listed
<1>2. PrimaryRelay = relays[i]
  BY <1>1, PrimaryIs DEF Listed, PrimaryRelay
<1> QED
  BY <1>1, <1>2 DEF Listed, ToSet

LEMMA SoundGrows ==
  ASSUME NEW acct \in Snapshots \cup {None}, NEW n \in Nat, NEW m \in Nat, n <= m, Sound(acct, n)
  PROVE  Sound(acct, m)
<1> SUFFICES ASSUME acct # None PROVE UpTo(acct.relays, m)
  BY DEF Sound
<1>1. acct.relays \in Seq(RelayRows)
  BY DEF Snapshots
<1>2. \A i \in DOMAIN acct.relays : acct.relays[i].id \in Nat
  BY <1>1, RowIds
<1>3. \A i \in DOMAIN acct.relays : acct.relays[i].id <= n
  BY DEF Sound, UpTo
<1> QED
  BY <1>2, <1>3 DEF UpTo

\* What setting credentials does to the relays, whoever sets them.
LEMMA CredentialsList ==
  ASSUME Listed, NEW c \in Credentials, NEW found, SetCredentials(c, found)
  PROVE  /\ Listed' /\ ids <= ids' /\ relays' # <<>>
         /\ PrimaryRelay'.url.site = c.site /\ PrimaryRelay'.email = c.email
         /\ ToSet(relays') = {r \in ToSet(relays) : r.url.site # c.site} \cup {PrimaryRelay'}
<1>1. PICK known \in BOOLEAN : known <=> c.site \in SitesOf(relays)
  OBVIOUS
<1>2. PICK k : k = IF known THEN Row(c.site, relays).id ELSE ids + 1
  OBVIOUS
<1>3. /\ known \/ ids < MaxIds
      /\ relays' = Upserted(relays, c, k) /\ primary' = k
      /\ ids' = IF known THEN ids ELSE k
  BY <1>1, <1>2 DEF SetCredentials
<1>4. relays \in Seq(RelayRows) /\ relays \in Seq(AnyRows) /\ Unique(relays) /\ ids \in RelayIds /\ ids \in Nat
  BY RowsAreAny DEF Listed
<1>5. /\ \A i \in DOMAIN relays : relays[i].id \in RelayIds /\ relays[i].id \in Nat /\ relays[i].id <= ids
  BY <1>4, RowIds DEF Listed, UpTo
<1>6. /\ k \in RelayIds /\ ids' \in RelayIds /\ ids <= ids' /\ k <= ids'
      /\ IF c.site \in SitesOf(relays) THEN k = Row(c.site, relays).id ELSE \A i \in DOMAIN relays : relays[i].id # k
  <2>1. CASE known
    <3>1. First(c.site, relays) \in DOMAIN relays
      BY <1>1, <1>4, <2>1, FirstIs
    <3>2. k \in RelayIds /\ k <= ids
      BY <1>2, <1>5, <2>1, <3>1 DEF Row
    <3> QED
      BY <1>1, <1>2, <1>3, <1>4, <2>1, <3>2
  <2>2. CASE ~known
    <3>1. k = ids + 1 /\ ids' = k /\ ids < MaxIds
      BY <1>2, <1>3, <2>2
    <3>2. k \in RelayIds
      BY <1>4, <3>1, RelayBoundAssumption DEF RelayIds
    <3>3. \A i \in DOMAIN relays : relays[i].id # k
      BY <1>4, <1>5, <3>1
    <3> QED
      BY <1>1, <1>4, <2>2, <3>1, <3>2, <3>3
  <2> QED
    BY <2>1, <2>2
<1>7. PICK row : row = [id |-> k, url |-> Plain(c.site), email |-> c.email]
  OBVIOUS
<1>8. /\ row \in RelayRows /\ relays' \in Seq(RelayRows) /\ Unique(relays')
      /\ ToSet(relays') = {r \in ToSet(relays) : r.url.site # c.site} \cup {row}
  BY <1>3, <1>4, <1>6, <1>7, UpsertedSpec
<1>9. PICK i \in DOMAIN relays' : relays'[i] = row
  BY <1>8 DEF ToSet
<1>10. PrimaryRelay' = row
  <2>1. relays'[i].id = primary'
    BY <1>3, <1>7, <1>9
  <2>2. PrimaryOf(relays', relays'[i].id) = relays'[i]
    BY <1>8, PrimaryIs
  <2> QED
    BY <1>9, <2>1, <2>2 DEF PrimaryRelay
<1>11. UpTo(relays', ids')
  <2> SUFFICES ASSUME NEW j \in DOMAIN relays' PROVE relays'[j].id <= ids'
    BY DEF UpTo
  <2>1. relays'[j] \in ToSet(relays')
    BY DEF ToSet
  <2>2. CASE relays'[j] = row
    BY <1>6, <1>7, <2>2
  <2>3. CASE relays'[j] # row
    <3>1. PICK m \in DOMAIN relays : relays'[j] = relays[m]
      BY <1>8, <2>1, <2>3 DEF ToSet
    <3>2. ids' \in Nat
      BY <1>6, RowsAreAny
    <3> QED
      BY <1>4, <1>5, <1>6, <3>1, <3>2
  <2> QED
    BY <2>2, <2>3
<1>12. relays' # <<>> /\ relays'[i].id = primary'
  BY <1>3, <1>7, <1>8, <1>9
<1>13. Listed'
  BY <1>6, <1>8, <1>9, <1>11, <1>12 DEF Listed
<1>14. row.url.site = c.site /\ row.email = c.email
  BY <1>7 DEF Plain
<1> QED
  BY <1>6, <1>8, <1>10, <1>12, <1>13, <1>14
LEMMA AddsList ==
  ASSUME Listed, NEW u \in Urls, NEW e \in Emails, Adds(u, e)
  PROVE  Listed' /\ ids <= ids' /\ relays' # <<>> /\ persistTimer'
<1>1. PICK r : r = [id |-> ids + 1, url |-> u, email |-> e]
  OBVIOUS
<1>2. /\ ids < MaxIds /\ ids' = ids + 1 /\ relays' = Append(relays, r)
      /\ primary' = IF primary = 0 THEN ids' ELSE primary
      /\ persistTimer' = (persistTimer \/ relays' # <<>>)
  BY <1>1 DEF Adds, SchedulePersist
<1>3. relays \in Seq(RelayRows) /\ Unique(relays) /\ ids \in RelayIds /\ ids \in Nat
  BY RowsAreAny DEF Listed
<1>4. \A i \in DOMAIN relays : relays[i].id \in RelayIds /\ relays[i].id \in Nat /\ relays[i].id <= ids
  BY <1>3, RowIds DEF Listed, UpTo
<1>5. ids' \in RelayIds /\ ids <= ids' /\ ids' \in Nat /\ ids' # 0
  BY <1>2, <1>3, RelayBoundAssumption DEF RelayIds
<1>6. r \in RelayRows /\ r.id = ids'
  BY <1>1, <1>2, <1>5 DEF RelayRows
<1>7. PICK n \in Nat : n = Len(relays)
  BY <1>3
<1>8. /\ relays' \in Seq(RelayRows) /\ DOMAIN relays' = 1..n + 1 /\ relays'[n + 1] = r
      /\ DOMAIN relays = 1..n /\ \A i \in 1..n : relays'[i] = relays[i]
  BY <1>2, <1>3, <1>6, <1>7
<1>9. \A i \in 1..n + 1 : i \in 1..n \/ i = n + 1
  BY <1>7
<1>10. \A i \in 1..n : relays'[i].id < ids'
  BY <1>2, <1>3, <1>4, <1>8
<1>11. Unique(relays') /\ UpTo(relays', ids')
  <2>1. \A i \in 1..n : relays'[i].id # ids' /\ relays'[i].id <= ids'
    BY <1>3, <1>4, <1>5, <1>8, <1>10
  <2>2. \A i, k \in 1..n : relays'[i].id = relays'[k].id => i = k
    BY <1>3, <1>8 DEF Unique
  <2> QED
    BY <1>5, <1>6, <1>8, <1>9, <2>1, <2>2 DEF Unique, UpTo
<1>12. relays' # <<>> /\ n + 1 \in DOMAIN relays'
  BY <1>8
<1>13. \E i \in DOMAIN relays' : relays'[i].id = primary'
  <2>1. CASE primary = 0
    BY <1>2, <1>6, <1>8, <1>12, <2>1
  <2>2. CASE primary # 0
    <3>1. PICK i \in DOMAIN relays : relays[i].id = primary
      BY <2>2 DEF Listed
    <3> QED
      BY <1>2, <1>8, <1>9, <2>2, <3>1
  <2> QED
    BY <2>1, <2>2
<1> QED
  BY <1>2, <1>5, <1>8, <1>11, <1>12, <1>13 DEF Listed

LEMMA RemoveLists ==
  ASSUME Listed, NEW i \in DOMAIN relays, RemoveRelay(i)
  PROVE  Listed' /\ ids' = ids
<1>1. /\ relays' = RemoveAt(relays, i) /\ ids' = ids
      /\ primary' = IF relays[i].id # primary THEN primary
                    ELSE IF relays' = <<>> THEN 0 ELSE relays'[1].id
  BY DEF RemoveRelay
<1>2. relays \in Seq(RelayRows) /\ Unique(relays) /\ ids \in RelayIds
  BY DEF Listed
<1>3. relays' \in Seq(RelayRows) /\ Unique(relays') /\ ToSet(relays') = ToSet(relays) \ {relays[i]}
  BY <1>1, <1>2, RemovedSpec
<1>4. UpTo(relays', ids')
  <2> SUFFICES ASSUME NEW k \in DOMAIN relays' PROVE relays'[k].id <= ids
    BY <1>1 DEF UpTo
  <2>1. relays'[k] \in ToSet(relays)
    BY <1>3 DEF ToSet
  <2> QED
    BY <2>1 DEF Listed, UpTo, ToSet
<1>5. CASE relays[i].id # primary
  <2>1. PICK k \in DOMAIN relays : relays[k].id = primary
    BY DEF Listed
  <2>2. relays[k] \in ToSet(relays')
    BY <1>3, <1>5, <2>1 DEF ToSet
  <2>3. PICK m \in DOMAIN relays' : relays'[m] = relays[k]
    BY <2>2 DEF ToSet
  <2>4. relays' # <<>>
    BY <2>3
  <2> QED
    BY <1>1, <1>2, <1>3, <1>4, <1>5, <2>1, <2>3, <2>4 DEF Listed
<1>6. CASE relays[i].id = primary
  <2>1. CASE relays' = <<>>
    BY <1>1, <1>2, <1>3, <1>4, <1>6, <2>1 DEF Listed
  <2>2. CASE relays' # <<>>
    <3>1. 1 \in DOMAIN relays' /\ relays'[1].id = primary'
      BY <1>1, <1>3, <1>6, <2>2
    <3> QED
      BY <1>1, <1>2, <1>3, <1>4, <2>2, <3>1 DEF Listed
  <2> QED
    BY <2>1, <2>2
<1> QED
  BY <1>1, <1>5, <1>6

\* What a load makes of the relays.
LEMMA LoadLists ==
  ASSUME Listed, Loading, NEW l \in Loads, LoadRelays(l)
  PROVE  /\ Listed' /\ ids <= ids' /\ relays' # <<>>
         /\ PrimaryRelay'.url.site = load[l].acct.site
         /\ PrimaryRelay'.email = load[l].acct.email
<1>1. PICK acct : acct = load[l].acct
  OBVIOUS
<1>2. acct \in Snapshots /\ Unique(acct.relays) /\ UpTo(acct.relays, ids) /\ Deduped(acct.relays)
  <2>1. load[l].at = "read" /\ acct # None
    BY <1>1 DEF LoadRelays, Loading
  <2> QED
    BY <1>1, <2>1 DEF Loading, Sound
<1>3. /\ ids < MaxIds /\ ids' = ids + 1 /\ relays' = Rebuilt(acct, relays, ids + 1)
      /\ primary' = Row(acct.site, relays').id
  BY <1>1 DEF LoadRelays
<1>4. relays \in Seq(RelayRows) /\ ids \in RelayIds /\ ids \in Nat /\ ids + 1 \in Nat
  BY RowsAreAny DEF Listed
<1>5. ids + 1 \in RelayIds
  BY <1>3, <1>4, RelayBoundAssumption DEF RelayIds
<1>6. relays' \in Seq(RelayRows) /\ Unique(relays') /\ UpTo(relays', ids + 1)
  BY ONLY <1>2, <1>3, <1>4, <1>5, RebuiltSound
<1>7. /\ relays' \in Seq(AnyRows) /\ SitesOf(relays') = SitesOf(acct.relays) \cup {acct.site}
      /\ \A k \in DOMAIN relays' : relays'[k].url.site = acct.site => relays'[k].email = acct.email
  <2>1. PICK out : out = relays'
    OBVIOUS
  <2>2. out = Rebuilt(acct, relays, ids + 1)
    BY <1>3, <2>1
  <2>3. /\ out \in Seq(AnyRows) /\ SitesOf(out) = SitesOf(acct.relays) \cup {acct.site}
        /\ \A k \in DOMAIN out : Restored(acct, out[k])
    BY ONLY <1>2, <1>4, <2>2, RebuiltSpec
  <2> QED
    BY ONLY <2>1, <2>3 DEF Restored
<1>8. PICK f \in DOMAIN relays' : f = First(acct.site, relays') /\ relays'[f].url.site = acct.site
  BY <1>7, FirstIs
<1>9. primary' = relays'[f].id
  BY <1>3, <1>8 DEF Row
<1>10. PrimaryRelay' = relays'[f]
  BY <1>6, <1>9, PrimaryIs DEF PrimaryRelay
<1>11. relays' # <<>>
  BY <1>8
<1> QED
  BY <1>1, <1>3, <1>4, <1>5, <1>6, <1>7, <1>8, <1>9, <1>10, <1>11 DEF Listed

LEMMA ListedStep ==
  ASSUME Listed, Loading, [RelaysNext]_relaysVars
  PROVE  Listed' /\ ids <= ids'
<1>1. ids \in Nat
  BY RowsAreAny DEF Listed
<1>2. ASSUME UNCHANGED rows PROVE Listed' /\ ids <= ids'
  BY <1>1, <1>2 DEF rows, Listed
<1>3. CASE Persist \/ PersistFails
  BY <1>2, <1>3 DEF Persist, PersistFails
<1>4. ASSUME NEW c \in Credentials, Repins(c) PROVE Listed' /\ ids <= ids'
  BY <1>4, CredentialsList DEF Repins
<1>5. ASSUME NEW u \in Urls, NEW e \in Emails, AddRelay(u, e) PROVE Listed' /\ ids <= ids'
  BY <1>5, AddsList DEF AddRelay
<1>6. ASSUME NEW s \in Sites, NEW e \in Emails, Register(s, e) PROVE Listed' /\ ids <= ids'
  BY <1>6, AddsList, TwoSpellings DEF Register
<1>7. ASSUME NEW i \in DOMAIN relays, RemoveRelay(i) PROVE Listed' /\ ids <= ids'
  BY <1>1, <1>7, RemoveLists
<1>8. ASSUME NEW s \in Sites, ConnectTo(s) PROVE Listed' /\ ids <= ids'
  BY <1>2, <1>8 DEF ConnectTo
<1>9. ASSUME NEW t \in Transports, SocketCloses(t) PROVE Listed' /\ ids <= ids'
  BY <1>2, <1>9 DEF SocketCloses
<1>10. ASSUME NEW keys, DisconnectFrom(keys) PROVE Listed' /\ ids <= ids'
  BY <1>2, <1>10 DEF DisconnectFrom
<1>11. ASSUME NEW l \in Loads, NEW then \in Pins \cup {None}, LoadBegins(l, then) PROVE Listed' /\ ids <= ids'
  BY <1>2, <1>11 DEF LoadBegins
<1>12. ASSUME NEW l \in Loads,
              LoadFindsNone(l) \/ LoadFinds(l) \/ LoadReadsAgain(l) \/ LoadTransports(l) \/ LoadRejects(l)
       PROVE  Listed' /\ ids <= ids'
  BY <1>2, <1>12 DEF LoadFindsNone, LoadFinds, LoadReadsAgain, LoadTransports, LoadRejects
<1>13. ASSUME NEW l \in Loads, LoadRelays(l) PROVE Listed' /\ ids <= ids'
  BY <1>13, LoadLists
<1>14. ASSUME NEW l \in Loads, LoadPins(l) PROVE Listed' /\ ids <= ids'
  <2>1. load[l].then \in Pins
    BY <1>14 DEF LoadPins, Loading
  <2>2. PICK c : c = [site |-> load[l].then.site, email |-> load[l].then.email]
    OBVIOUS
  <2>3. c \in Credentials
    BY <2>1, <2>2 DEF Pins, Credentials
  <2>4. \E found : SetCredentials(c, found)
    BY <1>14, <2>2 DEF LoadPins
  <2> QED
    BY <2>3, <2>4, CredentialsList
<1>15. CASE UNCHANGED relaysVars
  BY <1>2, <1>15 DEF relaysVars
<1> QED
  BY <1>3, <1>4, <1>5, <1>6, <1>7, <1>8, <1>9, <1>10, <1>11, <1>12, <1>13, <1>14, <1>15 DEF RelaysNext
\* saveToStore writes a row that a load can read back.
LEMMA SnapshotIs ==
  ASSUME Listed, relays # <<>>, NEW s, s = Snapshot
  PROVE  /\ s \in Snapshots /\ Sound(s, ids) /\ s.email = PrimaryRelay.email
         /\ s.site = PrimaryRelay.url.site
         /\ SitesOf(s.relays) = SitesOf(relays)
         /\ \A k \in DOMAIN s.relays : \E j \in DOMAIN relays :
               relays[j].url.site = s.relays[k].url.site /\ s.relays[k].email = relays[j].email
<1>1. PICK out : out = DedupeRelays(relays)
  OBVIOUS
<1>2. s = [site |-> PrimaryRelay.url.site, email |-> PrimaryRelay.email, relays |-> out]
  BY <1>1 DEF Snapshot
<1>3. relays \in Seq(RelayRows) /\ relays \in Seq(AnyRows) /\ Unique(relays) /\ UpTo(relays, ids) /\ ids \in Nat
  BY RowsAreAny DEF Listed
<1>4. /\ out \in Seq(RelayRows) /\ Unique(out) /\ UpTo(out, ids)
      /\ \A k \in DOMAIN out : \E j \in DOMAIN relays :
            relays[j].url.site = out[k].url.site /\ out[k].email = relays[j].email
  BY ONLY <1>1, <1>3, DedupeSound
<1>5. Deduped(out) /\ SitesOf(out) = SitesOf(relays)
  BY ONLY <1>1, <1>3, DedupeSpec
<1>6. PrimaryRelay \in RelayRows
  BY PrimaryListed
<1>7. PrimaryRelay.url.site \in Sites /\ PrimaryRelay.email \in Emails
  BY <1>6 DEF RelayRows, Urls
<1>8. s \in Snapshots /\ s.relays = out /\ s.email = PrimaryRelay.email /\ s.site = PrimaryRelay.url.site
  BY <1>2, <1>4, <1>7 DEF Snapshots
<1> QED
  BY <1>4, <1>5, <1>8 DEF Sound

LEMMA StoredStep ==
  ASSUME Ranges, Listed, Stored, Loading, [RelaysNext]_relaysVars
  PROVE  Stored'
<1>1. ids \in Nat /\ ids' \in Nat /\ ids <= ids'
  BY ListedStep, RowsAreAny DEF Listed
<1>2. ASSUME NEW acct \in Snapshots \cup {None}, Sound(acct, ids) PROVE Sound(acct, ids')
  BY <1>1, <1>2, SoundGrows
<1>3. ASSUME disk' = disk PROVE Stored'
  <2>1. \A d, e \in Emails : disk[d][e] \in Snapshots \cup {None} /\ Sound(disk[d][e], ids)
    BY DEF Stored
  <2> QED
    BY <1>2, <1>3, <2>1 DEF Stored
<1>4. CASE Persist
  <2>1. CASE relays = <<>>
    BY <1>3, <1>4, <2>1 DEF Persist
  <2>2. CASE relays # <<>>
    <3>1. PICK s : s = Snapshot
      OBVIOUS
    <3>2. PICK e : e = PrimaryRelay.email
      OBVIOUS
    <3>3. s \in Snapshots /\ Sound(s, ids) /\ s.email = e /\ ids' = ids
      BY <1>4, <2>2, <3>1, <3>2, SnapshotIs DEF Persist, rows
    <3>4. disk' = [disk EXCEPT ![db][e] = s]
      BY <1>4, <2>2, <3>1, <3>2 DEF Persist
    <3>5. db \in Emails /\ e \in Emails
      BY <3>3 DEF Ranges, Snapshots
    <3>6. PICK q : q = [disk[db] EXCEPT ![e] = s]
      OBVIOUS
    <3>7. q \in [Emails -> Snapshots \cup {None}] /\ \A x \in Emails : q[x] = IF x = e THEN s ELSE disk[db][x]
      BY <3>3, <3>5, <3>6 DEF Stored
    <3>8. disk' = [disk EXCEPT ![db] = q]
      BY <3>4, <3>6
    <3>9. /\ disk' \in [Emails -> [Emails -> Snapshots \cup {None}]]
          /\ \A d \in Emails : disk'[d] = IF d = db THEN q ELSE disk[d]
      BY <3>5, <3>7, <3>8 DEF Stored
    <3>10. ASSUME NEW d \in Emails, NEW x \in Emails
           PROVE  Sound(disk'[d][x], ids) /\ (disk'[d][x] # None => disk'[d][x].email = x)
      <4>1. Sound(disk[d][x], ids) /\ (disk[d][x] # None => disk[d][x].email = x)
        BY DEF Stored
      <4>2. disk'[d][x] = IF d = db /\ x = e THEN s ELSE disk[d][x]
        BY <3>7, <3>9
      <4> QED
        BY <3>3, <4>1, <4>2
    <3> QED
      BY <3>3, <3>9, <3>10 DEF Stored
  <2> QED
    BY <2>1, <2>2
<1>5. ASSUME NEW c \in Credentials, Repins(c) PROVE Stored'
  BY <1>3, <1>5 DEF Repins, store
<1>6. ASSUME NEW u \in Urls, NEW e \in Emails, AddRelay(u, e) PROVE Stored'
  BY <1>3, <1>6 DEF AddRelay, Adds
<1>7. ASSUME NEW s \in Sites, NEW e \in Emails, Register(s, e) PROVE Stored'
  BY <1>3, <1>7 DEF Register, Adds
<1>8. ASSUME NEW i \in DOMAIN relays, RemoveRelay(i) PROVE Stored'
  BY <1>3, <1>8 DEF RemoveRelay, store
<1>9. ASSUME NEW s \in Sites, ConnectTo(s) PROVE Stored'
  BY <1>3, <1>9 DEF ConnectTo, store
<1>10. ASSUME NEW t \in Transports, SocketCloses(t) PROVE Stored'
  BY <1>3, <1>10 DEF SocketCloses, store
<1>11. ASSUME NEW keys, DisconnectFrom(keys) PROVE Stored'
  BY <1>3, <1>11 DEF DisconnectFrom, store
<1>12. ASSUME NEW l \in Loads, NEW then \in Pins \cup {None}, LoadBegins(l, then) PROVE Stored'
  BY <1>3, <1>12 DEF LoadBegins, store
<1>13. ASSUME NEW l \in Loads,
              \/ LoadFindsNone(l) \/ LoadFinds(l) \/ LoadReadsAgain(l) \/ LoadRelays(l)
              \/ LoadTransports(l) \/ LoadRejects(l) \/ LoadPins(l)
       PROVE  Stored'
  BY <1>3, <1>13
     DEF LoadFindsNone, LoadFinds, LoadReadsAgain, LoadRelays, LoadTransports, LoadRejects, LoadPins, store
<1>14. CASE UNCHANGED relaysVars \/ PersistFails
  BY <1>3, <1>14 DEF relaysVars, store, PersistFails
<1> QED
  BY <1>4, <1>5, <1>6, <1>7, <1>8, <1>9, <1>10, <1>11, <1>12, <1>13, <1>14 DEF RelaysNext

\* What a load finds in a database is a row that is there.
LEMMA FoundIs ==
  ASSUME Ranges, Stored, NEW x, NEW e \in Found(x)
  PROVE  e \in Emails /\ disk[db][e] # None /\ disk[db][e] \in Snapshots /\ Sound(disk[db][e], ids)
<1>1. e \in Written(db) /\ db \in Emails
  BY DEF Found, Ranges
<1> QED
  BY <1>1 DEF Written, Stored

LoadRows == [at : Points, acct : Snapshots \cup {None}, then : Pins \cup {None}]
LoadIs(r, n) ==
    /\ r \in LoadRows /\ Sound(r.acct, n)
    /\ r.at \in {"scoped", "read"} => r.acct # None
    /\ r.at \in {"pin", "caught"} => r.then # None

LEMMA LoadChanges ==
  ASSUME Loading, ids \in Nat, ids' \in Nat, ids <= ids', NEW l \in Loads, NEW r,
         load' = [load EXCEPT ![l] = r], LoadIs(r, ids')
  PROVE  Loading'
<1>1. load' \in [Loads -> LoadRows] /\ \A k \in Loads : load'[k] = IF k = l THEN r ELSE load[k]
  BY DEF Loading, LoadIs, LoadRows
<1>2. ASSUME NEW k \in Loads PROVE LoadIs(load'[k], ids')
  <2>1. CASE k = l
    BY <1>1, <2>1
  <2>2. CASE k # l
    <3>1. load[k] \in LoadRows /\ LoadIs(load[k], ids)
      BY DEF Loading, LoadIs, LoadRows
    <3>2. load[k].acct \in Snapshots \cup {None} /\ Sound(load[k].acct, ids)
      BY <3>1 DEF LoadRows, LoadIs
    <3>3. Sound(load[k].acct, ids')
      BY <3>2, SoundGrows
    <3> QED
      BY <1>1, <2>2, <3>1, <3>3 DEF LoadIs
  <2> QED
    BY <2>1, <2>2
<1> QED
  BY <1>1, <1>2 DEF Loading, LoadIs, LoadRows

LEMMA LoadingStep ==
  ASSUME Ranges, Listed, Stored, Loading, [RelaysNext]_relaysVars
  PROVE  Loading'
<1>1. ids \in Nat /\ ids' \in Nat /\ ids <= ids'
  BY ListedStep, RowsAreAny DEF Listed
<1>2. \A l \in Loads : LoadIs(load[l], ids) /\ load[l].acct \in Snapshots \cup {None}
                       /\ load[l].at \in Points /\ load[l].then \in Pins \cup {None}
  BY DEF Loading, LoadIs, LoadRows
<1>3. ASSUME load' = load PROVE Loading'
  <2>1. \A l \in Loads : Sound(load[l].acct, ids')
    BY <1>1, <1>2, SoundGrows DEF LoadIs
  <2> QED
    BY <1>3, <2>1 DEF Loading
<1>4. load \in [Loads -> LoadRows]
  BY DEF Loading, LoadRows
<1>5. CASE Persist \/ PersistFails
  BY <1>3, <1>5 DEF Persist, PersistFails
<1>6. ASSUME NEW c \in Credentials, Repins(c) PROVE Loading'
  BY <1>3, <1>6 DEF Repins
<1>7. ASSUME NEW u \in Urls, NEW e \in Emails, AddRelay(u, e) PROVE Loading'
  BY <1>3, <1>7 DEF AddRelay, Adds
<1>8. ASSUME NEW s \in Sites, NEW e \in Emails, Register(s, e) PROVE Loading'
  BY <1>3, <1>8 DEF Register, Adds
<1>9. ASSUME NEW i \in DOMAIN relays, RemoveRelay(i) PROVE Loading'
  BY <1>3, <1>9 DEF RemoveRelay
<1>10. ASSUME NEW s \in Sites, ConnectTo(s) PROVE Loading'
  BY <1>3, <1>10 DEF ConnectTo
<1>11. ASSUME NEW t \in Transports, SocketCloses(t) PROVE Loading'
  BY <1>3, <1>11 DEF SocketCloses
<1>12. ASSUME NEW keys, DisconnectFrom(keys) PROVE Loading'
  BY <1>3, <1>12 DEF DisconnectFrom
<1>13. ASSUME NEW l \in Loads, NEW then \in Pins \cup {None}, LoadBegins(l, then) PROVE Loading'
  <2>1. PICK r : r = [at |-> "find", acct |-> None, then |-> then]
    OBVIOUS
  <2>2. LoadIs(r, ids')
    BY <2>1 DEF LoadIs, LoadRows, Points, Sound
  <2>3. load' = [load EXCEPT ![l] = r]
    BY <1>13, <2>1 DEF LoadBegins
  <2> QED
    BY <1>1, <2>2, <2>3, LoadChanges
<1>14. ASSUME NEW l \in Loads, NEW at \in Points, load' = [load EXCEPT ![l].at = at],
              at \notin {"scoped", "read"} \/ load[l].acct # None, at \in {"pin", "caught"} => load[l].then # None
       PROVE  Loading'
  <2>1. PICK r : r = [load[l] EXCEPT !.at = at]
    OBVIOUS
  <2>2. r \in LoadRows /\ r.at = at /\ r.acct = load[l].acct /\ r.then = load[l].then
    <3>1. load[l] \in LoadRows
      BY <1>4
    <3> QED
      BY <2>1, <3>1 DEF LoadRows
  <2>3. Sound(r.acct, ids')
    BY <1>1, <1>2, <2>2, SoundGrows DEF LoadIs
  <2>4. LoadIs(r, ids')
    BY <1>14, <2>2, <2>3 DEF LoadIs
  <2>5. load' = [load EXCEPT ![l] = r]
    BY <1>14, <2>1
  <2> QED
    BY <1>1, <2>4, <2>5, LoadChanges
<1>15. ASSUME NEW l \in Loads, NEW at \in {"scoped", "read"}, NEW e \in Emails, disk[db][e] # None,
              disk[db][e] \in Snapshots, Sound(disk[db][e], ids),
              load' = [load EXCEPT ![l].at = at, ![l].acct = disk[db][e]]
       PROVE  Loading'
  <2>1. PICK acct : acct = disk[db][e]
    OBVIOUS
  <2>2. PICK r : r = [[load[l] EXCEPT !.at = at] EXCEPT !.acct = acct]
    OBVIOUS
  <2>3. r \in LoadRows /\ r.at = at /\ r.acct = acct
    <3>1. load[l] \in LoadRows /\ acct \in Snapshots /\ at \in Points
      BY <1>4, <1>15, <2>1 DEF Points
    <3> QED
      BY <2>2, <3>1 DEF LoadRows
  <2>4. Sound(r.acct, ids')
    BY <1>1, <1>15, <2>1, <2>3, SoundGrows
  <2>5. LoadIs(r, ids')
    BY <1>15, <2>1, <2>3, <2>4 DEF LoadIs
  <2>6. load' = [load EXCEPT ![l] = r]
    BY <1>4, <1>15, <2>1, <2>2
  <2> QED
    BY <1>1, <2>5, <2>6, LoadChanges
<1>16. ASSUME NEW l \in Loads, LoadFindsNone(l) PROVE Loading'
  <2>1. PICK at : at = After(l)
    OBVIOUS
  <2>2. load' = [load EXCEPT ![l].at = at]
    BY <1>16, <2>1 DEF LoadFindsNone
  <2>3. at \in Points /\ at \notin {"scoped", "read"} /\ (at \in {"pin", "caught"} => load[l].then # None)
    BY <2>1 DEF After, Points
  <2> QED
    BY <1>14, <2>2, <2>3
<1>17. ASSUME NEW l \in Loads, LoadFinds(l) PROVE Loading'
  <2>1. PICK x : x = IF relays = <<>> THEN None ELSE PrimaryRelay.email
    OBVIOUS
  <2>2. PICK e \in Found(x) : load' = [load EXCEPT ![l].at = "scoped", ![l].acct = disk[db][e]]
    BY <1>17, <2>1 DEF LoadFinds
  <2> QED
    BY <1>15, <2>2, FoundIs
<1>18. ASSUME NEW l \in Loads, LoadReadsAgain(l) PROVE Loading'
  <2>1. CASE Written(db) = {}
    <3>1. load' = [load EXCEPT ![l].at = "read"] /\ load[l].acct # None
      BY <1>18, <2>1 DEF LoadReadsAgain, Loading
    <3> QED
      BY <1>14, <3>1 DEF Points
  <2>2. CASE Written(db) # {}
    <3>1. PICK x : x = load[l].acct.email
      OBVIOUS
    <3>2. PICK e \in Found(x) : load' = [load EXCEPT ![l].at = "read", ![l].acct = disk[db][e]]
      BY <1>18, <2>2, <3>1 DEF LoadReadsAgain
    <3> QED
      BY <1>15, <3>2, FoundIs
  <2> QED
    BY <2>1, <2>2
<1>19. ASSUME NEW l \in Loads, LoadRelays(l) PROVE Loading'
  BY <1>14, <1>19 DEF LoadRelays, Points
<1>20. ASSUME NEW l \in Loads, LoadTransports(l) PROVE Loading'
  <2>1. PICK at : at = After(l)
    OBVIOUS
  <2>2. load' = [load EXCEPT ![l].at = at]
    BY <1>20, <2>1 DEF LoadTransports
  <2>3. at \in Points /\ at \notin {"scoped", "read"} /\ (at \in {"pin", "caught"} => load[l].then # None)
    BY <2>1 DEF After, Points
  <2> QED
    BY <1>14, <2>2, <2>3
<1>21. LoadIs(NoLoad, ids')
  BY DEF LoadIs, LoadRows, Points, Sound, NoLoad
<1>22. ASSUME NEW l \in Loads, LoadPins(l) PROVE Loading'
  <2>1. load' = [load EXCEPT ![l] = NoLoad]
    BY <1>22 DEF LoadPins
  <2> QED
    BY <1>1, <1>21, <2>1, LoadChanges
<1>23. ASSUME NEW l \in Loads, LoadRejects(l) PROVE Loading'
  <2>1. CASE load' = [load EXCEPT ![l] = NoLoad]
    BY <1>1, <1>21, <2>1, LoadChanges
  <2>2. CASE load' = [load EXCEPT ![l].at = "caught"] /\ load[l].then # None
    BY <1>14, <2>2 DEF Points
  <2> QED
    BY <1>23, <2>1, <2>2 DEF LoadRejects
<1>24. CASE UNCHANGED relaysVars
  BY <1>3, <1>24 DEF relaysVars
<1> QED
  BY <1>5, <1>6, <1>7, <1>8, <1>9, <1>10, <1>11, <1>12, <1>13, <1>16, <1>17, <1>18, <1>19, <1>20, <1>22, <1>23,
     <1>24 DEF RelaysNext

LEMMA RangesStep ==
  ASSUME Ranges, Listed, Stored, Loading, [RelaysNext]_relaysVars
  PROVE  Ranges'
<1> USE RelayBoundAssumption DEF Ranges, Counted
<1>1. CASE Persist \/ PersistFails
  <2>1. CASE Persist
    BY <2>1 DEF Persist
  <2>2. CASE PersistFails
    <3>1. ops' \in 0..MaxOps /\ db' \in Emails
      BY SMT, <2>2 DEF PersistFails
    <3>2. persistTimer' \in BOOLEAN /\ stale' \in BOOLEAN
      BY ZenonT(30), <2>2 DEF PersistFails
    <3> QED
      BY <3>1, <3>2
  <2> QED
    BY <1>1, <2>1, <2>2
<1>2. ASSUME NEW c \in Credentials, Repins(c) PROVE Ranges'
  BY <1>2 DEF Repins, SetCredentials, store
<1>3. ASSUME NEW u \in Urls, NEW e \in Emails, AddRelay(u, e) PROVE Ranges'
  BY <1>3 DEF AddRelay, Adds, SchedulePersist
<1>4. ASSUME NEW s \in Sites, NEW e \in Emails, Register(s, e) PROVE Ranges'
  BY <1>4 DEF Register, Adds, SchedulePersist
<1>5. ASSUME NEW i \in DOMAIN relays, RemoveRelay(i) PROVE Ranges'
  BY <1>5 DEF RemoveRelay, SchedulePersist, store
<1>6. ASSUME NEW s \in Sites, ConnectTo(s) PROVE Ranges'
  BY <1>6 DEF ConnectTo, store
<1>7. ASSUME NEW t \in Transports, SocketCloses(t) PROVE Ranges'
  BY <1>7 DEF SocketCloses, store
<1>8. ASSUME NEW keys, DisconnectFrom(keys) PROVE Ranges'
  BY <1>8 DEF DisconnectFrom, store
<1>9. ASSUME NEW l \in Loads, NEW then \in Pins \cup {None}, LoadBegins(l, then) PROVE Ranges'
  BY <1>9 DEF LoadBegins, store
<1>10. ASSUME NEW l \in Loads, LoadFinds(l) PROVE Ranges'
  <2>1. PICK x : x = IF relays = <<>> THEN None ELSE PrimaryRelay.email
    OBVIOUS
  <2>2. PICK e \in Found(x) : db' = e
    BY <1>10, <2>1 DEF LoadFinds
  <2>3. db' \in Emails
    BY <2>2, FoundIs
  <2> QED
    BY <1>10, <2>3 DEF LoadFinds
<1>11. ASSUME NEW l \in Loads, LoadFindsNone(l) \/ LoadReadsAgain(l) \/ LoadTransports(l) PROVE Ranges'
  BY <1>11 DEF LoadFindsNone, LoadReadsAgain, LoadTransports, store
<1>12. ASSUME NEW l \in Loads, LoadRelays(l) PROVE Ranges'
  BY <1>12 DEF LoadRelays
<1>13. ASSUME NEW l \in Loads, LoadPins(l) PROVE Ranges'
  BY <1>13 DEF LoadPins, SetCredentials, store
<1>14. ASSUME NEW l \in Loads, LoadRejects(l) PROVE Ranges'
  <2>1. stale' \in BOOLEAN
    BY ZenonT(30), <1>14 DEF LoadRejects, Rebuilding
  <2> QED
    BY <1>14, <2>1 DEF LoadRejects
<1>15. CASE UNCHANGED relaysVars
  BY <1>15 DEF relaysVars, store
<1> QED
  BY <1>1, <1>2, <1>3, <1>4, <1>5, <1>6, <1>7, <1>8, <1>9, <1>10, <1>11, <1>12, <1>13, <1>14, <1>15 DEF RelaysNext
-----------------------------------------------------------------------------
(* The row on disk gives the relays back *)

LEMMA StillSynced ==
  ASSUME Synced, relays' = relays, primary' = primary, db' = db, disk' = disk, stale' = stale,
         persistTimer' = persistTimer, \A l \in Loads : Rebuilding(l) => Rebuilding(l)'
  PROVE  Synced'
<1>1. PrimaryRelay' = PrimaryRelay
  BY DEF PrimaryRelay
<1>2. Matches(disk[db][db]) => Matches(disk[db][db])'
  BY <1>1 DEF Matches
<1> QED
  BY <1>1, <1>2 DEF Synced

LEMMA PersistSyncs ==
  ASSUME Ranges, Listed, Stored, Persist
  PROVE  Synced'
<1>1. CASE relays = <<>>
  BY <1>1 DEF Persist, rows, Synced
<1>2. CASE relays # <<>> /\ db = PrimaryRelay.email
  <2>1. PICK s : s = Snapshot
    OBVIOUS
  <2>2. /\ s \in Snapshots /\ s.site = PrimaryRelay.url.site /\ SitesOf(s.relays) = SitesOf(relays)
        /\ \A k \in DOMAIN s.relays : \E j \in DOMAIN relays :
              relays[j].url.site = s.relays[k].url.site /\ s.relays[k].email = relays[j].email
    BY <1>2, <2>1, SnapshotIs
  <2>3. relays' = relays /\ primary' = primary /\ db' = db /\ disk' = [disk EXCEPT ![db][db] = s]
    BY <1>2, <2>1 DEF Persist, rows
  <2>4. disk'[db][db] = s
    BY <2>3 DEF Ranges, Stored
  <2>5. PrimaryRelay' = PrimaryRelay
    BY <2>3 DEF PrimaryRelay
  <2>6. PrimaryRelay.url.site \in SitesOf(relays)
    BY <1>2, PrimaryListed DEF SitesOf
  <2>7. s # None
    BY <2>2, NoneAssumption
  <2> QED
    BY <2>2, <2>3, <2>4, <2>5, <2>6, <2>7 DEF Synced, Matches
<1>3. CASE relays # <<>> /\ db # PrimaryRelay.email
  <2>1. relays' = relays /\ primary' = primary /\ db' = db
    BY DEF Persist, rows
  <2>2. PrimaryRelay' = PrimaryRelay
    BY <2>1 DEF PrimaryRelay
  <2> QED
    BY <1>3, <2>1, <2>2 DEF Synced
<1> QED
  BY <1>1, <1>2, <1>3

\* Setting credentials again changes nothing a row shows; setting others is
\* written, as is what a load found nothing for.
LEMMA CredentialsSync ==
  ASSUME Listed, Synced, NEW c \in Credentials, NEW found, SetCredentials(c, found),
         db' = db, disk' = disk, stale' = stale, persistTimer => persistTimer',
         persistTimer' \/ (/\ c.site \in SitesOf(relays) /\ primary = Row(c.site, relays).id
                          /\ Row(c.site, relays).email = c.email
                          /\ \A l \in Loads : Rebuilding(l) => \E k \in Loads : Rebuilding(k)')
  PROVE  Synced'
<1>1. SUFFICES ASSUME ~persistTimer' PROVE Synced'
  BY DEF Synced
<1>2. PICK p : p = PrimaryRelay'
  OBVIOUS
<1>3. /\ p.url.site = c.site /\ p.email = c.email
      /\ ToSet(relays') = {r \in ToSet(relays) : r.url.site # c.site} \cup {p}
  BY <1>2, CredentialsList
<1>4. c.site \in SitesOf(relays) /\ primary = Row(c.site, relays).id /\ Row(c.site, relays).email = c.email
  BY <1>1
<1>5. relays \in Seq(RelayRows) /\ relays \in Seq(AnyRows) /\ Unique(relays)
  BY RowsAreAny DEF Listed
<1>6. PICK f \in DOMAIN relays : f = First(c.site, relays) /\ relays[f].url.site = c.site
  BY <1>4, <1>5, FirstIs
<1>7. PrimaryRelay = relays[f]
  BY <1>4, <1>5, <1>6, PrimaryIs DEF Row, PrimaryRelay
<1>8. PrimaryRelay.url.site = c.site /\ PrimaryRelay.email = c.email
  BY <1>4, <1>6, <1>7 DEF Row
<1>9. SitesOf(relays') = SitesOf(relays)
  <2>1. \A s \in SitesOf(relays') : s \in SitesOf(relays)
    BY <1>3, <1>4 DEF SitesOf
  <2>2. \A s \in SitesOf(relays) : s \in SitesOf(relays')
    BY <1>3 DEF SitesOf
  <2> QED
    BY <2>1, <2>2
<1>10. ASSUME NEW acct, Matches(acct) PROVE Matches(acct)'
  <2>1. ASSUME NEW i \in DOMAIN acct.relays, acct.relays[i].url.site # acct.site
        PROVE  \E k \in DOMAIN relays' : /\ relays'[k].url.site = acct.relays[i].url.site
                                         /\ relays'[k].email = acct.relays[i].email
    <3>1. PICK k \in DOMAIN relays : /\ relays[k].url.site = acct.relays[i].url.site
                                    /\ relays[k].email = acct.relays[i].email
      BY <1>10, <2>1 DEF Matches
    <3>2. relays[k] \in ToSet(relays) /\ relays[k].url.site # c.site
      BY <1>8, <1>10, <2>1, <3>1 DEF Matches, ToSet
    <3>3. relays[k] \in ToSet(relays')
      BY <1>3, <3>2
    <3> QED
      BY <3>1, <3>3 DEF ToSet
  <2>2. acct # None /\ acct.site = p.url.site /\ SitesOf(acct.relays) \cup {acct.site} = SitesOf(relays')
    BY <1>3, <1>8, <1>9, <1>10 DEF Matches
  <2> QED
    BY <1>2, <2>1, <2>2 DEF Matches
<1>11. PICK acct : acct = disk[db][db]
  OBVIOUS
<1>12. \/ stale \/ (\E l \in Loads : Rebuilding(l)) \/ db # PrimaryRelay.email \/ Matches(acct)
  BY <1>1, <1>6, <1>11 DEF Synced
<1>13. \/ stale' \/ (\E l \in Loads : Rebuilding(l)') \/ db' # p.email \/ Matches(acct)'
  BY <1>1, <1>3, <1>8, <1>10, <1>12
<1> QED
  BY <1>2, <1>11, <1>13 DEF Synced

\* The relays that a load makes are those of the row it read.
LEMMA LoadSyncs ==
  ASSUME Ranges, Listed, Stored, Loading, NEW l \in Loads, LoadRelays(l)
  PROVE  Synced'
<1>1. PICK acct : acct = load[l].acct
  OBVIOUS
<1>2. acct \in Snapshots /\ acct # None /\ Unique(acct.relays) /\ UpTo(acct.relays, ids) /\ Deduped(acct.relays)
  <2>1. load[l].at = "read" /\ acct # None
    BY <1>1 DEF LoadRelays, Loading
  <2> QED
    BY <1>1, <2>1 DEF Loading, Sound
<1>3. PrimaryRelay'.url.site = acct.site /\ PrimaryRelay'.email = acct.email
  BY <1>1, LoadLists
<1>4. /\ relays' = Rebuilt(acct, relays, ids + 1) /\ db' = db /\ disk' = disk
      /\ stale' = (stale \/ acct # disk[db][acct.email])
  BY <1>1 DEF LoadRelays
<1>5. relays \in Seq(RelayRows) /\ ids + 1 \in Nat
  BY RowsAreAny DEF Listed
<1>6. PICK out : out = relays'
  OBVIOUS
<1>7. out = Rebuilt(acct, relays, ids + 1)
  BY <1>4, <1>6
<1>8. /\ SitesOf(out) = SitesOf(acct.relays) \cup {acct.site}
      /\ \A k \in DOMAIN out : Restored(acct, out[k])
  BY ONLY <1>2, <1>5, <1>7, RebuiltSpec
<1>9. ASSUME NEW i \in DOMAIN acct.relays, acct.relays[i].url.site # acct.site
      PROVE  \E k \in DOMAIN out : out[k].url.site = acct.relays[i].url.site /\ out[k].email = acct.relays[i].email
  <2>1. acct.relays[i].url.site \in SitesOf(out)
    BY <1>8 DEF SitesOf, ToSet
  <2>2. PICK k \in DOMAIN out : out[k].url.site = acct.relays[i].url.site
    BY <2>1 DEF SitesOf, ToSet
  <2>3. PICK j \in DOMAIN acct.relays : acct.relays[j].url.site = out[k].url.site /\ acct.relays[j].email = out[k].email
    BY <1>8, <1>9, <2>2 DEF Restored
  <2>4. i = j
    BY <1>2, <2>2, <2>3 DEF Deduped
  <2> QED
    BY <2>2, <2>3, <2>4
<1>10. Matches(acct)'
  BY <1>2, <1>3, <1>6, <1>8, <1>9 DEF Matches
<1>11. db' = PrimaryRelay'.email /\ ~stale' => acct = disk'[db'][db']
  BY <1>3, <1>4
<1> QED
  BY <1>10, <1>11 DEF Synced

LEMMA SyncedStep ==
  ASSUME Ranges, Listed, Stored, Loading, Synced, [RelaysNext]_relaysVars
  PROVE  Synced'
<1>1. ASSUME UNCHANGED <<rows, store, persistTimer, load>> PROVE Synced'
  <2>1. \A l \in Loads : Rebuilding(l) => Rebuilding(l)'
    BY <1>1 DEF Rebuilding
  <2> QED
    BY <1>1, <2>1, StillSynced DEF rows, store
<1>2. CASE Persist \/ PersistFails
  BY <1>2, PersistSyncs DEF PersistFails, Synced
<1>3. ASSUME NEW c \in Credentials, Repins(c) PROVE Synced'
  <2>1. SetCredentials(c, TRUE) /\ db' = db /\ disk' = disk /\ stale' = stale /\ load' = load
    BY <1>3 DEF Repins, store
  <2>2. \A l \in Loads : Rebuilding(l) => Rebuilding(l)'
    BY <2>1 DEF Rebuilding
  <2>3. /\ persistTimer => persistTimer'
        /\ persistTimer' \/ (/\ c.site \in SitesOf(relays) /\ primary = Row(c.site, relays).id
                             /\ Row(c.site, relays).email = c.email)
    BY <2>1 DEF SetCredentials
  <2> QED
    BY <2>1, <2>2, <2>3, CredentialsSync
<1>4. ASSUME NEW u \in Urls, NEW e \in Emails, AddRelay(u, e) PROVE Synced'
  BY <1>4, AddsList DEF AddRelay, Synced
<1>5. ASSUME NEW s \in Sites, NEW e \in Emails, Register(s, e) PROVE Synced'
  BY <1>5, AddsList, TwoSpellings DEF Register, Synced
<1>6. ASSUME NEW i \in DOMAIN relays, RemoveRelay(i) PROVE Synced'
  BY <1>6 DEF RemoveRelay, SchedulePersist, Synced
<1>7. ASSUME NEW s \in Sites, ConnectTo(s) PROVE Synced'
  BY <1>1, <1>7 DEF ConnectTo
<1>8. ASSUME NEW t \in Transports, SocketCloses(t) PROVE Synced'
  BY <1>1, <1>8 DEF SocketCloses
<1>9. ASSUME NEW keys, DisconnectFrom(keys) PROVE Synced'
  BY <1>1, <1>9 DEF DisconnectFrom
<1>10. ASSUME NEW l \in Loads, NEW then \in Pins \cup {None}, LoadBegins(l, then) PROVE Synced'
  <2>1. /\ load[l].at = "idle" /\ load' = [load EXCEPT ![l] = [at |-> "find", acct |-> None, then |-> then]]
        /\ UNCHANGED <<rows, store, persistTimer>>
    BY <1>10 DEF LoadBegins
  <2>2. \A k \in Loads : k # l => load'[k] = load[k]
    BY <2>1 DEF Loading
  <2>3. \A k \in Loads : Rebuilding(k) => Rebuilding(k)'
    BY <2>1, <2>2 DEF Rebuilding
  <2> QED
    BY <2>1, <2>3, StillSynced DEF rows, store
<1>11. ASSUME NEW l \in Loads, NEW at, load' = [load EXCEPT ![l].at = at], UNCHANGED <<rows, store, persistTimer>>,
              Rebuilding(l) => Rebuilding(l)'
       PROVE  Synced'
  <2>1. \A k \in Loads : k # l => load'[k] = load[k]
    BY <1>11 DEF Loading
  <2>2. \A k \in Loads : Rebuilding(k) => Rebuilding(k)'
    BY <1>11, <2>1 DEF Rebuilding
  <2> QED
    BY <1>11, <2>2, StillSynced DEF rows, store
<1>12. ASSUME NEW l \in Loads, LoadFindsNone(l) PROVE Synced'
  <2>1. load[l].at = "find" /\ load' = [load EXCEPT ![l].at = After(l)] /\ UNCHANGED <<rows, store, persistTimer>>
    BY <1>12 DEF LoadFindsNone
  <2>2. load'[l].at = After(l) /\ load'[l].acct = load[l].acct /\ load'[l].then = load[l].then
    BY <2>1 DEF Loading
  <2>3. Rebuilding(l) => Rebuilding(l)'
    BY <2>1, <2>2 DEF Rebuilding, After
  <2> QED
    BY <1>11, <2>1, <2>3
<1>13. ASSUME NEW l \in Loads, NEW at \in {"scoped", "read"}, load'[l].at = at PROVE Synced'
  BY <1>13 DEF Synced, Rebuilding
<1>14. ASSUME NEW l \in Loads, LoadFinds(l) PROVE Synced'
  <2>1. load'[l].at = "scoped"
    BY <1>14 DEF LoadFinds, Loading
  <2> QED
    BY <1>13, <2>1
<1>15. ASSUME NEW l \in Loads, LoadReadsAgain(l) PROVE Synced'
  <2>1. load'[l].at = "read"
    BY <1>15 DEF LoadReadsAgain, Loading
  <2> QED
    BY <1>13, <2>1
<1>16. ASSUME NEW l \in Loads, LoadRelays(l) PROVE Synced'
  BY <1>16, LoadSyncs
<1>17. ASSUME NEW l \in Loads, LoadTransports(l) PROVE Synced'
  <2>1. load[l].at = "keys" /\ load' = [load EXCEPT ![l].at = After(l)] /\ UNCHANGED <<rows, store, persistTimer>>
    BY <1>17 DEF LoadTransports
  <2> QED
    BY <1>11, <2>1 DEF Rebuilding
<1>18. ASSUME NEW l \in Loads, LoadPins(l) PROVE Synced'
  <2>1. PICK c : c = [site |-> load[l].then.site, email |-> load[l].then.email]
    OBVIOUS
  <2>2. load[l].then \in Pins /\ load[l].at \in {"pin", "caught"} /\ load[l].then # None
    BY <1>18 DEF LoadPins, Loading
  <2>3. c \in Credentials
    BY <2>1, <2>2 DEF Pins, Credentials
  <2>0. PICK found : found = (load[l].at = "caught" \/ load[l].acct # None \/ ~load[l].then.made)
    OBVIOUS
  <2>4. /\ SetCredentials(c, found)
        /\ db' = db /\ disk' = disk /\ stale' = stale
        /\ load' = [load EXCEPT ![l] = NoLoad]
    BY <1>18, <2>0, <2>1 DEF LoadPins, store
  <2>5. /\ persistTimer => persistTimer'
        /\ \/ persistTimer'
           \/ /\ c.site \in SitesOf(relays) /\ primary = Row(c.site, relays).id
              /\ Row(c.site, relays).email = c.email
              /\ found
    BY <2>4 DEF SetCredentials
  <2>6. \A k \in Loads : k # l => load'[k] = load[k]
    BY <2>4 DEF Loading
  <2>7. found => \A k \in Loads : Rebuilding(k) => Rebuilding(k)'
    BY <2>0, <2>2, <2>6 DEF Rebuilding
  <2> QED
    BY <2>3, <2>4, <2>5, <2>7, CredentialsSync
<1>19. ASSUME NEW l \in Loads, LoadRejects(l) PROVE Synced'
  <2>1. CASE Rebuilding(l)
    BY <1>19, <2>1 DEF LoadRejects, Synced
  <2>2. CASE ~Rebuilding(l)
    <3>1. UNCHANGED <<rows, db, disk, persistTimer>> /\ (stale' <=> stale)
      BY <1>19, <2>2 DEF LoadRejects
    <3>2. \A k \in Loads : k # l => load'[k] = load[k]
      BY <1>19 DEF LoadRejects, Loading
    <3>3. \A k \in Loads : Rebuilding(k) => Rebuilding(k)'
      BY <2>2, <3>2 DEF Rebuilding
    <3>4. stale' = stale
      BY <1>19, <2>2 DEF LoadRejects, Ranges
    <3> QED
      BY <3>1, <3>3, <3>4, StillSynced DEF rows
  <2> QED
    BY <2>1, <2>2
<1>20. CASE UNCHANGED relaysVars
  BY <1>1, <1>20 DEF relaysVars
<1> QED
  BY <1>2, <1>3, <1>4, <1>5, <1>6, <1>7, <1>8, <1>9, <1>10, <1>12, <1>14, <1>15, <1>16, <1>17, <1>18, <1>19,
     <1>20 DEF RelaysNext
-----------------------------------------------------------------------------
\* A list of one row.
LEMMA Single ==
  ASSUME NEW r \in RelayRows, NEW n \in Nat, r.id <= n, NEW list, list = <<r>>
  PROVE  /\ list \in Seq(RelayRows) /\ list # <<>> /\ DOMAIN list = {1} /\ list[1] = r
         /\ Unique(list) /\ UpTo(list, n) /\ Deduped(list)
<1>1. list \in Seq(RelayRows) /\ list # <<>> /\ DOMAIN list = {1} /\ list[1] = r
  OBVIOUS
<1> QED
  BY <1>1 DEF Unique, UpTo, Deduped

\* The account has the one relay its credentials name, and its row is to be read.
LEMMA RelaysInitially == RelaysInit => RInv
<1> SUFFICES ASSUME RelaysInit PROVE RInv
  OBVIOUS
<1> USE DEF Sound
<1>1. PICK c \in Credentials, l \in Loads, t \in Transports, s \in Sites :
        /\ relays = <<[id |-> 1, url |-> Plain(c.site), email |-> c.email]>>
        /\ primary = 1 /\ ids = 2 /\ ops = 0 /\ persistTimer = FALSE /\ stale = FALSE
        /\ transports = [u \in Urls |-> IF u = Plain(c.site) THEN t ELSE None]
        /\ socket = [x \in Transports |-> None]
        /\ db = c.email
        /\ \E acct \in {None, [site |-> s, email |-> c.email,
                               relays |-> <<[id |-> 2, url |-> Plain(s), email |-> c.email]>>]} :
              disk = [d \in Emails |-> [e \in Emails |-> IF d = e /\ e = c.email THEN acct ELSE None]]
        /\ load = [x \in Loads |->
                     IF x = l THEN [at |-> "find", acct |-> None,
                                    then |-> [site |-> c.site, email |-> c.email, made |-> TRUE]]
                     ELSE NoLoad]
  BY DEF RelaysInit, NoLoad
<1>2. c.site \in Sites /\ c.email \in Emails
  BY DEF Credentials
<1>3. 1 \in RelayIds /\ 2 \in RelayIds /\ 1 <= 2 /\ 2 \in Nat
  BY RelayBoundAssumption DEF RelayIds
<1>4. Wired
  <2>1. transports \in [Urls -> Transports \cup {None}] /\ socket \in [Transports -> Sites \cup {None}]
    BY <1>1
  <2>2. \A u \in Urls : transports[u] = IF u = Plain(c.site) THEN t ELSE None
    BY <1>1
  <2>3. \A x \in Transports : socket[x] = None
    BY <1>1
  <2> QED
    BY <2>1, <2>2, <2>3 DEF Wired
<1>5. Ranges
  <2>1. db \in Emails /\ ops = 0 /\ persistTimer = FALSE /\ stale = FALSE
    BY <1>1, <1>2
  <2>2. 0 \in 0..MaxOps
    BY RelayBoundAssumption
  <2> QED
    BY <2>1, <2>2 DEF Ranges
<1>6. Listed
  <2>1. PICK r : r = [id |-> 1, url |-> Plain(c.site), email |-> c.email]
    OBVIOUS
  <2>2. r \in RelayRows /\ r.id = 1
    BY <1>2, <1>3, <2>1, TwoSpellings DEF RelayRows
  <2>3. /\ relays \in Seq(RelayRows) /\ relays # <<>> /\ DOMAIN relays = {1} /\ relays[1] = r
        /\ Unique(relays) /\ UpTo(relays, 2)
    BY <1>1, <1>3, <2>1, <2>2, Single
  <2> QED
    BY <1>1, <1>3, <2>2, <2>3 DEF Listed
<1>7. Stored
  <2>1. PICK r : r = [id |-> 2, url |-> Plain(s), email |-> c.email]
    OBVIOUS
  <2>2. r \in RelayRows /\ r.id = 2
    BY <1>2, <1>3, <2>1, TwoSpellings DEF RelayRows
  <2>3. PICK a : a = [site |-> s, email |-> c.email, relays |-> <<r>>]
    OBVIOUS
  <2>4. PICK list : list = <<r>>
    OBVIOUS
  <2>5. list \in Seq(RelayRows) /\ Unique(list) /\ UpTo(list, 2) /\ Deduped(list)
    BY <1>3, <2>2, <2>4, Single
  <2>6. a \in Snapshots /\ a.relays = list /\ a.email = c.email
    BY <1>2, <2>3, <2>4, <2>5 DEF Snapshots
  <2>7. PICK acct \in {None, a} :
          disk = [d \in Emails |-> [e \in Emails |-> IF d = e /\ e = c.email THEN acct ELSE None]]
    BY <1>1, <2>1, <2>3
  <2>8. acct \in Snapshots \cup {None}
    BY <2>6, <2>7
  <2>9. disk \in [Emails -> [Emails -> Snapshots \cup {None}]]
    BY <2>7, <2>8
  <2>10. \A d, e \in Emails : disk[d][e] = IF d = e /\ e = c.email THEN acct ELSE None
    BY <2>7
  <2>11. acct # None => acct = a
    BY <2>7
  <2> QED
    BY <1>1, <2>5, <2>6, <2>9, <2>10, <2>11 DEF Stored
<1>8. PICK then : then = [site |-> c.site, email |-> c.email, made |-> TRUE]
  OBVIOUS
<1>9. then \in Pins /\ then.made
  BY <1>2, <1>8 DEF Pins
<1>10. PICK r : r = [at |-> "find", acct |-> None, then |-> then]
  OBVIOUS
<1>11. PICK q : q = [at |-> "idle", acct |-> None, then |-> None]
  OBVIOUS
<1>12. load = [x \in Loads |-> IF x = l THEN r ELSE q]
  BY <1>1, <1>8, <1>10, <1>11 DEF NoLoad
<1>13. r \in LoadRows /\ q \in LoadRows
  BY <1>9, <1>10, <1>11 DEF LoadRows, Points
<1>14. Loading
  BY <1>10, <1>11, <1>12, <1>13 DEF Loading, LoadRows
<1>15. Synced
  <2>1. then # None
    BY <1>9, NoneAssumption
  <2>2. Rebuilding(l)
    BY <1>9, <1>10, <1>12, <2>1 DEF Rebuilding
  <2> QED
    BY <2>2 DEF Synced
<1> QED
  BY <1>4, <1>5, <1>6, <1>7, <1>14, <1>15 DEF RInv

LEMMA RelaysInductive == RelaysSpec => []RInv
<1>1. ASSUME RInv, [RelaysNext]_relaysVars PROVE RInv'
  <2>1. Ranges /\ Listed /\ Stored /\ Loading /\ Synced /\ Wired
    BY <1>1 DEF RInv
  <2>2. Wired'
    BY <1>1, <2>1, WiredStep
  <2>3. Listed'
    BY <1>1, <2>1, ListedStep
  <2>4. Ranges' /\ Stored' /\ Loading' /\ Synced'
    BY <1>1, <2>1, RangesStep, StoredStep, LoadingStep, SyncedStep
  <2> QED
    BY <2>2, <2>3, <2>4 DEF RInv
<1> QED
  BY <1>1, RelaysInitially, PTL DEF RelaysSpec

\* Relays, transports, sockets and stored rows keep their types: no transport is
\* under two keys, and none has a socket to a server other than its key's.
THEOREM RelaysTyped == RelaysSpec => []RelaysTypeOK
<1>1. ASSUME RInv PROVE RelaysTypeOK
  <2>1. Wired /\ Ranges /\ Listed /\ Stored /\ Loading
    BY <1>1 DEF RInv
  <2>2. relays \in Seq(RelayRows) /\ primary \in RelayIds \cup {0} /\ ids \in RelayIds
    <3>1. CASE relays = <<>>
      BY <2>1, <3>1 DEF Listed
    <3>2. CASE relays # <<>>
      BY <2>1, <3>2, RowIds DEF Listed
    <3> QED
      BY <3>1, <3>2
  <2>3. \A d, e \in Emails : disk[d][e] # None => disk[d][e] \in Snapshots /\ disk[d][e].email = e
    BY <2>1 DEF Stored
  <2>4. \A l \in Loads : /\ load[l].at \in Points
                         /\ load[l].acct # None => load[l].acct \in Snapshots
                         /\ load[l].then # None => load[l].then \in Pins
    BY <2>1 DEF Loading
  <2> QED
    BY <2>1, <2>2, <2>3, <2>4 DEF RelaysTypeOK, Ranges
<1> QED
  BY <1>1, RelaysInductive, PTL

\* An account with relays has exactly one primary relay, however they were added,
\* removed, set or loaded.
THEOREM OnePrimaryRelay == RelaysSpec => []OnePrimary
<1>1. ASSUME RInv PROVE OnePrimary
  <2> SUFFICES ASSUME relays # <<>>
               PROVE  \E i \in DOMAIN relays : \A k \in DOMAIN relays : relays[k].id = primary <=> i = k
    BY DEF OnePrimary
  <2>1. PICK i \in DOMAIN relays : relays[i].id = primary
    BY <1>1 DEF RInv, Listed
  <2>2. \A k \in DOMAIN relays : relays[k].id = primary <=> i = k
    BY <1>1, <2>1 DEF RInv, Listed, Unique
  <2> QED
    BY <2>2
<1> QED
  BY <1>1, RelaysInductive, PTL

\* At rest, the row on disk gives the relays back to a page that is opened again,
\* unless they were left to differ: a load that put an older row into memory, one
\* that rejected with nothing written after it, or a write that failed (stale).
THEOREM RelaysGivenBack == RelaysSpec => []RelaysSurvive
<1>1. ASSUME RInv PROVE RelaysSurvive
  <2> SUFFICES ASSUME AtRest, ~stale
               PROVE  /\ disk[db][db] # None
                      /\ disk[db][db].site = PrimaryRelay.url.site
                      /\ SitesOf(Reloaded) = SitesOf(relays)
                      /\ Row(PrimaryRelay.url.site, Reloaded).email = PrimaryRelay.email
                      /\ \A s \in SitesOf(relays) : Row(s, Reloaded).email \in {relays[i].email : i \in At(s, relays)}
    BY DEF RelaysSurvive
  <2>1. Ranges /\ Listed /\ Stored /\ Loading /\ Synced
    BY <1>1 DEF RInv
  <2>2. relays # <<>> /\ db = PrimaryRelay.email /\ ~persistTimer /\ \A l \in Loads : load[l].at = "idle"
    BY DEF AtRest
  <2>3. PICK acct : acct = disk[db][db]
    OBVIOUS
  <2>4. Matches(acct)
    BY <2>1, <2>2, <2>3 DEF Synced, Rebuilding
  <2>5. acct \in Snapshots /\ acct.email = db /\ Deduped(acct.relays) /\ acct # None
    BY <2>1, <2>3, <2>4 DEF Ranges, Stored, Sound, Matches
  <2>6. PICK out : out = Reloaded
    OBVIOUS
  <2>7. out = Rebuilt(acct, <<>>, 0) /\ <<>> \in Seq(RelayRows) /\ 0 \in Nat
    BY <2>3, <2>6 DEF Reloaded
  <2>8. /\ out \in Seq(AnyRows) /\ SitesOf(out) = SitesOf(acct.relays) \cup {acct.site}
        /\ \A k \in DOMAIN out : Restored(acct, out[k])
    BY ONLY <2>5, <2>7, RebuiltSpec
  <2>9. SitesOf(out) = SitesOf(relays) /\ acct.site = PrimaryRelay.url.site
    BY <2>4, <2>8 DEF Matches
  <2>10. PrimaryRelay \in ToSet(relays)
    BY <2>1, <2>2, PrimaryListed
  <2>11. ASSUME NEW s \in SitesOf(relays)
         PROVE  /\ Row(s, out).email \in {relays[i].email : i \in At(s, relays)}
                /\ s = acct.site => Row(s, out).email = acct.email
    <3>1. PICK f \in DOMAIN out : out[f] = Row(s, out) /\ out[f].url.site = s
      BY <2>8, <2>9, FirstIs DEF Row
    <3>2. CASE s = acct.site
      <4>1. out[f].email = acct.email
        BY <2>8, <3>1, <3>2 DEF Restored
      <4>2. PICK i \in DOMAIN relays : relays[i] = PrimaryRelay
        BY <2>10 DEF ToSet
      <4>3. i \in At(s, relays) /\ relays[i].email = acct.email
        BY <2>2, <2>5, <2>9, <3>2, <4>2 DEF At
      <4> QED
        BY <3>1, <4>1, <4>3
    <3>3. CASE s # acct.site
      <4>1. PICK j \in DOMAIN acct.relays : acct.relays[j].url.site = s /\ acct.relays[j].email = out[f].email
        BY <2>8, <3>1, <3>3 DEF Restored
      <4>2. PICK k \in DOMAIN relays : relays[k].url.site = s /\ relays[k].email = acct.relays[j].email
        BY <2>4, <3>3, <4>1 DEF Matches
      <4>3. k \in At(s, relays)
        BY <4>2 DEF At
      <4> QED
        BY <3>1, <3>3, <4>1, <4>2, <4>3
    <3> QED
      BY <3>2, <3>3
  <2>12. PrimaryRelay.url.site \in SitesOf(relays)
    BY <2>10 DEF SitesOf
  <2> QED
    BY <2>2, <2>3, <2>5, <2>6, <2>9, <2>11, <2>12
<1> QED
  BY <1>1, RelaysInductive, PTL
=============================================================================
