------------------------------ MODULE AgentProofs ------------------------------
(***************************************************************************)
(* Proofs about the components of the agent that are not sessions.          *)
(*                                                                          *)
(* Connection: type correctness, that the end of a socket and of the        *)
(* connection is reported at most once, and that a connection left in       *)
(* recovery always has a call of _on_close on its way to settle it.         *)
(* ProxyConnect: the way a connection takes.  JsonFile: what is read after  *)
(* a write that was cut off.  Listener: a request is run once.  AgentMain:  *)
(* a removed key is not presented again.  Channels: the socket of a channel *)
(* and the pool it came from end together.  Transfers: a transfer's socket  *)
(* and the answers on it are its own.  HttpSocket and AppSockets: messages  *)
(* keep their order and are read whole.                                     *)
(***************************************************************************)
EXTENDS Connection, ProxyConnect, JsonFile, Listener, AgentMain, Channels, Transfers,
        AppSockets,
        SequenceTheorems, FiniteSetTheorems, TLAPS

(* The type invariant is kept by every step. *)
LEMMA TypeStep == TypeOK /\ [Next]_vars => TypeOK'
<1> SUFFICES ASSUME TypeOK, [Next]_vars PROVE TypeOK'
  OBVIOUS
<1> USE SocketAssumption
<1>1. ASSUME NEW w \in Sockets, Threads(w) PROVE TypeOK'
  <2>1. CASE WireEnds(w)
    BY SMTT(30), <1>1, <2>1 DEF Threads, WireEnds, Wire, connVars, TypeOK, WsTypeOK, Links
  <2>2. CASE ReaderLeaves(w)
    BY <1>1, <2>2 DEF Threads, ReaderLeaves, connVars, TypeOK, WsTypeOK, RunStates, Kinds
  <2>3. CASE AliveLeaves(w)
    BY <1>1, <2>3 DEF Threads, AliveLeaves, connVars, TypeOK, WsTypeOK, RunStates, Kinds
  <2>4. ASSUME NEW k \in Kinds, Shutdown(w, k) PROVE TypeOK'
    BY <1>1, <2>4 DEF Threads, Shutdown, connVars, TypeOK, WsTypeOK, RunStates, Kinds
  <2> QED BY <1>1, <2>1, <2>2, <2>3, <2>4 DEF Threads
<1>2. ASSUME NEW w \in Sockets, NEW k \in Kinds, FireOnClose(w, k) PROVE TypeOK'
  BY <1>2 DEF FireOnClose, FireClose, flags, owner, TypeOK, WsTypeOK, RunStates, Kinds, CallStates
<1>3. ASSUME NEW w \in Sockets, OnClose(w) PROVE TypeOK'
  <2> USE DEF Call, CallStates, flags, owner, history
  <2>1. CASE EnterOnClose(w)
    BY <2>1 DEF EnterOnClose, SetRecovering, wsVars, TypeOK, WsTypeOK
  <2>2. CASE CheckLost(w)
    BY <2>2 DEF CheckLost, wsVars, TypeOK, WsTypeOK
  <2>3. ASSUME NEW f \in Sockets, RetryOpens(w, f) PROVE TypeOK'
    BY <2>3 DEF RetryOpens, Open, TypeOK, WsTypeOK, Links, RunStates
  <2>4. CASE RetryAssign(w)
    BY <2>4 DEF RetryAssign, wsVars, TypeOK, WsTypeOK
  <2>5. CASE RetryDestroyed(w)
    BY <2>5 DEF RetryDestroyed, wsVars, TypeOK, WsTypeOK
  <2>6. CASE RetryExhausted(w)
    BY <2>6 DEF RetryExhausted, wsVars, TypeOK, WsTypeOK
  <2>7. CASE FailOnClose(w)
    BY <2>7 DEF FailOnClose, SetRecovering, wsVars, TypeOK, WsTypeOK
  <2>8. CASE ReportClose(w)
    BY <2>8 DEF ReportClose, wsVars, TypeOK, WsTypeOK
  <2>9. CASE SettleRecovery(w)
    BY <2>9 DEF SettleRecovery, SetRecovering, wsVars, TypeOK, WsTypeOK
  <2>10. CASE CloseRecovered(w)
    BY <2>10 DEF CloseRecovered, Close, TypeOK, WsTypeOK
  <2> QED
    BY <1>3, <2>1, <2>2, <2>3, <2>4, <2>5, <2>6, <2>7, <2>8, <2>9, <2>10 DEF OnClose
<1>4. CASE Opener
  <2> USE DEF flags, history, OpenerStates
  <2>1. CASE Construct
    BY <2>1 DEF Construct, Open, TypeOK, WsTypeOK, Links, RunStates
  <2>2. CASE AssignFirst
    BY <2>2 DEF AssignFirst, wsVars, TypeOK, WsTypeOK
  <2>3. CASE SetEvents
    BY <2>3 DEF SetEvents, wsVars, TypeOK, WsTypeOK
  <2>4. CASE SetEventsCheck
    BY <2>4 DEF SetEventsCheck, wsVars, TypeOK, WsTypeOK
  <2>5. CASE SetRecoveryConf
    BY <2>5 DEF SetRecoveryConf, wsVars, TypeOK, WsTypeOK
  <2> QED BY <1>4, <2>1, <2>2, <2>3, <2>4, <2>5 DEF Opener
<1>5. CASE CloseMark
  BY <1>5 DEF CloseMark, SetRecovering, history, wsVars, TypeOK, WsTypeOK, CloserStates
<1>6. CASE CloseRaw
  BY <1>6 DEF CloseRaw, Close, flags, history, TypeOK, WsTypeOK, CloserStates
<1>7. ASSUME NEW m \in Senders, Sender(m) PROVE TypeOK'
  <2>1. PICK from, to \in SenderStates : SenderGoes(m, from, to)
    BY <1>7 DEF Sender, SendStart, SendDone, SendRaises, WaitRecovery, SenderStates
  <2> QED BY <2>1 DEF SenderGoes, flags, history, wsVars, TypeOK, WsTypeOK
<1>8. CASE UNCHANGED vars
  BY <1>8 DEF vars, connVars, wsVars, TypeOK, WsTypeOK
<1> QED
  BY <1>1, <1>2, <1>3, <1>4, <1>5, <1>6, <1>7, <1>8 DEF Next

LEMMA TypeInit == Init => TypeOK
<1> SUFFICES ASSUME Init PROVE TypeOK
  OBVIOUS
<1>1. WsTypeOK
  BY DEF Init, WsInit, WsTypeOK, Links, RunStates
<1>2. /\ raw \in Sockets \cup {NoSocket}
      /\ recovering \in BOOLEAN /\ destroy \in BOOLEAN
      /\ rconf \in BOOLEAN /\ evts \in BOOLEAN /\ early \in BOOLEAN
  BY DEF Init
<1>3. opener \in OpenerStates /\ closer \in CloserStates
  BY DEF Init, OpenerStates, CloserStates
<1>4. sender \in [Senders -> SenderStates] /\ cb \in [Sockets -> CallStates]
  BY DEF Init, SenderStates, CallStates
<1>5. /\ fresh \in [Sockets -> Sockets \cup {NoSocket}]
      /\ fired \in [Sockets -> Nat] /\ notified \in Nat
  BY DEF Init
<1> QED BY <1>1, <1>2, <1>3, <1>4, <1>5 DEF Init, TypeOK

(* Every reachable state has the declared types. *)
THEOREM TypeCorrect == Spec => []TypeOK
  BY TypeInit, TypeStep, PTL DEF Spec

-----------------------------------------------------------------------------
(* Socket w is live: its handlers are still to be taken, or its call of     *)
(* _on_close has neither handed over to a new socket nor reported the end.  *)
Live(w) ==
  \/ Opened(w) /\ handlers[w]
  \/ cb[w] \in {"entered", "check", "retry", "fail", "report"}

(* At most one socket is live, and none once the end was reported.          *)
Relay ==
  /\ \A w \in Sockets : ~Opened(w) =>
       /\ handlers[w] /\ closed[w] /\ cb[w] = "none"
       /\ \A k \in Kinds : run[w][k] = "off"
  /\ \A w \in Sockets : cb[w] # "none" => ~handlers[w]
  /\ \A w \in Sockets : fired[w] = IF cb[w] = "none" THEN 0 ELSE 1
  /\ \A v, w \in Sockets : Live(v) /\ Live(w) => v = w
  /\ (\E w \in Sockets : Live(w)) => notified = 0
  /\ notified <= 1
  /\ opener = "new" => notified = 0 /\ \A w \in Sockets : ~Opened(w)


LEMMA RelayInit == Init => Relay
  BY DEF Init, WsInit, Relay, Live, Opened

(* Every step keeps it: a recovery passes the role to the socket it opens.  *)
LEMMA RelayStep == TypeOK /\ Relay /\ [Next]_vars => Relay'
<1> SUFFICES ASSUME TypeOK, Relay, [Next]_vars PROVE Relay'
  OBVIOUS
<1> USE DEF TypeOK, WsTypeOK, Relay, Live, Opened
<1>1. ASSUME NEW w \in Sockets, Threads(w) PROVE Relay'
  <2>1. CASE WireEnds(w)
    BY <1>1, <2>1 DEF Threads, WireEnds, Wire, connVars
  <2>2. CASE ReaderLeaves(w)
    BY <1>1, <2>2 DEF Threads, ReaderLeaves, connVars, Kinds
  <2>3. CASE AliveLeaves(w)
    BY <1>1, <2>3 DEF Threads, AliveLeaves, connVars, Kinds
  <2>4. ASSUME NEW k \in Kinds, Shutdown(w, k) PROVE Relay'
    BY <1>1, <2>4 DEF Threads, Shutdown, connVars
  <2> QED BY <1>1, <2>1, <2>2, <2>3, <2>4 DEF Threads
<1>2. ASSUME NEW w \in Sockets, NEW k \in Kinds, FireOnClose(w, k) PROVE Relay'
  BY <1>2 DEF FireOnClose, FireClose, flags, owner
<1>3. ASSUME NEW w \in Sockets, OnClose(w) PROVE Relay'
  <2> USE DEF Call, flags, owner, history, wsVars
  <2>1. CASE EnterOnClose(w)
    BY <2>1 DEF EnterOnClose
  <2>2. CASE CheckLost(w)
    BY <2>2 DEF CheckLost
  <2>3. ASSUME NEW f \in Sockets, RetryOpens(w, f) PROVE Relay'
    BY <2>3 DEF RetryOpens, Open
  <2>4. CASE RetryAssign(w)
    BY <2>4 DEF RetryAssign
  <2>5. CASE RetryDestroyed(w)
    BY <2>5 DEF RetryDestroyed
  <2>6. CASE RetryExhausted(w)
    BY <2>6 DEF RetryExhausted
  <2>7. CASE FailOnClose(w)
    BY <2>7 DEF FailOnClose
  <2>8. CASE ReportClose(w)
    BY <2>8 DEF ReportClose
  <2>9. CASE SettleRecovery(w)
    BY <2>9 DEF SettleRecovery
  <2>10. CASE CloseRecovered(w)
    BY <2>10 DEF CloseRecovered, Close
  <2> QED
    BY <1>3, <2>1, <2>2, <2>3, <2>4, <2>5, <2>6, <2>7, <2>8, <2>9, <2>10 DEF OnClose
<1>4. CASE Opener
  <2> USE DEF flags, history, wsVars
  <2>1. CASE Construct
    BY <2>1, SocketAssumption DEF Construct, Open
  <2>2. CASE AssignFirst
    BY <2>2 DEF AssignFirst
  <2>3. CASE SetEvents
    BY <2>3 DEF SetEvents
  <2>4. CASE SetEventsCheck
    BY <2>4 DEF SetEventsCheck
  <2>5. CASE SetRecoveryConf
    BY <2>5 DEF SetRecoveryConf
  <2> QED BY <1>4, <2>1, <2>2, <2>3, <2>4, <2>5 DEF Opener
<1>5. CASE CloseMark
  BY <1>5 DEF CloseMark, history, wsVars
<1>6. CASE CloseRaw
  BY <1>6 DEF CloseRaw, Close, flags, history
<1>7. ASSUME NEW m \in Senders, Sender(m) PROVE Relay'
  BY <1>7 DEF Sender, SendStart, SendDone, SendRaises, WaitRecovery, SenderGoes,
     flags, history, wsVars
<1>8. CASE UNCHANGED vars
  BY <1>8 DEF vars, connVars, wsVars
<1> QED
  BY <1>1, <1>2, <1>3, <1>4, <1>5, <1>6, <1>7, <1>8 DEF Next

-----------------------------------------------------------------------------
(* A step that settles a recovery is taken by a call that Recovers, or by   *)
(* one that destroys; so RecoveringOwned is kept, given Relay.              *)
LEMMA OwnedStep == TypeOK /\ Relay /\ RecoveringOwned /\ [Next]_vars => RecoveringOwned'
<1> SUFFICES ASSUME TypeOK, Relay, RecoveringOwned, [Next]_vars PROVE RecoveringOwned'
  OBVIOUS
<1> USE DEF TypeOK, WsTypeOK, Relay, RecoveringOwned, Recovers
<1>1. ASSUME NEW w \in Sockets, Threads(w) PROVE RecoveringOwned'
  <2>1. CASE WireEnds(w)
    BY <1>1, <2>1 DEF Threads, WireEnds, Wire, connVars
  <2>2. CASE ReaderLeaves(w)
    BY <1>1, <2>2 DEF Threads, ReaderLeaves, connVars, Kinds
  <2>3. CASE AliveLeaves(w)
    BY <1>1, <2>3 DEF Threads, AliveLeaves, connVars, Kinds
  <2>4. ASSUME NEW k \in Kinds, Shutdown(w, k) PROVE RecoveringOwned'
    BY <1>1, <2>4 DEF Threads, Shutdown, connVars
  <2> QED BY <1>1, <2>1, <2>2, <2>3, <2>4 DEF Threads
<1>2. ASSUME NEW w \in Sockets, NEW k \in Kinds, FireOnClose(w, k) PROVE RecoveringOwned'
  BY <1>2 DEF FireOnClose, FireClose, flags, owner
<1>3. ASSUME NEW w \in Sockets, OnClose(w) PROVE RecoveringOwned'
  <2> USE DEF Call, flags, owner, history, wsVars
  <2>1. CASE EnterOnClose(w)
    BY <2>1 DEF EnterOnClose, SetRecovering
  <2>2. CASE CheckLost(w)
    BY <2>2 DEF CheckLost
  <2>3. ASSUME NEW f \in Sockets, RetryOpens(w, f) PROVE RecoveringOwned'
    BY <2>3 DEF RetryOpens, Open
  <2>4. CASE RetryAssign(w)
    BY <2>4 DEF RetryAssign
  <2>5. CASE RetryDestroyed(w)
    BY <2>5 DEF RetryDestroyed
  <2>6. CASE RetryExhausted(w)
    BY <2>6 DEF RetryExhausted
  <2>7. CASE FailOnClose(w)
    BY <2>7 DEF FailOnClose, SetRecovering
  <2>8. CASE ReportClose(w)
    BY <2>8 DEF ReportClose
  <2>9. CASE SettleRecovery(w)
    BY <2>9 DEF SettleRecovery, SetRecovering
  <2>10. CASE CloseRecovered(w)
    BY <2>10 DEF CloseRecovered, Close
  <2> QED
    BY <1>3, <2>1, <2>2, <2>3, <2>4, <2>5, <2>6, <2>7, <2>8, <2>9, <2>10 DEF OnClose
<1>4. CASE Opener
  <2> USE DEF flags, history, wsVars
  <2>1. CASE Construct
    BY <2>1, SocketAssumption DEF Construct, Open
  <2>2. CASE AssignFirst
    BY <2>2, SocketAssumption DEF AssignFirst
  <2>3. CASE SetEvents
    BY <2>3 DEF SetEvents
  <2>4. CASE SetEventsCheck
    BY <2>4 DEF SetEventsCheck
  <2>5. CASE SetRecoveryConf
    BY <2>5 DEF SetRecoveryConf
  <2> QED BY <1>4, <2>1, <2>2, <2>3, <2>4, <2>5 DEF Opener
<1>5. CASE CloseMark
  BY <1>5 DEF CloseMark, SetRecovering, history, wsVars
<1>6. CASE CloseRaw
  BY <1>6 DEF CloseRaw, Close, flags, history
<1>7. ASSUME NEW m \in Senders, Sender(m) PROVE RecoveringOwned'
  BY <1>7 DEF Sender, SendStart, SendDone, SendRaises, WaitRecovery, SenderGoes,
     flags, history, wsVars
<1>8. CASE UNCHANGED vars
  BY <1>8 DEF vars, connVars, wsVars
<1> QED
  BY <1>1, <1>2, <1>3, <1>4, <1>5, <1>6, <1>7, <1>8 DEF Next

-----------------------------------------------------------------------------
(* Where the live socket is, and what each stage of the opener implies.     *)
Placed ==
  /\ \A w \in Sockets : ~closed[w] => Opened(w) /\ handlers[w]
  /\ \A w \in Sockets, k \in Kinds : run[w][k] = "firing" => closed[w]
  /\ rconf => opener = "open"
  /\ \A w \in Sockets : cb[w] \in {"retry", "assign", "recovered", "closeRaw"} => rconf
  /\ opener \in {"new", "assign"} => raw = NoSocket /\ closer = "idle"
  /\ opener = "assign" => \A w \in Sockets : Opened(w) => w = First
  /\ opener = "new" => ~destroy
  /\ opener = "assign" /\ destroy => closed[First]
  /\ opener \notin {"new", "assign"} => raw \in Sockets
  /\ raw \in Sockets => Opened(raw)
  /\ opener # "new" => Opened(First)
  /\ \A v \in Sockets : cb[v] = "assign" =>
       fresh[v] \in Sockets /\ Opened(fresh[v]) /\ fresh[v] # First

(* The socket a recovery has opened and not yet assigned, unless one was    *)
(* lost too early: it is the live one, and no other is under way.           *)
InHand ==
  ~early =>
  \A v \in Sockets : cb[v] = "assign" =>
       /\ cb[fresh[v]] \in {"none", "entered", "check"}
       /\ Live(fresh[v])
       /\ raw # fresh[v]
       /\ \A u \in Sockets : cb[u] = "assign" => u = v

LEMMA PlacedStep == TypeOK /\ Relay /\ Placed /\ [Next]_vars => Placed'
<1> SUFFICES ASSUME TypeOK, Relay, Placed, [Next]_vars PROVE Placed'
  OBVIOUS
<1> USE SocketAssumption DEF TypeOK, WsTypeOK, Relay, Placed, Live, Opened
<1>1. ASSUME NEW w \in Sockets, Threads(w) PROVE Placed'
  <2>1. CASE WireEnds(w)
    BY <1>1, <2>1 DEF Threads, WireEnds, Wire, connVars
  <2>2. CASE ReaderLeaves(w)
    BY <1>1, <2>2 DEF Threads, ReaderLeaves, connVars, Kinds
  <2>3. CASE AliveLeaves(w)
    BY <1>1, <2>3 DEF Threads, AliveLeaves, connVars, Kinds
  <2>4. ASSUME NEW k \in Kinds, Shutdown(w, k) PROVE Placed'
    BY <1>1, <2>4 DEF Threads, Shutdown, connVars
  <2> QED BY <1>1, <2>1, <2>2, <2>3, <2>4 DEF Threads
<1>2. ASSUME NEW w \in Sockets, NEW k \in Kinds, FireOnClose(w, k) PROVE Placed'
  BY <1>2 DEF FireOnClose, FireClose, flags, owner
<1>3. ASSUME NEW w \in Sockets, OnClose(w) PROVE Placed'
  <2> USE DEF Call, flags, owner, history, wsVars
  <2>1. CASE EnterOnClose(w)
    BY <2>1 DEF EnterOnClose, SetRecovering
  <2>2. CASE CheckLost(w)
    BY <2>2 DEF CheckLost
  <2>3. ASSUME NEW f \in Sockets, RetryOpens(w, f) PROVE Placed'
    BY <2>3 DEF RetryOpens, Open
  <2>4. CASE RetryAssign(w)
    BY <2>4 DEF RetryAssign
  <2>5. CASE RetryDestroyed(w)
    BY <2>5 DEF RetryDestroyed
  <2>6. CASE RetryExhausted(w)
    BY <2>6 DEF RetryExhausted
  <2>7. CASE FailOnClose(w)
    BY <2>7 DEF FailOnClose, SetRecovering
  <2>8. CASE ReportClose(w)
    BY <2>8 DEF ReportClose
  <2>9. CASE SettleRecovery(w)
    BY <2>9 DEF SettleRecovery, SetRecovering
  <2>10. CASE CloseRecovered(w)
    BY <2>10 DEF CloseRecovered, Close
  <2> QED
    BY <1>3, <2>1, <2>2, <2>3, <2>4, <2>5, <2>6, <2>7, <2>8, <2>9, <2>10 DEF OnClose
<1>4. CASE Opener
  <2> USE DEF flags, history, wsVars
  <2>1. CASE Construct
    BY <2>1, SocketAssumption DEF Construct, Open
  <2>2. CASE AssignFirst
    BY <2>2, SocketAssumption DEF AssignFirst
  <2>3. CASE SetEvents
    BY <2>3 DEF SetEvents
  <2>4. CASE SetEventsCheck
    BY <2>4 DEF SetEventsCheck
  <2>5. CASE SetRecoveryConf
    BY <2>5 DEF SetRecoveryConf
  <2> QED BY <1>4, <2>1, <2>2, <2>3, <2>4, <2>5 DEF Opener
<1>5. CASE CloseMark
  BY <1>5 DEF CloseMark, SetRecovering, history, wsVars
<1>6. CASE CloseRaw
  BY <1>6 DEF CloseRaw, Close, flags, history
<1>7. ASSUME NEW m \in Senders, Sender(m) PROVE Placed'
  BY <1>7 DEF Sender, SendStart, SendDone, SendRaises, WaitRecovery, SenderGoes,
     flags, history, wsVars
<1>8. CASE UNCHANGED vars
  BY <1>8 DEF vars, connVars, wsVars
<1> QED
  BY <1>1, <1>2, <1>3, <1>4, <1>5, <1>6, <1>7, <1>8 DEF Next

LEMMA InHandStep ==
  TypeOK /\ Relay /\ Placed /\ InHand /\ [Next]_vars => InHand'
<1> SUFFICES ASSUME TypeOK, Relay, Placed, InHand, [Next]_vars PROVE InHand'
  OBVIOUS
<1> USE SocketAssumption DEF TypeOK, WsTypeOK, Relay, Placed, InHand, Live, Opened
<1>1. ASSUME NEW w \in Sockets, Threads(w) PROVE InHand'
  <2>1. CASE WireEnds(w)
    BY <1>1, <2>1 DEF Threads, WireEnds, Wire, connVars
  <2>2. CASE ReaderLeaves(w)
    BY <1>1, <2>2 DEF Threads, ReaderLeaves, connVars, Kinds
  <2>3. CASE AliveLeaves(w)
    BY <1>1, <2>3 DEF Threads, AliveLeaves, connVars, Kinds
  <2>4. ASSUME NEW k \in Kinds, Shutdown(w, k) PROVE InHand'
    BY <1>1, <2>4 DEF Threads, Shutdown, connVars
  <2> QED BY <1>1, <2>1, <2>2, <2>3, <2>4 DEF Threads
<1>2. ASSUME NEW w \in Sockets, NEW k \in Kinds, FireOnClose(w, k) PROVE InHand'
  BY <1>2 DEF FireOnClose, FireClose, flags, owner
<1>3. ASSUME NEW w \in Sockets, OnClose(w) PROVE InHand'
  <2> USE DEF Call, flags, owner, history, wsVars
  <2>1. CASE EnterOnClose(w)
    BY <2>1 DEF EnterOnClose, SetRecovering
  <2>2. CASE CheckLost(w)
    BY <2>2 DEF CheckLost
  <2>3. ASSUME NEW f \in Sockets, RetryOpens(w, f) PROVE InHand'
    <3>1. ASSUME ~early, NEW v \in Sockets, cb[v] = "assign" PROVE FALSE
      <4>1. Live(fresh[v]) /\ Live(w)
        BY <2>3, <3>1 DEF RetryOpens
      <4>2. fresh[v] = w
        BY <4>1, <3>1
      <4> QED BY <4>2, <2>3, <3>1 DEF RetryOpens
    <3>2. f # w /\ cb[f] = "none" /\ handlers[f] /\ raw # f
      BY <2>3 DEF RetryOpens, Open
    <3>3. /\ cb' = [cb EXCEPT ![w] = "assign"] /\ fresh' = [fresh EXCEPT ![w] = f]
          /\ UNCHANGED <<raw, early, handlers>> /\ link'[f] = "up"
      BY <2>3 DEF RetryOpens, Open
    <3> QED BY <3>1, <3>2, <3>3
  <2>4. CASE RetryAssign(w)
    BY <2>4 DEF RetryAssign
  <2>5. CASE RetryDestroyed(w)
    BY <2>5 DEF RetryDestroyed
  <2>6. CASE RetryExhausted(w)
    BY <2>6 DEF RetryExhausted
  <2>7. CASE FailOnClose(w)
    BY <2>7 DEF FailOnClose, SetRecovering
  <2>8. CASE ReportClose(w)
    BY <2>8 DEF ReportClose
  <2>9. CASE SettleRecovery(w)
    BY <2>9 DEF SettleRecovery, SetRecovering
  <2>10. CASE CloseRecovered(w)
    BY <2>10 DEF CloseRecovered, Close
  <2> QED
    BY <1>3, <2>1, <2>2, <2>3, <2>4, <2>5, <2>6, <2>7, <2>8, <2>9, <2>10 DEF OnClose
<1>4. CASE Opener
  <2> USE DEF flags, history, wsVars
  <2>1. CASE Construct
    BY <2>1, SocketAssumption DEF Construct, Open
  <2>2. CASE AssignFirst
    BY <2>2, SocketAssumption DEF AssignFirst
  <2>3. CASE SetEvents
    BY <2>3 DEF SetEvents
  <2>4. CASE SetEventsCheck
    BY <2>4 DEF SetEventsCheck
  <2>5. CASE SetRecoveryConf
    BY <2>5 DEF SetRecoveryConf
  <2> QED BY <1>4, <2>1, <2>2, <2>3, <2>4, <2>5 DEF Opener
<1>5. CASE CloseMark
  BY <1>5 DEF CloseMark, SetRecovering, history, wsVars
<1>6. CASE CloseRaw
  BY <1>6 DEF CloseRaw, Close, flags, history
<1>7. ASSUME NEW m \in Senders, Sender(m) PROVE InHand'
  BY <1>7 DEF Sender, SendStart, SendDone, SendRaises, WaitRecovery, SenderGoes,
     flags, history, wsVars
<1>8. CASE UNCHANGED vars
  BY <1>8 DEF vars, connVars, wsVars
<1> QED
  BY <1>1, <1>2, <1>3, <1>4, <1>5, <1>6, <1>7, <1>8 DEF Next

(* The open socket is the live one; a step that makes it current or that    *)
(* destroys the connection leaves someone to close it.                      *)
LEMMA OrphanStep ==
  TypeOK /\ Relay /\ Placed /\ InHand /\ NoOrphanSocket /\ [Next]_vars => NoOrphanSocket'
<1> SUFFICES ASSUME TypeOK, Relay, Placed, InHand, NoOrphanSocket, [Next]_vars
             PROVE  NoOrphanSocket'
  OBVIOUS
<1> USE SocketAssumption
    DEF TypeOK, WsTypeOK, Relay, Placed, InHand, NoOrphanSocket, Live, Opened
<1>1. ASSUME NEW w \in Sockets, Threads(w) PROVE NoOrphanSocket'
  <2>1. CASE WireEnds(w)
    BY <1>1, <2>1 DEF Threads, WireEnds, Wire, connVars
  <2>2. CASE ReaderLeaves(w)
    BY <1>1, <2>2 DEF Threads, ReaderLeaves, connVars, Kinds
  <2>3. CASE AliveLeaves(w)
    BY <1>1, <2>3 DEF Threads, AliveLeaves, connVars, Kinds
  <2>4. ASSUME NEW k \in Kinds, Shutdown(w, k) PROVE NoOrphanSocket'
    BY <1>1, <2>4 DEF Threads, Shutdown, connVars
  <2> QED BY <1>1, <2>1, <2>2, <2>3, <2>4 DEF Threads
<1>2. ASSUME NEW w \in Sockets, NEW k \in Kinds, FireOnClose(w, k) PROVE NoOrphanSocket'
  BY <1>2 DEF FireOnClose, FireClose, flags, owner
<1>3. ASSUME NEW w \in Sockets, OnClose(w) PROVE NoOrphanSocket'
  <2> USE DEF Call, flags, owner, history, wsVars
  <2>1. CASE EnterOnClose(w)
    BY <2>1 DEF EnterOnClose, SetRecovering
  <2>2. CASE CheckLost(w)
    BY <2>2 DEF CheckLost
  <2>3. ASSUME NEW f \in Sockets, RetryOpens(w, f) PROVE NoOrphanSocket'
    BY <2>3 DEF RetryOpens, Open
  <2>4. CASE RetryAssign(w)
    BY <2>4 DEF RetryAssign
  <2>5. CASE RetryDestroyed(w)
    BY <2>5 DEF RetryDestroyed
  <2>6. CASE RetryExhausted(w)
    BY <2>6 DEF RetryExhausted
  <2>7. CASE FailOnClose(w)
    BY <2>7 DEF FailOnClose, SetRecovering
  <2>8. CASE ReportClose(w)
    BY <2>8 DEF ReportClose
  <2>9. CASE SettleRecovery(w)
    BY <2>9 DEF SettleRecovery, SetRecovering
  <2>10. CASE CloseRecovered(w)
    BY <2>10 DEF CloseRecovered, Close
  <2> QED
    BY <1>3, <2>1, <2>2, <2>3, <2>4, <2>5, <2>6, <2>7, <2>8, <2>9, <2>10 DEF OnClose
<1>4. CASE Opener
  <2> USE DEF flags, history, wsVars
  <2>1. CASE Construct
    BY <2>1, SocketAssumption DEF Construct, Open
  <2>2. CASE AssignFirst
    BY <2>2, SocketAssumption DEF AssignFirst
  <2>3. CASE SetEvents
    BY <2>3 DEF SetEvents
  <2>4. CASE SetEventsCheck
    BY <2>4 DEF SetEventsCheck
  <2>5. CASE SetRecoveryConf
    BY <2>5 DEF SetRecoveryConf
  <2> QED BY <1>4, <2>1, <2>2, <2>3, <2>4, <2>5 DEF Opener
<1>5. CASE CloseMark
  BY <1>5 DEF CloseMark, SetRecovering, history, wsVars
<1>6. CASE CloseRaw
  BY <1>6 DEF CloseRaw, Close, flags, history
<1>7. ASSUME NEW m \in Senders, Sender(m) PROVE NoOrphanSocket'
  BY <1>7 DEF Sender, SendStart, SendDone, SendRaises, WaitRecovery, SenderGoes,
     flags, history, wsVars
<1>8. CASE UNCHANGED vars
  BY <1>8 DEF vars, connVars, wsVars
<1> QED
  BY <1>1, <1>2, <1>3, <1>4, <1>5, <1>6, <1>7, <1>8 DEF Next

-----------------------------------------------------------------------------
Inv == TypeOK /\ Relay /\ RecoveringOwned /\ Placed /\ InHand /\ NoOrphanSocket

LEMMA InvInit == Init => Inv
<1> SUFFICES ASSUME Init PROVE Inv
  OBVIOUS
<1>1. TypeOK /\ Relay
  BY TypeInit, RelayInit
<1>2. RecoveringOwned
  BY DEF Init, RecoveringOwned
<1>3. Placed /\ InHand /\ NoOrphanSocket
  BY SocketAssumption DEF Init, WsInit, Placed, InHand, NoOrphanSocket, Opened
<1> QED BY <1>1, <1>2, <1>3 DEF Inv

LEMMA Invariance == Spec => []Inv
<1>1. Inv /\ [Next]_vars => Inv'
  BY TypeStep, RelayStep, OwnedStep, PlacedStep, InHandStep, OrphanStep DEF Inv
<1> QED BY InvInit, <1>1, PTL DEF Spec

(* Each socket enters _on_close at most once, though two threads may fire   *)
(* it, and the owner hears of the end of the connection at most once.       *)
THEOREM ClosesOnce == Spec => []CloseFiredOnce
<1>1. Inv => CloseFiredOnce
  BY DEF Inv, Relay, CloseFiredOnce
<1> QED BY Invariance, <1>1, PTL

(* Senders wait only while a call of _on_close is on its way to settle.     *)
THEOREM RecoveryOwned == Spec => []RecoveringOwned
<1>1. Inv => RecoveringOwned
  BY DEF Inv
<1> QED BY Invariance, <1>1, PTL

(* No open socket is forgotten, and none outlives a destroyed connection    *)
(* without a thread on its way to close it.                                 *)
THEOREM NoneOrphaned == Spec => []NoOrphanSocket
<1>1. Inv => NoOrphanSocket
  BY DEF Inv
<1> QED BY Invariance, <1>1, PTL
-----------------------------------------------------------------------------
(* JsonFile.  While the copy is the one to trust it holds what may be read; *)
(* it is dropped only when the file does.                                   *)
CopyKept ==
  /\ pc \in {"idle", "copy"} => bk \in last \cup {Absent}
  /\ pc \in {"open", "write", "rremove", "rcopy", "rcopying"} => bk \in last
  /\ pc \in {"copying", "rclean"} => nm \in Value
  /\ pc \in WriteStates => new \in last
  /\ pc = "wclean" => nm = new

FileInv == FileTypeOK /\ CopyKept /\ SurvivesCrash

LEMMA InitFile == FileInit => FileInv
  BY ValueAssumption
  DEF FileInit, FileInv, FileTypeOK, CopyKept, SurvivesCrash, Content, ReadStates, WriteStates

LEMMA StepFile == FileInv /\ [FileNext]_fileVars => FileInv'
<1> SUFFICES ASSUME FileInv, [FileNext]_fileVars PROVE FileInv'
  OBVIOUS
<1> USE ValueAssumption
    DEF FileInv, FileTypeOK, CopyKept, SurvivesCrash, Content, ReadStates, WriteStates, Steps
<1>1. ASSUME NEW v \in Value, Write(v) PROVE FileInv'
  BY <1>1 DEF Write
<1>2. CASE Copy
  BY <1>2 DEF Copy
<1>3. CASE Copied
  BY <1>3 DEF Copied
<1>4. CASE OpenFile \/ Written \/ WriteRefused
  BY <1>4 DEF OpenFile, Written, WriteRefused
<1>5. CASE WriteEnds
  BY <1>5 DEF WriteEnds
<1>6. CASE ReadBegins
  BY <1>6 DEF ReadBegins
<1>7. CASE Remove \/ CopyBack \/ CopiedBack
  BY <1>7 DEF Remove, CopyBack, CopiedBack
<1>8. CASE ReadEnds
  BY <1>8 DEF ReadEnds
<1>9. CASE Restart \/ UNCHANGED fileVars
  BY <1>9 DEF Restart, fileVars
<1>10. QED
  BY <1>1, <1>2, <1>3, <1>4, <1>5, <1>6, <1>7, <1>8, <1>9 DEF FileNext

(* A file is never read as anything but what the last write that ended      *)
(* wrote, or one it cut off was writing, wherever the agent stops.          *)
THEOREM FileSurvives == FileSpec => []SurvivesCrash
<1>1. FileInv => SurvivesCrash
  BY DEF FileInv
<1>2. QED
  BY InitFile, StepFile, <1>1, PTL DEF FileSpec

-----------------------------------------------------------------------------
(* Listener.  A request is run when the agent has taken it out of the       *)
(* mailbox, and is taken out of it again only when its client has written   *)
(* another one: what a client may still see run it has asked for.           *)
MailboxTypeOK ==
  /\ requestData \in Clients \cup {Empty} /\ taken \in Clients \cup {Empty}
  /\ server \in ServerStates /\ client \in [Clients -> ClientStates]
  /\ asked \in [Clients -> Nat] /\ executed \in [Clients -> Nat]
  /\ taken # Empty => server = "invoke"

Unwritten(c) == IF client[c] \in {"ready", "pid"} THEN 1 ELSE 0
Written1(c) == IF requestData = c /\ server \in {"clear3", "poll", "data"} THEN 1 ELSE 0
Taken(c) == IF taken = c THEN 1 ELSE 0

MailboxInv ==
  /\ MailboxTypeOK
  /\ \A c \in Clients : executed[c] + Unwritten(c) + Written1(c) + Taken(c) <= asked[c]

LEMMA InitMailbox == MailboxInit => MailboxInv
  BY MailboxAssumption
  DEF MailboxInit, MailboxInv, MailboxTypeOK, Unwritten, Written1, Taken, ServerStates, ClientStates

LEMMA StepMailbox == MailboxInv /\ [MailboxNext]_mailboxVars => MailboxInv'
<1> SUFFICES ASSUME MailboxInv, [MailboxNext]_mailboxVars PROVE MailboxInv'
  OBVIOUS
<1> USE MailboxAssumption
    DEF MailboxInv, MailboxTypeOK, Unwritten, Written1, Taken, ServerStates, ClientStates,
        fields, serverVars, clientVars, ServerTo, ClientTo
<1>1. CASE ServerSeesPid \/ ServerReadsData
  BY <1>1 DEF ServerSeesPid, ServerReadsData
<1>2. CASE ServerInvokes
  BY <1>2 DEF ServerInvokes
<1>3. CASE ServerEndsWait \/ ServerClears
  BY <1>3 DEF ServerEndsWait, ServerClears
<1>4. ASSUME NEW c \in Clients, ClientSeesReady(c) PROVE MailboxInv'
  BY <1>4 DEF ClientSeesReady
<1>5. ASSUME NEW c \in Clients, ClientWrites(c) PROVE MailboxInv'
  BY <1>5 DEF ClientWrites
<1>6. ASSUME NEW c \in Clients, ClientReads(c) \/ ClientChecks(c) \/ ClientGivesUp(c)
      PROVE MailboxInv'
  BY <1>6 DEF ClientReads, ClientChecks, ClientGivesUp
<1>7. ASSUME NEW c \in Clients, ClientEnds(c) \/ ClientDies(c) PROVE MailboxInv'
  BY <1>7 DEF ClientEnds, ClientDies
<1>8. CASE UNCHANGED mailboxVars
  BY <1>8 DEF mailboxVars
<1>9. QED
  BY <1>1, <1>2, <1>3, <1>4, <1>5, <1>6, <1>7, <1>8 DEF MailboxNext, ServerStep, ClientStep

(* The agent runs no request of a user interface more often than it was     *)
(* made, however many write over each other and die in the middle of it.    *)
THEOREM RequestsRunOnce == MailboxSpec => []RunOnce
<1>1. MailboxInv => RunOnce
  BY DEF MailboxInv, MailboxTypeOK, RunOnce, Unwritten, Written1, Taken
<1>2. QED
  BY InitMailbox, StepMailbox, <1>1, PTL DEF MailboxSpec

-----------------------------------------------------------------------------
(* ProxyConnect.  Only one that was told to use the proxy of the system has *)
(* detected it, and only such a one gives a proxy up.                       *)
Told(c) ==
  /\ by[c] = "chosen" <=> choice[c] \in {"HTTP", "SOCKS5"}
  /\ by[c] = "system" => choice[c] = "SYSTEM"

ProxyTypeOK ==
  /\ at \in [Caller -> {"idle", "detect", "dial", "redial", "tls", "done"}]
  /\ way \in [Ways -> {"shut", "ok", "cert", "fails"}]
  /\ choice \in [Caller -> Choices] /\ by \in [Caller -> Ways]
  /\ det \in [Caller -> BOOLEAN] /\ sockets \in [Caller -> Nat]

ProxyInv ==
  /\ ProxyTypeOK
  /\ \A c \in Caller :
       /\ sockets[c] = IF at[c] = "idle" THEN 0 ELSE 1
       /\ at[c] \in {"dial", "tls", "redial", "done"} => Told(c)
       /\ at[c] # "idle" /\ det[c] => choice[c] = "SYSTEM"
       /\ at[c] = "redial" => det[c]
       /\ at[c] = "done" => way[by[c]] = "ok"

LEMMA InitProxy == ProxyInit => ProxyInv
  BY DEF ProxyInit, ProxyInv, ProxyTypeOK, Told, Ways

LEMMA StepProxy == ProxyInv /\ [ProxyNext]_proxyVars => ProxyInv'
<1> SUFFICES ASSUME ProxyInv, [ProxyNext]_proxyVars PROVE ProxyInv'
  OBVIOUS
<1> USE DEF ProxyInv, ProxyTypeOK, Told, Ways, Choices, Goto, networkVars
<1>1. ASSUME NEW c \in Caller, Begin(c) PROVE ProxyInv'
  BY <1>1 DEF Begin
<1>2. ASSUME NEW c \in Caller, Detect(c) PROVE ProxyInv'
  <2>1. CASE choice[c] = "SYSTEM"
    <3>1. PICK w \in {"system", "direct"} : by' = [by EXCEPT ![c] = w]
      BY <1>2, <2>1, Zenon DEF Detect
    <3>2. /\ Goto(c, "detect", "dial") /\ det' = [det EXCEPT ![c] = TRUE]
          /\ UNCHANGED <<networkVars, choice, sockets>>
      BY <1>2, <2>1 DEF Detect
    <3>3. QED
      BY <2>1, <3>1, <3>2
  <2>2. CASE choice[c] # "SYSTEM"
    BY <1>2, <2>2 DEF Detect
  <2>3. QED
    BY <2>1, <2>2
<1>3. ASSUME NEW c \in Caller, NEW from \in {"dial", "redial", "tls"}, Raise(c, from)
      PROVE ProxyInv'
  BY <1>3 DEF Raise
<1>4. ASSUME NEW c \in Caller, NEW from \in {"dial", "tls"}, GiveUp(c, from) PROVE ProxyInv'
  BY <1>4 DEF GiveUp
<1>5. ASSUME NEW c \in Caller, Dial(c) PROVE ProxyInv'
  BY <1>5 DEF Dial
<1>6. ASSUME NEW c \in Caller, Redial(c) PROVE ProxyInv'
  BY <1>6 DEF Redial
<1>7. ASSUME NEW c \in Caller, Wrap(c) PROVE ProxyInv'
  BY <1>7 DEF Wrap
<1>8. ASSUME NEW c \in Caller, CloseSocket(c) PROVE ProxyInv'
  BY <1>8 DEF CloseSocket
<1>9. CASE Forget \/ UNCHANGED proxyVars
  BY <1>9 DEF Forget, proxyVars
<1>10. ASSUME NEW c \in Caller, DialFails(c) \/ RedialFails(c) \/ WrapFails(c) PROVE ProxyInv'
  BY <1>3, <1>4, <1>10 DEF DialFails, RedialFails, WrapFails
<1>11. QED
  BY <1>1, <1>2, <1>5, <1>6, <1>7, <1>8, <1>9, <1>10 DEF ProxyNext

(* A connection is made as the user chose, whatever other threads do to the *)
(* proxy they share, and no attempt leaves a socket open.                   *)
THEOREM ProxyKeptToChoice == ProxySpec => []ConnectedAsTold
<1>1. ProxyInv => ConnectedAsTold
  BY DEF ProxyInv, ProxyTypeOK, Told, ConnectedAsTold
<1>2. QED
  BY InitProxy, StepProxy, <1>1, PTL DEF ProxySpec

-----------------------------------------------------------------------------
(* AgentMain: the key of the configuration.                                  *)

(* Of what the main loop and the listener keep, the key matters: it is one  *)
(* the server gave, or none, and the configuration read has the file's.     *)
Keeps == [key : Nat, enabled : BOOLEAN, nodes : Int]
Attempts == {"info", "connect"}
Configured == Attempts \cup {"enabled", "pop", "remove"}
MainTypeOK ==
  /\ file \in Keeps /\ config \in Keeps \cup {NoConfig}
  /\ given \in Nat /\ agentKey \in Nat
  /\ refused \subseteq 1..given
  /\ file.key <= given /\ agentKey <= given
  /\ config # NoConfig => config.key = file.key
  /\ main \in Configured => config # NoConfig

(* The key that is about to be presented was never refused.  That of the     *)
(* file may have been, as long as the main thread is on its way to delete it: *)
(* the test in between, of the node's list, does not lose the error.         *)
KeyInv ==
  /\ main \in Attempts => agentKey # 0 /\ agentKey \notin refused
  /\ file.key \in refused => main \in {"pop", "remove"} /\ error = "#REMOVED_KEY"
MainInv == MainTypeOK /\ KeyInv

LEMMA InitMain == MainInit => MainInv
<1> SUFFICES ASSUME MainInit PROVE MainInv
  OBVIOUS
<1>1. file \in Keeps /\ file.key \in {0, 1}
  <2>1. {0, 1} \subseteq Nat /\ {TRUE} \subseteq BOOLEAN /\ {0} \subseteq Int
    OBVIOUS
  <2>2. file \in [key : {0, 1}, enabled : {TRUE}, nodes : {0}]
    BY DEF MainInit
  <2>3. file \in Keeps
    BY <2>1, <2>2, Zenon DEF Keeps
  <2>4. QED
    BY <2>2, <2>3
<1>2. /\ main = "off" /\ config = NoConfig /\ given = file.key /\ agentKey = 0
      /\ refused = {}
  BY Zenon DEF MainInit
<1>3. QED
  BY <1>1, <1>2 DEF MainInv, MainTypeOK, KeyInv, Attempts, Configured

(* A change of the configuration is one of what was read, in the file too.   *)
LEMMA SetConfigKeeps ==
  ASSUME MainTypeOK, NEW c \in Keeps, SetConfig(c), c.key <= given'
  PROVE  file' \in Keeps /\ config' \in Keeps /\ file'.key = c.key /\ config'.key = c.key
         /\ file'.key <= given' /\ config' # NoConfig
BY DEF SetConfig, Keeps, NoConfig

(* What a step leaves of the key is as good as it was.                       *)
LEMMA MainMoves ==
  ASSUME MainInv, UNCHANGED <<config, file, given, agentKey, refused, error>>,
         \/ main' = main
         \/ /\ main \notin {"pop", "remove"} /\ main' \notin Attempts \cup Configured
         \/ /\ main \notin {"pop", "remove"} /\ config # NoConfig
            /\ main' \in Attempts => main \in Attempts
  PROVE  MainInv'
BY DEF MainInv, MainTypeOK, KeyInv, Configured

LEMMA StepMain == MainInv /\ [MainNext]_mainVars => MainInv'
<1> SUFFICES ASSUME MainInv, [MainNext]_mainVars PROVE MainInv'
  OBVIOUS
<1> USE MainAssumption DEF MainInv, MainTypeOK, KeyInv, Attempts, Configured, loadFlags, env,
        MainTo, ReloadConfig
<1>1. CASE Start \/ MainEnds \/ LoopWaits \/ LoopTurns
  BY <1>1 DEF Start, MainEnds, LoopWaits, LoopTurns
<1>2. CASE ReadConfig \/ ReadFails
  BY <1>2 DEF ReadConfig, ReadFails, Keeps, NoConfig
<1>3. CASE ReloadReset \/ RebootReset
  BY <1>3 DEF ReloadReset, RebootReset
<1>4. CASE Load
  <2>1. /\ main = "enabled" /\ UNCHANGED <<config, file, given, refused, error>>
        /\ agentKey' \in {config.key, agentKey}
        /\ main' \in {"info", "test"}
        /\ main' = "info" => agentKey' = config.key /\ config.key # 0
    BY <1>4 DEF Load
  <2>2. config.key \in Nat
    BY <2>1 DEF Keeps
  <2>3. QED
    BY <2>1, <2>2
<1>5. CASE KnowsNodes \/ GetsNoNode \/ UpdateFound
  BY <1>5 DEF KnowsNodes, GetsNoNode, UpdateFound
<1>6. CASE GetsNodes
  <2> DEFINE c == [config EXCEPT !.nodes = MaxNodes]
  <2>1. c \in Keeps /\ c.key = config.key
    BY <1>6 DEF GetsNodes, Keeps
  <2>2. QED
    BY <1>6, <2>1, SetConfigKeeps DEF GetsNodes
<1>7. CASE Connect \/ Ready \/ OnlineEnds \/ Terminated
  BY <1>7 DEF Connect, Ready, OnlineEnds, Terminated
<1>8. ASSUME NEW e \in Errors, ConnectFails(e) PROVE MainInv'
  BY <1>8 DEF ConnectFails
<1>9. CASE PopNode
  <2>1. CASE UNCHANGED <<config, file>>
    BY <1>9, <2>1 DEF PopNode
  <2> DEFINE c == [config EXCEPT !.nodes = @ - 1]
  <2>2. CASE SetConfig(c)
    <3>1. c \in Keeps /\ c.key = config.key
      BY <1>9 DEF PopNode, Keeps
    <3>2. QED
      BY <1>9, <2>2, <3>1, SetConfigKeeps DEF PopNode
  <2>3. QED
    BY <1>9, <2>1, <2>2 DEF PopNode
<1>10. CASE RemoveKey
  <2>1. WithoutKey(config) \in Keeps /\ WithoutKey(config).key = 0
    BY <1>10 DEF RemoveKey, WithoutKey, Keeps
  <2>2. QED
    BY <1>10, <2>1, SetConfigKeeps DEF RemoveKey
<1>11. CASE RemoveKeyReloads \/ ListenerReloads
  <2>1. /\ UNCHANGED <<config, file, given, agentKey, refused, error>>
        /\ main' = main \/ (main = "rereload" /\ main' = "term")
    BY <1>11, Zenon DEF RemoveKeyReloads, ListenerReloads
  <2>2. QED
    BY <2>1, MainMoves
<1>12. CASE SetEnabled
  <2> DEFINE c == [config EXCEPT !.enabled = ~@]
  <2>1. c \in Keeps /\ c.key = config.key
    BY <1>12 DEF SetEnabled, ListenerIdle, Keeps
  <2>2. SetConfig(c) /\ UNCHANGED <<main, agentKey, error, refused, given>>
    BY <1>12, Zenon DEF SetEnabled
  <2>3. config # NoConfig
    BY <1>12 DEF SetEnabled, ListenerIdle
  <2> HIDE DEF c
  <2>4. QED
    BY <2>1, <2>2, <2>3, SetConfigKeeps
<1>13. CASE InstallKey
  <2> DEFINE c == [config EXCEPT !.key = given + 1, !.enabled = TRUE]
  <2>1. config # NoConfig /\ SetConfig(c) /\ UNCHANGED <<main, agentKey, error, refused>>
        /\ given' = given + 1
    BY <1>13, Zenon DEF InstallKey, ListenerIdle
  <2> DEFINE d == [config EXCEPT !.key = given + 1]
  <2>2. c \in Keeps /\ c.key = given + 1
    <3>1. d \in Keeps /\ d.key = given + 1
      BY <2>1 DEF Keeps
    <3> HIDE DEF d
    <3>2. [d EXCEPT !.enabled = TRUE] \in Keeps /\ [d EXCEPT !.enabled = TRUE].key = d.key
      BY <3>1 DEF Keeps
    <3>3. c = [d EXCEPT !.enabled = TRUE]
      BY DEF d
    <3>4. QED
      BY <3>1, <3>2, <3>3
  <2> HIDE DEF c
  <2>3. QED
    BY <2>1, <2>2, SetConfigKeeps
<1>14. CASE UserRemovesKey
  <2>1. WithoutKey(config) \in Keeps /\ WithoutKey(config).key = 0
    BY <1>14 DEF UserRemovesKey, ListenerIdle, WithoutKey, Keeps
  <2>2. SetConfig(WithoutKey(config)) /\ UNCHANGED <<main, agentKey, error, refused, given>>
    BY <1>14, Zenon DEF UserRemovesKey
  <2>3. QED
    BY <2>1, <2>2, SetConfigKeeps
<1>15. CASE \/ ConnectionEnds \/ (\E k \in keys : ForgetKey(k)) \/ ServerReboots
            \/ RebootTask \/ Stop \/ UNCHANGED mainVars
  BY <1>15 DEF ConnectionEnds, ForgetKey, ServerReboots, RebootTask, Stop, mainVars
<1>16. QED
  BY <1>1, <1>2, <1>3, <1>4, <1>5, <1>6, <1>7, <1>8, <1>9, <1>10, <1>11, <1>12, <1>13, <1>14,
     <1>15 DEF MainNext, Main

(* A key the server has removed is not presented again, whatever the user   *)
(* and the listener change while the agent deletes it.                      *)
THEOREM RemovedKeyKeptAway == MainSpec => []RemovedNotPresented
<1>1. MainInv => RemovedNotPresented
  BY DEF MainInv, KeyInv, Attempts, RemovedNotPresented
<1>2. QED
  BY InitMain, StepMain, <1>1, PTL DEF MainSpec

-----------------------------------------------------------------------------
(* Channels: what is left of a transfer on a connection of its own.          *)

Accepted == {"accepted", "open"}
Off(c) == IF cAt[c] \in Accepted /\ cShut[c] THEN 1 ELSE 0
On(c) == IF cAt[c] = "open" THEN 1 ELSE 0

ChanTypeOK ==
  /\ cLink \in [Channel -> {"none", "checked", "up", "lost", "closed"}]
  /\ event \in [Channel -> {"none", "pool", "tell", "done"}]
  /\ cAt \in [Channel -> {"none", "made", "accepted", "open", "end"}]
  /\ cShut \in [Channel -> BOOLEAN] /\ cTemp \in [Channel -> BOOLEAN]
  /\ lateAccept \in [Channel -> BOOLEAN]
  /\ counted \in [Channel -> Int]

(* The end of a connection is told of a lost one, which is never up again.   *)
LinkInv == \A c \in Channel :
  /\ event[c] # "none" => cLink[c] = "lost"
  /\ event[c] \in {"tell", "done"} => c \notin listed

(* A transfer that is not accepted has nothing.  An upload has its file as   *)
(* long as it is not shut, and is counted by its thread's start and off by   *)
(* what shuts it, in either order; a download is counted while it runs.      *)
(* A loss that is told to an accepted transfer shuts it.                     *)
CountInv == \A c \in Channel :
  /\ cAt[c] \in {"none", "made"} => cShut[c] /\ ~cTemp[c] /\ counted[c] = 0
  /\ c \in Ups => /\ cAt[c] = "end" => cShut[c]
                  /\ (cTemp[c] <=> ~cShut[c])
                  /\ counted[c] = On(c) - Off(c)
  /\ c \notin Ups => ~cTemp[c] /\ counted[c] = On(c)
  /\ event[c] = "done" /\ cAt[c] \in Accepted /\ ~lateAccept[c] => cShut[c]

ChanInv == ChanTypeOK /\ LinkInv /\ CountInv

LEMMA InitChan == ChanInit => ChanInv
<1> SUFFICES ASSUME ChanInit PROVE ChanInv
  OBVIOUS
<1>1. ChanTypeOK
  BY DEF ChanInit, ChanTypeOK
<1>2. LinkInv
  BY DEF ChanInit, LinkInv
<1>3. CountInv
  BY DEF ChanInit, CountInv, On, Off, Accepted
<1>4. QED
  BY <1>1, <1>2, <1>3 DEF ChanInv

LEMMA StepChan == ChanInv /\ [ChanNext]_chanVars => ChanInv'
<1> SUFFICES ASSUME ChanInv, [ChanNext]_chanVars PROVE ChanInv'
  OBVIOUS
<1> USE DEF ChanInv, ChanTypeOK, LinkInv, CountInv, On, Off, Accepted, poolVars, useVars, CloseOf
<1>1. CASE Unlock \/ DestroyPool \/ UNCHANGED chanVars
  BY <1>1 DEF Unlock, DestroyPool, chanVars
<1>2. ASSUME NEW c \in Channel, OpenChecks(c) \/ OpenConnection(c) PROVE ChanInv'
  BY <1>2 DEF OpenChecks, OpenConnection
<1>3. ASSUME NEW c \in Channel, Lose(c) \/ CloseConnection(c) PROVE ChanInv'
  BY <1>3 DEF Lose, CloseConnection
<1>4. ASSUME NEW c \in Channel, DestroyCloses(c) PROVE ChanInv'
  BY <1>4 DEF DestroyCloses
<1>5. ASSUME NEW c \in Channel, Make(c) PROVE ChanInv'
  BY <1>5 DEF Make
<1>6. ASSUME NEW c \in Channel, AcceptOld(c) PROVE ChanInv'
  BY <1>6 DEF AcceptOld
<1>7. ASSUME NEW c \in Channel, RefuseOld(c) PROVE ChanInv'
  BY <1>7 DEF RefuseOld
<1>8. ASSUME NEW c \in Channel, Count(c) PROVE ChanInv'
  BY <1>8 DEF Count
<1>9. ASSUME NEW c \in Channel, RunEnds(c) PROVE ChanInv'
  BY <1>9 DEF RunEnds
<1>10. ASSUME NEW c \in Channel, DataFails(c) PROVE ChanInv'
  BY <1>10 DEF DataFails
<1>11. ASSUME NEW c \in Channel, Commit(c) PROVE ChanInv'
  BY <1>11 DEF Commit
<1>12. ASSUME NEW c \in Channel, OnCloseConn(c) PROVE ChanInv'
  <2>1. CASE cShut[c]
    BY <1>12, <2>1 DEF OnCloseConn
  <2>2. CASE ~cShut[c]
    <3>1. /\ event[c] = "tell" /\ event' = [event EXCEPT ![c] = "done"]
          /\ cShut' = [cShut EXCEPT ![c] = TRUE] /\ cTemp' = [cTemp EXCEPT ![c] = FALSE]
          /\ counted' = [counted EXCEPT ![c] = IF c \in Ups THEN @ - 1 ELSE @]
          /\ UNCHANGED <<listed, cLink, cAt, lateAccept>>
      BY <1>12, <2>2 DEF OnCloseConn
    <3>2. ChanTypeOK'
      BY <3>1
    <3>3. LinkInv'
      BY <3>1
    <3>4. CountInv'
      BY <2>2, <3>1
    <3>5. QED
      BY <3>2, <3>3, <3>4
  <2>3. QED
    BY <2>1, <2>2
<1>13. QED
  BY <1>1, <1>2, <1>3, <1>4, <1>5, <1>6, <1>7, <1>8, <1>9, <1>10, <1>11, <1>12 DEF ChanNext

(* What ended by itself or by the loss of its connection is off the pool's   *)
(* list, counted off and without its file, unless the accept came after the  *)
(* loss was told or the connection closed, and but for an open upload whose  *)
(* connection its session closes.                                            *)
THEOREM TransfersAreSettled == ChanSpec => []TransferSettled
<1>1. ChanInv => TransferSettled
  BY DEF ChanInv, ChanTypeOK, LinkInv, CountInv, On, Off, Accepted, TransferSettled
<1>2. QED
  BY InitChan, StepChan, <1>1, PTL DEF ChanSpec

-----------------------------------------------------------------------------
(* Transfers: whose a socket is, and whose the answers on it.                *)

Elements(s) == {s[i] : i \in 1..Len(s)}
Once(s) == \A i, j \in 1..Len(s) : s[i] = s[j] => i = j

Early == {"new", "refused", "start", "get"}
Exchanging == {"write", "code", "read"}
Holding == {"check", "request"} \cup Exchanging
Phases == Early \cup Holding \cup {"except", "final", "finish", "end"}

TransferTypeOK ==
  /\ idle \in Seq(Socket) /\ sockState \in [Socket -> {"new", "open", "closed"}]
  /\ held \in [Transfer -> Socket \cup {NoSock}]
  /\ phase \in [Transfer -> Phases]
  /\ connected \in [Transfer -> BOOLEAN]

PiecesTypeOK ==
  /\ inbox \in [Socket -> Seq(Transfer)] /\ due \in [Socket -> Seq(Transfer)]
  /\ eof \in [Socket -> BOOLEAN] /\ want \in [Socket -> Nat]
  /\ answered \in [Transfer -> BOOLEAN] /\ abandoned \in BOOLEAN
  /\ got \in [Transfer -> SUBSET Transfer]

(* Where a thread is tells whether it holds a socket; one that is connected  *)
(* has it, and gives it back when it is not any more.                        *)
HeldInv == \A e \in Transfer :
  /\ phase[e] \in Early => held[e] = NoSock
  /\ phase[e] \in Holding => held[e] # NoSock
  /\ phase[e] \in Early \cup {"check", "request"} => ~connected[e]
  /\ phase[e] \in Exchanging => connected[e]
  /\ connected[e] => held[e] # NoSock
  /\ phase[e] = "write" => e \notin Gets
  /\ phase[e] = "read" => e \in Gets

(* A socket of the list is in it once, open, and nobody's; a held one is     *)
(* open and held by one.                                                     *)
PlaceInv ==
  /\ Once(idle)
  /\ \A s \in Elements(idle) : sockState[s] = "open"
  /\ \A e \in Transfer : held[e] # NoSock =>
       /\ held[e] \notin Elements(idle) /\ sockState[held[e]] = "open"
       /\ \A f \in Transfer : held[f] = held[e] => f = e

(* What is left on a socket, and whose it is.                                *)
Clean(s) == inbox[s] = <<>> /\ due[s] = <<>>
Spent(s) == eof[s] \/ Clean(s)
Owed(a, b, e, n) ==
  /\ Len(a) + Len(b) <= n
  /\ \A i \in 1..Len(a) : a[i] = e
  /\ \A i \in 1..Len(b) : b[i] = e
Owes(s, e, n) == Owed(inbox[s], due[s], e, n)

(* A socket that changes hands has nothing left on it, or has ended and will *)
(* be found so: an exchange that is not given up takes all that it asked for, *)
(* a POST its one answer and a GET its two pieces.                           *)
Owing(e) ==
  /\ phase[e] = "check" => Spent(held[e])
  /\ phase[e] = "request" => Clean(held[e])
  /\ phase[e] = "write" => /\ Owes(held[e], e, 1)
                           /\ want[held[e]] > 0 => Clean(held[e])
  /\ phase[e] = "code" => Owes(held[e], e, IF e \in Gets THEN 2 ELSE 1)
  /\ phase[e] = "read" => Owes(held[e], e, 1)
  /\ phase[e] \in {"except", "final"} /\ connected[e] => Spent(held[e])
  /\ phase[e] \in Early \cup {"check", "request"} => ~answered[e]
  /\ phase[e] \in Exchanging /\ answered[e] => eof[held[e]]
  /\ got[e] \subseteq {e}
OweInv ==
  /\ \A s \in Socket : sockState[s] = "new" => Clean(s)
  /\ ~abandoned => /\ \A s \in Elements(idle) : Spent(s)
                   /\ \A e \in Transfer : Owing(e)

TransferInv == TransferTypeOK /\ PiecesTypeOK /\ HeldInv /\ PlaceInv /\ OweInv

LEMMA InitTransfers == TransferInit => TransferInv
<1> SUFFICES ASSUME TransferInit PROVE TransferInv
  OBVIOUS
<1> USE DEF TransferInit
<1>1. TransferTypeOK
  BY EmptySeq DEF TransferTypeOK, Phases, Early
<1>2. PiecesTypeOK
  BY EmptySeq DEF PiecesTypeOK
<1>3. HeldInv
  BY DEF HeldInv, Early, Holding, Exchanging
<1>4. PlaceInv
  BY DEF PlaceInv, Once, Elements
<1>5. OweInv
  BY DEF OweInv, Owing, Clean, Elements, Exchanging
<1>6. QED
  BY <1>1, <1>2, <1>3, <1>4, <1>5 DEF TransferInv

(* The list of the pool, with one put at its front, taken from it, or out.   *)
LEMMA ConsOnce ==
  ASSUME NEW S, NEW s \in Seq(S), NEW x \in S, x \notin Elements(s), Once(s)
  PROVE  <<x>> \o s \in Seq(S) /\ Once(<<x>> \o s) /\ Elements(<<x>> \o s) = Elements(s) \cup {x}
<1> DEFINE t == <<x>> \o s
<1>1. t \in Seq(S) /\ Len(t) = Len(s) + 1 /\ Len(s) \in Nat
  BY ConcatProperties, LenProperties
<1>2. \A i \in 1..Len(t) : t[i] = IF i = 1 THEN x ELSE s[i - 1]
  BY ConcatProperties, LenProperties
<1> HIDE DEF t
<1>3. Once(t)
  <2>1. \A k \in 1..Len(s) : s[k] # x
    BY DEF Elements
  <2>2. ASSUME NEW i \in 1..Len(t), NEW j \in 1..Len(t), t[i] = t[j] PROVE i = j
    <3>1. CASE i = 1 \/ j = 1
      BY <1>1, <1>2, <2>1, <2>2, <3>1
    <3>2. CASE i # 1 /\ j # 1
      <4>1. i - 1 \in 1..Len(s) /\ j - 1 \in 1..Len(s) /\ s[i - 1] = s[j - 1]
        BY <1>1, <1>2, <2>2, <3>2
      <4>2. i - 1 = j - 1
        BY <4>1 DEF Once
      <4>3. QED
        BY <4>2
    <3>3. QED
      BY <3>1, <3>2
  <2>3. QED
    BY <2>2 DEF Once
<1>4. Elements(t) \subseteq Elements(s) \cup {x}
  BY <1>1, <1>2 DEF Elements
<1>5. ASSUME NEW y \in Elements(s) \cup {x} PROVE y \in Elements(t)
  <2>1. CASE y = x
    BY <1>1, <1>2, <2>1 DEF Elements
  <2>2. CASE y \in Elements(s)
    <3>1. PICK i \in 1..Len(s) : y = s[i]
      BY <2>2 DEF Elements
    <3>2. i + 1 \in 1..Len(t) /\ t[i + 1] = y
      BY <1>1, <1>2, <3>1
    <3>3. QED
      BY <3>2 DEF Elements
  <2>3. QED
    BY <2>1, <2>2
<1>6. QED
  BY <1>1, <1>3, <1>4, <1>5 DEF t

LEMMA TailOnce ==
  ASSUME NEW S, NEW s \in Seq(S), s # <<>>, Once(s)
  PROVE  /\ Head(s) \in S /\ Head(s) \in Elements(s)
         /\ Tail(s) \in Seq(S) /\ Once(Tail(s)) /\ Elements(Tail(s)) = Elements(s) \ {Head(s)}
<1> DEFINE t == Tail(s)
<1>1. /\ Len(s) \in Nat \ {0} /\ Head(s) = s[1]
      /\ t \in Seq(S) /\ Len(t) = Len(s) - 1 /\ \A i \in 1..Len(t) : t[i] = s[i + 1]
  BY HeadTailProperties, EmptySeq, LenProperties
<1>2. Head(s) \in S /\ Head(s) \in Elements(s)
  BY <1>1, HeadTailProperties DEF Elements
<1> HIDE DEF t
<1>3. Once(t)
  BY <1>1 DEF Once
<1>4. ASSUME NEW y \in Elements(t) PROVE y \in Elements(s) \ {Head(s)}
  <2>1. PICK i \in 1..Len(t) : y = t[i]
    BY DEF Elements
  <2>2. i + 1 \in 1..Len(s) /\ y = s[i + 1] /\ 1 \in 1..Len(s) /\ i + 1 # 1
    BY <1>1, <2>1
  <2>3. y # s[1]
    BY <2>2 DEF Once
  <2>4. QED
    BY <1>1, <2>2, <2>3 DEF Elements
<1>5. ASSUME NEW y \in Elements(s) \ {Head(s)} PROVE y \in Elements(t)
  <2>1. PICK i \in 1..Len(s) : y = s[i]
    BY DEF Elements
  <2>2. i # 1
    BY <1>1, <2>1
  <2>3. i - 1 \in 1..Len(t) /\ t[i - 1] = y
    BY <1>1, <2>1, <2>2
  <2>4. QED
    BY <2>3 DEF Elements
<1>6. QED
  BY <1>1, <1>2, <1>3, <1>4, <1>5 DEF t

LEMMA DropOnce ==
  ASSUME NEW S, NEW s \in Seq(S), NEW i \in 1..Len(s), Once(s)
  PROVE  LET t == SubSeq(s, 1, i - 1) \o SubSeq(s, i + 1, Len(s))
         IN  /\ s[i] \in S /\ s[i] \in Elements(s)
             /\ t \in Seq(S) /\ Once(t) /\ Elements(t) \subseteq Elements(s) \ {s[i]}
<1> DEFINE a == SubSeq(s, 1, i - 1)
           b == SubSeq(s, i + 1, Len(s))
           t == a \o b
<1>1. Len(s) \in Nat /\ s[i] \in S /\ s[i] \in Elements(s)
  BY LenProperties, ElementOfSeq DEF Elements
<1>2. a \in Seq(S) /\ Len(a) = i - 1 /\ \A j \in 1..(i - 1) : a[j] = s[j]
  BY <1>1, SubSeqProperties
<1>3. b \in Seq(S) /\ Len(b) = Len(s) - i /\ \A j \in 1..(Len(s) - i) : b[j] = s[i + j]
  BY <1>1, SubSeqProperties
<1> HIDE DEF a, b
<1>4. t \in Seq(S) /\ Len(t) = Len(s) - 1
      /\ \A j \in 1..Len(t) : t[j] = IF j <= Len(a) THEN a[j] ELSE b[j - Len(a)]
  <2>1. /\ a \o b \in Seq(S) /\ Len(a \o b) = Len(a) + Len(b)
        /\ \A j \in 1..Len(a) + Len(b) :
              (a \o b)[j] = IF j <= Len(a) THEN a[j] ELSE b[j - Len(a)]
    BY <1>2, <1>3, ConcatProperties
  <2>2. Len(a) + Len(b) = Len(s) - 1
    BY <1>1, <1>2, <1>3
  <2>3. QED
    BY <2>1, <2>2
<1> HIDE DEF t
<1>5. ASSUME NEW j \in 1..Len(t)
      PROVE  /\ j < i => t[j] = s[j]
             /\ i <= j => t[j] = s[j + 1]
  <2>1. CASE j < i
    BY <1>1, <1>2, <1>4, <2>1
  <2>2. CASE i <= j
    <3>1. ~(j <= Len(a)) /\ j - Len(a) \in 1..(Len(s) - i)
      BY <1>1, <1>2, <1>4, <2>2
    <3>2. t[j] = s[i + (j - Len(a))]
      BY <1>3, <1>4, <3>1
    <3>3. i + (j - Len(a)) = j + 1
      BY <1>2
    <3>4. QED
      BY <2>2, <3>2, <3>3
  <2>3. QED
    BY <2>1, <2>2
<1>6. \A j \in 1..Len(t) : \E k \in 1..Len(s) :
        t[j] = s[k] /\ k = (IF j < i THEN j ELSE j + 1)
  <2> SUFFICES ASSUME NEW j \in 1..Len(t)
               PROVE  \E k \in 1..Len(s) :
                        t[j] = s[k] /\ k = (IF j < i THEN j ELSE j + 1)
    OBVIOUS
  <2>1. CASE j < i
    <3>1. j \in 1..Len(s) /\ t[j] = s[j]
      BY <1>1, <1>5, <2>1
    <3>2. QED
      BY <2>1, <3>1
  <2>2. CASE i <= j
    <3>1. j + 1 \in 1..Len(s) /\ t[j] = s[j + 1] /\ ~(j < i)
      BY <1>1, <1>4, <1>5, <2>2
    <3>2. QED
      BY <3>1
  <2>3. QED
    BY <1>1, <2>1, <2>2
<1>7. Once(t)
  BY <1>1, <1>4, <1>6 DEF Once
<1>8. Elements(t) \subseteq Elements(s) \ {s[i]}
  BY <1>1, <1>4, <1>6 DEF Elements, Once
<1>9. QED
  BY <1>1, <1>4, <1>7, <1>8 DEF t, a, b

(* What the steps do to the sockets.                                         *)
LEMMA PlaceKept ==
  ASSUME PlaceInv, UNCHANGED <<idle, sockState, held>>
  PROVE  PlaceInv'
BY DEF PlaceInv, Once, Elements

LEMMA PlaceTaken ==
  ASSUME TransferTypeOK, PlaceInv, NEW e \in Transfer, idle # <<>>, held[e] = NoSock,
         held' = [held EXCEPT ![e] = Head(idle)], idle' = Tail(idle), sockState' = sockState
  PROVE  PlaceInv' /\ idle' \in Seq(Socket) /\ held' \in [Transfer -> Socket \cup {NoSock}]
         /\ held'[e] \in Elements(idle) /\ Elements(idle') \subseteq Elements(idle)
<1>1. /\ Head(idle) \in Socket /\ Head(idle) \in Elements(idle) /\ idle' \in Seq(Socket)
      /\ Once(idle') /\ Elements(idle') = Elements(idle) \ {Head(idle)}
  BY TailOnce DEF TransferTypeOK, PlaceInv
<1>2. QED
  BY <1>1 DEF TransferTypeOK, PlaceInv

LEMMA PlaceClosed ==
  ASSUME TransferTypeOK, PlaceInv, NEW e \in Transfer, held[e] # NoSock, idle' = idle,
         sockState' = [sockState EXCEPT ![held[e]] = "closed"],
         held' = [held EXCEPT ![e] = NoSock]
  PROVE  PlaceInv' /\ sockState' \in [Socket -> {"new", "open", "closed"}]
         /\ held' \in [Transfer -> Socket \cup {NoSock}]
<1>1. held[e] \in Socket
  BY DEF TransferTypeOK
<1>2. QED
  BY <1>1 DEF TransferTypeOK, PlaceInv

LEMMA PlaceGiven ==
  ASSUME TransferTypeOK, PlaceInv, NEW e \in Transfer, held[e] # NoSock,
         sockState' = sockState, idle' = <<held[e]>> \o idle,
         held' = [held EXCEPT ![e] = NoSock]
  PROVE  PlaceInv' /\ idle' \in Seq(Socket) /\ held' \in [Transfer -> Socket \cup {NoSock}]
         /\ Elements(idle') = Elements(idle) \cup {held[e]}
<1>1. held[e] \in Socket /\ held[e] \notin Elements(idle) /\ Once(idle) /\ idle \in Seq(Socket)
  BY DEF TransferTypeOK, PlaceInv
<1>2. /\ idle' \in Seq(Socket) /\ Once(idle') /\ Elements(idle') = Elements(idle) \cup {held[e]}
  BY <1>1, ConsOnce
<1>3. QED
  BY <1>1, <1>2 DEF TransferTypeOK, PlaceInv

LEMMA PlaceOpened ==
  ASSUME TransferTypeOK, PlaceInv, NEW e \in Transfer, held[e] = NoSock, idle' = idle,
         NEW s \in Socket, sockState[s] = "new",
         sockState' = [sockState EXCEPT ![s] = "open"], held' = [held EXCEPT ![e] = s]
  PROVE  PlaceInv' /\ sockState' \in [Socket -> {"new", "open", "closed"}]
         /\ held' \in [Transfer -> Socket \cup {NoSock}]
BY DEF TransferTypeOK, PlaceInv

LEMMA PlaceSwept ==
  ASSUME TransferTypeOK, PlaceInv, Sweep
  PROVE  /\ PlaceInv' /\ idle' \in Seq(Socket) /\ Elements(idle') \subseteq Elements(idle)
         /\ sockState' \in [Socket -> {"new", "open", "closed"}]
         /\ \A s \in Socket : sockState'[s] = "new" => sockState[s] = "new"
<1>1. PICK i \in DOMAIN idle :
        /\ sockState' = [sockState EXCEPT ![idle[i]] = "closed"]
        /\ idle' = SubSeq(idle, 1, i - 1) \o SubSeq(idle, i + 1, Len(idle))
  BY DEF Sweep
<1>2. i \in 1..Len(idle) /\ Once(idle) /\ idle \in Seq(Socket)
  BY LenProperties DEF TransferTypeOK, PlaceInv
<1>3. /\ idle[i] \in Socket /\ idle[i] \in Elements(idle) /\ idle' \in Seq(Socket)
      /\ Once(idle') /\ Elements(idle') \subseteq Elements(idle) \ {idle[i]}
  BY <1>1, <1>2, DropOnce
<1>4. held' = held
  BY DEF Sweep, exchangeVars
<1>5. QED
  BY <1>1, <1>3, <1>4 DEF TransferTypeOK, PlaceInv

LEMMA PlaceDestroyed ==
  ASSUME TransferTypeOK, PlaceInv, DestroyPoll
  PROVE  /\ PlaceInv' /\ idle' \in Seq(Socket) /\ Elements(idle') = {}
         /\ sockState' \in [Socket -> {"new", "open", "closed"}]
         /\ \A s \in Socket : sockState'[s] = "new" => sockState[s] = "new"
<1>1. idle' = <<>> /\ held' = held
  BY DEF DestroyPoll, exchangeVars
<1>2. idle' \in Seq(Socket) /\ Once(idle') /\ Elements(idle') = {}
  BY <1>1, EmptySeq DEF Once, Elements
<1>3. sockState' = [s \in Socket |-> IF s \in Elements(idle) THEN "closed" ELSE sockState[s]]
  BY LenProperties DEF DestroyPoll, Elements, TransferTypeOK
<1>4. QED
  BY <1>1, <1>2, <1>3 DEF TransferTypeOK, PlaceInv

(* A socket is taken from the pool, opened, closed and given back by one     *)
(* step each, so that it is never in two hands.                              *)
Places == TransferTypeOK /\ HeldInv /\ PlaceInv

LEMMA StepPlaces == Places /\ [TransferNext]_transferVars => Places'
<1> SUFFICES ASSUME Places, [TransferNext]_transferVars PROVE Places'
  OBVIOUS
<1> USE TransferAssumption DEF Places, TransferTo
<1>a. TransferTypeOK /\ HeldInv /\ PlaceInv
  OBVIOUS
<1>b. ASSUME UNCHANGED <<idle, sockState, held, connected>>, NEW e \in Transfer,
             NEW q \in Phases, phase' = [phase EXCEPT ![e] = q],
             q \in Early => phase[e] \in Early,
             q \in Holding => phase[e] \in Holding,
             q \in {"check", "request"} => phase[e] \in {"check", "request"},
             q \in Exchanging => phase[e] \in Exchanging,
             q = "write" => phase[e] = "write",
             q = "read" => e \in Gets
      PROVE  Places'
  <2>1. PlaceInv'
    BY <1>b, PlaceKept
  <2>2. QED
    BY <1>b, <2>1 DEF TransferTypeOK, HeldInv
<1>1. CASE \/ UNCHANGED transferVars
           \/ \E s \in Socket : ServerSends(s) \/ Hangup(s)
           \/ \E e \in Transfer : AnswerEarly(e) \/ WritePiece(e)
  <2>1. UNCHANGED <<idle, sockState, held, connected, phase>>
    BY <1>1, Zenon DEF transferVars, sockVars, exchangeVars, ServerSends, Hangup, AnswerEarly,
       WritePiece
  <2>2. QED
    BY <2>1, PlaceKept DEF TransferTypeOK, HeldInv
<1>2. ASSUME NEW e \in Transfer, AcceptTransfer(e) \/ AcceptFails(e) \/ OnStart(e)
      PROVE  Places'
  <2>1. \E q \in {"start", "refused", "get"} :
          /\ phase[e] \in Early /\ phase' = [phase EXCEPT ![e] = q]
          /\ UNCHANGED <<idle, sockState, held, connected>>
    BY <1>2, Zenon DEF AcceptTransfer, AcceptFails, OnStart, sockVars, exchangeVars, Early
  <2>2. QED
    BY <1>b, <2>1 DEF Phases, Early, Holding, Exchanging
<1>3. ASSUME NEW e \in Transfer, Take(e) PROVE Places'
  <2>1. /\ idle # <<>> /\ phase[e] = "get" /\ phase' = [phase EXCEPT ![e] = "check"]
        /\ held' = [held EXCEPT ![e] = Head(idle)] /\ idle' = Tail(idle)
        /\ UNCHANGED <<sockState, connected>>
    BY <1>3 DEF Take
  <2>2. held[e] = NoSock
    BY <2>1 DEF HeldInv, Early
  <2>3. /\ PlaceInv' /\ idle' \in Seq(Socket) /\ held' \in [Transfer -> Socket \cup {NoSock}]
        /\ held'[e] \in Elements(idle)
    BY <2>1, <2>2, PlaceTaken
  <2>4. held'[e] \in Socket
    BY <2>3, ElementOfSeq DEF Elements, TransferTypeOK
  <2>5. QED
    BY <2>1, <2>3, <2>4 DEF TransferTypeOK, HeldInv, Phases, Early, Holding, Exchanging
<1>4. ASSUME NEW e \in Transfer, Check(e) PROVE Places'
  <2>1. CASE inbox[held[e]] = <<>> /\ ~eof[held[e]]
    BY <1>4, <1>b, <2>1 DEF Check, Phases, Early, Holding, Exchanging
  <2>2. CASE ~(inbox[held[e]] = <<>> /\ ~eof[held[e]])
    <3>1. /\ phase[e] = "check" /\ phase' = [phase EXCEPT ![e] = "get"]
          /\ sockState' = [sockState EXCEPT ![held[e]] = "closed"]
          /\ held' = [held EXCEPT ![e] = NoSock] /\ UNCHANGED <<idle, connected>>
      BY <1>4, <2>2 DEF Check
    <3>2. held[e] # NoSock
      BY <3>1 DEF HeldInv, Holding
    <3>3. PlaceInv' /\ sockState' \in [Socket -> {"new", "open", "closed"}]
          /\ held' \in [Transfer -> Socket \cup {NoSock}]
      BY <3>1, <3>2, PlaceClosed
    <3>4. QED
      BY <3>1, <3>3 DEF TransferTypeOK, HeldInv, Phases, Early, Holding, Exchanging
  <2>3. QED
    BY <2>1, <2>2
<1>5. ASSUME NEW e \in Transfer, ConnectSocket(e) PROVE Places'
  <2>1. CASE TransferTo(e, "get", "except") /\ UNCHANGED <<sockState, held>>
    <3>1. UNCHANGED <<idle, connected>>
      BY <1>5 DEF ConnectSocket
    <3>2. QED
      BY <1>b, <2>1, <3>1 DEF Phases, Early, Holding, Exchanging
  <2>2. CASE TransferTo(e, "get", "request")
    <3> DEFINE s == CHOOSE s \in Socket : sockState[s] = "new"
    <3>1. /\ phase[e] = "get" /\ phase' = [phase EXCEPT ![e] = "request"]
          /\ \E r \in Socket : sockState[r] = "new"
          /\ sockState' = [sockState EXCEPT ![s] = "open"]
          /\ held' = [held EXCEPT ![e] = s] /\ UNCHANGED <<idle, connected>>
      <4>1. phase'[e] = "request"
        BY <2>2 DEF TransferTypeOK
      <4>2. ~TransferTo(e, "get", "except")
        BY <4>1 DEF TransferTypeOK
      <4>3. QED
        BY <1>5, <2>2, <4>2 DEF ConnectSocket
    <3>2. s \in Socket /\ sockState[s] = "new" /\ held[e] = NoSock
      BY <3>1 DEF HeldInv, Early
    <3> HIDE DEF s
    <3>3. PlaceInv' /\ sockState' \in [Socket -> {"new", "open", "closed"}]
          /\ held' \in [Transfer -> Socket \cup {NoSock}]
      BY <3>1, <3>2, PlaceOpened
    <3>4. QED
      BY <3>1, <3>2, <3>3 DEF TransferTypeOK, HeldInv, Phases, Early, Holding, Exchanging
  <2>3. QED
    BY <1>5, <2>1, <2>2 DEF ConnectSocket
<1>6. ASSUME NEW e \in Transfer, SendRequest(e) PROVE Places'
  <2>1. /\ phase[e] = "request"
        /\ phase' = [phase EXCEPT ![e] = IF e \in Gets THEN "code" ELSE "write"]
        /\ connected' = [connected EXCEPT ![e] = TRUE] /\ UNCHANGED <<idle, sockState, held>>
    BY <1>6 DEF SendRequest
  <2>2. PlaceInv'
    BY <2>1, PlaceKept
  <2>3. QED
    BY <2>1, <2>2 DEF TransferTypeOK, HeldInv, Phases, Early, Holding, Exchanging
<1>7. ASSUME NEW e \in Transfer,
             RequestFails(e) \/ BadCode(e) \/ Ended(e) \/ DiskFails(e)
      PROVE  Places'
  <2>1. /\ phase[e] \in Holding /\ phase' = [phase EXCEPT ![e] = "except"]
        /\ UNCHANGED <<idle, sockState, held, connected>>
    BY <1>7 DEF RequestFails, BadCode, Ended, DiskFails, TakePiece, sockVars, exchangeVars,
       Holding, Exchanging
  <2>2. QED
    BY <1>b, <2>1 DEF Phases, Early, Holding, Exchanging
<1>8. ASSUME NEW e \in Transfer, WriteFails(e) \/ Timeout(e) PROVE Places'
  <2>1. /\ phase[e] \in Exchanging /\ phase' = [phase EXCEPT ![e] = "except"]
        /\ connected' = [connected EXCEPT ![e] = FALSE]
        /\ sockState' = [sockState EXCEPT ![held[e]] = "closed"]
        /\ held' = [held EXCEPT ![e] = NoSock] /\ UNCHANGED idle
    BY <1>8 DEF WriteFails, Timeout, Break, Exchanging
  <2>2. held[e] # NoSock
    BY <2>1 DEF HeldInv
  <2>3. PlaceInv' /\ sockState' \in [Socket -> {"new", "open", "closed"}]
        /\ held' \in [Transfer -> Socket \cup {NoSock}]
    BY <2>1, <2>2, PlaceClosed
  <2>4. QED
    BY <2>1, <2>3 DEF TransferTypeOK, HeldInv, Phases, Early, Holding, Exchanging
<1>9. ASSUME NEW e \in Transfer, AllWritten(e) \/ ReadCode(e) \/ ReadPiece(e) \/ OnExcept(e)
      PROVE  Places'
  <2>1. CASE AllWritten(e)
    BY <1>b, <2>1 DEF AllWritten, sockVars, exchangeVars, Phases, Early, Holding, Exchanging
  <2>2. CASE ReadCode(e)
    BY <1>b, <2>2 DEF ReadCode, TakePiece, exchangeVars, Phases, Early, Holding, Exchanging
  <2>3. CASE ReadPiece(e)
    BY <1>b, <2>3 DEF ReadPiece, TakePiece, exchangeVars, Phases, Early, Holding, Exchanging
  <2>4. CASE OnExcept(e)
    BY <1>b, <2>4 DEF OnExcept, sockVars, exchangeVars, Phases, Early, Holding, Exchanging
  <2>5. QED
    BY <1>9, <2>1, <2>2, <2>3, <2>4
<1>10. ASSUME NEW e \in Transfer, Disconnect(e) PROVE Places'
  <2>1. /\ phase[e] = "final" /\ phase' = [phase EXCEPT ![e] = "finish"]
        /\ connected' = [connected EXCEPT ![e] = FALSE]
    BY <1>10 DEF Disconnect
  <2>2. CASE ~connected[e]
    <3>1. UNCHANGED <<idle, sockState, held>>
      BY <1>10, <2>2 DEF Disconnect
    <3>2. PlaceInv'
      BY <3>1, PlaceKept
    <3>3. QED
      BY <2>1, <3>1, <3>2 DEF TransferTypeOK, HeldInv, Phases, Early, Holding, Exchanging
  <2>3. CASE connected[e]
    <3>1. held[e] # NoSock
      BY <2>3 DEF HeldInv
    <3>2. PlaceInv' /\ idle' \in Seq(Socket) /\ sockState' \in [Socket -> {"new", "open", "closed"}]
          /\ held' \in [Transfer -> Socket \cup {NoSock}]
      <4>1. CASE keep[e]
        <5>1. /\ held' = [held EXCEPT ![e] = NoSock] /\ idle' = <<held[e]>> \o idle
              /\ sockState' = sockState
          BY <1>10, <2>3, <4>1 DEF Disconnect
        <5>2. QED
          BY <3>1, <5>1, PlaceGiven DEF TransferTypeOK
      <4>2. CASE ~keep[e]
        <5>1. /\ held' = [held EXCEPT ![e] = NoSock] /\ idle' = idle
              /\ sockState' = [sockState EXCEPT ![held[e]] = "closed"]
          BY <1>10, <2>3, <4>2 DEF Disconnect
        <5>2. QED
          BY <3>1, <5>1, PlaceClosed DEF TransferTypeOK
      <4>3. QED
        BY <4>1, <4>2
    <3>3. held' = [held EXCEPT ![e] = NoSock]
      BY <1>10, <2>3 DEF Disconnect
    <3>4. QED
      BY <2>1, <3>2, <3>3 DEF TransferTypeOK, HeldInv, Phases, Early, Holding, Exchanging
  <2>4. QED
    BY <2>2, <2>3
<1>11. ASSUME NEW e \in Transfer, OnComplete(e) \/ Incomplete(e) \/ SyncFails(e)
       PROVE  Places'
  <2>1. /\ phase[e] = "finish" /\ phase' = [phase EXCEPT ![e] = "end"]
        /\ UNCHANGED <<idle, sockState, held, connected>>
    BY <1>11 DEF OnComplete, Incomplete, SyncFails, sockVars, exchangeVars
  <2>2. QED
    BY <1>b, <2>1 DEF Phases, Early, Holding, Exchanging
<1>12. CASE Sweep
  <2>1. /\ PlaceInv' /\ idle' \in Seq(Socket)
        /\ sockState' \in [Socket -> {"new", "open", "closed"}]
    BY <1>12, PlaceSwept
  <2>2. UNCHANGED <<held, phase, connected>>
    BY <1>12 DEF Sweep, exchangeVars
  <2>3. QED
    BY <2>1, <2>2 DEF TransferTypeOK, HeldInv
<1>13. CASE DestroyPoll
  <2>1. /\ PlaceInv' /\ idle' \in Seq(Socket)
        /\ sockState' \in [Socket -> {"new", "open", "closed"}]
    BY <1>13, PlaceDestroyed
  <2>2. UNCHANGED <<held, phase, connected>>
    BY <1>13 DEF DestroyPoll, exchangeVars
  <2>3. QED
    BY <2>1, <2>2 DEF TransferTypeOK, HeldInv
<1>14. QED
  BY <1>1, <1>2, <1>3, <1>4, <1>5, <1>6, <1>7, <1>8, <1>9, <1>10, <1>11, <1>12, <1>13
  DEF TransferNext, Works

(* The pieces that are owed to a transfer, as they are asked for, sent,      *)
(* taken, and cut off by the end of the socket.                              *)
LEMMA OwedNone ==
  ASSUME NEW S, NEW a \in Seq(S), NEW b \in Seq(S), NEW e, Owed(a, b, e, 0)
  PROVE  a = <<>> /\ b = <<>>
BY EmptySeq, LenProperties DEF Owed

LEMMA OwedSent ==
  ASSUME NEW S, NEW a \in Seq(S), NEW b \in Seq(S), b # <<>>, NEW e, NEW n \in Nat,
         Owed(a, b, e, n)
  PROVE  /\ Append(a, Head(b)) \in Seq(S) /\ Tail(b) \in Seq(S)
         /\ Owed(Append(a, Head(b)), Tail(b), e, n)
<1>1. /\ Len(a) \in Nat /\ Len(b) \in Nat \ {0}
      /\ Head(b) = b[1] /\ Head(b) \in S /\ Tail(b) \in Seq(S) /\ Len(Tail(b)) = Len(b) - 1
      /\ \A i \in 1..Len(Tail(b)) : Tail(b)[i] = b[i + 1]
  BY HeadTailProperties, EmptySeq, LenProperties
<1>2. /\ Append(a, Head(b)) \in Seq(S) /\ Len(Append(a, Head(b))) = Len(a) + 1
      /\ \A i \in 1..Len(a) : Append(a, Head(b))[i] = a[i]
      /\ Append(a, Head(b))[Len(a) + 1] = Head(b)
  BY <1>1, AppendProperties
<1>3. Head(b) = e
  BY <1>1 DEF Owed
<1>4. QED
  BY <1>1, <1>2, <1>3 DEF Owed

LEMMA OwedTaken ==
  ASSUME NEW S, NEW a \in Seq(S), NEW b \in Seq(S), a # <<>>, NEW e, NEW n \in Nat,
         Owed(a, b, e, n)
  PROVE  Head(a) = e /\ Tail(a) \in Seq(S) /\ Owed(Tail(a), b, e, n - 1)
<1>1. /\ Len(a) \in Nat \ {0} /\ Len(b) \in Nat
      /\ Head(a) = a[1] /\ Tail(a) \in Seq(S) /\ Len(Tail(a)) = Len(a) - 1
      /\ \A i \in 1..Len(Tail(a)) : Tail(a)[i] = a[i + 1]
  BY HeadTailProperties, EmptySeq, LenProperties
<1>2. QED
  BY <1>1 DEF Owed

LEMMA OwedCut ==
  ASSUME NEW S, NEW a \in Seq(S), NEW b \in Seq(S), NEW e, NEW n \in Nat
  PROVE  /\ Owed(a, b, e, n) => Owed(a, <<>>, e, n)
         /\ Owed(<<>>, <<>>, e, n)
BY EmptySeq, LenProperties DEF Owed

LEMMA OwedAsked ==
  ASSUME NEW S, NEW e \in S
  PROVE  /\ <<e>> \in Seq(S) /\ Owed(<<>>, <<e>>, e, 1)
         /\ Append(<<>>, e) = <<e>>
         /\ <<>> \o <<e, e>> \in Seq(S) /\ Owed(<<>>, <<>> \o <<e, e>>, e, 2)
<1>1. <<>> \in Seq(S) /\ <<e>> \in Seq(S) /\ <<e, e>> \in Seq(S)
  BY EmptySeq
<1>2. <<>> \o <<e, e>> = <<e, e>> /\ Append(<<>>, e) = <<e>>
  BY <1>1
<1>3. Len(<<>>) = 0 /\ Len(<<e>>) = 1 /\ Len(<<e, e>>) = 2
  OBVIOUS
<1>4. QED
  BY <1>1, <1>2, <1>3 DEF Owed

LEMMA StepPieces == Places /\ PiecesTypeOK /\ [TransferNext]_transferVars => PiecesTypeOK'
<1> SUFFICES ASSUME Places, PiecesTypeOK, [TransferNext]_transferVars PROVE PiecesTypeOK'
  OBVIOUS
<1> USE TransferAssumption DEF PiecesTypeOK
<1>a. ASSUME UNCHANGED <<inbox, due, eof, want, answered, got>>, abandoned' \in BOOLEAN
      PROVE  PiecesTypeOK'
  BY <1>a
<1>b. ASSUME NEW e \in Transfer, phase[e] \in Holding PROVE held[e] \in Socket
  BY <1>b DEF Places, HeldInv, TransferTypeOK
<1>1. CASE \/ UNCHANGED transferVars \/ Sweep \/ DestroyPoll
           \/ \E e \in Transfer : \/ AcceptTransfer(e) \/ AcceptFails(e) \/ OnStart(e) \/ Take(e)
                                  \/ Check(e) \/ ConnectSocket(e) \/ RequestFails(e)
                                  \/ WriteFails(e) \/ AllWritten(e) \/ Ended(e) \/ Timeout(e)
  <2>1. UNCHANGED <<inbox, due, eof, want, answered, got, abandoned>>
    BY <1>1 DEF transferVars, Sweep, DestroyPoll, AcceptTransfer, AcceptFails, OnStart, Take,
       Check, ConnectSocket, RequestFails, WriteFails, Break, AllWritten, Ended, Timeout,
       sockVars, exchangeVars, bodyVars
  <2>2. QED
    BY <1>a, <2>1
<1>2. CASE \E e \in Transfer : \/ OnExcept(e) \/ Disconnect(e) \/ OnComplete(e)
                               \/ Incomplete(e) \/ SyncFails(e) \/ DiskFails(e)
  <2>1. UNCHANGED <<inbox, due, eof, want, answered, got>> /\ abandoned' \in {abandoned, TRUE}
    BY <1>2 DEF OnExcept, Disconnect, OnComplete, Incomplete, SyncFails, DiskFails,
       sockVars, exchangeVars, bodyVars
  <2>2. QED
    BY <1>a, <2>1
<1>3. ASSUME NEW s \in Socket, ServerSends(s) PROVE PiecesTypeOK'
  <2>1. Append(inbox[s], Head(due[s])) \in Seq(Transfer) /\ Tail(due[s]) \in Seq(Transfer)
    BY <1>3, HeadTailProperties, AppendProperties DEF ServerSends
  <2>2. QED
    BY <1>3, <2>1 DEF ServerSends, exchangeVars, bodyVars
<1>4. ASSUME NEW s \in Socket, Hangup(s) PROVE PiecesTypeOK'
  BY <1>4, EmptySeq DEF Hangup, exchangeVars, bodyVars
<1>5. ASSUME NEW e \in Transfer, AnswerEarly(e) PROVE PiecesTypeOK'
  <2>1. held[e] \in Socket
    BY <1>5, <1>b DEF AnswerEarly, Holding, Exchanging
  <2>2. QED
    BY <1>5, <2>1, OwedAsked DEF AnswerEarly, exchangeVars, bodyVars
<1>6. ASSUME NEW e \in Transfer, SendRequest(e) PROVE PiecesTypeOK'
  <2>1. held[e] \in Socket
    BY <1>6, <1>b DEF SendRequest, TransferTo, Holding
  <2>2. due[held[e]] \o <<e, e>> \in Seq(Transfer)
    BY <2>1, ConcatProperties
  <2>3. UNCHANGED <<inbox, eof, answered, got, abandoned>>
    BY <1>6 DEF SendRequest, bodyVars
  <2>4. due' \in [Socket -> Seq(Transfer)] /\ want' \in [Socket -> Nat]
    <3>1. CASE eof[held[e]]
      BY <1>6, <3>1 DEF SendRequest
    <3>2. CASE ~eof[held[e]] /\ e \in Gets
      <4>1. due' = [due EXCEPT ![held[e]] = due[held[e]] \o <<e, e>>] /\ want' = want
        BY <1>6, <2>1, <3>2 DEF SendRequest
      <4>2. QED
        BY <2>1, <2>2, <4>1
    <3>3. CASE ~eof[held[e]] /\ e \notin Gets
      <4>1. want' = [want EXCEPT ![held[e]] = Pieces] /\ due' = due
        BY <1>6, <3>3 DEF SendRequest
      <4>2. QED
        BY <2>1, <4>1
    <3>4. QED
      BY <3>1, <3>2, <3>3
  <2>5. QED
    BY <2>3, <2>4
<1>7. ASSUME NEW e \in Transfer, WritePiece(e) PROVE PiecesTypeOK'
  <2>1. held[e] \in Socket
    BY <1>7, <1>b DEF WritePiece, Holding, Exchanging
  <2>2. Append(due[held[e]], e) \in Seq(Transfer)
    BY <2>1, AppendProperties
  <2>3. answered' \in [Transfer -> BOOLEAN]
    BY <1>7, <2>1, Zenon DEF WritePiece
  <2>4. UNCHANGED <<inbox, eof, got, abandoned>>
    BY <1>7 DEF WritePiece
  <2>5. due' \in [Socket -> Seq(Transfer)] /\ want' \in [Socket -> Nat]
    <3>1. CASE eof[held[e]] \/ want[held[e]] = 0
      BY <1>7, <3>1 DEF WritePiece
    <3>2. CASE ~(eof[held[e]] \/ want[held[e]] = 0)
      <4>1. want' = [want EXCEPT ![held[e]] = @ - 1]
            /\ due' = IF want[held[e]] = 1 THEN [due EXCEPT ![held[e]] = Append(@, e)] ELSE due
        BY <1>7, <3>2 DEF WritePiece
      <4>2. want[held[e]] - 1 \in Nat
        BY <2>1, <3>2
      <4>3. due' \in [Socket -> Seq(Transfer)]
        BY <2>1, <2>2, <4>1
      <4>4. QED
        BY <2>1, <4>1, <4>2, <4>3
    <3>3. QED
      BY <3>1, <3>2
  <2>6. QED
    BY <2>3, <2>4, <2>5
<1>8. ASSUME NEW e \in Transfer, ReadCode(e) \/ BadCode(e) \/ ReadPiece(e) PROVE PiecesTypeOK'
  <2>1. /\ phase[e] \in Exchanging /\ inbox[held[e]] # <<>> /\ TakePiece(e)
        /\ abandoned' \in BOOLEAN
    BY <1>8, Zenon DEF ReadCode, BadCode, ReadPiece, TransferTo, Exchanging
  <2>2. held[e] \in Socket
    BY <2>1, <1>b DEF Holding
  <2>3. Head(inbox[held[e]]) \in Transfer /\ Tail(inbox[held[e]]) \in Seq(Transfer)
    BY <2>1, <2>2, HeadTailProperties
  <2>4. QED
    BY <2>1, <2>2, <2>3 DEF TakePiece, exchangeVars
<1>9. QED
  BY <1>1, <1>2, <1>3, <1>4, <1>5, <1>6, <1>7, <1>8 DEF TransferNext, Works

(* What an exchange does leaves the others' sockets as they are.             *)
LEMMA OwingKept ==
  ASSUME Places, NEW f \in Transfer, Owing(f),
         phase'[f] = phase[f], held'[f] = held[f], connected'[f] = connected[f],
         answered'[f] = answered[f], got'[f] = got[f],
         held[f] # NoSock =>
           /\ inbox'[held[f]] = inbox[held[f]] /\ due'[held[f]] = due[held[f]]
           /\ want'[held[f]] = want[held[f]] /\ eof'[held[f]] = eof[held[f]]
  PROVE  Owing(f)'
<1>1. CASE held[f] # NoSock
  BY <1>1 DEF Owing, Owes, Spent, Clean
<1>2. CASE held[f] = NoSock
  <2>1. phase[f] \notin Holding /\ ~connected[f]
    BY <1>2 DEF Places, HeldInv
  <2>2. QED
    BY <2>1 DEF Owing, Holding, Exchanging
<1>3. QED
  BY <1>1, <1>2

LEMMA OweMoved ==
  ASSUME Places, OweInv, NEW e \in Transfer,
         UNCHANGED <<inbox, due, want, eof>>, abandoned => abandoned',
         \A s \in Socket : sockState'[s] = "new" => sockState[s] = "new",
         ~abandoned => \A s \in Elements(idle') : Spent(s),
         \A f \in Transfer \ {e} : /\ phase'[f] = phase[f] /\ held'[f] = held[f]
                                   /\ connected'[f] = connected[f]
                                   /\ answered'[f] = answered[f] /\ got'[f] = got[f],
         ~abandoned' => Owing(e)'
  PROVE  OweInv'
<1>1. \A s \in Socket : sockState'[s] = "new" => Clean(s)'
  BY DEF OweInv, Clean
<1>2. ASSUME ~abandoned' PROVE \A s \in Elements(idle') : Spent(s)'
  BY <1>2 DEF Spent, Clean
<1>3. ASSUME ~abandoned', NEW f \in Transfer PROVE Owing(f)'
  <2>1. CASE f = e
    BY <1>3, <2>1
  <2>2. CASE f # e
    <3>1. Owing(f)
      BY <1>3 DEF OweInv
    <3>2. QED
      BY <2>2, <3>1, OwingKept
  <2>3. QED
    BY <2>1, <2>2
<1>4. (Elements(idle))' = Elements(idle')
  BY DEF Elements
<1>5. QED
  BY <1>1, <1>2, <1>3, <1>4 DEF OweInv

LEMMA OweHeld ==
  ASSUME Places, OweInv, NEW e \in Transfer, held[e] # NoSock,
         UNCHANGED <<idle, sockState, held>>, abandoned => abandoned',
         \A r \in Socket \ {held[e]} : /\ inbox'[r] = inbox[r] /\ due'[r] = due[r]
                                       /\ want'[r] = want[r] /\ eof'[r] = eof[r],
         \A f \in Transfer \ {e} : /\ phase'[f] = phase[f] /\ connected'[f] = connected[f]
                                   /\ answered'[f] = answered[f] /\ got'[f] = got[f],
         ~abandoned' => Owing(e)'
  PROVE  OweInv'
<1>1. /\ held[e] \notin Elements(idle) /\ sockState[held[e]] = "open"
      /\ \A f \in Transfer : held[f] = held[e] => f = e
  BY DEF Places, PlaceInv
<1>2. \A s \in Socket : sockState'[s] = "new" => Clean(s)'
  BY <1>1 DEF OweInv, Clean
<1>3. Elements(idle) \subseteq Socket /\ \A f \in Transfer : held[f] \in Socket \cup {NoSock}
  BY ElementOfSeq DEF Places, TransferTypeOK, Elements
<1>4. ASSUME ~abandoned' PROVE \A s \in Elements(idle) : Spent(s)'
  BY <1>1, <1>3, <1>4 DEF OweInv, Spent, Clean
<1>5. ASSUME ~abandoned', NEW f \in Transfer PROVE Owing(f)'
  <2>1. CASE f = e
    BY <1>5, <2>1
  <2>2. CASE f # e
    <3>1. Owing(f)
      BY <1>5 DEF OweInv
    <3>2. held[f] # held[e]
      BY <1>1, <2>2
    <3>3. held[f] # NoSock => held[f] \in Socket \ {held[e]}
      BY <1>3, <3>2
    <3>4. QED
      BY <2>2, <3>1, <3>3, OwingKept
  <2>3. QED
    BY <2>1, <2>2
<1>6. (Elements(idle))' = Elements(idle)
  BY DEF Elements
<1>7. QED
  BY <1>2, <1>4, <1>5, <1>6 DEF OweInv

(* A piece is taken by the one to whom it is owed.                           *)
LEMMA TakenPiece ==
  ASSUME Places, PiecesTypeOK, NEW e \in Transfer, held[e] # NoSock, NEW n \in Nat,
         Owes(held[e], e, n), inbox[held[e]] # <<>>, got[e] \subseteq {e}, TakePiece(e)
  PROVE  Owes(held[e], e, n - 1)' /\ got'[e] \subseteq {e}
<1> DEFINE s == held[e]
<1>1. s \in Socket /\ inbox[s] \in Seq(Transfer) /\ due[s] \in Seq(Transfer)
  BY DEF Places, TransferTypeOK, PiecesTypeOK
<1>2. Head(inbox[s]) = e /\ Owed(Tail(inbox[s]), due[s], e, n - 1)
  BY <1>1, OwedTaken DEF Owes
<1>3. inbox'[s] = Tail(inbox[s]) /\ due'[s] = due[s] /\ held' = held
  BY <1>1 DEF TakePiece, PiecesTypeOK, exchangeVars
<1>4. got'[e] = got[e] \cup {Head(inbox[s])}
  BY DEF TakePiece, PiecesTypeOK
<1>5. Owed(inbox'[s], due'[s], e, n - 1)
  BY <1>2, <1>3
<1>6. (Owes(held[e], e, n - 1))' = Owed(inbox'[s], due'[s], e, n - 1)
  BY <1>3 DEF Owes, Owed
<1>7. QED
  BY <1>2, <1>4, <1>5, <1>6

LEMMA TakeFrame ==
  ASSUME Places, PiecesTypeOK, OweInv, NEW e \in Transfer, held[e] # NoSock, TakePiece(e),
         NEW q, phase' = [phase EXCEPT ![e] = q], abandoned => abandoned',
         ~abandoned' => Owing(e)'
  PROVE  OweInv'
<1>1. held[e] \in Socket
  BY DEF Places, TransferTypeOK
<1>2. UNCHANGED <<idle, sockState, held, connected, answered, due, want, eof>>
  BY DEF TakePiece, exchangeVars
<1>3. \A r \in Socket \ {held[e]} : inbox'[r] = inbox[r]
  BY <1>1 DEF TakePiece, PiecesTypeOK
<1>4. \A f \in Transfer \ {e} : phase'[f] = phase[f] /\ got'[f] = got[f]
  BY DEF TakePiece, PiecesTypeOK, Places, TransferTypeOK
<1>5. QED
  BY <1>2, <1>3, <1>4, OweHeld

LEMMA ReadOwes ==
  ASSUME Places, PiecesTypeOK, OweInv, NEW e \in Transfer,
         ReadCode(e) \/ BadCode(e) \/ ReadPiece(e)
  PROVE  OweInv'
<1> USE DEF TransferTo
<1>1. /\ phase[e] \in {"code", "read"} /\ inbox[held[e]] # <<>> /\ TakePiece(e)
      /\ phase[e] = "code" => ~answered[e]
      /\ phase[e] = "read" => e \in Gets
  BY DEF ReadCode, BadCode, ReadPiece, Places, HeldInv
<1>2. abandoned => abandoned'
  BY Zenon DEF ReadCode, BadCode, ReadPiece
<1>3. PICK q \in {"read", "final", "except"} : phase' = [phase EXCEPT ![e] = q]
  BY Zenon DEF ReadCode, BadCode, ReadPiece
<1>4. /\ phase[e] = "code" /\ e \in Gets /\ ~abandoned' => q = "read"
      /\ ~(phase[e] = "code" /\ e \in Gets) => q # "read"
  <2>1. phase'[e] = q
    BY <1>3 DEF Places, TransferTypeOK
  <2>2. CASE ReadCode(e)
    BY <2>1, <2>2 DEF ReadCode, Places, TransferTypeOK
  <2>3. CASE BadCode(e)
    BY <2>1, <2>3 DEF BadCode, Places, TransferTypeOK
  <2>4. CASE ReadPiece(e)
    BY <2>1, <2>4 DEF ReadPiece, Places, TransferTypeOK
  <2>5. QED
    BY <2>2, <2>3, <2>4
<1>5. held[e] # NoSock /\ held[e] \in Socket
  BY <1>1 DEF Places, HeldInv, TransferTypeOK, Holding, Exchanging
<1>6. UNCHANGED <<held, connected, answered, eof>> /\ phase'[e] = q
  BY <1>1, <1>3 DEF TakePiece, exchangeVars, Places, TransferTypeOK
<1>7. ASSUME ~abandoned' PROVE Owing(e)'
  <2>1. Owing(e)
    BY <1>2, <1>7 DEF OweInv
  <2>2. got[e] \subseteq {e}
    BY <2>1 DEF Owing
  <2>3. CASE phase[e] = "code" /\ e \in Gets
    <3>1. Owes(held[e], e, 2) /\ ~answered[e]
      BY <1>1, <2>1, <2>3 DEF Owing
    <3>2. Owes(held[e], e, 1)' /\ got'[e] \subseteq {e}
      BY <1>1, <1>5, <2>2, <3>1, TakenPiece, 2 - 1 = 1
    <3>3. phase'[e] = "read" /\ ~answered'[e]
      BY <1>4, <1>6, <1>7, <2>3, <3>1
    <3>4. QED
      BY <3>2, <3>3 DEF Owing, Early
  <2>4. CASE ~(phase[e] = "code" /\ e \in Gets)
    <3>1. Owes(held[e], e, 1)
      BY <1>1, <2>1, <2>4 DEF Owing
    <3>2. Owes(held[e], e, 0)' /\ got'[e] \subseteq {e}
      BY <1>1, <1>5, <2>2, <3>1, TakenPiece, 1 - 1 = 0
    <3>3. Clean(held[e])'
      <4>1. PiecesTypeOK'
        <5>1. ReadCode(e) \/ BadCode(e) \/ ReadPiece(e) => [TransferNext]_transferVars
          BY DEF TransferNext, Works
        <5>2. QED
          BY <5>1, StepPieces
      <4>2. inbox'[held[e]] \in Seq(Transfer) /\ due'[held[e]] \in Seq(Transfer)
        BY <1>5, <4>1 DEF PiecesTypeOK
      <4>3. Owed(inbox'[held[e]], due'[held[e]], e, 0)
        BY <1>6, <3>2 DEF Owes, Owed
      <4>4. inbox'[held[e]] = <<>> /\ due'[held[e]] = <<>>
        BY <4>2, <4>3, OwedNone
      <4>5. QED
        BY <1>6, <4>4 DEF Clean
    <3>4. phase'[e] \in {"final", "except"}
      BY <1>3, <1>4, <1>6, <2>4
    <3>5. Spent(held[e])'
      BY <3>3 DEF Spent
    <3>6. QED
      BY <3>2, <3>4, <3>5 DEF Owing, Early, Exchanging
  <2>5. QED
    BY <2>3, <2>4
<1>8. QED
  BY <1>1, <1>2, <1>3, <1>5, <1>7, TakeFrame

(* A request is sent on a socket on which nothing is left: from then on all  *)
(* there is on it is this exchange's.                                        *)
LEMMA AskOwes ==
  ASSUME Places, PiecesTypeOK, OweInv, NEW e \in Transfer,
         SendRequest(e) \/ WritePiece(e) \/ AnswerEarly(e)
  PROVE  OweInv'
<1> DEFINE s == held[e]
<1> USE DEF TransferTo
<1>1. phase[e] \in {"request", "write"}
  BY DEF SendRequest, WritePiece, AnswerEarly
<1>2. s # NoSock /\ s \in Socket
  BY <1>1 DEF Places, HeldInv, TransferTypeOK, Holding, Exchanging
<1>3. UNCHANGED <<idle, sockState, held, inbox, eof, got, abandoned>>
  BY DEF SendRequest, WritePiece, AnswerEarly, exchangeVars, bodyVars
<1>4. /\ \A r \in Socket \ {s} : due'[r] = due[r] /\ want'[r] = want[r]
      /\ \A f \in Transfer \ {e} : /\ phase'[f] = phase[f] /\ connected'[f] = connected[f]
                                   /\ answered'[f] = answered[f]
  <2>1. CASE SendRequest(e)
    <3>1. CASE eof[s] \/ e \notin Gets
      BY <1>2, <2>1, <3>1 DEF SendRequest, PiecesTypeOK, Places, TransferTypeOK
    <3>2. CASE ~eof[s] /\ e \in Gets
      BY <1>2, <2>1, <3>2 DEF SendRequest, PiecesTypeOK, Places, TransferTypeOK
    <3>3. QED
      BY <3>1, <3>2
  <2>2. CASE WritePiece(e)
    <3>1. CASE eof[s] \/ want[s] = 0
      BY <1>2, <2>2, <3>1 DEF WritePiece, PiecesTypeOK
    <3>2. CASE ~(eof[s] \/ want[s] = 0)
      BY <1>2, <2>2, <3>2 DEF WritePiece, PiecesTypeOK
    <3>3. QED
      BY <3>1, <3>2
  <2>3. CASE AnswerEarly(e)
    BY <1>2, <2>3 DEF AnswerEarly, PiecesTypeOK, exchangeVars
  <2>4. QED
    BY <2>1, <2>2, <2>3
<1>5. inbox[s] \in Seq(Transfer) /\ due[s] \in Seq(Transfer) /\ want[s] \in Nat
  BY <1>2 DEF PiecesTypeOK
<1>6. ASSUME ~abandoned' PROVE Owing(e)'
  <2>1. Owing(e)
    BY <1>3, <1>6 DEF OweInv
  <2>2. CASE SendRequest(e)
    <3>1. Clean(s) /\ ~answered[e] /\ phase[e] = "request" /\ got[e] \subseteq {e}
      BY <2>1, <2>2 DEF Owing, SendRequest
    <3>2. /\ ~answered'[e] /\ phase'[e] = IF e \in Gets THEN "code" ELSE "write"
      BY <2>2, <3>1 DEF SendRequest, Places, TransferTypeOK
    <3>3. \/ due'[s] = <<>>
          \/ e \in Gets /\ due'[s] = <<>> \o <<e, e>>
      BY <1>2, <2>2, <3>1 DEF SendRequest, PiecesTypeOK, Clean
    <3>4. Owed(<<>>, due'[s], e, 2) /\ (e \notin Gets => due'[s] = <<>>)
      BY <3>3, OwedAsked, OwedCut, EmptySeq
    <3>5. e \notin Gets => Owed(<<>>, due'[s], e, 1)
      BY <3>4, OwedCut, EmptySeq
    <3>6. held'[e] = s /\ inbox'[s] = <<>> /\ got'[e] \subseteq {e}
      BY <1>3, <3>1 DEF Clean
    <3>7. QED
      BY <3>2, <3>4, <3>5, <3>6 DEF Owing, Owes, Clean, Early
  <2>3. CASE WritePiece(e)
    <3>1. /\ phase[e] = "write" /\ phase' = phase
          /\ Owed(inbox[s], due[s], e, 1) /\ (want[s] > 0 => Clean(s))
          /\ (answered[e] => eof[s]) /\ got[e] \subseteq {e}
      BY <2>1, <2>3 DEF Owing, Owes, WritePiece, Exchanging
    <3>2. answered'[e] => eof[s]
      BY <2>3, <3>1 DEF WritePiece, PiecesTypeOK
    <3>3. Owed(inbox[s], due'[s], e, 1) /\ (want'[s] > 0 => inbox[s] = <<>> /\ due'[s] = <<>>)
      <4>1. CASE eof[s] \/ want[s] = 0
        BY <2>3, <3>1, <4>1 DEF WritePiece, Clean
      <4>2. CASE ~(eof[s] \/ want[s] = 0)
        <5>1. Clean(s)
          BY <1>5, <3>1, <4>2
        <5>2. /\ want' = [want EXCEPT ![s] = @ - 1]
              /\ due' = IF want[s] = 1 THEN [due EXCEPT ![s] = Append(@, e)] ELSE due
          BY <2>3, <4>2 DEF WritePiece
        <5>3. /\ want'[s] = want[s] - 1
              /\ due'[s] = IF want[s] = 1 THEN Append(<<>>, e) ELSE <<>>
          BY <1>2, <5>1, <5>2 DEF PiecesTypeOK, Clean
        <5>4. inbox[s] = <<>>
          BY <5>1 DEF Clean
        <5>5. CASE want[s] = 1
          <6>1. want'[s] = 0 /\ due'[s] = <<e>>
            BY <5>3, <5>5, OwedAsked
          <6>2. Owed(<<>>, <<e>>, e, 1)
            BY OwedAsked
          <6>3. QED
            BY <5>4, <6>1, <6>2
        <5>6. CASE want[s] # 1
          BY <5>3, <5>4, <5>6, OwedCut, EmptySeq
        <5>7. QED
          BY <5>5, <5>6
      <4>3. QED
        BY <4>1, <4>2
    <3>4. held'[e] = s /\ inbox'[s] = inbox[s] /\ eof'[s] = eof[s] /\ got'[e] = got[e]
      BY <1>3
    <3>5. QED
      BY <3>1, <3>2, <3>3, <3>4 DEF Owing, Owes, Clean, Early
  <2>4. CASE AnswerEarly(e)
    <3>1. /\ phase[e] = "write" /\ UNCHANGED <<phase, answered, connected>> /\ Clean(s)
          /\ (answered[e] => eof[s]) /\ got[e] \subseteq {e}
      BY <2>1, <2>4 DEF Owing, AnswerEarly, Exchanging, exchangeVars
    <3>2. due'[s] = <<e>> /\ want'[s] = 0
      BY <1>2, <2>4 DEF AnswerEarly, PiecesTypeOK
    <3>3. /\ held'[e] = s /\ inbox'[s] = <<>> /\ eof'[s] = eof[s] /\ got'[e] = got[e]
      BY <1>3, <3>1 DEF Clean
    <3>4. Owed(<<>>, <<e>>, e, 1)
      BY OwedAsked
    <3>5. QED
      BY <3>1, <3>2, <3>3, <3>4 DEF Owing, Owes, Clean, Early
  <2>5. QED
    BY <2>2, <2>3, <2>4
<1>7. QED
  BY <1>2, <1>3, <1>4, <1>6, OweHeld

(* What the server sends was asked for; an end cuts off what is still due.   *)
LEMMA ServerOwes ==
  ASSUME Places, PiecesTypeOK, OweInv, NEW s \in Socket, ServerSends(s) \/ Hangup(s)
  PROVE  OweInv'
<1>1. /\ sockState[s] = "open" /\ ~eof[s]
      /\ UNCHANGED <<idle, sockState, want, phase, held, connected, answered, got, abandoned>>
  BY DEF ServerSends, Hangup, exchangeVars, bodyVars
<1>2. /\ inbox[s] \in Seq(Transfer) /\ due[s] \in Seq(Transfer)
      /\ \A r \in Socket \ {s} : inbox'[r] = inbox[r] /\ due'[r] = due[r] /\ eof'[r] = eof[r]
  BY DEF ServerSends, Hangup, PiecesTypeOK
<1>3. \/ /\ due[s] # <<>> /\ eof'[s] = eof[s]
         /\ inbox'[s] = Append(inbox[s], Head(due[s])) /\ due'[s] = Tail(due[s])
      \/ due'[s] = <<>> /\ inbox'[s] = inbox[s] /\ eof'[s]
  BY DEF ServerSends, Hangup, PiecesTypeOK
<1>4. Spent(s) => Spent(s)'
  BY <1>1, <1>3 DEF Spent, Clean
<1>5. Clean(s) => Clean(s)'
  BY <1>3 DEF Clean
<1>6. \A r \in Socket : /\ Spent(r) => Spent(r)'
                        /\ Clean(r) => Clean(r)'
  <2>1. TAKE r \in Socket
  <2>2. CASE r = s
    BY <1>4, <1>5, <2>2
  <2>3. CASE r # s
    BY <1>2, <2>3 DEF Spent, Clean
  <2>4. QED
    BY <2>2, <2>3
<1>7. ASSUME NEW e \in Transfer, NEW n \in Nat, Owes(s, e, n)
      PROVE  Owed(inbox'[s], due'[s], e, n)
  <2>1. Owed(inbox[s], due[s], e, n)
    BY <1>7 DEF Owes
  <2>2. CASE /\ due[s] # <<>> /\ eof'[s] = eof[s]
             /\ inbox'[s] = Append(inbox[s], Head(due[s])) /\ due'[s] = Tail(due[s])
    BY <1>2, <2>1, <2>2, OwedSent
  <2>3. CASE due'[s] = <<>> /\ inbox'[s] = inbox[s] /\ eof'[s]
    BY <1>2, <2>1, <2>3, OwedCut
  <2>4. QED
    BY <1>3, <2>2, <2>3
<1>8. Elements(idle) \subseteq Socket /\ (Elements(idle))' = Elements(idle)
  BY <1>1, ElementOfSeq DEF Places, TransferTypeOK, Elements
<1>9. ASSUME ~abandoned, NEW e \in Transfer PROVE Owing(e)'
  <2>1. Owing(e)
    BY <1>9 DEF OweInv
  <2>2. CASE held[e] # s
    <3>1. held[e] # NoSock => held[e] \in Socket \ {s}
      BY <2>2 DEF Places, TransferTypeOK
    <3>2. QED
      BY <1>1, <1>2, <2>1, <3>1, OwingKept
  <2>3. CASE held[e] = s
    <3>1. /\ Spent(s)' = Spent(held[e])' /\ Clean(s)' = Clean(held[e])'
          /\ \A n : Owes(held[e], e, n)' = Owed(inbox'[s], due'[s], e, n)
      BY <1>1, <2>3 DEF Spent, Clean, Owes, Owed
    <3>2. eof'[s] \/ ~eof[s]
      BY <1>1
    <3>3. 1 \in Nat /\ 2 \in Nat
      OBVIOUS
    <3>4. \A n \in Nat : Owes(held[e], e, n) => Owed(inbox'[s], due'[s], e, n)
      BY <1>7, <2>3
    <3>5. QED
      BY <1>1, <1>4, <1>5, <2>1, <2>3, <3>1, <3>3, <3>4 DEF Owing
  <2>4. QED
    BY <2>2, <2>3
<1>10. QED
  BY <1>1, <1>6, <1>8, <1>9 DEF OweInv

LEMMA StepOwe ==
  Places /\ PiecesTypeOK /\ OweInv /\ [TransferNext]_transferVars => OweInv'
<1> SUFFICES ASSUME Places, PiecesTypeOK, OweInv, [TransferNext]_transferVars PROVE OweInv'
  OBVIOUS
<1> USE DEF TransferTo
<1>t. TransferTypeOK /\ HeldInv /\ PlaceInv
  BY DEF Places
<1>o. ASSUME ~abandoned PROVE /\ \A s \in Elements(idle) : Spent(s)
                              /\ \A e \in Transfer : Owing(e)
  BY <1>o DEF OweInv
<1>1. CASE UNCHANGED transferVars
  BY <1>1 DEF OweInv, Owing, Owes, Spent, Clean, Elements, transferVars, sockVars, exchangeVars,
     bodyVars
<1>2. ASSUME NEW s \in Socket, ServerSends(s) \/ Hangup(s) PROVE OweInv'
  BY <1>2, ServerOwes
<1>3. ASSUME NEW e \in Transfer, SendRequest(e) \/ WritePiece(e) \/ AnswerEarly(e) PROVE OweInv'
  BY <1>3, AskOwes
<1>4. ASSUME NEW e \in Transfer, ReadCode(e) \/ BadCode(e) \/ ReadPiece(e) PROVE OweInv'
  BY <1>4, ReadOwes
(* The others leave what is on the sockets as it is, and sort them anew.     *)
<1>5. ASSUME NEW e \in Transfer,
             AcceptTransfer(e) \/ AcceptFails(e) \/ OnStart(e) \/ OnComplete(e)
             \/ Incomplete(e) \/ SyncFails(e)
      PROVE  OweInv'
  <2>1. UNCHANGED <<idle, sockState, inbox, due, want, eof, held, connected, answered, got,
                    abandoned>>
    BY <1>5, Zenon DEF AcceptTransfer, AcceptFails, OnStart, OnComplete, Incomplete, SyncFails,
       sockVars, exchangeVars, bodyVars
  <2>2. \E q \in {"start", "refused", "get", "end"} :
          /\ phase' = [phase EXCEPT ![e] = q]
          /\ q \in Early => phase[e] \in Early
    <3>1. CASE AcceptTransfer(e) \/ AcceptFails(e) \/ OnStart(e)
      BY <3>1, Zenon DEF AcceptTransfer, AcceptFails, OnStart, Early
    <3>2. CASE OnComplete(e) \/ Incomplete(e) \/ SyncFails(e)
      <4>1. "end" \notin Early
        BY DEF Early
      <4>2. QED
        BY <3>2, <4>1, Zenon DEF OnComplete, Incomplete, SyncFails
    <3>3. QED
      BY <1>5, <3>1, <3>2
  <2>3. /\ phase'[e] \in {"start", "refused", "get", "end"}
        /\ phase'[e] \in Early => phase[e] \in Early
        /\ \A f \in Transfer \ {e} : phase'[f] = phase[f]
    BY <1>t, <2>2 DEF TransferTypeOK
  <2>4. ASSUME ~abandoned PROVE Owing(e)'
    BY <1>o, <2>1, <2>3, <2>4 DEF Owing, Exchanging
  <2>5. \A s \in Elements(idle') : s \in Elements(idle)
    BY <2>1
  <2>6. QED
    BY <1>o, <2>1, <2>3, <2>4, <2>5, OweMoved
<1>6. ASSUME NEW e \in Transfer, Take(e) PROVE OweInv'
  <2>1. /\ idle # <<>> /\ phase[e] = "get" /\ phase' = [phase EXCEPT ![e] = "check"]
        /\ held' = [held EXCEPT ![e] = Head(idle)] /\ idle' = Tail(idle)
        /\ UNCHANGED <<sockState, inbox, due, want, eof, connected, answered, got, abandoned>>
    BY <1>6 DEF Take, bodyVars
  <2>2. held[e] = NoSock /\ ~connected[e]
    BY <1>t, <2>1 DEF HeldInv, Early
  <2>3. held'[e] \in Elements(idle) /\ Elements(idle') \subseteq Elements(idle)
    BY <1>t, <2>1, <2>2, PlaceTaken
  <2>4. \A f \in Transfer \ {e} : phase'[f] = phase[f] /\ held'[f] = held[f]
    BY <1>t, <2>1 DEF TransferTypeOK
  <2>5. ASSUME ~abandoned' PROVE Owing(e)'
    <3>1. Owing(e) /\ Spent(held'[e])
      BY <1>o, <2>1, <2>3, <2>5
    <3>2. Spent(held[e])'
      BY <2>1, <3>1 DEF Spent, Clean
    <3>3. phase'[e] = "check" /\ ~answered'[e] /\ got'[e] \subseteq {e}
      BY <1>t, <2>1, <3>1 DEF Owing, Early, TransferTypeOK
    <3>4. QED
      BY <3>2, <3>3 DEF Owing, Exchanging
  <2>6. QED
    BY <1>o, <2>1, <2>3, <2>4, <2>5, OweMoved
<1>7. ASSUME NEW e \in Transfer, Check(e) PROVE OweInv'
  <2>1. /\ phase[e] = "check"
        /\ UNCHANGED <<idle, inbox, due, want, eof, connected, answered, got, abandoned>>
    BY <1>7 DEF Check, bodyVars
  <2>2. held[e] \in Socket /\ ~connected[e]
    BY <1>t, <2>1 DEF HeldInv, Holding, TransferTypeOK
  <2>3. \A f \in Transfer \ {e} : phase'[f] = phase[f] /\ held'[f] = held[f]
    BY <1>7, <1>t DEF Check, TransferTypeOK
  <2>4. \A s \in Socket : sockState'[s] = "new" => sockState[s] = "new"
    BY <1>7, <1>t, <2>2 DEF Check, TransferTypeOK
  <2>5. ASSUME ~abandoned' PROVE Owing(e)'
    <3>1. Owing(e)
      BY <1>o, <2>1, <2>5
    <3>2. ~answered'[e] /\ got'[e] \subseteq {e} /\ Spent(held[e])
      BY <2>1, <3>1 DEF Owing
    <3>3. CASE inbox[held[e]] = <<>> /\ ~eof[held[e]]
      <4>1. phase'[e] = "request" /\ held' = held
        BY <1>7, <1>t, <3>3 DEF Check, TransferTypeOK
      <4>2. Clean(held[e])'
        BY <2>1, <3>2, <3>3, <4>1 DEF Spent, Clean
      <4>3. QED
        BY <3>2, <4>1, <4>2 DEF Owing, Exchanging
    <3>4. CASE ~(inbox[held[e]] = <<>> /\ ~eof[held[e]])
      <4>1. phase'[e] = "get"
        BY <1>7, <1>t, <3>4 DEF Check, TransferTypeOK
      <4>2. QED
        BY <3>2, <4>1 DEF Owing, Exchanging
    <3>5. QED
      BY <3>3, <3>4
  <2>6. \A s \in Elements(idle') : s \in Elements(idle)
    BY <2>1
  <2>7. QED
    BY <1>o, <2>1, <2>3, <2>4, <2>5, <2>6, OweMoved
<1>8. ASSUME NEW e \in Transfer, ConnectSocket(e) PROVE OweInv'
  <2>1. /\ phase[e] = "get"
        /\ UNCHANGED <<idle, inbox, due, want, eof, connected, answered, got, abandoned>>
    BY <1>8 DEF ConnectSocket, bodyVars
  <2>2. ~connected[e]
    BY <1>t, <2>1 DEF HeldInv, Early
  <2>3. \/ /\ phase' = [phase EXCEPT ![e] = "request"]
           /\ \E s \in Socket : /\ sockState[s] = "new" /\ held' = [held EXCEPT ![e] = s]
                                /\ sockState' = [sockState EXCEPT ![s] = "open"]
        \/ phase' = [phase EXCEPT ![e] = "except"] /\ UNCHANGED <<sockState, held>>
    <3>1. CASE TransferTo(e, "get", "except") /\ UNCHANGED <<sockState, held>>
      BY <3>1
    <3>2. CASE /\ TransferTo(e, "get", "request") /\ \E s \in Socket : sockState[s] = "new"
               /\ LET s == CHOOSE s \in Socket : sockState[s] = "new"
                  IN  /\ sockState' = [sockState EXCEPT ![s] = "open"]
                      /\ held' = [held EXCEPT ![e] = s]
      <4> DEFINE s == CHOOSE s \in Socket : sockState[s] = "new"
      <4>1. s \in Socket /\ sockState[s] = "new"
        BY <3>2
      <4>2. QED
        BY <3>2, <4>1
    <3>3. QED
      BY <1>8, <3>1, <3>2 DEF ConnectSocket
  <2>4. /\ \A f \in Transfer \ {e} : phase'[f] = phase[f] /\ held'[f] = held[f]
        /\ \A s \in Socket : sockState'[s] = "new" => sockState[s] = "new"
    BY <1>t, <2>3 DEF TransferTypeOK
  <2>5. ASSUME ~abandoned' PROVE Owing(e)'
    <3>1. ~answered'[e] /\ got'[e] \subseteq {e}
      BY <1>o, <2>1, <2>5 DEF Owing, Early
    <3>2. phase'[e] = "except" \/ (phase'[e] = "request" /\ Clean(held'[e]))
      <4>1. CASE \E s \in Socket : /\ sockState[s] = "new" /\ held' = [held EXCEPT ![e] = s]
                                   /\ phase' = [phase EXCEPT ![e] = "request"]
        <5>1. PICK s \in Socket : /\ sockState[s] = "new" /\ held' = [held EXCEPT ![e] = s]
                                  /\ phase' = [phase EXCEPT ![e] = "request"]
          BY <4>1
        <5>2. Clean(s) /\ held'[e] = s /\ phase'[e] = "request"
          BY <1>t, <5>1 DEF OweInv, TransferTypeOK
        <5>3. QED
          BY <5>2
      <4>2. CASE phase' = [phase EXCEPT ![e] = "except"]
        BY <1>t, <4>2 DEF TransferTypeOK
      <4>3. QED
        BY <2>3, <4>1, <4>2
    <3>3. Clean(held[e])' = Clean(held'[e])
      BY <2>1 DEF Clean
    <3>4. QED
      BY <2>1, <2>2, <3>1, <3>2, <3>3 DEF Owing, Exchanging
  <2>6. \A s \in Elements(idle') : s \in Elements(idle)
    BY <2>1
  <2>7. QED
    BY <1>o, <2>1, <2>4, <2>5, <2>6, OweMoved
<1>9. ASSUME NEW e \in Transfer,
             \/ RequestFails(e) \/ AllWritten(e) \/ Ended(e) \/ DiskFails(e) \/ OnExcept(e)
             \/ WriteFails(e) \/ Timeout(e)
      PROVE  OweInv'
  <2>1. UNCHANGED <<idle, inbox, due, want, eof, answered, got>> /\ abandoned' \in {abandoned, TRUE}
    BY <1>9, Zenon DEF RequestFails, AllWritten, Ended, DiskFails, OnExcept, WriteFails, Timeout,
       Break, sockVars, exchangeVars, bodyVars
  <2>2. PICK q \in Phases : phase' = [phase EXCEPT ![e] = q]
    BY <1>9, Zenon DEF RequestFails, AllWritten, Ended, DiskFails, OnExcept, WriteFails, Timeout,
       Phases, Holding, Exchanging
  <2>3. phase'[e] = q /\ \A f \in Transfer \ {e} : phase'[f] = phase[f]
    BY <1>t, <2>2 DEF TransferTypeOK
  <2>4. CASE WriteFails(e) \/ Timeout(e)
    <3>1. /\ phase[e] \in Exchanging /\ phase'[e] = "except"
          /\ connected' = [connected EXCEPT ![e] = FALSE]
          /\ sockState' = [sockState EXCEPT ![held[e]] = "closed"]
          /\ held' = [held EXCEPT ![e] = NoSock]
      BY <1>t, <2>4 DEF WriteFails, Timeout, Break, Exchanging, TransferTypeOK
    <3>2. /\ ~connected'[e]
          /\ \A f \in Transfer \ {e} : held'[f] = held[f] /\ connected'[f] = connected[f]
          /\ \A s \in Socket : sockState'[s] = "new" => sockState[s] = "new"
      BY <1>t, <3>1 DEF TransferTypeOK
    <3>3. ASSUME ~abandoned' PROVE Owing(e)'
      <4>1. got[e] \subseteq {e}
        BY <1>o, <2>1, <3>3 DEF Owing
      <4>2. got'[e] \subseteq {e}
        BY <2>1, <4>1
      <4>3. QED
        BY <3>1, <3>2, <4>2 DEF Owing, Early, Exchanging
    <3>4. abandoned => abandoned'
      BY <2>1
    <3>5. QED
      BY <1>o, <2>1, <2>3, <3>2, <3>3, <3>4, OweMoved
  <2>5. CASE RequestFails(e) \/ AllWritten(e) \/ Ended(e) \/ DiskFails(e) \/ OnExcept(e)
    <3>1. UNCHANGED <<sockState, held, connected>>
      BY <2>5 DEF RequestFails, AllWritten, Ended, DiskFails, OnExcept, sockVars, exchangeVars
    <3>2. ASSUME ~abandoned' PROVE Owing(e)'
      <4>1. Owing(e)
        BY <1>o, <2>1, <3>2
      <4>2. got'[e] \subseteq {e}
        BY <2>1, <4>1 DEF Owing
      <4>3. CASE AllWritten(e)
        <5>1. phase[e] = "write" /\ phase'[e] = "code" /\ e \notin Gets
          BY <1>t, <4>3 DEF AllWritten, HeldInv, TransferTypeOK
        <5>2. Owes(held[e], e, 1) /\ (answered[e] => eof[held[e]])
          BY <4>1, <5>1 DEF Owing, Exchanging
        <5>3. Owes(held[e], e, 1)' /\ (answered'[e] => eof'[held'[e]])
          BY <2>1, <3>1, <5>2 DEF Owes
        <5>4. QED
          BY <4>2, <5>1, <5>3 DEF Owing, Early
      <4>4. CASE RequestFails(e) \/ Ended(e) \/ OnExcept(e)
        <5>1. phase'[e] \in {"except", "final"}
          BY <1>t, <4>4 DEF RequestFails, Ended, OnExcept, TransferTypeOK
        <5>2. connected[e] => Spent(held[e])
          <6>1. CASE RequestFails(e)
            BY <1>t, <6>1 DEF RequestFails, HeldInv
          <6>2. CASE Ended(e)
            BY <4>1, <6>2 DEF Ended, Owing, Exchanging, Spent
          <6>3. CASE OnExcept(e)
            BY <4>1, <6>3 DEF OnExcept, Owing
          <6>4. QED
            BY <4>4, <6>1, <6>2, <6>3
        <5>3. connected'[e] => Spent(held[e])'
          BY <2>1, <3>1, <5>2 DEF Spent, Clean
        <5>4. QED
          BY <4>2, <5>1, <5>3 DEF Owing, Early, Exchanging
      <4>5. CASE DiskFails(e)
        BY <3>2, <4>5 DEF DiskFails
      <4>6. QED
        BY <2>5, <4>3, <4>4, <4>5
    <3>3. abandoned => abandoned'
      BY <2>1
    <3>4. \A s \in Elements(idle') : s \in Elements(idle)
      BY <2>1
    <3>5. QED
      BY <1>o, <2>1, <2>3, <3>1, <3>2, <3>3, <3>4, OweMoved
  <2>6. QED
    BY <1>9, <2>4, <2>5
<1>10. ASSUME NEW e \in Transfer, Disconnect(e) PROVE OweInv'
  <2>1. /\ phase[e] = "final" /\ phase' = [phase EXCEPT ![e] = "finish"]
        /\ connected' = [connected EXCEPT ![e] = FALSE]
        /\ UNCHANGED <<inbox, due, want, eof, answered, got, abandoned>>
    BY <1>10 DEF Disconnect, bodyVars
  <2>2. \A f \in Transfer \ {e} : /\ phase'[f] = phase[f] /\ connected'[f] = connected[f]
                                  /\ held'[f] = held[f]
    <3>1. held' = held \/ held' = [held EXCEPT ![e] = NoSock]
      BY <1>10 DEF Disconnect
    <3>2. QED
      BY <1>t, <2>1, <3>1 DEF TransferTypeOK
  <2>3. ASSUME ~abandoned' PROVE Owing(e)'
    <3>1. phase'[e] = "finish"
      BY <1>t, <2>1 DEF TransferTypeOK
    <3>2. got'[e] \subseteq {e}
      BY <1>o, <2>1, <2>3 DEF Owing
    <3>3. QED
      BY <3>1, <3>2 DEF Owing, Early, Exchanging
  <2>4. /\ \A s \in Socket : sockState'[s] = "new" => sockState[s] = "new"
        /\ Elements(idle') \subseteq Elements(idle) \cup (IF connected[e] THEN {held[e]} ELSE {})
    <3>1. CASE ~connected[e]
      BY <1>10, <3>1 DEF Disconnect
    <3>2. CASE connected[e]
      <4>1. held[e] # NoSock /\ held' = [held EXCEPT ![e] = NoSock]
        BY <1>10, <1>t, <3>2 DEF Disconnect, HeldInv
      <4>2. CASE keep[e]
        <5>1. sockState' = sockState /\ idle' = <<held[e]>> \o idle
          BY <1>10, <3>2, <4>2 DEF Disconnect
        <5>2. Elements(idle') = Elements(idle) \cup {held[e]}
          BY <1>t, <4>1, <5>1, PlaceGiven
        <5>3. QED
          BY <3>2, <5>1, <5>2
      <4>3. CASE ~keep[e]
        <5>1. sockState' = [sockState EXCEPT ![held[e]] = "closed"] /\ idle' = idle
          BY <1>10, <3>2, <4>3 DEF Disconnect
        <5>2. QED
          BY <1>t, <5>1 DEF TransferTypeOK
      <4>4. QED
        BY <4>2, <4>3
    <3>3. QED
      BY <3>1, <3>2
  <2>5. ASSUME ~abandoned PROVE \A s \in Elements(idle') : Spent(s)
    <3>1. connected[e] => Spent(held[e])
      BY <1>o, <2>1, <2>5 DEF Owing
    <3>2. QED
      BY <1>o, <2>4, <2>5, <3>1
  <2>6. QED
    BY <2>1, <2>2, <2>3, <2>4, <2>5, OweMoved
<1>11. CASE Sweep \/ DestroyPoll
  <2>1. UNCHANGED <<inbox, due, want, eof, phase, held, connected, answered, got, abandoned>>
    BY <1>11 DEF Sweep, DestroyPoll, exchangeVars, bodyVars
  <2>2. /\ Elements(idle') \subseteq Elements(idle)
        /\ \A s \in Socket : sockState'[s] = "new" => sockState[s] = "new"
    BY <1>11, <1>t, PlaceSwept, PlaceDestroyed
  <2>3. \A s \in Socket : sockState'[s] = "new" => Clean(s)'
    BY <2>1, <2>2 DEF OweInv, Clean
  <2>4. ASSUME ~abandoned' PROVE /\ \A s \in Elements(idle') : Spent(s)'
                                 /\ \A e \in Transfer : Owing(e)'
    BY <1>o, <2>1, <2>2, <2>4 DEF Spent, Clean, Owing, Owes
  <2>5. (Elements(idle))' = Elements(idle')
    BY DEF Elements
  <2>6. QED
    BY <2>3, <2>4, <2>5 DEF OweInv
<1>12. QED
  BY <1>1, <1>2, <1>3, <1>4, <1>5, <1>6, <1>7, <1>8, <1>9, <1>10, <1>11 DEF TransferNext, Works

LEMMA OnceCounts ==
  ASSUME NEW S, NEW s \in Seq(S), Once(s)
  PROVE  Cardinality(Elements(s)) = Len(s)
<1>1. Len(s) \in Nat
  BY LenProperties
<1>2. [i \in 1..Len(s) |-> s[i]] \in Bijection(1..Len(s), Elements(s))
  BY DEF Bijection, Injection, Surjection, IsInjective, Once, Elements
<1>3. ExistsBijection(1..Len(s), Elements(s))
  BY <1>2 DEF ExistsBijection
<1>4. QED
  BY <1>1, <1>3, FS_CountingElements

(* Whatever the server does, and however the transfers and the pool's thread *)
(* interleave, a transfer has a socket of its own, and as long as no answer  *)
(* was left half read it reads its own answer on it.                         *)
THEOREM AnswersAreOwned == TransferSpec => []AnswersOwned
<1>1. TransferInit => TransferInv
  BY InitTransfers
<1>2. TransferInv /\ [TransferNext]_transferVars => TransferInv'
  BY StepPlaces, StepPieces, StepOwe DEF TransferInv, Places
<1>3. TransferInv => AnswersOwned
  <2> SUFFICES ASSUME TransferInv PROVE AnswersOwned
    OBVIOUS
  <2>1. idle \in Seq(Socket) /\ Once(idle)
    BY DEF TransferInv, TransferTypeOK, PlaceInv
  <2>2. Pooled = Elements(idle)
    BY <2>1, LenProperties DEF Pooled, Elements
  <2>3. Cardinality(Pooled) = Len(idle)
    BY <2>1, <2>2, OnceCounts
  <2>4. SocketsExclusive
    BY <2>2, <2>3 DEF SocketsExclusive, TransferInv, PlaceInv
  <2>5. OwnAnswer
    BY DEF OwnAnswer, TransferInv, OweInv, Owing
  <2>6. QED
    BY <2>4, <2>5 DEF AnswersOwned
<1>4. QED
  BY <1>1, <1>2, <1>3, PTL DEF TransferSpec

-----------------------------------------------------------------------------
(* A sequence cut in two. *)
LEMMA CutSeq ==
  ASSUME NEW S, NEW s \in Seq(S), NEW n \in 0..Len(s)
  PROVE  /\ SubSeq(s, 1, n) \in Seq(S) /\ Len(SubSeq(s, 1, n)) = n
         /\ \A i \in 1..n : SubSeq(s, 1, n)[i] = s[i]
         /\ SubSeq(s, n + 1, Len(s)) \in Seq(S) /\ Len(SubSeq(s, n + 1, Len(s))) = Len(s) - n
         /\ \A i \in 1..(Len(s) - n) : SubSeq(s, n + 1, Len(s))[i] = s[n + i]
         /\ SubSeq(s, 1, n) \o SubSeq(s, n + 1, Len(s)) = s
<1>0. Len(s) \in Nat /\ n \in Nat /\ n <= Len(s)
  BY LenProperties
<1>1. /\ \A i \in 1..n : s[i] \in S
      /\ \A i \in (n + 1)..Len(s) : s[i] \in S
  BY <1>0, ElementOfSeq
<1>2. /\ SubSeq(s, 1, n) \in Seq(S)
      /\ Len(SubSeq(s, 1, n)) = IF 1 <= n THEN n - 1 + 1 ELSE 0
      /\ \A i \in 1 .. n - 1 + 1 : SubSeq(s, 1, n)[i] = s[1 + i - 1]
  BY <1>0, <1>1, SubSeqProperties
<1>3. /\ SubSeq(s, n + 1, Len(s)) \in Seq(S)
      /\ Len(SubSeq(s, n + 1, Len(s))) = IF n + 1 <= Len(s) THEN Len(s) - (n + 1) + 1 ELSE 0
      /\ \A i \in 1 .. Len(s) - (n + 1) + 1 : SubSeq(s, n + 1, Len(s))[i] = s[n + 1 + i - 1]
  BY <1>0, <1>1, SubSeqProperties
<1>4. SubSeq(s, 1, n) \o SubSeq(s, n + 1, Len(s)) = SubSeq(s, 1, Len(s))
  <2>1. 1 \in 1 .. Len(s) + 1 /\ n \in 1 - 1 .. Len(s) /\ Len(s) \in n .. Len(s)
    BY <1>0
  <2> QED
    BY <2>1, ConcatAdjacentSubSeq
<1>5. SubSeq(s, 1, Len(s)) = s
  BY SubSeqFull
<1>6. /\ Len(SubSeq(s, 1, n)) = n
      /\ \A i \in 1..n : SubSeq(s, 1, n)[i] = s[i]
  BY <1>0, <1>2
<1>7. Len(SubSeq(s, n + 1, Len(s))) = Len(s) - n
  BY <1>0, <1>3
<1>8. ASSUME NEW i \in 1..(Len(s) - n) PROVE SubSeq(s, n + 1, Len(s))[i] = s[n + i]
  <2>1. i \in 1 .. Len(s) - (n + 1) + 1 /\ n + 1 + i - 1 = n + i
    BY <1>0
  <2>2. SubSeq(s, n + 1, Len(s))[i] = s[n + 1 + i - 1]
    BY <2>1, <1>3
  <2> QED
    BY <2>1, <2>2
<1> QED
  BY <1>2, <1>3, <1>4, <1>5, <1>6, <1>7, <1>8

(* The concatenation of two sequences, element by element. *)
LEMMA JoinSeq ==
  ASSUME NEW S, NEW s \in Seq(S), NEW t \in Seq(S)
  PROVE  /\ s \o t \in Seq(S) /\ Len(s \o t) = Len(s) + Len(t)
         /\ \A i \in 1..Len(s) : (s \o t)[i] = s[i]
         /\ \A i \in 1..Len(t) : (s \o t)[Len(s) + i] = t[i]
<1>1. Len(s) \in Nat /\ Len(t) \in Nat
  BY LenProperties
<1> QED
  BY <1>1, ConcatProperties

(* A part of a sequence from its sixth element on. *)
LEMMA PartSeq ==
  ASSUME NEW S, NEW s \in Seq(S), NEW m \in Nat, 6 <= m, m <= Len(s)
  PROVE  /\ SubSeq(s, 6, m) \in Seq(S) /\ Len(SubSeq(s, 6, m)) = m - 5
         /\ \A j \in 1..(m - 5) : SubSeq(s, 6, m)[j] = s[5 + j]
<1>1. Len(s) \in Nat
  BY LenProperties
<1>2. \A i \in 6..m : s[i] \in S
  BY <1>1, ElementOfSeq
<1>3. /\ SubSeq(s, 6, m) \in Seq(S) /\ Len(SubSeq(s, 6, m)) = m - 6 + 1
      /\ \A j \in 1..(m - 6 + 1) : SubSeq(s, 6, m)[j] = s[6 + j - 1]
  BY <1>1, <1>2, SubSeqProperties
<1>4. m - 6 + 1 = m - 5 /\ \A j \in 1..(m - 5) : 6 + j - 1 = 5 + j
  OBVIOUS
<1> QED
  BY <1>3, <1>4

LEMMA Regroup ==
  ASSUME NEW S, NEW s \in Seq(S), NEW t \in Seq(S), NEW u \in Seq(S)
  PROVE  (s \o t) \o u = s \o (t \o u)
BY ConcatAssociative

LEMMA JoinAppend ==
  ASSUME NEW S, NEW s \in Seq(S), NEW t \in Seq(S), NEW e \in S
  PROVE  s \o Append(t, e) = Append(s \o t, e)
<1>1. <<e>> \in Seq(S)
  OBVIOUS
<1>2. s \o t \in Seq(S)
  BY JoinSeq
<1>3. (s \o t) \o <<e>> = s \o (t \o <<e>>)
  BY <1>1, ConcatAssociative
<1>4. Append(t, e) = t \o <<e>> /\ Append(s \o t, e) = (s \o t) \o <<e>>
  BY <1>2, AppendIsConcat
<1> QED
  BY <1>3, <1>4

-----------------------------------------------------------------------------
(* HttpSocket: what the server has is the beginning of what the app sent.    *)
Number == Nat

HttpTypeOK ==
  /\ hShut \in BOOLEAN /\ hHandlers \in BOOLEAN
  /\ hAt \in {"new", "read", "tell", "collect", "post", "last", "finally", "close", "end"}
  /\ data \in Seq(Number) /\ turn \in Seq(Number) /\ appended \in Seq(Number) /\ posted \in Seq(Number)
  /\ ends \in Nat

Arrived == \E r \in Seq(Number) : posted \o r = appended
NoneMissing ==
  /\ hAt # "post" => turn = <<>>
  /\ hAt \notin {"finally", "close", "end"} => posted \o turn \o data = appended
EndsTold ==
  /\ hAt \in {"close", "end"} => hShut
  /\ hAt # "end" => ends = 0
  /\ hAt = "close" \/ ~hShut => hHandlers
  /\ hAt = "new" => hHandlers /\ hShut
  /\ EndTold

HttpInv == HttpTypeOK /\ Arrived /\ NoneMissing /\ EndsTold

LEMMA InitHttp == HttpInit => HttpInv
<1> SUFFICES ASSUME HttpInit PROVE HttpInv
  OBVIOUS
<1>1. <<>> \in Seq(Number)
  BY EmptySeq
<1>2. <<>> \o <<>> = <<>>
  BY <1>1, ConcatEmptySeq
<1>3. ends <= (IF hHandlers THEN 1 ELSE 0)
  BY DEF HttpInit
<1> QED
  BY <1>1, <1>2, <1>3 DEF HttpInit, HttpInv, HttpTypeOK, Arrived, NoneMissing, EndsTold, EndTold

LEMMA StepHttp == HttpInv /\ [HttpNext]_httpVars => HttpInv'
<1> SUFFICES ASSUME HttpInv, [HttpNext]_httpVars PROVE HttpInv'
  OBVIOUS
<1> USE DEF HttpInv
<1>0. HttpTypeOK
  OBVIOUS
<1>t. HttpTypeOK' /\ Arrived' /\ NoneMissing'
  <2> USE DEF HttpTypeOK, Arrived, NoneMissing
  <2>1. CASE HttpOpen
    BY <2>1 DEF HttpOpen
  <2>2. CASE ReadRequests
    BY <2>2 DEF ReadRequests
  <2>3. CASE LoopEnds
    BY <2>3 DEF LoopEnds
  <2>4. CASE OnData
    BY <2>4 DEF OnData
  <2>5. CASE Collect
    <3> DEFINE n == IF Len(data) < MaxSend THEN Len(data) ELSE MaxSend
    <3>1. n \in 0..Len(data)
      BY LenProperties, SendSizeAssumption
    <3>2. /\ turn' = SubSeq(data, 1, n) /\ data' = SubSeq(data, n + 1, Len(data))
          /\ hAt = "collect" /\ hAt' = "post"
          /\ UNCHANGED <<hShut, hHandlers, appended, posted, ends>>
      BY <2>5 DEF Collect
    <3> HIDE DEF n
    <3>3. turn' \in Seq(Number) /\ data' \in Seq(Number) /\ turn' \o data' = data
      BY <3>1, <3>2, CutSeq
    <3>4. turn = <<>>
      BY <3>2
    <3>t. posted \in Seq(Number)
      OBVIOUS
    <3> HIDE DEF HttpInv, HttpTypeOK, Arrived, NoneMissing
    <3>5. posted \o <<>> = posted
      BY <3>t, ConcatEmptySeq
    <3>6. (posted \o turn') \o data' = posted \o (turn' \o data')
      <4>1. turn' \in Seq(Number) /\ data' \in Seq(Number)
        BY <3>3
      <4>2. \A s, t, u \in Seq(Number) : (s \o t) \o u = s \o (t \o u)
        BY ConcatAssociative
      <4> QED
        BY <3>t, <4>1, <4>2
    <3> QED
      BY <3>2, <3>3, <3>4, <3>5, <3>6 DEF HttpInv, HttpTypeOK, Arrived, NoneMissing
  <2>6. CASE Post
    <3>1. posted \o turn \in Seq(Number) /\ (posted \o turn) \o <<>> = posted \o turn
          /\ <<>> \in Seq(Number)
      BY JoinSeq, ConcatEmptySeq, EmptySeq
    <3>2. (posted \o turn) \o data = appended
      BY <2>6 DEF Post
    <3>3. /\ turn' = <<>> /\ UNCHANGED <<hShut, hHandlers, data, appended, ends>>
          /\ \/ hAt' = "read" /\ posted' = posted \o turn
             \/ hAt' = "finally" /\ posted' \in {posted, posted \o turn}
      BY <2>6 DEF Post
    <3> QED
      BY <3>1, <3>2, <3>3
  <2>7. CASE Finally
    BY <2>7 DEF Finally
  <2>8. CASE HttpOnClose
    <3>1. /\ hAt' = "end" /\ ends' = ends + 1
          /\ UNCHANGED <<hShut, hHandlers, data, turn, appended, posted>>
      BY <2>8 DEF HttpOnClose
    <3>2. ends' \in Nat
      BY <3>1
    <3>3. Arrived' /\ turn' = turn
      BY <3>1
    <3>4. NoneMissing'
      BY <3>1, <3>3, <2>8 DEF HttpOnClose
    <3> QED
      BY <3>1, <3>2, <3>3, <3>4
  <2>9. ASSUME NEW s \in AppThread, SendBegins(s) PROVE HttpTypeOK' /\ Arrived' /\ NoneMissing'
    BY <2>9 DEF SendBegins, simVars
  <2>10. ASSUME NEW s \in AppThread, SendEnds(s) PROVE HttpTypeOK' /\ Arrived' /\ NoneMissing'
    <3>1. CASE hShut
      BY <2>10, <3>1 DEF SendEnds
    <3>2. CASE ~hShut
      <4> DEFINE m == Len(appended) + 1
      <4>1. /\ data' = Append(data, m) /\ appended' = Append(appended, m)
            /\ UNCHANGED <<hShut, hHandlers, hAt, turn, posted, ends>>
        BY <2>10, <3>2 DEF SendEnds
      <4>2. m \in Number
        BY LenProperties DEF Number
      <4> HIDE DEF m
      <4>3. data' \in Seq(Number) /\ appended' \in Seq(Number)
        BY <4>1, <4>2, AppendProperties
      <4>t. posted \in Seq(Number) /\ turn \in Seq(Number) /\ data \in Seq(Number)
        OBVIOUS
      <4>4. PICK r \in Seq(Number) : posted \o r = appended
        OBVIOUS
      <4> HIDE DEF HttpInv, HttpTypeOK, Arrived, NoneMissing
      <4>5. Append(r, m) \in Seq(Number) /\ posted \o Append(r, m) = Append(posted \o r, m)
        BY <4>t, <4>2, JoinAppend, AppendProperties
      <4>6. posted \o turn \in Seq(Number)
        BY <4>t, JoinSeq
      <4>7. (posted \o turn) \o Append(data, m) = Append((posted \o turn) \o data, m)
        BY <4>t, <4>2, <4>6, JoinAppend
      <4>8. HttpTypeOK' /\ Arrived'
        BY <4>1, <4>3, <4>4, <4>5 DEF HttpInv, HttpTypeOK, Arrived
      <4>9. NoneMissing'
        BY <4>1, <4>7 DEF HttpInv, NoneMissing
      <4> QED
        BY <4>8, <4>9
    <3> QED
      BY <3>1, <3>2
  <2>11. CASE HttpClose
    BY <2>11 DEF HttpClose
  <2>12. CASE UNCHANGED httpVars
    BY <2>12 DEF httpVars, simVars
  <2> QED
    BY <2>1, <2>2, <2>3, <2>4, <2>5, <2>6, <2>7, <2>8, <2>9, <2>10, <2>11, <2>12 DEF HttpNext, HttpRun
<1>o. EndsTold'
  <2> USE DEF EndsTold, EndTold
  <2>0. ends \in Nat /\ hShut \in BOOLEAN /\ hHandlers \in BOOLEAN
    BY DEF HttpTypeOK
  <2>1. CASE HttpOpen
    BY <2>1 DEF HttpOpen
  <2>2. CASE ReadRequests
    BY <2>2 DEF ReadRequests
  <2>3. CASE LoopEnds
    BY <2>3 DEF LoopEnds
  <2>4. CASE OnData
    BY <2>4 DEF OnData
  <2>5. CASE Collect
    BY <2>5 DEF Collect
  <2>6. CASE Post
    BY <2>6 DEF Post
  <2>7. CASE Finally
    BY <2>7 DEF Finally
  <2>8. CASE HttpOnClose
    BY <2>0, <2>8 DEF HttpOnClose
  <2>9. ASSUME NEW s \in AppThread, SendBegins(s) PROVE EndsTold'
    BY <2>9 DEF SendBegins, simVars
  <2>10. ASSUME NEW s \in AppThread, SendEnds(s) PROVE EndsTold'
    BY <2>10 DEF SendEnds
  <2>11. CASE HttpClose
    BY <2>0, <2>11 DEF HttpClose
  <2>12. CASE UNCHANGED httpVars
    BY <2>12 DEF httpVars, simVars
  <2> QED
    BY <2>1, <2>2, <2>3, <2>4, <2>5, <2>6, <2>7, <2>8, <2>9, <2>10, <2>11, <2>12 DEF HttpNext, HttpRun
<1> QED
  BY <1>t, <1>o

LEMMA HttpKeepsOrder == HttpInv => InOrder /\ EndTold
<1> SUFFICES ASSUME HttpInv PROVE InOrder /\ EndTold
  OBVIOUS
<1>0. posted \in Seq(Number) /\ appended \in Seq(Number)
  BY DEF HttpInv, HttpTypeOK
<1>1. PICK r \in Seq(Number) : posted \o r = appended
  BY DEF HttpInv, Arrived
<1>2. /\ Len(posted) \in Nat /\ Len(r) \in Nat /\ Len(posted \o r) = Len(posted) + Len(r)
      /\ \A i \in 1..Len(posted) : (posted \o r)[i] = posted[i]
  BY <1>0, LenProperties, JoinSeq
<1>3. Len(posted) \in 0..Len(appended)
  BY <1>1, <1>2
<1>4. /\ SubSeq(appended, 1, Len(posted)) \in Seq(Number)
      /\ Len(SubSeq(appended, 1, Len(posted))) = Len(posted)
      /\ \A i \in 1..Len(posted) : SubSeq(appended, 1, Len(posted))[i] = appended[i]
  BY <1>0, <1>3, CutSeq
<1>5. posted = SubSeq(appended, 1, Len(posted))
  BY <1>0, <1>1, <1>2, <1>4, SeqEqual
<1>6. \E k \in 0..Len(appended) : posted = SubSeq(appended, 1, k)
  BY <1>3, <1>5
<1>7. ~hShut /\ hAt # "finally" => posted \o turn \o data = appended
  BY DEF HttpInv, NoneMissing, EndsTold
<1> QED
  BY <1>6, <1>7 DEF InOrder, HttpInv, EndsTold

-----------------------------------------------------------------------------
(* AppSockets: what is left of the stream, in the parser and under way, is    *)
(* the frames or the request the client sent last.                            *)
Cell == [length : BOOLEAN, at : Nat, v : Nat]

Parser == [half : {"qry", "pst"}, qlen : Int, plen : Int, qry : Seq(Cell), pst : Seq(Cell)]

AppTypeOK ==
  /\ mode \in {"old", "simulate"} /\ aAt \in {"read", "frames", "wait"}
  /\ wire \in Seq(Cell) /\ served \in Seq(IF mode = "old" THEN Seq(Cell) ELSE Number)
  /\ list \in Seq(Number) /\ aGot \in Seq(Number)
  /\ aAsked \in Seq(IF mode = "old" THEN Frame ELSE Request)
  /\ parser \in Parser
  /\ aSent \in Nat /\ aAnswered \in Nat
  /\ aLink \in {"none", "open", "over"} /\ aClosed \in BOOLEAN /\ (aClosed <=> aLink # "open")

\* The app's messages, one by one.
GotOK == /\ \A i \in 1..Len(aGot) : aGot[i] = i
         /\ mode = "old" => list = <<>>
         /\ aLink = "none" => aGot = <<>> /\ list = <<>> /\ aSent = 0
         /\ ~aClosed => /\ Len(aGot) + Len(list) = aSent
                        /\ \A i \in 1..Len(list) : list[i] = Len(aGot) + i

ServedOK ==
  /\ Len(served) <= Len(aAsked)
  /\ \A i \in 1..Len(served) :
        IF mode = "old" THEN OneByteOff(served[i], i) ELSE served[i] = aAsked[i].query

\* what the first four bytes of a frame say
FrameLength(r) == r.data + 1
FrameSize(r) == 4 + r.data + 1

\* The cells of a frame are in d after the first x of it, and nothing else is in c.
At(d, x, r) == \A j \in 1..FrameSize(r) : d[x + j] = Cells("old", r)[j]
OfFrame(c, r) == Len(c) = FrameSize(r) /\ At(c, 0, r)

\* e is d without its first n elements.
Without(e, d, n) == Len(e) = Len(d) - n /\ \A i \in 1..Len(e) : e[i] = d[n + i]

\* The frames of fs from the one after k on, in d: the i-th ends at end[i].
Ends(end, d, fs, k) ==
  /\ end[k] = 0 /\ end[Len(fs)] = Len(d)
  /\ \A i, j \in k..Len(fs) : i <= j => end[i] <= end[j]
  /\ \A i \in (k + 1)..Len(fs) : /\ end[i] = end[i - 1] + FrameSize(fs[i])
                                    /\ At(d, end[i - 1], fs[i])
Framed(d, fs, k) == \E end \in [k..Len(fs) -> Nat] : Ends(end, d, fs, k)

OldOK ==
  mode = "old" => /\ aAt # "wait"
                  /\ Framed(parser.pst \o wire, aAsked, Len(served))
                  /\ aAt = "read" /\ ~aClosed => ~Whole(parser.pst)

\* What is left of a request with a query of n cells: the lengths of both halves, the
\* query, the length of the post, and the post.
QueryLength(p, w, n) ==
  /\ p.half = "qry" /\ p.qlen = -1 /\ p.plen = -1
  /\ Len(p.qry \o w) = 5 + n /\ (p.qry \o w)[1].v = n /\ (p.qry \o w)[3 + n].v = 1
Query(p, w, n) ==
  /\ p.half = "qry" /\ p.qlen = n /\ p.plen = -1
  /\ Len(p.qry \o w) = 3 + n /\ (p.qry \o w)[1 + n].v = 1
PostLength(p, w, n) ==
  /\ p.half = "pst" /\ p.plen = -1 /\ Len(p.qry) = n
  /\ Len(p.pst \o w) = 3 /\ (p.pst \o w)[1].v = 1
PostBody(p, w, n) ==
  /\ p.half = "pst" /\ p.plen = 1 /\ Len(p.qry) = n /\ Len(p.pst \o w) = 1

Partly(p, w, n) ==
  \/ QueryLength(p, w, n) /\ Len(p.qry) < 2
  \/ Query(p, w, n) /\ Len(p.qry) < n
  \/ PostLength(p, w, n) /\ Len(p.pst) < 2
  \/ PostBody(p, w, n) /\ Len(p.pst) < 1

SimOK ==
  mode = "simulate" =>
    /\ aAt # "frames" /\ aAnswered <= Len(served) /\ Len(aAsked) <= aAnswered + 1
    /\ aAt = "wait" => Len(served) = aAnswered + 1
    /\ aAt = "read" /\ ~aClosed => Len(served) = aAnswered
    /\ IF Len(served) = Len(aAsked) THEN parser = Fresh /\ wire = <<>>
                                    ELSE Partly(parser, wire, aAsked[Len(aAsked)].query)

\* Nothing happens before the socket is accepted.
Begins == aLink = "none" => parser = Fresh /\ aAt = "read" /\ served = <<>> /\ aAnswered = 0

AppInv == AppTypeOK /\ GotOK /\ ServedOK /\ OldOK /\ SimOK /\ Begins

-----------------------------------------------------------------------------
(* The frames that are left. *)
LEMMA FrameData ==
  ASSUME NEW fs \in Seq(Frame)
  PROVE  Len(fs) \in Nat /\ \A i \in 1..Len(fs) : fs[i] \in Frame /\ FrameSize(fs[i]) \in Nat \ {0}
<1>1. Len(fs) \in Nat /\ \A i \in 1..Len(fs) : fs[i] \in Frame
  BY LenProperties, ElementOfSeq
<1>2. \A r \in Frame : FrameSize(r) \in Nat \ {0}
  BY DEF Frame, FrameSize
<1> QED
  BY <1>1, <1>2

LEMMA FramedNone == Framed(<<>>, <<>>, 0)
<1> DEFINE end == [i \in 0..0 |-> 0]
<1>1. Len(<<>>) = 0
  OBVIOUS
<1>2. end \in [0..Len(<<>>) -> Nat]
  BY <1>1
<1>3. Ends(end, <<>>, <<>>, 0)
  BY <1>1 DEF Ends
<1> QED
  BY <1>2, <1>3 DEF Framed

LEMMA FramedFirst ==
  ASSUME NEW fs \in Seq(Frame), NEW k \in 0..Len(fs), NEW d \in Seq(Cell), Framed(d, fs, k)
  PROVE  /\ k < Len(fs) => Len(d) >= FrameSize(fs[k + 1]) /\ At(d, 0, fs[k + 1])
         /\ k = Len(fs) => Len(d) = 0
<1>1. PICK end \in [k..Len(fs) -> Nat] : Ends(end, d, fs, k)
  BY DEF Framed
<1>2. Len(fs) \in Nat /\ Len(d) \in Nat
  BY LenProperties
<1>3. ASSUME k < Len(fs) PROVE Len(d) >= FrameSize(fs[k + 1]) /\ At(d, 0, fs[k + 1])
  <2>1. k + 1 \in (k + 1)..Len(fs) /\ k + 1 \in k..Len(fs) /\ Len(fs) \in k..Len(fs) /\ k + 1 - 1 = k
    BY <1>2, <1>3
  <2>2. end[k + 1] = end[k] + FrameSize(fs[k + 1]) /\ At(d, end[k], fs[k + 1])
    <3>1. ASSUME NEW j \in (k + 1)..Len(fs), NEW h, h = j - 1
          PROVE  end[j] = end[h] + FrameSize(fs[j]) /\ At(d, end[h], fs[j])
      BY <1>1, <3>1 DEF Ends
    <3>2. k = k + 1 - 1
      BY <1>2
    <3> DEFINE j == k + 1
    <3>3. j \in (k + 1)..Len(fs) /\ k = j - 1
      BY <2>1, <3>2
    <3> HIDE DEF j
    <3>4. end[j] = end[k] + FrameSize(fs[j]) /\ At(d, end[k], fs[j])
      BY <3>1, <3>3, Zenon
    <3> QED
      BY <3>4, Zenon DEF j
  <2>3. end[k] = 0 /\ end[Len(fs)] = Len(d) /\ end[k + 1] <= end[Len(fs)]
    BY <1>1, <1>2, <1>3, <2>1 DEF Ends
  <2>4. FrameSize(fs[k + 1]) \in Nat \ {0}
    <3>1. k + 1 \in 1..Len(fs)
      BY <1>2, <1>3
    <3> QED
      BY <3>1, FrameData
  <2> QED
    BY <1>2, <2>2, <2>3, <2>4
<1> QED
  BY <1>1, <1>3 DEF Ends

LEMMA FramedMore ==
  ASSUME NEW fs \in Seq(Frame), NEW k \in 0..Len(fs), NEW d \in Seq(Cell), Framed(d, fs, k),
         NEW r \in Frame, NEW c \in Seq(Cell), OfFrame(c, r)
  PROVE  Framed(d \o c, Append(fs, r), k)
<1>1. PICK end \in [k..Len(fs) -> Nat] : Ends(end, d, fs, k)
  BY DEF Framed
<1>2. Len(fs) \in Nat /\ Len(d) \in Nat /\ FrameSize(r) \in Nat \ {0}
  BY LenProperties DEF Frame, FrameSize
<1> DEFINE n == Len(fs)
           more == [i \in k..(n + 1) |-> IF i <= n THEN end[i] ELSE end[n] + FrameSize(r)]
<1>3. /\ Append(fs, r) \in Seq(Frame) /\ Len(Append(fs, r)) = n + 1
      /\ \A i \in 1..n : Append(fs, r)[i] = fs[i]
      /\ Append(fs, r)[n + 1] = r
  BY AppendProperties
<1>4. /\ Len(d \o c) = Len(d) + FrameSize(r)
      /\ \A i \in 1..Len(d) : (d \o c)[i] = d[i]
      /\ \A j \in 1..FrameSize(r) : (d \o c)[Len(d) + j] = c[j]
  <2>1. /\ Len(d \o c) = Len(d) + Len(c)
        /\ \A i \in 1..Len(d) : (d \o c)[i] = d[i]
        /\ \A i \in 1..Len(c) : (d \o c)[Len(d) + i] = c[i]
    BY JoinSeq
  <2>2. Len(c) = FrameSize(r)
    BY DEF OfFrame
  <2> QED
    BY <2>1, <2>2
<1>5. more \in [k..(n + 1) -> Nat]
  <2>1. n \in k..n /\ end[n] \in Nat
    BY <1>1, <1>2
  <2>2. ASSUME NEW i \in k..(n + 1) PROVE (IF i <= n THEN end[i] ELSE end[n] + FrameSize(r)) \in Nat
    <3>1. i <= n => i \in k..n
      BY <1>2
    <3>2. i <= n => end[i] \in Nat
      BY <1>1, <3>1
    <3>3. end[n] + FrameSize(r) \in Nat
      BY <1>2, <2>1
    <3> QED
      BY <3>2, <3>3
  <2> QED
    BY <2>2
<1>6. more[k] = 0 /\ more[n + 1] = Len(d \o c) /\ end[n] = Len(d)
  BY <1>1, <1>2, <1>4 DEF Ends
<1>7. ASSUME NEW i \in k..(n + 1), NEW j \in k..(n + 1), i <= j PROVE more[i] <= more[j]
  <2>1. CASE j <= n
    BY <1>1, <1>2, <1>7, <2>1 DEF Ends
  <2>2. CASE ~(j <= n) /\ i <= n
    <3>1. end[i] <= end[n] /\ end[i] \in Nat /\ end[n] \in Nat
      BY <1>1, <1>2, <2>2 DEF Ends
    <3> QED
      BY <1>2, <2>2, <3>1
  <2>3. CASE ~(i <= n)
    BY <1>2, <1>5, <1>7, <2>3
  <2> QED
    BY <2>1, <2>2, <2>3
<1>8. ASSUME NEW i \in (k + 1)..(n + 1)
      PROVE  /\ more[i] = more[i - 1] + FrameSize(Append(fs, r)[i])
             /\ At(d \o c, more[i - 1], Append(fs, r)[i])
  <2>1. CASE i <= n
    <3>1. i \in (k + 1)..n /\ i - 1 \in k..n /\ n \in k..n /\ i \in k..n
      BY <1>2, <2>1
    <3>2. /\ end[i] = end[i - 1] + FrameSize(fs[i]) /\ At(d, end[i - 1], fs[i])
          /\ end[i] <= end[n]
      BY <1>1, <3>1 DEF Ends
    <3>3. Append(fs, r)[i] = fs[i] /\ more[i] = end[i] /\ more[i - 1] = end[i - 1]
      BY <1>2, <1>3, <3>1
    <3>4. end[i - 1] \in Nat /\ end[i] \in Nat
      BY <1>1, <3>1
    <3>5. FrameSize(fs[i]) \in Nat \ {0}
      <4>1. i \in 1..n
        BY <1>2, <2>1
      <4> QED
        BY <4>1, FrameData
    <3>6. end[n] = Len(d)
      BY <1>6
    <3> HIDE DEF n, more
    <3>7. \A j \in 1..FrameSize(fs[i]) : end[i - 1] + j \in 1..Len(d)
      <4>1. end[i - 1] + FrameSize(fs[i]) <= Len(d)
        BY <3>2, <3>6
      <4>2. \A x, z \in Nat, y \in Nat \ {0} : x + y <= z => \A j \in 1..y : x + j \in 1..z
        OBVIOUS
      <4> QED
        BY <1>2, <3>4, <3>5, <4>1, <4>2, Zenon
    <3>8. \A j \in 1..FrameSize(fs[i]) : (d \o c)[end[i - 1] + j] = Cells("old", fs[i])[j]
      <4>1. \A x \in 1..Len(d) : (d \o c)[x] = d[x]
        BY <1>4
      <4> QED
        BY <3>2, <3>7, <4>1, Zenon DEF At
    <3>9. At(d \o c, end[i - 1], fs[i])
      BY <3>8 DEF At
    <3> QED
      BY <3>2, <3>3, <3>9
  <2>2. CASE i = n + 1
    <3>1. more[i] = end[n] + FrameSize(r) /\ more[i - 1] = end[n]
      BY <1>2, <2>2
    <3>2. Append(fs, r)[i] = r /\ end[n] = Len(d)
      BY <1>3, <1>6, <2>2
    <3>3. At(d \o c, Len(d), r)
      <4>1. \A j \in 1..FrameSize(r) : 0 + j = j /\ c[0 + j] = Cells("old", r)[j]
        BY <1>2 DEF OfFrame, At
      <4> QED
        BY <1>4, <4>1 DEF At
    <3> QED
      BY <3>1, <3>2, <3>3
  <2>3. i <= n \/ i = n + 1
    BY <1>2
  <2> QED
    BY <2>1, <2>2, <2>3
<1> HIDE DEF more, n
<1>9. Ends(more, d \o c, Append(fs, r), k)
  BY <1>3, <1>6, <1>7, <1>8 DEF Ends
<1> QED
  BY <1>3, <1>5, <1>9 DEF Framed

LEMMA FramedRest ==
  ASSUME NEW fs \in Seq(Frame), NEW k \in 0..Len(fs), NEW d \in Seq(Cell), Framed(d, fs, k),
         k < Len(fs), NEW e \in Seq(Cell), Without(e, d, FrameSize(fs[k + 1]))
  PROVE  Framed(e, fs, k + 1)
<1>1. PICK end \in [k..Len(fs) -> Nat] : Ends(end, d, fs, k)
  BY DEF Framed
<1> DEFINE n == Len(fs)
           c == FrameSize(fs[k + 1])
           less == [i \in (k + 1)..n |-> end[i] - c]
<1>2. n \in Nat /\ Len(d) \in Nat /\ Len(e) \in Nat /\ c \in Nat
  <2>1. k + 1 \in 1..Len(fs)
    BY FrameData
  <2>2. FrameSize(fs[k + 1]) \in Nat \ {0}
    BY <2>1, FrameData
  <2> QED
    BY <2>2, FrameData, LenProperties
<1>d. /\ Len(e) = Len(d) - c
      /\ \A i \in 1..Len(e) : e[i] = d[c + i]
      /\ \A i \in (k + 1)..n : less[i] = end[i] - c
      /\ \A i \in 1..n : FrameSize(fs[i]) \in Nat \ {0}
  BY FrameData DEF Without
<1>3. end[k] = 0 /\ end[k + 1] = c /\ end[n] = Len(d)
  <2>1. k + 1 \in (k + 1)..n /\ k + 1 - 1 = k
    BY <1>2
  <2>2. end[k + 1] = end[k] + FrameSize(fs[k + 1]) /\ end[k] = 0 /\ end[n] = Len(d)
    BY <1>1, <2>1 DEF Ends
  <2> QED
    BY <1>2, <2>2
<1>4. ASSUME NEW i \in (k + 1)..n PROVE end[i] \in Nat /\ c <= end[i] /\ less[i] = end[i] - c
  <2>1. i \in k..n /\ k + 1 \in k..n /\ k + 1 <= i
    BY <1>2
  <2>2. end[k + 1] <= end[i] /\ end[i] \in Nat
    BY <1>1, <2>1 DEF Ends
  <2> QED
    BY <1>3, <1>d, <2>2
<1>5. less \in [(k + 1)..n -> Nat]
  BY <1>2, <1>4
<1>6. less[k + 1] = 0 /\ less[n] = Len(e)
  <2>1. k + 1 \in (k + 1)..n /\ n \in (k + 1)..n
    BY <1>2
  <2> QED
    BY <1>2, <1>3, <1>4, <1>d, <2>1
<1> HIDE DEF less, c, n
<1>7. ASSUME NEW i \in (k + 1)..n, NEW j \in (k + 1)..n, i <= j PROVE less[i] <= less[j]
  <2>1. end[i] <= end[j]
    BY <1>1, <1>2, <1>7 DEF Ends, n
  <2>2. less[i] = end[i] - c /\ less[j] = end[j] - c /\ end[i] \in Nat /\ end[j] \in Nat
    BY <1>4
  <2> QED
    BY <1>2, <2>1, <2>2
<1>8. ASSUME NEW i \in (k + 1 + 1)..n
      PROVE  less[i] = less[i - 1] + FrameSize(fs[i]) /\ At(e, less[i - 1], fs[i])
  <2>1. i \in (k + 1)..n /\ i - 1 \in (k + 1)..n /\ n \in (k + 1)..n /\ FrameSize(fs[i]) \in Nat \ {0}
    <3>1. i \in (k + 1)..n /\ i - 1 \in (k + 1)..n /\ n \in (k + 1)..n /\ i \in 1..n
      BY <1>2
    <3> QED
      BY <3>1, <1>d
  <2>2. end[i] = end[i - 1] + FrameSize(fs[i]) /\ At(d, end[i - 1], fs[i])
    BY <1>1, <2>1 DEF Ends, n
  <2>3. less[i] <= less[n] /\ less[i] = end[i] - c /\ less[i - 1] = end[i - 1] - c
        /\ end[i] \in Nat /\ end[i - 1] \in Nat /\ c <= end[i - 1]
    <3>1. i <= n
      BY <1>2
    <3> QED
      BY <1>4, <1>7, <2>1, <3>1
  <2>4. /\ less[i] = less[i - 1] + FrameSize(fs[i])
        /\ \A j \in 1..FrameSize(fs[i]) : /\ less[i - 1] + j \in 1..Len(e)
                                          /\ c + (less[i - 1] + j) = end[i - 1] + j
    <3>1. end[i - 1] + FrameSize(fs[i]) - c <= Len(e)
      BY <1>2, <1>6, <2>1, <2>2, <2>3
    <3>2. less[i] = end[i - 1] + FrameSize(fs[i]) - c
      BY <1>2, <2>1, <2>2, <2>3
    <3>3. less[i] = less[i - 1] + FrameSize(fs[i])
      BY <1>2, <2>1, <2>3, <3>2
    <3>4. \A j \in 1..FrameSize(fs[i]) : c + (less[i - 1] + j) = end[i - 1] + j
      BY <1>2, <2>1, <2>3
    <3>5. \A j \in 1..FrameSize(fs[i]) : less[i - 1] + j \in 1..Len(e)
      <4>1. less[i - 1] \in Nat /\ FrameSize(fs[i]) \in Nat \ {0}
        BY <1>5, <2>1
      <4>2. less[i - 1] + FrameSize(fs[i]) <= Len(e)
        BY <3>1, <3>2, <3>3
      <4> QED
        BY <1>2, <4>1, <4>2
    <3> QED
      BY <3>3, <3>4, <3>5
  <2>5. \A j \in 1..FrameSize(fs[i]) : e[less[i - 1] + j] = d[c + (less[i - 1] + j)]
    <3>1. \A x \in 1..Len(e) : e[x] = d[c + x]
      BY <1>d
    <3> QED
      BY <2>4, <3>1, Zenon
  <2>6. At(e, less[i - 1], fs[i])
    <3>1. \A j \in 1..FrameSize(fs[i]) : d[end[i - 1] + j] = Cells("old", fs[i])[j]
      BY <2>2 DEF At
    <3>2. \A j \in 1..FrameSize(fs[i]) : e[less[i - 1] + j] = d[end[i - 1] + j]
      BY <2>4, <2>5, Zenon
    <3> QED
      BY <3>1, <3>2 DEF At
  <2> QED
    BY <2>4, <2>6
<1> HIDE DEF less
<1> QED
  BY <1>5, <1>6, <1>7, <1>8 DEF Framed, Ends, n

-----------------------------------------------------------------------------
(* The request that is read. *)
LEMMA CellsJoined ==
  /\ \A s, t \in Seq(Cell) : /\ s \o t \in Seq(Cell) /\ Len(s \o t) = Len(s) + Len(t)
                             /\ \A i \in 1..Len(s) : (s \o t)[i] = s[i]
                             /\ \A i \in 1..Len(t) : (s \o t)[Len(s) + i] = t[i]
  /\ \A s, t, u \in Seq(Cell) : (s \o t) \o u = s \o (t \o u)
<1>1. \A s, t, u \in Seq(Cell) : (s \o t) \o u = s \o (t \o u)
  BY ConcatAssociative
<1>2. ASSUME NEW s \in Seq(Cell), NEW t \in Seq(Cell)
      PROVE  /\ s \o t \in Seq(Cell) /\ Len(s \o t) = Len(s) + Len(t)
             /\ \A i \in 1..Len(s) : (s \o t)[i] = s[i]
             /\ \A i \in 1..Len(t) : (s \o t)[Len(s) + i] = t[i]
  BY JoinSeq
<1> QED
  BY <1>1, <1>2

(* What follows a part of a sequence without its beginning. *)
LEMMA WithoutJoined ==
  ASSUME NEW s \in Seq(Cell), NEW w \in Seq(Cell), NEW n \in 0..Len(s),
         NEW a \in Seq(Cell), Without(a, s, n)
  PROVE  Without(a \o w, s \o w, n)
<1>1. /\ Len(a \o w) = Len(a) + Len(w)
      /\ \A i \in 1..Len(a) : (a \o w)[i] = a[i]
      /\ \A i \in 1..Len(w) : (a \o w)[Len(a) + i] = w[i]
  BY JoinSeq
<1>2. /\ Len(s \o w) = Len(s) + Len(w)
      /\ \A i \in 1..Len(s) : (s \o w)[i] = s[i]
      /\ \A i \in 1..Len(w) : (s \o w)[Len(s) + i] = w[i]
  BY JoinSeq
<1>3. Len(s) \in Nat /\ Len(w) \in Nat /\ n \in Nat /\ n <= Len(s) /\ Len(a) = Len(s) - n
  BY LenProperties DEF Without
<1>4. ASSUME NEW i \in 1..Len(a \o w) PROVE (a \o w)[i] = (s \o w)[n + i]
  <2>1. CASE i <= Len(a)
    <3>1. i \in 1..Len(a) /\ n + i \in 1..Len(s)
      BY <1>3, <2>1
    <3>2. a[i] = s[n + i]
      BY <3>1 DEF Without
    <3> QED
      BY <1>1, <1>2, <3>1, <3>2
  <2>2. CASE ~(i <= Len(a))
    <3> DEFINE j == i - Len(a)
    <3>1. j \in 1..Len(w) /\ i = Len(a) + j /\ n + i = Len(s) + j
      BY <1>1, <1>3, <2>2
    <3> HIDE DEF j
    <3> QED
      BY <1>1, <1>2, <3>1
  <2> QED
    BY <2>1, <2>2
<1>5. Len(a \o w) = Len(s \o w) - n
  BY <1>1, <1>2, <1>3
<1> QED
  BY <1>4, <1>5 DEF Without

LEMMA AfterIs ==
  ASSUME NEW s \in Seq(Cell), NEW w \in Seq(Cell), NEW n \in 0..Len(s)
  PROVE  /\ SubSeq(s, 1, n) \in Seq(Cell) /\ Len(SubSeq(s, 1, n)) = n
         /\ After(s, n) \in Seq(Cell) /\ Len(After(s, n)) = Len(s) - n
         /\ Len(After(s, n) \o w) = Len(s \o w) - n
         /\ \A i \in 1..(Len(s \o w) - n) : (After(s, n) \o w)[i] = (s \o w)[n + i]
<1>1. /\ SubSeq(s, 1, n) \in Seq(Cell) /\ Len(SubSeq(s, 1, n)) = n
      /\ After(s, n) \in Seq(Cell) /\ Len(After(s, n)) = Len(s) - n
      /\ \A i \in 1..(Len(s) - n) : After(s, n)[i] = s[n + i]
  BY CutSeq DEF After
<1>2. Without(After(s, n), s, n)
  BY <1>1 DEF Without
<1>3. Without(After(s, n) \o w, s \o w, n)
  BY <1>1, <1>2, WithoutJoined
<1> QED
  BY <1>1, <1>3 DEF Without

LEMMA ParserIs ==
  ASSUME NEW p \in Parser
  PROVE  /\ p.half \in {"qry", "pst"} /\ p.qlen \in Int /\ p.plen \in Int
         /\ p.qry \in Seq(Cell) /\ p.pst \in Seq(Cell) /\ Len(p.qry) \in Nat /\ Len(p.pst) \in Nat
BY LenProperties DEF Parser

\* From q on, the query and the post are left.
FromQuery(q, w, n) == Len(q \o w) = 3 + n /\ (q \o w)[1 + n].v = 1

LEMMA QueryCuts ==
  ASSUME NEW p \in Parser, p.plen = -1, NEW w \in Seq(Cell), NEW n \in Nat, NEW q \in Seq(Cell),
         FromQuery(q, w, n)
  PROVE  /\ QueryCut(p, q, n) \in Parser
         /\ \/ Query(QueryCut(p, q, n), w, n) /\ Len(QueryCut(p, q, n).qry) < n
            \/ PostLength(QueryCut(p, q, n), w, n)
<1>1. Len(q) \in Nat
  BY LenProperties
<1>2. CASE Len(q) >= n
  <2>1. n \in 0..Len(q)
    BY <1>1, <1>2
  <2>2. /\ SubSeq(q, 1, n) \in Seq(Cell) /\ Len(SubSeq(q, 1, n)) = n
        /\ After(q, n) \in Seq(Cell) /\ Len(After(q, n) \o w) = Len(q \o w) - n
        /\ \A i \in 1..(Len(q \o w) - n) : (After(q, n) \o w)[i] = (q \o w)[n + i]
    BY <2>1, AfterIs
  <2> DEFINE r == Reader("pst", n, p.plen, SubSeq(q, 1, n), After(q, n))
  <2>3. /\ r \in Parser /\ r.half = "pst" /\ r.plen = -1 /\ r.qry = SubSeq(q, 1, n)
        /\ r.pst = After(q, n)
    <3>1. n \in Int /\ -1 \in Int
      OBVIOUS
    <3> QED
      BY <2>2, <3>1 DEF Reader, Parser
  <2>4. QueryCut(p, q, n) = r
    BY <1>2 DEF QueryCut
  <2> HIDE DEF r
  <2>5. Len(After(q, n) \o w) = 3
    BY <2>2 DEF FromQuery
  <2>6. (After(q, n) \o w)[1].v = 1
    <3>1. 1 \in 1..(Len(q \o w) - n) /\ n + 1 = 1 + n
      BY DEF FromQuery
    <3>2. (After(q, n) \o w)[1] = (q \o w)[1 + n]
      BY <2>2, <3>1
    <3> QED
      BY <3>2 DEF FromQuery
  <2>7. PostLength(r, w, n)
    BY <2>2, <2>3, <2>5, <2>6 DEF PostLength
  <2> QED
    BY <2>3, <2>4, <2>7
<1>3. CASE ~(Len(q) >= n)
  <2> DEFINE r == Reader("qry", n, p.plen, q, p.pst)
  <2>1. r \in Parser /\ r.half = "qry" /\ r.plen = -1 /\ r.qry = q /\ r.qlen = n
    <3>1. n \in Int /\ -1 \in Int /\ p.pst \in Seq(Cell)
      BY ParserIs
    <3> QED
      BY <3>1 DEF Reader, Parser
  <2>2. QueryCut(p, q, n) = r
    BY <1>3 DEF QueryCut
  <2> HIDE DEF r
  <2>3. Query(r, w, n) /\ Len(r.qry) < n
    BY <1>1, <1>3, <2>1 DEF Query, FromQuery
  <2> QED
    BY <2>1, <2>2, <2>3
<1> QED
  BY <1>2, <1>3

LEMMA QueryReads ==
  ASSUME NEW p \in Parser, NEW w \in Seq(Cell), NEW n \in Nat,
         QueryLength(p, w, n) \/ Query(p, w, n)
  PROVE  /\ QueryRead(p) \in Parser
         /\ \/ QueryLength(QueryRead(p), w, n) /\ Len(QueryRead(p).qry) < 2
            \/ Query(QueryRead(p), w, n) /\ Len(QueryRead(p).qry) < n
            \/ PostLength(QueryRead(p), w, n)
<1>1. p.plen = -1 /\ p.qry \in Seq(Cell) /\ Len(p.qry) \in Nat
  BY ParserIs DEF QueryLength, Query
<1>2. CASE QueryLength(p, w, n) /\ Len(p.qry) < 2
  <2>1. QueryRead(p) = p
    BY <1>1, <1>2 DEF QueryRead, QueryLength
  <2> QED
    BY <1>2, <2>1
<1>3. CASE QueryLength(p, w, n) /\ ~(Len(p.qry) < 2)
  <2> DEFINE q == After(p.qry, 2)
  <2>1. 2 \in 0..Len(p.qry) /\ 1 \in 1..Len(p.qry)
    BY <1>1, <1>3
  <2>2. /\ q \in Seq(Cell) /\ Len(q \o w) = Len(p.qry \o w) - 2
        /\ \A i \in 1..(Len(p.qry \o w) - 2) : (q \o w)[i] = (p.qry \o w)[2 + i]
    BY <1>1, <2>1, AfterIs
  <2>3. /\ Len(p.qry \o w) = 5 + n /\ (p.qry \o w)[3 + n].v = 1 /\ (p.qry \o w)[1].v = n
        /\ p.qlen = -1
    BY <1>3 DEF QueryLength
  <2>4. p.qry[1].v = n
    <3>1. (p.qry \o w)[1] = p.qry[1]
      BY <1>1, <2>1, CellsJoined
    <3> QED
      BY <2>3, <3>1
  <2>5. QueryRead(p) = QueryCut(p, q, n)
    BY <1>1, <1>3, <2>3, <2>4 DEF QueryRead
  <2> HIDE DEF q
  <2>6. FromQuery(q, w, n)
    <3>1. 1 + n \in 1..(Len(p.qry \o w) - 2) /\ 2 + (1 + n) = 3 + n
      BY <2>3
    <3>2. (q \o w)[1 + n] = (p.qry \o w)[3 + n]
      BY <2>2, <3>1
    <3>3. Len(q \o w) = 3 + n
      BY <2>2, <2>3
    <3> QED
      BY <2>3, <3>2, <3>3 DEF FromQuery
  <2> QED
    BY <1>1, <2>2, <2>5, <2>6, QueryCuts
<1>4. CASE Query(p, w, n)
  <2>1. p.qlen = n /\ FromQuery(p.qry, w, n)
    BY <1>4 DEF Query, FromQuery
  <2>2. QueryRead(p) = QueryCut(p, p.qry, n)
    BY <2>1 DEF QueryRead
  <2> QED
    BY <1>1, <2>1, <2>2, QueryCuts
<1> QED
  BY <1>2, <1>3, <1>4

LEMMA PostReads ==
  ASSUME NEW p \in Parser, NEW w \in Seq(Cell), NEW n \in Nat,
         PostLength(p, w, n) \/ PostBody(p, w, n)
  PROVE  /\ PostRead(p) \in Parser
         /\ \/ PostLength(PostRead(p), w, n) /\ Len(PostRead(p).pst) < 2
            \/ PostBody(PostRead(p), w, n)
<1>1. /\ p.half = "pst" /\ p.qlen \in Int /\ p.qry \in Seq(Cell) /\ p.pst \in Seq(Cell)
      /\ Len(p.pst) \in Nat /\ Len(p.qry) = n
  BY ParserIs DEF PostLength, PostBody
<1>2. CASE PostBody(p, w, n)
  <2>1. PostRead(p) = p
    BY <1>2 DEF PostRead, PostBody
  <2> QED
    BY <1>2, <2>1
<1>3. CASE PostLength(p, w, n) /\ Len(p.pst) < 2
  <2>1. PostRead(p) = p
    BY <1>1, <1>3 DEF PostRead
  <2> QED
    BY <1>3, <2>1
<1>4. CASE PostLength(p, w, n) /\ ~(Len(p.pst) < 2)
  <2>1. p.plen = -1 /\ Len(p.pst \o w) = 3 /\ (p.pst \o w)[1].v = 1
    BY <1>4 DEF PostLength
  <2>2. 2 \in 0..Len(p.pst) /\ 1 \in 1..Len(p.pst)
    BY <1>1, <1>4
  <2>3. After(p.pst, 2) \in Seq(Cell) /\ Len(After(p.pst, 2) \o w) = Len(p.pst \o w) - 2
    BY <1>1, <2>2, AfterIs
  <2>4. p.pst[1].v = 1
    <3>1. (p.pst \o w)[1] = p.pst[1]
      BY <1>1, <2>2, CellsJoined
    <3> QED
      BY <2>1, <3>1
  <2> DEFINE r == Reader(p.half, p.qlen, 1, p.qry, After(p.pst, 2))
  <2>5. PostRead(p) = r
    BY <1>1, <1>4, <2>1, <2>4 DEF PostRead
  <2>6. r \in Parser /\ r.half = "pst" /\ r.plen = 1 /\ r.qry = p.qry /\ r.pst = After(p.pst, 2)
    <3>1. p.half \in {"qry", "pst"} /\ 1 \in Int
      BY <1>1
    <3> QED
      BY <1>1, <2>3, <3>1 DEF Reader, Parser
  <2> HIDE DEF r
  <2>7. PostBody(r, w, n)
    BY <1>1, <2>1, <2>3, <2>6 DEF PostBody
  <2> QED
    BY <2>5, <2>6, <2>7
<1> QED
  BY <1>2, <1>3, <1>4

LEMMA PieceReads ==
  ASSUME NEW p \in Parser, NEW piece \in Seq(Cell), NEW w \in Seq(Cell), NEW n \in Nat,
         Partly(p, piece \o w, n)
  PROVE  LET r == Parsed(p, piece)
         IN  /\ r \in Parser
             /\ Complete(r) => r.plen = 1 /\ Len(r.pst) = 1 /\ Len(r.qry) = n /\ w = <<>>
             /\ ~Complete(r) => Partly(r, w, n)
<1> DEFINE p1 == Reader(p.half, p.qlen, p.plen, IF p.half = "qry" THEN p.qry \o piece ELSE p.qry,
                        IF p.half = "pst" THEN p.pst \o piece ELSE p.pst)
           p2 == IF p1.half = "qry" THEN QueryRead(p1) ELSE p1
           r == IF p2.half = "pst" THEN PostRead(p2) ELSE p2
<1>0. /\ p.half \in {"qry", "pst"} /\ p.qlen \in Int /\ p.plen \in Int
      /\ p.qry \in Seq(Cell) /\ p.pst \in Seq(Cell)
  BY ParserIs
<1>1. /\ p.qry \o piece \in Seq(Cell) /\ (p.qry \o piece) \o w = p.qry \o (piece \o w)
      /\ p.pst \o piece \in Seq(Cell) /\ (p.pst \o piece) \o w = p.pst \o (piece \o w)
  BY <1>0, CellsJoined
<1>2. /\ p1 \in Parser /\ p1.half = p.half /\ p1.qlen = p.qlen /\ p1.plen = p.plen
      /\ p1.qry = (IF p.half = "qry" THEN p.qry \o piece ELSE p.qry)
      /\ p1.pst = (IF p.half = "pst" THEN p.pst \o piece ELSE p.pst)
  <2>1. /\ (IF p.half = "qry" THEN p.qry \o piece ELSE p.qry) \in Seq(Cell)
        /\ (IF p.half = "pst" THEN p.pst \o piece ELSE p.pst) \in Seq(Cell)
    BY <1>0, <1>1
  <2> QED
    BY <1>0, <2>1 DEF Reader, Parser
<1>p. Parsed(p, piece) = r
  BY DEF Parsed
<1> HIDE DEF p1
<1>3. \/ p1.half = "qry" /\ (QueryLength(p1, w, n) \/ Query(p1, w, n))
      \/ p1.half = "pst" /\ (PostLength(p1, w, n) \/ PostBody(p1, w, n))
  <2>1. CASE QueryLength(p, piece \o w, n)
    BY <1>1, <1>2, <2>1 DEF QueryLength
  <2>2. CASE Query(p, piece \o w, n)
    BY <1>1, <1>2, <2>2 DEF Query
  <2>3. CASE PostLength(p, piece \o w, n)
    BY <1>1, <1>2, <2>3 DEF PostLength
  <2>4. CASE PostBody(p, piece \o w, n)
    BY <1>1, <1>2, <2>4 DEF PostBody
  <2> QED
    BY <2>1, <2>2, <2>3, <2>4 DEF Partly
<1>4. /\ p2 \in Parser
      /\ \/ QueryLength(p2, w, n) /\ Len(p2.qry) < 2
         \/ Query(p2, w, n) /\ Len(p2.qry) < n
         \/ PostLength(p2, w, n)
         \/ PostBody(p2, w, n)
  BY <1>2, <1>3, QueryReads
<1> HIDE DEF p2
<1>5. CASE \/ QueryLength(p2, w, n) /\ Len(p2.qry) < 2
           \/ Query(p2, w, n) /\ Len(p2.qry) < n
  <2>1. p2.half = "qry" /\ r = p2
    BY <1>5 DEF QueryLength, Query
  <2>2. ~Complete(r) /\ Partly(r, w, n)
    BY <1>5, <2>1 DEF Complete, Partly
  <2> QED
    BY <1>4, <1>p, <2>1, <2>2
<1>6. CASE PostLength(p2, w, n) \/ PostBody(p2, w, n)
  <2>1. p2.half = "pst" /\ r = PostRead(p2)
    BY <1>6 DEF PostLength, PostBody
  <2>2. /\ r \in Parser
        /\ (PostLength(r, w, n) /\ Len(r.pst) < 2) \/ PostBody(r, w, n)
    BY <1>4, <1>6, <2>1, PostReads
  <2> HIDE DEF r
  <2>3. CASE PostLength(r, w, n) /\ Len(r.pst) < 2
    <3>1. ~Complete(r) /\ Partly(r, w, n)
      BY <2>3 DEF Complete, Partly, PostLength
    <3> QED
      BY <1>p, <2>2, <3>1
  <2>4. CASE PostBody(r, w, n)
    <3>1. r.half = "pst" /\ r.plen = 1 /\ Len(r.qry) = n /\ Len(r.pst \o w) = 1
      BY <2>4 DEF PostBody
    <3>2. r.pst \in Seq(Cell) /\ Len(r.pst) \in Nat
      BY <2>2, ParserIs
    <3>3. Len(r.pst \o w) = Len(r.pst) + Len(w) /\ Len(w) \in Nat
      BY <3>2, CellsJoined, LenProperties
    <3>4. CASE Len(r.pst) < 1
      <4>1. ~Complete(r) /\ Partly(r, w, n)
        BY <2>4, <3>1, <3>2, <3>4 DEF Complete, Partly
      <4> QED
        BY <1>p, <2>2, <4>1
    <3>5. CASE ~(Len(r.pst) < 1)
      <4>1. Len(r.pst) = 1 /\ Len(w) = 0
        <5>1. Len(w) \in Nat /\ Len(r.pst) + Len(w) = 1 /\ Len(r.pst) \in Nat
          BY <3>1, <3>2, <3>3
        <5>2. \A k, l \in Nat : k + l = 1 /\ ~(k < 1) => k = 1 /\ l = 0
          OBVIOUS
        <5> QED
          BY <5>1, <5>2, <3>5
      <4>2. w = <<>>
        BY <4>1, EmptySeq
      <4>3. Complete(r)
        BY <3>1, <4>1 DEF Complete
      <4> QED
        BY <1>p, <2>2, <3>1, <4>1, <4>2, <4>3
    <3> QED
      BY <3>4, <3>5
  <2> QED
    BY <2>2, <2>3, <2>4
<1> QED
  BY <1>4, <1>5, <1>6

(* What a frame and a request are on the wire. *)
LEMMA LengthIs ==
  ASSUME NEW n \in Nat, NEW v \in Nat
  PROVE  Length(n, v) \in Seq(Cell) /\ Len(Length(n, v)) = n /\ \A i \in 1..n : Length(n, v)[i].v = v
<1>1. ASSUME NEW i \in 1..n PROVE [length |-> TRUE, at |-> i, v |-> v] \in Cell
  BY DEF Cell
<1>2. Length(n, v) \in [1..n -> Cell]
  BY <1>1 DEF Length
<1>3. Length(n, v) \in Seq(Cell) /\ Len(Length(n, v)) = n
  BY <1>2, SeqDef, LenProperties
<1>4. ASSUME NEW i \in 1..n PROVE Length(n, v)[i].v = v
  BY DEF Length
<1> QED
  BY <1>3, <1>4

LEMMA BodyIs ==
  ASSUME NEW n \in Nat PROVE Body(n) \in Seq(Cell) /\ Len(Body(n)) = n
<1>1. ASSUME NEW i \in 1..n PROVE [length |-> FALSE, at |-> i, v |-> 0] \in Cell
  BY DEF Cell
<1>2. Body(n) \in [1..n -> Cell]
  BY <1>1 DEF Body
<1> QED
  BY <1>2, SeqDef, LenProperties

LEMMA FrameIs ==
  ASSUME NEW r \in Frame
  PROVE  /\ Cells("old", r) \in Seq(Cell) /\ OfFrame(Cells("old", r), r)
         /\ Cells("old", r)[1].v = FrameLength(r)
<1> DEFINE n == r.data + 1
           l == Length(4, n)
           b == Body(n)
<1>1. n \in Nat
  BY DEF Frame
<1>2. Cells("old", r) = l \o b
  BY DEF Cells
<1>3. FrameLength(r) = n /\ FrameSize(r) = 4 + n
  BY DEF FrameLength, FrameSize, Frame
<1> HIDE DEF n
<1>4. l \in Seq(Cell) /\ Len(l) = 4 /\ l[1].v = n
  <2>1. 4 \in Nat /\ 1 \in 1..4
    OBVIOUS
  <2>2. l \in Seq(Cell) /\ Len(l) = 4 /\ \A i \in 1..4 : l[i].v = n
    BY <1>1, <2>1, LengthIs
  <2> QED
    BY <2>1, <2>2
<1>5. b \in Seq(Cell) /\ Len(b) = n
  BY <1>1, BodyIs
<1> HIDE DEF l, b
<1>6. /\ l \o b \in Seq(Cell) /\ Len(l \o b) = Len(l) + Len(b)
      /\ \A i \in 1..Len(l) : (l \o b)[i] = l[i]
  <2>1. l \in Seq(Cell) /\ b \in Seq(Cell)
    BY <1>4, <1>5
  <2> QED
    BY <2>1, JoinSeq
<1>7. (l \o b)[1] = l[1]
  BY <1>4, <1>6
<1>8. Len(l \o b) = 4 + n
  BY <1>4, <1>5, <1>6
<1>9. At(Cells("old", r), 0, r)
  <2>1. \A j \in 1..FrameSize(r) : 0 + j = j
    BY <1>1, <1>3
  <2> QED
    BY <2>1 DEF At
<1> QED
  BY <1>2, <1>3, <1>4, <1>6, <1>7, <1>8, <1>9 DEF OfFrame

LEMMA RequestIs ==
  ASSUME NEW r \in Request
  PROVE  /\ r.query \in Nat /\ Cells("simulate", r) \in Seq(Cell)
         /\ Partly(Fresh, Cells("simulate", r), r.query)
<1> DEFINE n == r.query
           l == Length(2, n)
           b == Body(n)
           m == Length(2, 1)
           c == Body(1)
<1>1. n \in Nat
  BY DEF Request
<1>2. Cells("simulate", r) = ((l \o b) \o m) \o c
  BY DEF Cells
<1> HIDE DEF n
<1>t. 1 \in Nat /\ 2 \in Nat /\ 1 \in 1..2
  OBVIOUS
<1>3. l \in Seq(Cell) /\ Len(l) = 2 /\ l[1].v = n
  <2>1. l \in Seq(Cell) /\ Len(l) = 2 /\ \A i \in 1..2 : l[i].v = n
    BY <1>1, <1>t, LengthIs
  <2> QED
    BY <1>t, <2>1
<1>4. m \in Seq(Cell) /\ Len(m) = 2 /\ m[1].v = 1
  <2>1. m \in Seq(Cell) /\ Len(m) = 2 /\ \A i \in 1..2 : m[i].v = 1
    BY <1>t, LengthIs
  <2> QED
    BY <1>t, <2>1
<1>5. b \in Seq(Cell) /\ Len(b) = n /\ c \in Seq(Cell) /\ Len(c) = 1
  BY <1>1, BodyIs
<1> HIDE DEF l, b, m, c
<1>6. /\ l \o b \in Seq(Cell) /\ Len(l \o b) = Len(l) + Len(b)
      /\ \A i \in 1..Len(l) : (l \o b)[i] = l[i]
  <2>1. l \in Seq(Cell) /\ b \in Seq(Cell)
    BY <1>3, <1>5
  <2> QED
    BY <2>1, JoinSeq
<1> DEFINE q == l \o b
<1>7. q \in Seq(Cell) /\ Len(q) = 2 + n /\ q[1].v = n
  <2>1. 1 \in 1..Len(l)
    BY <1>3
  <2>2. Len(l \o b) = 2 + n
    BY <1>3, <1>5, <1>6
  <2> QED
    BY <1>3, <1>6, <2>1, <2>2
<1> HIDE DEF q
<1>8. /\ q \o m \in Seq(Cell) /\ Len(q \o m) = Len(q) + Len(m)
      /\ \A i \in 1..Len(q) : (q \o m)[i] = q[i]
      /\ \A i \in 1..Len(m) : (q \o m)[Len(q) + i] = m[i]
  <2>1. q \in Seq(Cell) /\ m \in Seq(Cell)
    BY <1>4, <1>7
  <2> QED
    BY <2>1, JoinSeq
<1> DEFINE t == q \o m
<1>9. t \in Seq(Cell) /\ Len(t) = 4 + n /\ t[1].v = n /\ t[3 + n].v = 1
  <2>1. 1 \in 1..Len(q) /\ 1 \in 1..Len(m) /\ Len(q) + 1 = 3 + n
    BY <1>1, <1>4, <1>7
  <2>2. (q \o m)[1] = q[1] /\ (q \o m)[3 + n] = m[1]
    BY <1>8, <2>1
  <2>3. Len(q \o m) = 4 + n
    BY <1>1, <1>4, <1>7, <1>8
  <2> QED
    BY <1>4, <1>7, <1>8, <2>2, <2>3
<1> HIDE DEF t
<1>10. /\ t \o c \in Seq(Cell) /\ Len(t \o c) = Len(t) + Len(c)
       /\ \A i \in 1..Len(t) : (t \o c)[i] = t[i]
  <2>1. t \in Seq(Cell) /\ c \in Seq(Cell)
    BY <1>5, <1>9
  <2> QED
    BY <2>1, JoinSeq
<1> DEFINE w == t \o c
<1>11. w \in Seq(Cell) /\ Len(w) = 5 + n /\ w[1].v = n /\ w[3 + n].v = 1
  <2>1. 1 \in 1..Len(t) /\ 3 + n \in 1..Len(t)
    BY <1>1, <1>9
  <2>2. (t \o c)[1] = t[1] /\ (t \o c)[3 + n] = t[3 + n]
    BY <1>10, <2>1
  <2>3. Len(t \o c) = 5 + n
    BY <1>1, <1>5, <1>9, <1>10
  <2> QED
    BY <1>9, <1>10, <2>2, <2>3
<1>12. Cells("simulate", r) = w
  BY <1>2 DEF q, t
<1> HIDE DEF w
<1>13. /\ Fresh.half = "qry" /\ Fresh.qlen = -1 /\ Fresh.plen = -1 /\ Fresh.qry = <<>>
  BY DEF Fresh, Reader
<1>14. <<>> \o w = w
  BY <1>11, ConcatEmptySeq
<1>15. Len(<<>>) < 2
  OBVIOUS
<1>16. QueryLength(Fresh, w, n)
  BY <1>11, <1>13, <1>14 DEF QueryLength
<1>17. Partly(Fresh, w, n)
  BY <1>13, <1>15, <1>16 DEF Partly
<1> QED
  BY <1>1, <1>11, <1>12, <1>17 DEF n

LEMMA InitApp == AInit => AppInv
<1> SUFFICES ASSUME AInit PROVE AppInv
  OBVIOUS
<1>0. /\ mode \in {"old", "simulate"} /\ wire = <<>> /\ aAsked = <<>> /\ parser = Fresh
      /\ aAt = "read" /\ served = <<>> /\ list = <<>> /\ aSent = 0 /\ aGot = <<>>
      /\ aAnswered = 0 /\ aClosed = TRUE /\ aLink = "none"
  BY DEF AInit
<1>1. \A S : <<>> \in Seq(S)
  BY EmptySeq
<1>e. Len(<<>>) = 0
  OBVIOUS
<1>2. Fresh \in Parser /\ Fresh.pst = <<>>
  <2>1. -1 \in Int /\ <<>> \in Seq(Cell)
    BY <1>1
  <2> QED
    BY <2>1 DEF Fresh, Reader, Parser
<1>3. AppTypeOK
  BY <1>0, <1>1, <1>2 DEF AppTypeOK
<1>4. GotOK /\ ServedOK
  BY <1>0, <1>e DEF GotOK, ServedOK
<1>5. parser.pst \o wire = <<>>
  BY <1>0, <1>1, <1>2, ConcatEmptySeq
<1>6. OldOK
  BY <1>0, <1>e, <1>5, FramedNone DEF OldOK
<1>7. SimOK /\ Begins
  BY <1>0, <1>e DEF SimOK, Begins
<1> QED
  BY <1>3, <1>4, <1>6, <1>7 DEF AppInv

(* What the client sends next is framed after what it sent before, or is the   *)
(* only request.                                                             *)
LEMMA SendsKept == AppInv /\ ClientSends => AppInv'
<1> SUFFICES ASSUME AppInv, ClientSends PROVE AppInv'
  OBVIOUS
<1>0. /\ AppTypeOK /\ GotOK /\ ServedOK /\ OldOK /\ SimOK
      /\ aLink = "open" /\ (mode = "simulate" => aAnswered = Len(aAsked))
      /\ UNCHANGED <<mode, parser, aAt, served, list, aSent, aGot, aAnswered, aClosed, aLink>>
  BY DEF AppInv, ClientSends
<1>1. PICK r \in IF mode = "old" THEN Frame ELSE Request :
         aAsked' = Append(aAsked, r) /\ wire' = wire \o Cells(mode, r)
  BY DEF ClientSends
<1> DEFINE X == IF mode = "old" THEN Frame ELSE Request
<1>2. /\ mode \in {"old", "simulate"} /\ wire \in Seq(Cell)
      /\ served \in Seq(IF mode = "old" THEN Seq(Cell) ELSE Number)
      /\ aAsked \in Seq(X) /\ r \in X /\ parser \in Parser /\ aAnswered \in Nat
  BY <1>0 DEF AppTypeOK
<1>3. Cells(mode, r) \in Seq(Cell)
  <2>1. CASE mode = "old"
    BY <1>2, <2>1, FrameIs
  <2>2. CASE mode = "simulate"
    BY <1>2, <2>2, RequestIs
  <2> QED
    BY <1>2, <2>1, <2>2
<1> HIDE DEF X
<1>4. /\ aAsked' \in Seq(X) /\ Len(aAsked') = Len(aAsked) + 1
      /\ \A i \in 1..Len(aAsked) : aAsked'[i] = aAsked[i]
      /\ aAsked'[Len(aAsked) + 1] = r
  BY <1>1, <1>2, AppendProperties
<1>5. Len(aAsked) \in Nat /\ Len(served) \in Nat /\ Len(served) <= Len(aAsked)
  BY <1>0, <1>2, LenProperties DEF ServedOK
<1>6. wire' \in Seq(Cell)
  BY <1>1, <1>2, <1>3, JoinSeq
<1>7. AppTypeOK'
  BY <1>0, <1>4, <1>6 DEF AppTypeOK, X
<1>8. GotOK' /\ Begins'
  BY <1>0 DEF GotOK, Begins
<1>9. ServedOK'
  <2>1. ASSUME NEW i \in 1..Len(served)
        PROVE  /\ aAsked'[i] = aAsked[i]
               /\ i < Len(aAsked) => i < Len(aAsked') /\ aAsked'[i + 1] = aAsked[i + 1]
    <3>1. i \in 1..Len(aAsked) /\ (i < Len(aAsked) => i + 1 \in 1..Len(aAsked) /\ i < Len(aAsked) + 1)
      BY <1>5
    <3> QED
      BY <1>4, <3>1
  <2>2. ASSUME NEW i \in 1..Len(served), mode = "old" PROVE OneByteOff(served[i], i)'
    <3>1. OneByteOff(served[i], i)
      BY <1>0, <2>2 DEF ServedOK
    <3> QED
      BY <1>0, <2>1, <3>1 DEF OneByteOff
  <2>3. ASSUME NEW i \in 1..Len(served), mode # "old" PROVE served[i] = aAsked'[i].query
    BY <1>0, <2>1, <2>3 DEF ServedOK
  <2>4. Len(served) <= Len(aAsked')
    BY <1>4, <1>5
  <2> QED
    BY <1>0, <2>2, <2>3, <2>4 DEF ServedOK
<1>10. OldOK'
  <2>1. ASSUME mode = "old" PROVE Framed(parser.pst \o wire', aAsked', Len(served))
    <3> DEFINE d == parser.pst \o wire
               c == Cells("old", r)
    <3>1. Framed(d, aAsked, Len(served)) /\ aAsked \in Seq(Frame) /\ r \in Frame
      BY <1>0, <1>2, <2>1 DEF OldOK, X
    <3>2. c \in Seq(Cell) /\ OfFrame(c, r)
      BY <3>1, FrameIs
    <3>3. parser.pst \in Seq(Cell)
      BY <1>2, ParserIs
    <3>4. parser.pst \o wire' = d \o c
      BY <1>1, <1>2, <2>1, <3>2, <3>3, CellsJoined
    <3>5. d \in Seq(Cell)
      BY <1>2, <3>3, CellsJoined
    <3>6. Len(served) \in 0..Len(aAsked)
      BY <1>5
    <3> HIDE DEF d, c
    <3> QED
      BY <1>1, <3>1, <3>2, <3>4, <3>5, <3>6, FramedMore
  <2> QED
    BY <1>0, <2>1 DEF OldOK
<1>11. SimOK'
  <2> SUFFICES ASSUME mode = "simulate" PROVE SimOK'
    BY <1>0 DEF SimOK
  <2>1. /\ aAt # "frames" /\ aAnswered <= Len(served)
        /\ aAt = "wait" => Len(served) = aAnswered + 1
        /\ aAt = "read" /\ ~aClosed => Len(served) = aAnswered
        /\ Len(served) = Len(aAsked) => parser = Fresh /\ wire = <<>>
    BY <1>0 DEF SimOK
  <2>2. Len(served) = Len(aAsked) /\ aAnswered = Len(aAsked)
    BY <1>0, <1>2, <1>5, <2>1
  <2>3. r \in Request
    BY <1>2 DEF X
  <2>4. wire' = Cells("simulate", r)
    <3>1. Cells("simulate", r) \in Seq(Cell)
      BY <2>3, RequestIs
    <3>2. <<>> \o Cells("simulate", r) = Cells("simulate", r)
      BY <3>1, ConcatEmptySeq
    <3> QED
      BY <1>1, <2>1, <2>2, <3>2
  <2>5. Partly(parser, wire', r.query)
    BY <2>1, <2>2, <2>3, <2>4, RequestIs
  <2>6. aAsked'[Len(aAsked')] = r /\ Len(served') # Len(aAsked') /\ Len(aAsked') <= aAnswered' + 1
    BY <1>0, <1>4, <1>5, <2>2
  <2> QED
    BY <1>0, <2>1, <2>5, <2>6 DEF SimOK
<1> QED
  BY <1>7, <1>8, <1>9, <1>10, <1>11 DEF AppInv

(* What was handed stays what it was.                                        *)
LEMMA ServedKept == ServedOK /\ UNCHANGED <<mode, aAsked, served>> => ServedOK'
BY DEF ServedOK, OneByteOff

LEMMA OldPieceKept == AppInv /\ OldPiece => AppInv'
<1> SUFFICES ASSUME AppInv, OldPiece PROVE AppInv'
  OBVIOUS
<1>0. /\ AppTypeOK /\ GotOK /\ ServedOK /\ OldOK /\ SimOK /\ mode = "old" /\ aAt' = "frames"
      /\ UNCHANGED <<mode, aAsked, served, list, aSent, aGot, aAnswered, aClosed, aLink>>
  BY DEF AppInv, OldPiece
<1>1. PICK n \in 1..Len(wire) :
        /\ ~aClosed /\ wire' = SubSeq(wire, n + 1, Len(wire))
        /\ parser' = [parser EXCEPT !.pst = parser.pst \o SubSeq(wire, 1, n)]
  BY DEF OldPiece, Piece
<1> DEFINE piece == SubSeq(wire, 1, n)
<1>2. wire \in Seq(Cell) /\ parser \in Parser /\ parser.pst \in Seq(Cell) /\ aLink = "open"
  BY <1>0, <1>1, ParserIs DEF AppTypeOK
<1>3. piece \in Seq(Cell) /\ wire' \in Seq(Cell) /\ piece \o wire' = wire
  <2>1. n \in 0..Len(wire)
    OBVIOUS
  <2> QED
    BY <1>1, <1>2, <2>1, CutSeq
<1>4. parser' = [parser EXCEPT !.pst = parser.pst \o piece]
  BY <1>1
<1> HIDE DEF piece
<1>5. parser.pst \o piece \in Seq(Cell) /\ (parser.pst \o piece) \o wire' = parser.pst \o wire
  <2>1. parser.pst \in Seq(Cell) /\ piece \in Seq(Cell) /\ wire' \in Seq(Cell)
    BY <1>2, <1>3
  <2>2. \A s, t, u \in Seq(Cell) : s \o t \in Seq(Cell) /\ (s \o t) \o u = s \o (t \o u)
    BY CellsJoined
  <2>3. /\ parser.pst \o piece \in Seq(Cell)
        /\ (parser.pst \o piece) \o wire' = parser.pst \o (piece \o wire')
    BY <2>1, <2>2, Zenon
  <2> QED
    BY <1>3, <2>3, Zenon
<1>6. parser' \in Parser /\ parser'.pst = parser.pst \o piece
  BY <1>2, <1>4, <1>5 DEF Parser
<1>7. AppTypeOK'
  BY <1>0, <1>3, <1>6 DEF AppTypeOK
<1>8. GotOK' /\ ServedOK' /\ SimOK' /\ Begins'
  BY <1>0, <1>2, ServedKept DEF GotOK, SimOK, Begins
<1>9. OldOK'
  BY <1>0, <1>5, <1>6 DEF OldOK
<1> QED
  BY <1>7, <1>8, <1>9 DEF AppInv

(* What is handed to the app is the next frame, and what is left begins where   *)
(* the one after it does.                                                    *)
LEMMA OldFrameKept == AppInv /\ OldFrame => AppInv'
<1> SUFFICES ASSUME AppInv, OldFrame PROVE AppInv'
  OBVIOUS
<1>0. /\ AppTypeOK /\ GotOK /\ ServedOK /\ OldOK /\ SimOK /\ Begins
      /\ aAt = "frames" /\ Whole(parser.pst)
      /\ UNCHANGED <<mode, wire, aAsked, list, aSent, aGot, aAnswered>>
  BY DEF AppInv, OldFrame
<1>1. mode = "old" /\ aLink # "none"
  BY <1>0 DEF SimOK, AppTypeOK, Begins
<1>2. CASE Len(parser.pst) < 6
  <2>1. /\ aClosed' = TRUE /\ aLink' = "over" /\ aAt' = "read"
        /\ UNCHANGED <<parser, served>>
    BY <1>2 DEF OldFrame
  <2>2. ServedOK'
    BY <1>0, <2>1, ServedKept
  <2> QED
    BY <1>0, <1>1, <2>1, <2>2 DEF AppInv, AppTypeOK, GotOK, OldOK, SimOK, Begins
<1>3. CASE ~(Len(parser.pst) < 6)
  <2> DEFINE s == parser.pst
             k == Len(served)
  <2>1. /\ parser' = [parser EXCEPT !.pst = Consumed(s)]
        /\ served' = Append(served, Handed(s)) /\ UNCHANGED <<aAt, aClosed, aLink>>
    BY <1>3 DEF OldFrame
  <2>2. /\ aAsked \in Seq(Frame) /\ wire \in Seq(Cell) /\ parser \in Parser /\ s \in Seq(Cell)
        /\ served \in Seq(Seq(Cell)) /\ Len(s) \in Nat
    BY <1>0, <1>1, ParserIs DEF AppTypeOK
  <2>3. k \in Nat /\ Len(aAsked) \in Nat /\ k \in 0..Len(aAsked)
    BY <1>0, <2>2, LenProperties DEF ServedOK
  <2>4. Framed(s \o wire, aAsked, k)
    BY <1>0, <1>1 DEF OldOK
  <2>w. Whole(s) /\ ~(Len(s) < 6)
    BY <1>0, <1>3
  <2> HIDE DEF s, k
  <2>5. /\ s \o wire \in Seq(Cell) /\ Len(s \o wire) = Len(s) + Len(wire) /\ Len(wire) \in Nat
        /\ \A i \in 1..Len(s) : (s \o wire)[i] = s[i]
    BY <2>2, CellsJoined, LenProperties
  <2>6. k < Len(aAsked)
    <3>1. Len(s \o wire) # 0
      BY <2>2, <2>5, <2>w
    <3>2. k = Len(aAsked) => Len(s \o wire) = 0
      BY <2>2, <2>3, <2>4, <2>5, FramedFirst
    <3> QED
      BY <2>3, <3>1, <3>2
  <2> DEFINE r == aAsked[k + 1]
  <2>7. r \in Frame
    <3>1. k + 1 \in 1..Len(aAsked)
      BY <2>3, <2>6
    <3> QED
      BY <2>2, <3>1, FrameData
  <2>8. At(s \o wire, 0, r)
    BY <2>2, <2>3, <2>4, <2>5, <2>6, FramedFirst
  <2> HIDE DEF r
  <2> DEFINE n == FrameSize(r)
  <2>10. n \in Nat /\ n = 4 + FrameLength(r) /\ FrameLength(r) \in Nat /\ r.data \in Nat
         /\ FrameLength(r) = r.data + 1 /\ n >= 1
    BY <2>7 DEF Frame, FrameLength, FrameSize
  <2>9. s[1].v = FrameLength(r)
    <3>1. 1 \in 1..Len(s) /\ 1 \in 1..n /\ 0 + 1 = 1
      BY <2>2, <2>w, <2>10
    <3>2. (s \o wire)[0 + 1] = Cells("old", r)[1]
      BY <2>8, <3>1, Zenon DEF At
    <3>3. Cells("old", r)[1].v = FrameLength(r)
      BY <2>7, FrameIs
    <3>4. (s \o wire)[1] = s[1]
      BY <2>5, <3>1
    <3> QED
      BY <3>1, <3>2, <3>3, <3>4
  <2> DEFINE v == FrameLength(r)
  <2>11. n <= Len(s)
    <3>1. Len(s) - 4 >= v
      BY <2>9, <2>w DEF Whole
    <3>2. v \in Nat /\ n = 4 + v
      BY <2>10
    <3> HIDE DEF v, n
    <3> QED
      BY <2>2, <3>1, <3>2
  <2>12. Consumed(s) = SubSeq(s, n + 1, Len(s))
    <3>1. Consumed(s) = SubSeq(s, 4 + v + 1, Len(s))
      BY <2>9 DEF Consumed
    <3> QED
      BY <2>10, <3>1
  <2>13. n \in 0..Len(s)
    BY <2>2, <2>10, <2>11
  <2> DEFINE e == Consumed(s)
  <2> HIDE DEF n, v
  <2>14. e \in Seq(Cell) /\ Without(e, s, n)
    <3>1. /\ SubSeq(s, n + 1, Len(s)) \in Seq(Cell)
          /\ Len(SubSeq(s, n + 1, Len(s))) = Len(s) - n
          /\ \A i \in 1..(Len(s) - n) : SubSeq(s, n + 1, Len(s))[i] = s[n + i]
      BY <2>2, <2>13, CutSeq
    <3>2. e = SubSeq(s, n + 1, Len(s))
      BY <2>12
    <3> QED
      BY <3>1, <3>2 DEF Without
  <2> HIDE DEF e
  <2>15. e \o wire \in Seq(Cell) /\ Without(e \o wire, s \o wire, n)
    BY <2>2, <2>13, <2>14, CellsJoined, WithoutJoined
  <2>16. Framed(e \o wire, aAsked, k + 1)
    BY <2>2, <2>3, <2>4, <2>5, <2>6, <2>15, FramedRest DEF n, r
  <2>h. Handed(s) \in Seq(Cell) /\ OneByteOff(Handed(s), k + 1)
    <3> HIDE DEF n
    <3> DEFINE c == Handed(s)
    <3>1. \A j \in 1..n : (s \o wire)[0 + j] = Cells("old", r)[j]
      BY <2>8, Zenon DEF At, n
    <3>2. ASSUME NEW j \in 1..n PROVE s[j] = Cells("old", r)[j]
      <4>1. j \in 1..Len(s) /\ 0 + j = j
        BY <2>2, <2>10, <2>11
      <4>2. (s \o wire)[j] = Cells("old", r)[j]
        BY <3>1, <4>1
      <4> QED
        BY <2>5, <4>1, <4>2
    <3> DEFINE m == IF Len(s) < 5 + s[1].v THEN Len(s) ELSE 5 + s[1].v
    <3>3. m \in Nat /\ 6 <= m /\ m <= Len(s) /\ m \in {n, n + 1} /\ n = 5 + r.data
      <4>1. s[1].v = r.data + 1 /\ n = 5 + r.data
        BY <2>9, <2>10
      <4>2. Len(s) \in Nat /\ 6 <= Len(s) /\ r.data \in Nat /\ 5 + r.data <= Len(s)
        BY <2>2, <2>10, <2>11, <2>w, <4>1
      <4>3. m = IF Len(s) < 5 + (r.data + 1) THEN Len(s) ELSE 5 + (r.data + 1)
        BY <4>1
      <4> HIDE DEF m
      <4>4. ASSUME NEW l \in Nat, NEW x \in Nat, NEW y, 6 <= l, 5 + x <= l,
                   y = IF l < 5 + (x + 1) THEN l ELSE 5 + (x + 1)
            PROVE  y \in Nat /\ 6 <= y /\ y <= l /\ y \in {5 + x, (5 + x) + 1}
        BY <4>4
      <4> QED
        BY <4>1, <4>2, <4>3, <4>4
    <3>4. /\ c \in Seq(Cell) /\ Len(c) = m - 5 /\ \A j \in 1..(m - 5) : c[j] = s[5 + j]
      <4>1. c = SubSeq(s, 6, m)
        BY DEF Handed
      <4> HIDE DEF c, m
      <4> QED
        BY <2>2, <3>3, <4>1, PartSeq
    <3> HIDE DEF c, m
    <3>5. Len(c) \in {r.data, r.data + 1}
      BY <2>10, <3>3, <3>4
    <3>6. ASSUME NEW j \in 1..r.data PROVE c[j] = Cells("old", r)[5 + j]
      <4>1. j \in 1..(m - 5) /\ 5 + j \in 1..n
        BY <2>10, <3>3, SMTT(20)
      <4> QED
        BY <3>2, <3>4, <4>1
    <3>7. ASSUME Len(c) > r.data
          PROVE  k + 1 < Len(aAsked) /\ c[Len(c)] = Cells("old", aAsked[k + 1 + 1])[1]
      <4>d. /\ r.data \in Nat /\ Len(s) \in Nat /\ n = 5 + r.data /\ m \in {n, n + 1}
            /\ m <= Len(s) /\ Len(c) = m - 5 /\ Len(c) > r.data
        BY <2>2, <2>10, <3>3, <3>4, <3>7
      <4>a. \A l, d \in Nat :
              \A x, y, z : y = 5 + d /\ x \in {y, y + 1} /\ x <= l /\ z = x - 5 /\ z > d
                           => x = y + 1 /\ z \in 1..(x - 5) /\ 5 + z = y + 1 /\ y + 1 \in 1..l
        OBVIOUS
      <4>t. /\ m = n + 1 /\ Len(c) \in 1..(m - 5) /\ 5 + Len(c) = n + 1
            /\ n + 1 \in 1..Len(s)
        <5> DEFINE l == Len(s)
                   z == Len(c)
                   d == r.data
        <5>1. l \in Nat /\ d \in Nat /\ n = 5 + d /\ m \in {n, n + 1} /\ m <= l /\ z = m - 5 /\ z > d
          BY <4>d
        <5> HIDE DEF l, z, d
        <5>2. m = n + 1 /\ z \in 1..(m - 5) /\ 5 + z = n + 1 /\ n + 1 \in 1..l
          BY <4>a, <5>1
        <5> QED
          BY <5>2 DEF l, z
      <4>2. c[Len(c)] = (s \o wire)[n + 1]
        <5>1. c[Len(c)] = s[5 + Len(c)]
          BY <3>4, <4>t
        <5> QED
          BY <2>5, <4>t, <5>1
      <4>3. Len(e \o wire) = Len(s \o wire) - n /\ 1 \in 1..Len(e \o wire)
        <5>1. Len(e \o wire) = Len(s \o wire) - n
          BY <2>15 DEF Without
        <5>2. Len(s \o wire) \in Nat /\ n + 1 <= Len(s \o wire)
          <6>1. Len(s \o wire) \in Nat /\ Len(s \o wire) = Len(s) + Len(wire) /\ Len(wire) \in Nat
            BY <2>2, ConcatProperties, LenProperties
          <6>2. \A x, y, z, l \in Nat : x = y + z /\ l \in 1..y => l <= x
            OBVIOUS
          <6>3. n + 1 \in Nat
            BY <4>t
          <6> QED
            BY <2>2, <4>t, <6>1, <6>2, <6>3
        <5>3. \A x, y \in Nat : y + 1 <= x => 1 \in 1..(x - y)
          OBVIOUS
        <5> QED
          BY <2>10, <5>1, <5>2, <5>3
      <4>4. (e \o wire)[1] = (s \o wire)[n + 1]
        BY <2>15, <4>3 DEF Without
      <4>5. k + 1 \in 0..Len(aAsked)
        BY <2>3, <2>6
      <4>6. k + 1 # Len(aAsked)
        <5>1. k + 1 = Len(aAsked) => Len(e \o wire) = 0
          BY <2>2, <2>15, <2>16, <4>5, FramedFirst
        <5> QED
          BY <4>3, <5>1
      <4>7. k + 1 < Len(aAsked)
        BY <2>3, <2>6, <4>6
      <4>8. At(e \o wire, 0, aAsked[k + 1 + 1])
        BY <2>2, <2>15, <2>16, <4>5, <4>7, FramedFirst
      <4>9. (e \o wire)[1] = Cells("old", aAsked[k + 1 + 1])[1]
        <5>1. k + 1 + 1 \in 1..Len(aAsked)
          BY <2>3, <4>7
        <5>2. FrameSize(aAsked[k + 1 + 1]) \in Nat \ {0}
          BY <2>2, <5>1, FrameData
        <5>3. 1 \in 1..FrameSize(aAsked[k + 1 + 1]) /\ 0 + 1 = 1
          BY <5>2
        <5>4. (e \o wire)[0 + 1] = Cells("old", aAsked[k + 1 + 1])[1]
          BY <4>8, <5>3, Zenon DEF At
        <5> QED
          BY <5>3, <5>4
      <4> QED
        BY <4>2, <4>4, <4>7, <4>9
    <3>8. OneByteOff(c, k + 1)
      BY <3>5, <3>6, <3>7 DEF OneByteOff, r
    <3> QED
      BY <3>4, <3>8 DEF c
  <2>17. /\ served' \in Seq(Seq(Cell)) /\ Len(served') = k + 1
         /\ \A i \in 1..k : served'[i] = served[i]
         /\ served'[k + 1] = Handed(s)
    <3>1. served' = Append(served, Handed(s))
      BY <2>1 DEF s
    <3> QED
      BY <2>2, <2>h, <3>1, AppendProperties DEF k
  <2>18. parser' \in Parser /\ parser'.pst = e
    <3>1. parser' = [parser EXCEPT !.pst = e]
      BY <2>1 DEF e
    <3> QED
      BY <2>2, <2>14, <3>1 DEF Parser
  <2>19. AppTypeOK'
    BY <1>0, <1>1, <2>1, <2>17, <2>18 DEF AppTypeOK
  <2>20. GotOK' /\ SimOK' /\ Begins'
    BY <1>0, <1>1, <2>1 DEF GotOK, SimOK, Begins
  <2>21. ServedOK'
    <3>1. ASSUME NEW i \in 1..(k + 1) PROVE OneByteOff(served'[i], i)
      <4>1. CASE i \in 1..k
        <5>1. OneByteOff(served[i], i)
          BY <1>0, <1>1, <4>1 DEF ServedOK, k
        <5> QED
          BY <2>17, <4>1, <5>1
      <4>2. CASE i = k + 1
        BY <2>17, <2>h, <4>2
      <4>3. i \in 1..k \/ i = k + 1
        BY <2>3
      <4> QED
        BY <4>1, <4>2, <4>3
    <3>2. k + 1 <= Len(aAsked)
      BY <2>3, <2>6
    <3>3. \A i \in 1..(k + 1) : OneByteOff(served[i], i)'
      BY <1>0, <3>1 DEF OneByteOff
    <3> QED
      BY <1>0, <1>1, <2>17, <3>2, <3>3 DEF ServedOK
  <2>22. OldOK'
    BY <1>0, <1>1, <2>1, <2>16, <2>17, <2>18 DEF OldOK
  <2> QED
    BY <2>19, <2>20, <2>21, <2>22 DEF AppInv
<1> QED
  BY <1>2, <1>3

(* A piece is a part of the request, and the whole of it is handed to the app.  *)
LEMMA SimPieceKept == AppInv /\ SimPiece => AppInv'
<1> SUFFICES ASSUME AppInv, SimPiece PROVE AppInv'
  OBVIOUS
<1>0. /\ AppTypeOK /\ GotOK /\ ServedOK /\ OldOK /\ SimOK /\ mode = "simulate"
      /\ UNCHANGED <<mode, aAsked, list, aSent, aGot, aAnswered, aClosed, aLink>>
  BY DEF AppInv, SimPiece
<1>1. PICK n \in 1..Len(wire) :
        LET p == Parsed(parser, SubSeq(wire, 1, n))
        IN  /\ aAt = "read" /\ ~aClosed /\ wire' = SubSeq(wire, n + 1, Len(wire))
            /\ IF Complete(p)
                 THEN /\ parser' = Reader("qry", -1, -1, After(p.pst, p.plen), <<>>)
                      /\ served' = Append(served, Len(p.qry))
                      /\ aAt' = "wait"
                 ELSE parser' = p /\ UNCHANGED <<served, aAt>>
  BY DEF SimPiece, Piece
<1> DEFINE piece == SubSeq(wire, 1, n)
           p == Parsed(parser, piece)
<1>2. /\ wire \in Seq(Cell) /\ parser \in Parser /\ served \in Seq(Number)
      /\ aAsked \in Seq(Request) /\ aLink = "open" /\ aAnswered \in Nat
  BY <1>0, <1>1 DEF AppTypeOK
<1>3. piece \in Seq(Cell) /\ wire' \in Seq(Cell) /\ piece \o wire' = wire
  <2>1. n \in 0..Len(wire)
    OBVIOUS
  <2> QED
    BY <1>1, <1>2, <2>1, CutSeq
<1>4. wire # <<>>
  <2>1. Len(wire) \in Nat /\ n >= 1 /\ n <= Len(wire)
    BY <1>2, LenProperties
  <2>2. Len(<<>>) = 0
    OBVIOUS
  <2> QED
    BY <2>1, <2>2
<1> DEFINE k == Len(served)
           r == aAsked[Len(aAsked)]
<1>5. k \in Nat /\ Len(aAsked) \in Nat /\ k <= Len(aAsked)
  BY <1>0, <1>2, LenProperties DEF ServedOK
<1>6. /\ k = aAnswered /\ Len(aAsked) <= aAnswered + 1
      /\ k # Len(aAsked) /\ Partly(parser, wire, r.query)
  BY <1>0, <1>1, <1>4 DEF SimOK
<1>7. Len(aAsked) = k + 1
  BY <1>2, <1>5, <1>6
<1>8. r.query \in Nat
  <2>1. Len(aAsked) \in 1..Len(aAsked)
    BY <1>5, <1>7
  <2>2. r \in Request
    BY <1>2, <2>1, ElementOfSeq
  <2> QED
    BY <2>2, RequestIs
<1> DEFINE q == r.query
<1>9. /\ p \in Parser
      /\ Complete(p) => p.plen = 1 /\ Len(p.pst) = 1 /\ Len(p.qry) = q /\ wire' = <<>>
      /\ ~Complete(p) => Partly(p, wire', q)
  <2>1. Partly(parser, piece \o wire', q)
    BY <1>3, <1>6
  <2> HIDE DEF piece, q
  <2> QED
    BY <1>2, <1>3, <1>8, <2>1, PieceReads DEF q
<1>10. /\ aAt = "read" /\ ~aClosed
       /\ Complete(p) => /\ parser' = Reader("qry", -1, -1, After(p.pst, p.plen), <<>>)
                         /\ served' = Append(served, Len(p.qry)) /\ aAt' = "wait"
       /\ ~Complete(p) => parser' = p /\ UNCHANGED <<served, aAt>>
  BY <1>1
<1>s. q = aAsked[k + 1].query
  BY <1>7
<1> HIDE DEF p, piece, r, q, k
<1>11. CASE Complete(p)
  <2>1. parser' = Fresh /\ wire' = <<>>
    <3>1. p.pst \in Seq(Cell) /\ Len(p.pst) = 1 /\ p.plen = 1
      BY <1>9, <1>11, ParserIs
    <3>2. After(p.pst, p.plen) = <<>>
      <4>1. p.plen \in 0..Len(p.pst)
        BY <3>1
      <4>2. After(p.pst, p.plen) \in Seq(Cell) /\ Len(After(p.pst, p.plen)) = Len(p.pst) - p.plen
        BY <3>1, <4>1, CutSeq DEF After
      <4>3. Len(After(p.pst, p.plen)) = 0
        BY <3>1, <4>2
      <4> QED
        BY <4>2, <4>3, EmptySeq
    <3> QED
      BY <1>9, <1>10, <1>11, <3>2 DEF Fresh
  <2>2. /\ served' \in Seq(Number) /\ Len(served') = k + 1
        /\ \A i \in 1..k : served'[i] = served[i]
        /\ served'[k + 1] = q
    <3>1. served' = Append(served, q)
      BY <1>9, <1>10, <1>11
    <3>2. q \in Number
      BY <1>8 DEF Number, q
    <3> QED
      BY <1>2, <3>1, <3>2, AppendProperties DEF k
  <2>3. AppTypeOK'
    <3>1. parser' \in Parser
      <4>1. -1 \in Int /\ <<>> \in Seq(Cell)
        BY EmptySeq
      <4> QED
        BY <2>1, <4>1 DEF Fresh, Reader, Parser
    <3> QED
      BY <1>0, <1>3, <1>10, <1>11, <2>2, <3>1 DEF AppTypeOK
  <2>4. GotOK' /\ OldOK' /\ Begins'
    BY <1>0, <1>2 DEF GotOK, OldOK, Begins
  <2>5. ServedOK'
    <3>1. ASSUME NEW i \in 1..(k + 1) PROVE served'[i] = aAsked[i].query
      <4>1. CASE i \in 1..k
        BY <1>0, <2>2, <4>1 DEF ServedOK, k
      <4>2. CASE i = k + 1
        BY <1>s, <2>2, <4>2
      <4>3. i \in 1..k \/ i = k + 1
        BY <1>5
      <4> QED
        BY <4>1, <4>2, <4>3
    <3>2. k + 1 <= Len(aAsked)
      BY <1>5, <1>7
    <3> QED
      BY <1>0, <2>2, <3>1, <3>2 DEF ServedOK
  <2>6. SimOK'
    <3>1. Len(served') = Len(aAsked') /\ Len(served') = aAnswered' + 1 /\ aAt' = "wait"
          /\ aAnswered' <= Len(served') /\ Len(aAsked') <= aAnswered' + 1
      BY <1>0, <1>2, <1>5, <1>6, <1>7, <1>10, <1>11, <2>2
    <3> QED
      BY <2>1, <3>1 DEF SimOK
  <2> QED
    BY <2>3, <2>4, <2>5, <2>6 DEF AppInv
<1>12. CASE ~Complete(p)
  <2>1. parser' = p /\ UNCHANGED <<served, aAt>> /\ Partly(parser', wire', q)
    BY <1>9, <1>10, <1>12
  <2>2. AppTypeOK'
    BY <1>0, <1>3, <1>9, <2>1 DEF AppTypeOK
  <2>3. GotOK' /\ OldOK' /\ Begins' /\ ServedOK'
    BY <1>0, <1>2, <2>1 DEF GotOK, OldOK, Begins, ServedOK
  <2>4. SimOK'
    <3>1. Partly(parser', wire', aAsked'[Len(aAsked')].query)
      BY <1>0, <2>1 DEF q, r
    <3>2. Len(served') # Len(aAsked')
      BY <1>0, <1>6, <2>1 DEF k
    <3> QED
      BY <1>0, <2>1, <3>1, <3>2 DEF SimOK
  <2> QED
    BY <2>2, <2>3, <2>4 DEF AppInv
<1> QED
  BY <1>11, <1>12

(* The first messages of the list follow those the client has.               *)
LEMMA GotMore ==
  ASSUME NEW had \in Seq(Number), NEW rest \in Seq(Number), NEW n \in 0..Len(rest),
         \A i \in 1..Len(had) : had[i] = i, \A i \in 1..Len(rest) : rest[i] = Len(had) + i
  PROVE  LET g == had \o SubSeq(rest, 1, n)
             l == SubSeq(rest, n + 1, Len(rest))
         IN  /\ g \in Seq(Number) /\ l \in Seq(Number) /\ Len(g) + Len(l) = Len(had) + Len(rest)
             /\ \A i \in 1..Len(g) : g[i] = i
             /\ \A i \in 1..Len(l) : l[i] = Len(g) + i
<1> DEFINE t == SubSeq(rest, 1, n)
           l == SubSeq(rest, n + 1, Len(rest))
<1>1. /\ t \in Seq(Number) /\ Len(t) = n /\ \A i \in 1..n : t[i] = rest[i]
      /\ l \in Seq(Number) /\ Len(l) = Len(rest) - n
      /\ \A i \in 1..(Len(rest) - n) : l[i] = rest[n + i]
  BY CutSeq
<1> HIDE DEF t, l
<1>2. /\ had \o t \in Seq(Number) /\ Len(had \o t) = Len(had) + Len(t)
      /\ \A i \in 1..Len(had) : (had \o t)[i] = had[i]
      /\ \A i \in 1..Len(t) : (had \o t)[Len(had) + i] = t[i]
  BY <1>1, JoinSeq
<1>3. Len(had) \in Nat /\ Len(rest) \in Nat /\ n \in Nat /\ n <= Len(rest)
  BY LenProperties
<1>4. ASSUME NEW i \in 1..Len(had \o t) PROVE (had \o t)[i] = i
  <2>1. CASE i \in 1..Len(had)
    BY <1>2, <2>1
  <2>2. CASE i \notin 1..Len(had)
    <3> DEFINE j == i - Len(had)
    <3>1. j \in 1..Len(t) /\ i = Len(had) + j /\ j \in 1..n /\ j \in 1..Len(rest)
      BY <1>1, <1>2, <1>3, <2>2
    <3> HIDE DEF j
    <3> QED
      BY <1>1, <1>2, <3>1
  <2> QED
    BY <2>1, <2>2
<1>5. ASSUME NEW i \in 1..Len(l) PROVE l[i] = Len(had \o t) + i
  <2>1. i \in 1..(Len(rest) - n) /\ n + i \in 1..Len(rest) /\ Len(had \o t) = Len(had) + n
    BY <1>1, <1>2, <1>3
  <2>2. l[i] = Len(had) + (n + i)
    BY <1>1, <2>1
  <2> QED
    BY <1>3, <2>1, <2>2
<1>6. Len(had \o t) + Len(l) = Len(had) + Len(rest)
  BY <1>1, <1>2, <1>3
<1> QED
  BY <1>1, <1>2, <1>4, <1>5, <1>6 DEF t, l

LEMMA RespondKept == AppInv /\ Respond => AppInv'
<1> SUFFICES ASSUME AppInv, Respond PROVE AppInv'
  OBVIOUS
<1>0. /\ AppTypeOK /\ GotOK /\ ServedOK /\ OldOK /\ SimOK /\ aAt = "wait" /\ ~aClosed
      /\ aAnswered' = aAnswered + 1 /\ aAt' = "read"
      /\ UNCHANGED <<mode, wire, aAsked, parser, served, aSent>>
  BY DEF AppInv, Respond
<1> DEFINE n == IF Len(list) < MaxBatch THEN Len(list) ELSE MaxBatch
<1>1. aGot' = aGot \o SubSeq(list, 1, n)
  BY DEF Respond
<1>2. \/ aClosed' = TRUE /\ aLink' = "over" /\ list' = <<>>
      \/ aClosed' = FALSE /\ aLink' = "open" /\ list' = SubSeq(list, n + 1, Len(list))
  BY <1>0 DEF Respond, TakenOff, After, AppTypeOK
<1>3. /\ mode = "simulate" /\ list \in Seq(Number) /\ aGot \in Seq(Number) /\ aSent \in Nat
      /\ aAnswered \in Nat
  BY <1>0 DEF OldOK, AppTypeOK
<1>4. n \in 0..Len(list)
  BY <1>3, BatchAssumption, LenProperties
<1> DEFINE g == aGot \o SubSeq(list, 1, n)
           l == SubSeq(list, n + 1, Len(list))
<1>5. /\ Len(aGot) + Len(list) = aSent /\ (\A i \in 1..Len(aGot) : aGot[i] = i)
      /\ \A i \in 1..Len(list) : list[i] = Len(aGot) + i
  BY <1>0 DEF GotOK
<1> HIDE DEF n
<1>6. /\ g \in Seq(Number) /\ l \in Seq(Number) /\ Len(g) + Len(l) = aSent
      /\ \A i \in 1..Len(g) : g[i] = i
      /\ \A i \in 1..Len(l) : l[i] = Len(g) + i
  BY <1>3, <1>4, <1>5, GotMore
<1>7. /\ aGot' = g
      /\ \/ aClosed' = TRUE /\ aLink' = "over" /\ list' = <<>>
         \/ aClosed' = FALSE /\ aLink' = "open" /\ list' = l
  BY <1>1, <1>2
<1> HIDE DEF g, l
<1>8. <<>> \in Seq(Number)
  BY EmptySeq
<1>9. AppTypeOK'
  <2>1. aAnswered + 1 \in Nat
    BY <1>3
  <2> QED
    BY <1>0, <1>6, <1>7, <1>8, <2>1 DEF AppTypeOK
<1>10. GotOK'
  BY <1>0, <1>3, <1>6, <1>7 DEF GotOK
<1>11. ServedOK' /\ OldOK'
  BY <1>0, <1>3, ServedKept DEF OldOK
<1>12. SimOK'
  <2>1. /\ Len(served) = aAnswered + 1 /\ Len(aAsked) <= aAnswered + 1
        /\ Len(aAsked) \in Nat /\ Len(served) \in Nat
    BY <1>0, <1>3, LenProperties DEF SimOK, AppTypeOK
  <2>2. aAnswered' <= Len(served') /\ Len(aAsked') <= aAnswered' + 1 /\ Len(served') = aAnswered'
    BY <1>0, <1>3, <2>1
  <2> QED
    BY <1>0, <1>3, <2>2 DEF SimOK
<1>13. Begins'
  BY <1>7 DEF Begins
<1> QED
  BY <1>9, <1>10, <1>11, <1>12, <1>13 DEF AppInv

LEMMA SendKept == AppInv /\ Send => AppInv'
<1> SUFFICES ASSUME AppInv, Send PROVE AppInv'
  OBVIOUS
<1>0. /\ AppTypeOK /\ GotOK /\ ServedOK /\ OldOK /\ SimOK /\ ~aClosed /\ aSent' = aSent + 1
      /\ UNCHANGED <<mode, wire, aAsked, parser, aAt, served, aAnswered, aClosed, aLink>>
  BY DEF AppInv, Send
<1>1. /\ list \in Seq(Number) /\ aGot \in Seq(Number) /\ aSent \in Nat /\ aLink = "open"
      /\ mode \in {"old", "simulate"}
  BY <1>0 DEF AppTypeOK
<1> DEFINE m == aSent + 1
<1>2. m \in Number /\ m \in Nat
  BY <1>1 DEF Number
<1>3. /\ Len(aGot) + Len(list) = aSent /\ (\A i \in 1..Len(aGot) : aGot[i] = i)
      /\ \A i \in 1..Len(list) : list[i] = Len(aGot) + i
      /\ mode = "old" => list = <<>>
  BY <1>0 DEF GotOK
<1>4. Len(aGot) \in Nat /\ Len(list) \in Nat
  BY <1>1, LenProperties
<1>5. OldOK' /\ SimOK' /\ ServedOK' /\ Begins'
  BY <1>0, <1>1, ServedKept DEF OldOK, SimOK, Begins
<1>6. CASE mode = "old"
  <2>1. aGot' = Append(aGot, m) /\ list' = list
    BY <1>6 DEF Send
  <2>2. list = <<>> /\ Len(list) = 0
    BY <1>3, <1>6
  <2>3. m = Len(aGot) + 1
    BY <1>3, <1>4, <2>2
  <2> HIDE DEF m
  <2>4. /\ aGot' \in Seq(Number) /\ Len(aGot') = Len(aGot) + 1
        /\ \A i \in 1..Len(aGot) : aGot'[i] = aGot[i]
        /\ aGot'[Len(aGot) + 1] = m
    BY <1>1, <1>2, <2>1, AppendProperties
  <2>5. ASSUME NEW i \in 1..Len(aGot') PROVE aGot'[i] = i
    <3>1. i \in 1..Len(aGot) \/ i = Len(aGot) + 1
      BY <1>4, <2>4
    <3> QED
      BY <1>3, <2>3, <2>4, <3>1
  <2>6. Len(aGot') + Len(list') = aSent' /\ \A i \in 1..Len(list') : list'[i] = Len(aGot') + i
    BY <1>0, <1>3, <1>4, <2>1, <2>2, <2>4
  <2>7. GotOK'
    BY <1>0, <1>1, <1>6, <2>1, <2>2, <2>5, <2>6 DEF GotOK
  <2>8. AppTypeOK'
    BY <1>0, <1>2, <2>1, <2>4 DEF AppTypeOK, m
  <2> QED
    BY <1>5, <2>7, <2>8 DEF AppInv
<1>7. CASE mode # "old"
  <2>1. list' = Append(list, m) /\ aGot' = aGot
    BY <1>7 DEF Send
  <2>2. m = Len(aGot) + (Len(list) + 1)
    BY <1>3, <1>4
  <2> HIDE DEF m
  <2>3. /\ list' \in Seq(Number) /\ Len(list') = Len(list) + 1
        /\ \A i \in 1..Len(list) : list'[i] = list[i]
        /\ list'[Len(list) + 1] = m
    BY <1>1, <1>2, <2>1, AppendProperties
  <2>4. ASSUME NEW i \in 1..Len(list') PROVE list'[i] = Len(aGot') + i
    <3>1. i \in 1..Len(list) \/ i = Len(list) + 1
      BY <1>4, <2>3
    <3> QED
      BY <1>3, <2>1, <2>2, <2>3, <3>1
  <2>5. Len(aGot') + Len(list') = aSent'
    BY <1>0, <1>3, <1>4, <2>1, <2>3
  <2>6. GotOK'
    BY <1>0, <1>1, <1>3, <1>7, <2>1, <2>4, <2>5 DEF GotOK
  <2>7. AppTypeOK'
    BY <1>0, <1>2, <2>1, <2>3 DEF AppTypeOK, m
  <2> QED
    BY <1>5, <2>6, <2>7 DEF AppInv
<1> QED
  BY <1>6, <1>7

LEMMA StepApp == AppInv /\ [ANext]_aVars => AppInv'
<1> SUFFICES ASSUME AppInv, [ANext]_aVars PROVE AppInv'
  OBVIOUS
<1>0. AppTypeOK /\ GotOK /\ ServedOK /\ OldOK /\ SimOK /\ Begins
  BY DEF AppInv
<1>e. <<>> \in Seq(Number) /\ Len(<<>>) = 0
  BY EmptySeq
<1>1. CASE Accept
  <2>1. /\ aLink = "none" /\ aClosed' = FALSE /\ aLink' = "open"
        /\ UNCHANGED <<mode, wire, aAsked, parser, aAt, served, list, aSent, aGot, aAnswered>>
    BY <1>1 DEF Accept
  <2>2. parser = Fresh /\ served = <<>> /\ aAnswered = 0 /\ aGot = <<>> /\ list = <<>> /\ aSent = 0
    BY <1>0, <2>1 DEF Begins, GotOK
  <2>3. ~Whole(parser.pst)
    <3>1. parser.pst = <<>>
      BY <2>2 DEF Fresh, Reader
    <3> QED
      BY <1>e, <3>1 DEF Whole
  <2>4. AppTypeOK' /\ ServedOK' /\ Begins'
    BY <1>0, <2>1, ServedKept DEF AppTypeOK, Begins
  <2>5. GotOK'
    BY <1>0, <1>e, <2>1, <2>2 DEF GotOK
  <2>6. OldOK'
    BY <1>0, <2>1, <2>3 DEF OldOK
  <2>7. SimOK'
    BY <1>0, <1>e, <2>1, <2>2 DEF SimOK
  <2> QED
    BY <2>4, <2>5, <2>6, <2>7 DEF AppInv
<1>2. CASE ClientCloses \/ AppCloses
  <2>1. /\ aLink' = "over" /\ aClosed' = TRUE /\ list' = <<>>
        /\ UNCHANGED <<mode, wire, aAsked, parser, aAt, served, aSent, aGot, aAnswered>>
    BY <1>2 DEF ClientCloses, AppCloses
  <2>2. AppTypeOK' /\ GotOK' /\ ServedOK' /\ Begins'
    BY <1>0, <1>e, <2>1, ServedKept DEF AppTypeOK, GotOK, Begins
  <2>3. OldOK' /\ SimOK'
    BY <1>0, <2>1 DEF OldOK, SimOK
  <2> QED
    BY <2>2, <2>3 DEF AppInv
<1>3. CASE OldRest
  <2>1. /\ ~Whole(parser.pst) /\ aAt = "frames" /\ aAt' = "read"
        /\ UNCHANGED <<mode, wire, aAsked, parser, served, list, aSent, aGot, aAnswered, aClosed, aLink>>
    BY <1>3 DEF OldRest
  <2>2. mode = "old"
    BY <1>0, <2>1 DEF SimOK, AppTypeOK
  <2>3. AppTypeOK' /\ GotOK' /\ ServedOK' /\ Begins'
    BY <1>0, <2>1, ServedKept DEF AppTypeOK, GotOK, Begins
  <2>4. OldOK' /\ SimOK'
    BY <1>0, <2>1, <2>2 DEF OldOK, SimOK
  <2> QED
    BY <2>3, <2>4 DEF AppInv
<1>4. CASE WaitEnds
  <2>1. /\ aAt = "wait" /\ aClosed /\ aAt' = "read"
        /\ UNCHANGED <<mode, wire, aAsked, parser, served, list, aSent, aGot, aAnswered, aClosed, aLink>>
    BY <1>4 DEF WaitEnds
  <2>2. AppTypeOK' /\ GotOK' /\ ServedOK' /\ Begins'
    BY <1>0, <2>1, ServedKept DEF AppTypeOK, GotOK, Begins
  <2>3. OldOK' /\ SimOK'
    BY <1>0, <2>1 DEF OldOK, SimOK
  <2> QED
    BY <2>2, <2>3 DEF AppInv
<1>5. CASE UNCHANGED aVars
  <2>1. ServedOK'
    BY <1>0, <1>5, ServedKept DEF aVars
  <2> QED
    BY <1>0, <1>5, <2>1 DEF aVars, AppInv, AppTypeOK, GotOK, OldOK, SimOK, Begins
<1> QED
  BY <1>1, <1>2, <1>3, <1>4, <1>5, SendsKept, OldPieceKept, OldFrameKept, SimPieceKept,
     RespondKept, SendKept DEF ANext

(* A sequence of the numbers from one on.                                     *)
LEMMA Counted ==
  ASSUME NEW s \in Seq(Number), \A i \in 1..Len(s) : s[i] = i
  PROVE  s = [i \in 1..Len(s) |-> i]
<1>1. s \in [1..Len(s) -> Number]
  BY LenProperties
<1> QED
  BY <1>1

LEMMA AppKeepsOrder == AppInv => ReadWhole /\ SentInOrder
<1> SUFFICES ASSUME AppInv PROVE ReadWhole /\ SentInOrder
  OBVIOUS
<1>0. AppTypeOK /\ GotOK /\ ServedOK /\ OldOK /\ SimOK
  BY DEF AppInv
<1>1. /\ list \in Seq(Number) /\ aGot \in Seq(Number) /\ aSent \in Nat /\ mode \in {"old", "simulate"}
      /\ parser \in Parser /\ wire \in Seq(Cell)
      /\ served \in Seq(IF mode = "old" THEN Seq(Cell) ELSE Number)
      /\ aAt \in {"read", "frames", "wait"}
  BY <1>0 DEF AppTypeOK
<1>2. Len(served) \in Nat /\ Len(aAsked) \in Nat /\ Len(served) <= Len(aAsked)
  BY <1>0, <1>1, LenProperties DEF ServedOK, AppTypeOK
<1>p. parser.pst \in Seq(Cell) /\ parser.qry \in Seq(Cell) /\ Len(parser.pst) \in Nat
      /\ Len(parser.qry) \in Nat
  BY <1>1, ParserIs
<1>r. ASSUME ~aClosed, wire = <<>>, aAt # "frames", Len(served) # Len(aAsked) PROVE FALSE
  <2>1. parser.pst \o wire = parser.pst /\ parser.qry \o wire = parser.qry
    BY <1>p, <1>r, ConcatEmptySeq
  <2>2. CASE mode = "old"
    <3> DEFINE s == parser.pst
               k == Len(served)
    <3>1. ~Whole(s) /\ Framed(s, aAsked, k) /\ aAsked \in Seq(Frame)
      BY <1>0, <1>1, <1>r, <2>1, <2>2 DEF OldOK, AppTypeOK
    <3>2. k \in 0..Len(aAsked) /\ k < Len(aAsked) /\ k + 1 \in 1..Len(aAsked)
      BY <1>2, <1>r
    <3> DEFINE r == aAsked[k + 1]
    <3>3. r \in Frame
      BY <3>1, <3>2, FrameData
    <3> HIDE DEF s, k
    <3>a. Len(s) >= FrameSize(r) /\ At(s, 0, r)
      BY <1>p, <3>1, <3>2, FramedFirst DEF s
    <3> HIDE DEF r
    <3>5. FrameSize(r) = 4 + FrameLength(r) /\ FrameLength(r) \in Nat
      BY <3>3 DEF Frame, FrameSize, FrameLength
    <3>4. Len(s) >= FrameSize(r) /\ s[1].v = FrameLength(r)
      <4>1. 1 \in 1..FrameSize(r) /\ 0 + 1 = 1
        BY <3>5
      <4>2. s[0 + 1] = Cells("old", r)[1]
        BY <3>a, <4>1, Zenon DEF At
      <4> QED
        BY <3>3, <3>a, <4>1, <4>2, FrameIs
    <3>6. Len(s) \in Nat
      BY <1>p DEF s
    <3>7. Len(s) >= 4 /\ Len(s) - 4 >= FrameLength(r)
      BY <3>4, <3>5, <3>6
    <3> QED
      BY <3>1, <3>4, <3>7 DEF Whole
  <2>3. CASE mode = "simulate"
    <3> DEFINE q == aAsked[Len(aAsked)].query
    <3>1. Partly(parser, wire, q)
      BY <1>0, <1>r, <2>3 DEF SimOK
    <3>2. q \in Nat
      <4>1. aAsked \in Seq(Request)
        BY <1>0, <2>3 DEF AppTypeOK
      <4>2. Len(aAsked) \in 1..Len(aAsked)
        BY <1>2, <1>r
      <4> QED
        BY <4>1, <4>2, ElementOfSeq, RequestIs
    <3> HIDE DEF q
    <3>3. ~(QueryLength(parser, wire, q) /\ Len(parser.qry) < 2)
      BY <1>p, <2>1, <3>2 DEF QueryLength
    <3>4. ~(Query(parser, wire, q) /\ Len(parser.qry) < q)
      BY <1>p, <2>1, <3>2 DEF Query
    <3>5. ~(PostLength(parser, wire, q) /\ Len(parser.pst) < 2)
      BY <1>p, <2>1 DEF PostLength
    <3>6. ~(PostBody(parser, wire, q) /\ Len(parser.pst) < 1)
      <4>1. PostBody(parser, wire, q) => Len(parser.pst \o wire) = 1
        BY DEF PostBody
      <4>2. Len(parser.pst \o wire) = Len(parser.pst)
        BY <2>1
      <4>3. \A x : x = 1 => ~(x < 1)
        OBVIOUS
      <4> QED
        BY <4>1, <4>2, <4>3, Zenon
    <3> QED
      BY <3>1, <3>3, <3>4, <3>5, <3>6 DEF Partly
  <2> QED
    BY <1>1, <2>2, <2>3
<1>3. ReadWhole
  BY <1>0, <1>r DEF ReadWhole, ServedOK
<1>4. aGot = [i \in 1..Len(aGot) |-> i]
  BY <1>0, <1>1, Counted DEF GotOK
<1>5. ASSUME ~aClosed PROVE aGot \o list = [i \in 1..aSent |-> i]
  <2>1. /\ Len(aGot) + Len(list) = aSent /\ (\A i \in 1..Len(aGot) : aGot[i] = i)
        /\ \A i \in 1..Len(list) : list[i] = Len(aGot) + i
    BY <1>0, <1>5 DEF GotOK
  <2>2. /\ aGot \o list \in Seq(Number) /\ Len(aGot \o list) = Len(aGot) + Len(list)
        /\ \A i \in 1..Len(aGot) : (aGot \o list)[i] = aGot[i]
        /\ \A i \in 1..Len(list) : (aGot \o list)[Len(aGot) + i] = list[i]
    BY <1>1, JoinSeq
  <2>3. Len(aGot) \in Nat /\ Len(list) \in Nat
    BY <1>1, LenProperties
  <2>4. ASSUME NEW i \in 1..Len(aGot \o list) PROVE (aGot \o list)[i] = i
    <3>1. CASE i \in 1..Len(aGot)
      BY <2>1, <2>2, <3>1
    <3>2. CASE i \notin 1..Len(aGot)
      <4> DEFINE j == i - Len(aGot)
      <4>1. j \in 1..Len(list) /\ i = Len(aGot) + j
        BY <2>2, <2>3, <3>2
      <4> HIDE DEF j
      <4> QED
        BY <2>1, <2>2, <4>1
    <3> QED
      BY <3>1, <3>2
  <2>5. aGot \o list = [i \in 1..Len(aGot \o list) |-> i]
    BY <2>2, <2>4, Counted
  <2> QED
    BY <2>1, <2>2, <2>5
<1> QED
  BY <1>3, <1>4, <1>5 DEF SentInOrder

(* Over HTTP, and over the connections for an older server, messages keep      *)
(* their order however the stream is cut, requests are read whole and frames   *)
(* of an older server one byte off, and the app is told of the end once and    *)
(* never of one it made.                                                       *)
THEOREM MessagesKeepOrder == HttpSpec /\ ASpec => []MessagesInOrder
<1>1. HttpSpec => []HttpInv
  BY InitHttp, StepHttp, PTL DEF HttpSpec
<1>2. ASpec => []AppInv
  BY InitApp, StepApp, PTL DEF ASpec
<1>3. HttpInv /\ AppInv => MessagesInOrder
  BY HttpKeepsOrder, AppKeepsOrder DEF MessagesInOrder
<1> QED
  BY <1>1, <1>2, <1>3, PTL
=============================================================================
