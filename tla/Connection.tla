----------------------------- MODULE Connection -----------------------------
(***************************************************************************)
(* agent.Connection: the connection of the agent or of one session, over a  *)
(* succession of web sockets.  When its socket is lost, the thread that     *)
(* fired on_close opens the next one (ConnectionRecovery) while other       *)
(* threads send, close the connection, or lose the new socket in turn.      *)
(*                                                                          *)
(* The connections modelled are those opened with cpool None: the agent's   *)
(* (_run_agent) and a session's (open_session), the only ones that are      *)
(* given a ConnectionRecovery.  The steps on cpool are vacuous for them.    *)
(*                                                                          *)
(* on_close of a socket is called at most once (CloseFiredOnce checks it), *)
(* so the call is kept per socket: cb[w] is where the call for w is.        *)
(***************************************************************************)
EXTENDS WebSocket, Naturals

CONSTANTS
  First,    \* the socket the constructor opens
  NoSocket, \* Python's missing or None socket
  Senders    \* the threads that send a message on the connection

ASSUME SocketAssumption == First \in Sockets /\ NoSocket \notin Sockets

VARIABLES
  raw,        \* self._raw, NoSocket before the constructor assigned it
  recovering, \* self._recovering
  destroy,    \* self._destroy
  rconf,      \* self._recovery_conf is set
  evts,       \* the owner's handlers are set (set_events)
  opener,     \* where the thread that builds the connection is
  closer,     \* where the thread that calls close() is
  sender,     \* sender[m]: where thread m is in Message.send_message
  cb,         \* cb[w]: where the call of _on_close for socket w is
  fresh,      \* fresh[w]: the socket that call has opened
  fired,      \* history: how often w called _on_close
  notified,   \* history: how often evt_on_close was called
  early        \* history: a socket opened by a recovery was lost, and its loss
               \* acted upon, before it was assigned to _raw

connVars == <<raw, recovering, destroy, rconf, evts, opener, closer,
              sender, cb, fresh, fired, notified, early>>
vars == <<wsVars, connVars>>

flags == <<recovering, destroy>>
owner == <<rconf, evts, opener, closer, sender>>
history == <<fired, notified, early>>

OpenerStates == {"new", "assign", "events", "check", "failed", "open"}
CloserStates == {"idle", "raw", "done"}
SenderStates == {"idle", "send", "wait", "sent", "failed"}
CallStates == {"none", "entered", "check", "retry", "assign", "recovered",
               "closeRaw", "fail", "report", "done"}

TypeOK ==
  /\ WsTypeOK
  /\ raw \in Sockets \cup {NoSocket}
  /\ recovering \in BOOLEAN
  /\ destroy \in BOOLEAN
  /\ rconf \in BOOLEAN
  /\ evts \in BOOLEAN
  /\ opener \in OpenerStates
  /\ closer \in CloserStates
  /\ sender \in [Senders -> SenderStates]
  /\ cb \in [Sockets -> CallStates]
  /\ fresh \in [Sockets -> Sockets \cup {NoSocket}]
  /\ fired \in [Sockets -> Nat]
  /\ notified \in Nat
  /\ early \in BOOLEAN

Init ==
  /\ WsInit
  /\ raw = NoSocket
  /\ recovering = FALSE /\ destroy = FALSE
  /\ rconf = FALSE /\ evts = FALSE
  /\ opener = "new" /\ closer = "idle"
  /\ sender = [m \in Senders |-> "idle"]
  /\ cb = [w \in Sockets |-> "none"]
  /\ fresh = [w \in Sockets |-> NoSocket]
  /\ fired = [w \in Sockets |-> 0]
  /\ notified = 0
  /\ early = FALSE

-----------------------------------------------------------------------------
(* The threads of the sockets. *)

Threads(w) ==
  /\ \/ WireEnds(w)
     \/ ReaderLeaves(w)
     \/ AliveLeaves(w)
     \/ \E k \in Kinds : Shutdown(w, k)
  /\ UNCHANGED connVars

(* fire_close of a socket whose handlers are set enters _on_close. *)
FireOnClose(w, k) ==
  /\ FireClose(w, k)
  /\ cb' = IF handlers[w] THEN [cb EXCEPT ![w] = "entered"] ELSE cb
  /\ fired' = IF handlers[w] THEN [fired EXCEPT ![w] = @ + 1] ELSE fired
  /\ UNCHANGED <<raw, flags, owner, fresh, notified, early>>

-----------------------------------------------------------------------------
(* The thread that builds the connection, up to the owner's set_events. *)

Construct ==
  /\ opener = "new"
  /\ Open(First)
  /\ opener' = "assign"
  /\ UNCHANGED <<raw, flags, rconf, evts, closer,
                 sender, cb, fresh, history>>

AssignFirst ==
  /\ opener = "assign"
  /\ raw' = First
  /\ opener' = "events"
  /\ UNCHANGED <<wsVars, flags, rconf, evts, closer,
                 sender, cb, fresh, history>>

(* set_events: the handlers are assigned, then a closed socket raises. *)
SetEvents ==
  /\ opener = "events"
  /\ evts' = TRUE
  /\ opener' = "check"
  /\ UNCHANGED <<wsVars, raw, flags, rconf, closer,
                 sender, cb, fresh, history>>

(* Mutants of SetEventsCheck: the socket is kept for the state; the closed  *)
(* socket does not raise.                                                   *)
SetEventsStores ==
  /\ opener = "check"
  /\ opener' = IF closed[raw] THEN "failed" ELSE raw
  /\ UNCHANGED <<wsVars, raw, flags, rconf, evts, closer, sender, cb, fresh, history>>
SetEventsIgnores ==
  /\ opener = "check"
  /\ opener' = "open"
  /\ UNCHANGED <<wsVars, raw, flags, rconf, evts, closer, sender, cb, fresh, history>>

SetEventsCheck ==
  /\ opener = "check"
  /\ opener' = IF closed[raw] THEN "failed" ELSE "open"
  /\ UNCHANGED <<wsVars, raw, flags, rconf, evts, closer,
                 sender, cb, fresh, history>>

(* open_session right after, or the agent's recoveryInfo message later. *)
SetRecoveryConf ==
  /\ opener = "open" /\ ~rconf
  /\ rconf' = TRUE
  /\ UNCHANGED <<wsVars, raw, flags, evts, opener, closer,
                 sender, cb, fresh, history>>

-----------------------------------------------------------------------------
(* Mutant of SetRecovering: the test of a destroyed connection is missing. *)
SetRecoveringAnyway(r, d) ==
  /\ recovering' = r
  /\ destroy' = d

(* _set_recovering(r, d), with d = None as FALSE: both leave a connection   *)
(* that was not destroyed as it is, and a destroyed one stays destroyed;    *)
(* for d = False the caller then closes _raw.                               *)
SetRecovering(r, d) ==
  /\ recovering' = r
  /\ destroy' = (destroy \/ d)

(* _on_close of socket w, in the thread that fired it. *)

Call(w, from, to) == cb[w] = from /\ cb' = [cb EXCEPT ![w] = to]

EnterOnClose(w) ==
  /\ Call(w, "entered", "check")
  /\ SetRecovering(TRUE, FALSE)
  /\ UNCHANGED <<wsVars, raw, owner, fresh, history>>

(* The socket looked at is _raw, whatever socket fired. *)
RawLost == raw \in Sockets /\ lost[raw] /\ closed[raw]
RawDown == raw \in Sockets /\ down[raw]

CheckLost(w) ==
  /\ Call(w, "check", IF rconf /\ RawLost THEN "retry" ELSE "fail")
  /\ early' = (early \/ (raw # w /\ w # First))
  /\ UNCHANGED <<wsVars, raw, flags, owner, fresh, fired, notified>>

(* An attempt that succeeds.  One that fails, and the sleep between two,    *)
(* leave the loop where it was, up to RetryDestroyed below.                 *)
RetryOpens(w, f) ==
  /\ Call(w, "retry", "assign")
  /\ Open(f)
  /\ fresh' = [fresh EXCEPT ![w] = f]
  /\ UNCHANGED <<raw, flags, owner, history>>

RetryAssign(w) ==
  /\ Call(w, "assign", "recovered")
  /\ raw' = fresh[w]
  /\ fresh' = [fresh EXCEPT ![w] = NoSocket]
  /\ UNCHANGED <<wsVars, flags, owner, history>>

(* The bottom of the loop finds _destroy: return, nothing is reported. *)
RetryDestroyed(w) ==
  /\ Call(w, "retry", "done")
  /\ destroy
  /\ UNCHANGED <<wsVars, raw, flags, owner, fresh, history>>

(* Mutant of RetryExhausted: reports without _set_recovering(False, True). *)
RetryExhaustedReports(w) ==
  /\ Call(w, "retry", "report")
  /\ UNCHANGED <<wsVars, raw, flags, owner, fresh, history>>

(* The timeout or the maximum of attempts is reached. *)
RetryExhausted(w) ==
  /\ Call(w, "retry", "fail")
  /\ UNCHANGED <<wsVars, raw, flags, owner, fresh, history>>

(* Mutant of FailOnClose: _recovering is left set. *)
FailOnCloseRecovering(w) ==
  /\ Call(w, "fail", "report")
  /\ UNCHANGED <<wsVars, raw, flags, owner, fresh, history>>

(* Not recovered: _set_recovering(False, True), then evt_on_close. *)
FailOnClose(w) ==
  /\ Call(w, "fail", "report")
  /\ SetRecovering(FALSE, TRUE)
  /\ UNCHANGED <<wsVars, raw, owner, fresh, history>>

ReportClose(w) ==
  /\ Call(w, "report", "done")
  /\ notified' = IF evts THEN notified + 1 ELSE notified
  /\ UNCHANGED <<wsVars, raw, flags, owner, fresh, fired, early>>

(* Mutant of SettleRecovery: nothing is closed for a destroyed connection. *)
SettleRecoveryOnly(w) ==
  /\ Call(w, "recovered", "done")
  /\ SetRecovering(FALSE, FALSE)
  /\ UNCHANGED <<wsVars, raw, owner, fresh, history>>

(* Recovered: evt_on_recovery, which is the owner's, then                   *)
(* _set_recovering(False, False); a connection destroyed meanwhile then     *)
(* closes _raw.                                                             *)
SettleRecovery(w) ==
  /\ Call(w, "recovered", IF destroy THEN "closeRaw" ELSE "done")
  /\ SetRecovering(FALSE, FALSE)
  /\ UNCHANGED <<wsVars, raw, owner, fresh, history>>

CloseRecovered(w) ==
  /\ Call(w, "closeRaw", "done")
  /\ Close(raw)
  /\ UNCHANGED <<raw, flags, owner, fresh, history>>

OnClose(w) ==
  \/ EnterOnClose(w) \/ CheckLost(w)
  \/ \E f \in Sockets : RetryOpens(w, f)
  \/ RetryAssign(w) \/ RetryDestroyed(w) \/ RetryExhausted(w)
  \/ FailOnClose(w) \/ ReportClose(w)
  \/ SettleRecovery(w) \/ CloseRecovered(w)

-----------------------------------------------------------------------------
(* close(), called by the owner, or because set_events raised. *)

CloseMark ==
  /\ closer = "idle" /\ opener \in {"failed", "open"}
  /\ SetRecovering(FALSE, TRUE)
  /\ closer' = "raw"
  /\ UNCHANGED <<wsVars, raw, rconf, evts, opener,
                 sender, cb, fresh, history>>

CloseRaw ==
  /\ closer = "raw"
  /\ Close(raw)
  /\ closer' = "done"
  /\ UNCHANGED <<raw, flags, rconf, evts, opener,
                 sender, cb, fresh, history>>

-----------------------------------------------------------------------------
(* Message.send_message: send on _raw; when that raises, wait_recovery and  *)
(* then the whole message again.                                            *)

SenderGoes(m, from, to) ==
  /\ sender[m] = from
  /\ sender' = [sender EXCEPT ![m] = to]
  /\ UNCHANGED <<wsVars, raw, flags, rconf, evts, opener,
                 closer, cb, fresh, history>>

SendStart(m) == opener = "open" /\ SenderGoes(m, "idle", "send")

(* A shut down socket raises; what is written to one whose other side is    *)
(* gone is accepted or raises.                                              *)
SendDone(m) == ~RawDown /\ SenderGoes(m, "send", "sent")

SendRaises(m) ==
  /\ RawDown \/ (raw \in Sockets /\ link[raw] # "up")
  /\ SenderGoes(m, "send", "wait")

(* wait_recovery returns False when destroyed: send_message raises. *)
WaitRecovery(m) ==
  \/ destroy /\ SenderGoes(m, "wait", "failed")
  \/ ~destroy /\ ~recovering /\ SenderGoes(m, "wait", "send")

-----------------------------------------------------------------------------
Opener == \/ Construct \/ AssignFirst \/ SetEvents \/ SetEventsCheck \/ SetRecoveryConf

Sender(m) == SendStart(m) \/ SendDone(m) \/ SendRaises(m) \/ WaitRecovery(m)

Next ==
  \/ \E w \in Sockets : \/ Threads(w)
                        \/ \E k \in Kinds : FireOnClose(w, k)
                        \/ OnClose(w)
  \/ Opener \/ CloseMark \/ CloseRaw
  \/ \E m \in Senders : Sender(m)

(* Fairness.  Python threads that can run do run; the retry loop has a      *)
(* timeout, so it ends, but an attempt need not ever succeed.  An owner     *)
(* whose set_events raised does call close(), and a server that was sent a  *)
(* CLOSE frame answers, ends the stream or falls silent.                    *)
ReaderThread(w) ==
  \/ (ReaderLeaves(w) \/ Shutdown(w, "reader")) /\ UNCHANGED connVars
  \/ FireOnClose(w, "reader")
AliveThread(w) ==
  \/ (AliveLeaves(w) \/ Shutdown(w, "alive")) /\ UNCHANGED connVars
  \/ FireOnClose(w, "alive")
CallEnds(w) ==
  \/ EnterOnClose(w) \/ CheckLost(w) \/ RetryAssign(w) \/ RetryExhausted(w)
  \/ FailOnClose(w) \/ ReportClose(w) \/ SettleRecovery(w) \/ CloseRecovered(w)
ServerEnds(w) ==
  closed[w] /\ link[w] = "up" /\ WireEnds(w) /\ UNCHANGED connVars

Fairness ==
  /\ \A w \in Sockets : /\ WF_vars(ReaderThread(w)) /\ WF_vars(AliveThread(w))
                        /\ WF_vars(CallEnds(w)) /\ WF_vars(ServerEnds(w))
  /\ WF_vars(AssignFirst \/ SetEvents \/ SetEventsCheck)
  /\ WF_vars((opener = "failed" /\ CloseMark) \/ CloseRaw)
  /\ \A m \in Senders : WF_vars(Sender(m))

Spec == Init /\ [][Next]_vars /\ Fairness

-----------------------------------------------------------------------------
(* Properties. *)

(* The two threads of a socket both may find it finished, and both may call *)
(* fire_close; _on_close of the connection is entered for one of them only, *)
(* and the owner hears of the end of its connection at most once.           *)
CloseFiredOnce ==
  /\ \A w \in Sockets : fired[w] <= 1
  /\ notified <= 1

Recovers(w) == cb[w] \in {"check", "retry", "assign", "recovered", "fail"}

(* While _recovering keeps the senders in wait_recovery of a connection     *)
(* that is not destroyed, some call of _on_close is on its way to reset it. *)
RecoveringOwned ==
  recovering /\ ~destroy => \E w \in Sockets : Recovers(w)

(* A socket that is still open is the one the connection uses, or is in the *)
(* hands of the thread that opened it; and once the connection is           *)
(* destroyed, close() or the recovering thread is on its way to close it.   *)
(* (Unless a socket was lost before it was assigned: see the README.)       *)
NoOrphanSocket ==
  \A w \in Sockets : ~early /\ ~closed[w] =>
    \/ opener = "assign" /\ w = First
    \/ \E v \in Sockets : cb[v] = "assign" /\ fresh[v] = w
    \/ /\ raw = w
       /\ destroy => \/ closer = "raw"
                     \/ \E v \in Sockets : cb[v] \in {"recovered", "closeRaw"}

(* Nothing takes a destroyed connection back, the end of a recovery that    *)
(* ran while it was closed included.                                        *)
DestroyFinal == [][destroy => destroy']_vars

(* A socket the server closed, with nothing lost before, is never the       *)
(* start of a recovery.                                                     *)
RecoversOnlyLost ==
  [][\A w \in Sockets : cb[w] = "check" /\ cb'[w] = "retry" /\ ~early' =>
       link[w] # "closing"]_vars

(* The liveness properties are those of a connection none of whose sockets  *)
(* was lost before it was assigned (see the README for the one that was).   *)

(* A thread in send_message gets its message out or gets an exception.      *)
SenderReleased ==
  \A m \in Senders :
    <>early \/ (sender[m] = "send" ~> sender[m] \in {"sent", "failed"})

(* The sockets of a destroyed connection are all shut down in the end.      *)
DestroyedShutsAll ==
  <>early \/ (destroy ~> \A w \in Sockets : Opened(w) => down[w])

(* An owner whose connection stopped working gets it back or is told.       *)
OwnerLearns ==
  <>early \/ (opener = "open" /\ RawDown
              ~> ~RawDown \/ notified > 0 \/ closer # "idle")
=============================================================================
