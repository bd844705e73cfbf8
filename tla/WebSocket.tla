------------------------------ MODULE WebSocket ------------------------------
(***************************************************************************)
(* The web sockets of core/communication.py: class WebSocket with its two   *)
(* threads, WebSocketReader and WebSocketCheckAlive.  Reader and alive      *)
(* thread decide on their own that the socket is finished, each after a     *)
(* look at _close made before its own call of shutdown(), and both may then *)
(* call fire_close; close() is called from any other thread.                *)
(*                                                                          *)
(* One object of the program is one member of Sockets.  The wire, the       *)
(* server and the frame contents are external: link[w] says only what the   *)
(* agent's side can observe.  The steps of shutdown() after the lock is     *)
(* released (closing the kernel socket) are joined with the locked part:    *)
(* what they wake, a blocked recv, finds _close already set either way.     *)
(* The wait of close() for the shutdown, at most 10 s, changes nothing and  *)
(* is left out.                                                             *)
(***************************************************************************)
CONSTANT Sockets

Kinds == {"reader", "alive"}

VARIABLES
  closed,     \* closed[w]: w._close
  down,       \* down[w]: w._shutdown; the kernel socket is closed
  lost,       \* lost[w]: w._connection_lost
  handlers,   \* handlers[w]: w._on_data, _on_close and _on_except are set
  link,       \* link[w]: what the agent can observe of the other side
  run,        \* run[w][k]: where thread k of w is
  fires,      \* fires[w][k]: the local bfireclose of thread k of w
  connLost    \* connLost[w]: the local bconnLost of the reader of w

wsVars == <<closed, down, lost, handlers, link, run, fires, connLost>>

Links == {"unopened", "up", "silent", "closing", "lateClosing", "eof"}

RunStates == {"off", "loop", "stopping", "firing", "done"}

WsTypeOK ==
  /\ closed \in [Sockets -> BOOLEAN]
  /\ down \in [Sockets -> BOOLEAN]
  /\ lost \in [Sockets -> BOOLEAN]
  /\ handlers \in [Sockets -> BOOLEAN]
  /\ link \in [Sockets -> Links]
  /\ run \in [Sockets -> [Kinds -> RunStates]]
  /\ fires \in [Sockets -> [Kinds -> BOOLEAN]]
  /\ connLost \in [Sockets -> BOOLEAN]

(* A WebSocket object starts closed, with its handlers, and no thread. *)
WsInit ==
  /\ closed = [w \in Sockets |-> TRUE]
  /\ down = [w \in Sockets |-> FALSE]
  /\ lost = [w \in Sockets |-> FALSE]
  /\ handlers = [w \in Sockets |-> TRUE]
  /\ link = [w \in Sockets |-> "unopened"]
  /\ run = [w \in Sockets |-> [k \in Kinds |-> "off"]]
  /\ fires = [w \in Sockets |-> [k \in Kinds |-> FALSE]]
  /\ connLost = [w \in Sockets |-> TRUE]

Opened(w) == link[w] # "unopened"

-----------------------------------------------------------------------------
(* The other side: it falls silent, sends a CLOSE frame or ends the stream. *)
(* What comes from a side that had fallen silent comes late.  What arrives  *)
(* once the reader has left its loop is not observed.                       *)

Wire(w, what) ==
  /\ run[w]["reader"] = "loop"
  /\ link' = [link EXCEPT ![w] = what]
  /\ UNCHANGED <<closed, down, lost, handlers, run, fires, connLost>>

WireEnds(w) ==
  \/ link[w] = "up" /\ \E what \in {"silent", "closing", "eof"} : Wire(w, what)
  \/ link[w] = "silent" /\ \E what \in {"lateClosing", "eof"} : Wire(w, what)

-----------------------------------------------------------------------------
(* open() answered by 101: the threads run before open() returns.  A       *)
(* failed open() leaves an object nobody keeps and is not a step here.      *)
Open(w) ==
  /\ link[w] = "unopened"
  /\ closed' = [closed EXCEPT ![w] = FALSE]
  /\ link' = [link EXCEPT ![w] = "up"]
  /\ run' = [run EXCEPT ![w] = [k \in Kinds |-> "loop"]]
  /\ UNCHANGED <<down, lost, handlers, fires, connLost>>

(* Mutant of ReaderLeaves: bconnLost is not reset by a CLOSE frame. *)
ReaderLeavesLost(w) ==
  /\ run[w]["reader"] = "loop"
  /\ link[w] \in {"closing", "lateClosing", "eof"}
  /\ run' = [run EXCEPT ![w]["reader"] = "stopping"]
  /\ fires' = [fires EXCEPT ![w]["reader"] = ~closed[w]]
  /\ UNCHANGED <<closed, down, lost, handlers, link, connLost>>

(* The reader leaves its loop: an empty or failed read, or a CLOSE frame.   *)
(* bfireclose is read here.                                                 *)
ReaderLeaves(w) ==
  /\ run[w]["reader"] = "loop"
  /\ link[w] \in {"closing", "lateClosing", "eof"}
  /\ run' = [run EXCEPT ![w]["reader"] = "stopping"]
  /\ fires' = [fires EXCEPT ![w]["reader"] = ~closed[w]]
  /\ connLost' = [connLost EXCEPT ![w] = link[w] = "eof"]
  /\ UNCHANGED <<closed, down, lost, handlers, link>>

(* The alive thread: nothing was received for intervall + threshold s.      *)
AliveLeaves(w) ==
  /\ run[w]["alive"] = "loop"
  /\ link[w] = "silent"
  /\ run' = [run EXCEPT ![w]["alive"] = "stopping"]
  /\ fires' = [fires EXCEPT ![w]["alive"] = ~closed[w]]
  /\ UNCHANGED <<closed, down, lost, handlers, link, connLost>>

(* shutdown(), called by the thread that left its loop.  A thread still in  *)
(* its loop finds the shutdown, by its loop test or a read of the closed    *)
(* kernel socket, and ends with no effect: its bfireclose is False, for     *)
(* _close was set first, and its own shutdown() returns at once.  It ends   *)
(* in this same step.                                                       *)
Shutdown(w, k) ==
  /\ run[w][k] = "stopping"
  /\ closed' = [closed EXCEPT ![w] = TRUE]
  /\ down' = [down EXCEPT ![w] = TRUE]
  /\ run' = [run EXCEPT ![w] = [j \in Kinds |->
                IF j = k THEN IF fires[w][k] THEN "firing" ELSE "done"
                ELSE IF run[w][j] = "loop" THEN "done" ELSE run[w][j]]]
  /\ fires' = [fires EXCEPT ![w][k] = FALSE]
  /\ UNCHANGED <<lost, handlers, link, connLost>>

(* Mutant of FireClose: the handlers stay set. *)
FireCloseKeeps(w, k) ==
  /\ run[w][k] = "firing"
  /\ lost' = [lost EXCEPT ![w] = (k = "alive") \/ connLost[w]]
  /\ run' = [run EXCEPT ![w][k] = "done"]
  /\ UNCHANGED <<closed, down, handlers, link, fires, connLost>>

(* fire_close(connlost): the handlers are taken under the lock; whether     *)
(* on_close is called is handlers[w] as this step finds it.                 *)
FireClose(w, k) ==
  /\ run[w][k] = "firing"
  /\ lost' = [lost EXCEPT ![w] = (k = "alive") \/ connLost[w]]
  /\ handlers' = [handlers EXCEPT ![w] = FALSE]
  /\ run' = [run EXCEPT ![w][k] = "done"]
  /\ UNCHANGED <<closed, down, link, fires, connLost>>

(* close(), from a thread that is not one of the socket's own. *)
Close(w) ==
  /\ closed' = [closed EXCEPT ![w] = TRUE]
  /\ handlers' = [handlers EXCEPT ![w] = handlers[w] /\ closed[w]]
  /\ UNCHANGED <<down, lost, link, run, fires, connLost>>
=============================================================================
