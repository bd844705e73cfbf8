------------------------------ MODULE Channels -------------------------------
(* The connections a session opens beside its own for an older server:       *)
(* ConnectionPool, and on each of them a DownloadOLD or an UploadOLD of      *)
(* core/agent.py.  The session's messages are handled by threads of the task *)
(* pool, those of a connection by its reader, which also tells of its loss;  *)
(* a connection the agent closes itself tells nobody.                        *)
EXTENDS Naturals, FiniteSets

CONSTANTS
  Channel,     \* the ids the server may ask for
  Ups          \* those of an upload; the others are downloads

VARIABLES
  locked,      \* the session's _password is set, or it has _wait_accept
  destroyed,   \* ConnectionPool._bdestroy
  doom,        \* the ids destroy() has still to close
  listed,      \* ConnectionPool._list
  cLink,       \* a connection: "none", "checked", "up", "lost", "closed"
  event,       \* where Connection._on_close of a lost one is
  cAt,         \* the upload or download: "none", "made", "accepted", "open", "end"
  cShut,       \* its _bclose
  result,      \* its _status
  cTemp,       \* the temporary file exists
  target,      \* the file at the path: "old", "none", "new"
  counted,     \* _activities of the session, uploads and downloads, as each adds to it
  lateAccept   \* history: it was accepted after its loss was told to it

poolVars == <<locked, destroyed, doom, listed>>
useVars == <<cAt, cShut, result, cTemp, target, counted, lateAccept>>
chanVars == <<poolVars, cLink, event, useVars>>

ChanInit ==
  /\ locked \in BOOLEAN
  /\ destroyed = FALSE /\ doom = {} /\ listed = {}
  /\ cLink = [c \in Channel |-> "none"] /\ event = [c \in Channel |-> "none"]
  /\ cAt = [c \in Channel |-> "none"] /\ cShut = [c \in Channel |-> TRUE]
  /\ result = [c \in Channel |-> "I"] /\ cTemp = [c \in Channel |-> FALSE]
  /\ target = [c \in Channel |-> "old"] /\ counted = [c \in Channel |-> 0]
  /\ lateAccept = [c \in Channel |-> FALSE]

\* _fire_msg: until the right password is given and the user accepts, the
\* session answers that it waits for them.
Unlock == /\ locked /\ locked' = FALSE
          /\ UNCHANGED <<destroyed, doom, listed, cLink, event, useVars>>

-----------------------------------------------------------------------------
\* open_connection looks at _bdestroy before it takes the semaphore.
OpenChecks(c) ==
  /\ ~locked /\ ~destroyed /\ cLink[c] = "none"
  /\ cLink' = [cLink EXCEPT ![c] = "checked"]
  /\ UNCHANGED <<poolVars, event, useVars>>
OpenConnection(c) ==
  /\ cLink[c] = "checked"
  /\ cLink' = [cLink EXCEPT ![c] = "up"] /\ listed' = listed \cup {c}
  /\ UNCHANGED <<locked, destroyed, doom, event, useVars>>

\* Connection.close: it leaves the pool, and its socket is closed without a
\* call of on_close.
CloseOf(c) == /\ listed' = listed \ {c}
              /\ cLink' = [cLink EXCEPT ![c] = IF @ = "up" THEN "closed" ELSE @]

\* The socket is lost: Connection._on_close takes it off the list of the pool,
\* then calls the handler that is set by then.
Lose(c) == /\ cLink[c] = "up" /\ cLink' = [cLink EXCEPT ![c] = "lost"]
           /\ event' = [event EXCEPT ![c] = "pool"]
           /\ UNCHANGED <<poolVars, useVars>>
CloseConnection(c) ==
  /\ event[c] = "pool" /\ event' = [event EXCEPT ![c] = "tell"]
  /\ listed' = listed \ {c}
  /\ UNCHANGED <<locked, destroyed, doom, cLink, useVars>>

\* destroy, when the session ends: the flag; a copy of the list; each one of
\* the copy is closed, and one that has left the list meanwhile raises.
DestroyPool == /\ ~destroyed /\ destroyed' = TRUE /\ doom' = listed
           /\ UNCHANGED <<locked, listed, cLink, event, useVars>>
DestroyCloses(c) ==
  /\ c \in doom /\ doom' = IF c \in listed THEN doom \ {c} ELSE {}
  /\ IF c \in listed THEN CloseOf(c) ELSE UNCHANGED <<listed, cLink>>
  /\ UNCHANGED <<locked, destroyed, event, useVars>>

-----------------------------------------------------------------------------
\* The constructor sets the handlers; set_events raises if the socket is closed.
Make(c) ==
  /\ ~locked /\ ~destroyed /\ c \in listed /\ cAt[c] = "none"
  /\ cAt' = [cAt EXCEPT ![c] = IF cLink[c] = "up" THEN "made" ELSE "end"]
  /\ UNCHANGED <<poolVars, cLink, event, cShut, result, cTemp, target, counted, lateAccept>>
\* accept, by the app; an upload makes its temporary file.  It is counted
\* after that, a download by the thread it starts.
AcceptOld(c) ==
  /\ cAt[c] = "made" /\ cAt' = [cAt EXCEPT ![c] = "accepted"]
  /\ cShut' = [cShut EXCEPT ![c] = FALSE] /\ result' = [result EXCEPT ![c] = "T"]
  /\ cTemp' = [cTemp EXCEPT ![c] = c \in Ups]
  /\ lateAccept' = [lateAccept EXCEPT ![c] = event[c] = "done" \/ cLink[c] = "closed"]
  /\ UNCHANGED <<poolVars, cLink, event, target, counted>>
\* The app refuses, or the file cannot be made: close() closes the connection.
RefuseOld(c) ==
  /\ cAt[c] = "made" /\ cAt' = [cAt EXCEPT ![c] = "end"] /\ CloseOf(c)
  /\ UNCHANGED <<locked, destroyed, doom, event, cShut, result, cTemp, target, counted,
                 lateAccept>>
Count(c) ==
  /\ cAt[c] = "accepted" /\ cAt' = [cAt EXCEPT ![c] = "open"]
  /\ counted' = [counted EXCEPT ![c] = @ + 1]
  /\ UNCHANGED <<poolVars, cLink, event, cShut, result, cTemp, target, lateAccept>>

\* DownloadOLD.run: the whole file is sent, or a send raises; it is closed,
\* and counted no more.
RunEnds(c) ==
  /\ c \notin Ups /\ cAt[c] = "open" /\ cAt' = [cAt EXCEPT ![c] = "end"]
  /\ result' = [result EXCEPT ![c] = IF @ # "T" THEN @ ELSE IF cLink[c] = "up" THEN "C" ELSE "E"]
  /\ cShut' = [cShut EXCEPT ![c] = TRUE] /\ counted' = [counted EXCEPT ![c] = @ - 1]
  /\ CloseOf(c)
  /\ UNCHANGED <<locked, destroyed, doom, event, cTemp, target, lateAccept>>

\* A piece that cannot be written: the upload fails, and stays open until the
\* connection ends.
DataFails(c) ==
  /\ c \in Ups /\ ~cShut[c] /\ result[c] = "T" /\ cLink[c] = "up"
  /\ result' = [result EXCEPT ![c] = "E"]
  /\ UNCHANGED <<poolVars, cLink, event, cAt, cShut, cTemp, target, counted, lateAccept>>

\* The message "C": the former file is removed and the new one moved to its
\* place, which may fail after the removal.  close() says "C" in any case.
Commit(c) ==
  /\ c \in Ups /\ ~cShut[c] /\ result[c] = "T" /\ cLink[c] = "up"
  /\ target' \in {[target EXCEPT ![c] = x] : x \in {"new", "none", "old"}}
  /\ cTemp' = [cTemp EXCEPT ![c] = FALSE]
  /\ cShut' = [cShut EXCEPT ![c] = TRUE] /\ result' = [result EXCEPT ![c] = "C"]
  /\ counted' = [counted EXCEPT ![c] = @ - 1]
  /\ CloseOf(c)
  /\ UNCHANGED <<locked, destroyed, doom, event, cAt, lateAccept>>

\* mutant: the end of an upload that is closed counts it off again
OnCloseCountsOff(c) ==
  /\ event[c] = "tell" /\ event' = [event EXCEPT ![c] = "done"]
  /\ IF cAt[c] = "none" \/ ~(c \in Ups) THEN UNCHANGED <<cShut, result, cTemp, counted>>
     ELSE /\ cShut' = [cShut EXCEPT ![c] = TRUE] /\ cTemp' = [cTemp EXCEPT ![c] = FALSE]
          /\ result' = [result EXCEPT ![c] = IF @ = "C" THEN @ ELSE "E"]
          /\ counted' = [counted EXCEPT ![c] = @ - 1]
  /\ UNCHANGED <<poolVars, cLink, cAt, target, lateAccept>>

\* _on_close_conn: an open upload gives its file up; an open download ends
\* when it sees it.
OnCloseConn(c) ==
  /\ event[c] = "tell" /\ event' = [event EXCEPT ![c] = "done"]
  /\ IF cShut[c] THEN UNCHANGED <<cShut, result, cTemp, counted>>
     ELSE /\ cShut' = [cShut EXCEPT ![c] = TRUE] /\ cTemp' = [cTemp EXCEPT ![c] = FALSE]
          /\ result' = [result EXCEPT ![c] = IF @ = "T" THEN "E" ELSE @]
          /\ counted' = [counted EXCEPT ![c] = IF c \in Ups THEN @ - 1 ELSE @]
  /\ UNCHANGED <<poolVars, cLink, cAt, target, lateAccept>>

ChanNext ==
  \/ Unlock \/ DestroyPool
  \/ \E c \in Channel :
       \/ OpenChecks(c) \/ OpenConnection(c) \/ Lose(c) \/ CloseConnection(c)
       \/ DestroyCloses(c) \/ Make(c) \/ AcceptOld(c) \/ RefuseOld(c) \/ Count(c)
       \/ RunEnds(c) \/ DataFails(c) \/ Commit(c) \/ OnCloseConn(c)

ChanSpec == ChanInit /\ [][ChanNext]_chanVars

-----------------------------------------------------------------------------
\* A transfer whose connection was lost, or that ended by itself, is off the
\* pool's list, has no temporary file and is not counted: its accept, its
\* data and the loss may come in any order.  Excluded are an accept that
\* comes after the loss was told or the connection closed (lateAccept), and
\* an upload that is open when its session closes the connection.
TransferSettled ==
  \A c \in Channel :
    /\ event[c] \in {"tell", "done"} => c \notin listed
    /\ (event[c] = "done" \/ (cLink[c] = "closed" /\ cShut[c])) /\ cAt[c] \in {"open", "end"}
         /\ ~lateAccept[c] /\ (c \in Ups \/ cAt[c] = "end")
       => ~cTemp[c] /\ counted[c] = 0

\* "ConnectionPool destroyed" (agent.py:2359): a pool that was destroyed opens
\* no connection.
DestroyedOpensNone == [][\A c \in Channel : destroyed => (cLink[c] # "up" => cLink'[c] # "up")]_chanVars
=============================================================================
