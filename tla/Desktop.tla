------------------------------ MODULE Desktop -------------------------------
(* The desktop sessions of an agent and the capture they share: class        *)
(* Desktop of app_desktop/desktop.py.  The first session starts a capture,   *)
(* the last one that leaves destroys it.  The lists are kept under           *)
(* _list_semaphore; Desktop.destroy, called when the apps are unloaded, ends *)
(* with two statements that are not.                                         *)
EXTENDS Integers

CONSTANTS
  Desk,          \* the desktop sessions
  MaxCaptures    \* bound: captures started

NoCapture == 0

VARIABLES
  current,       \* Desktop._process: a capture, or NoCapture
  started,       \* captures started
  living,        \* the captures that run and that nobody has destroyed
  listed,        \* Desktop._list
  uses,          \* DesktopSession._process
  desk,          \* the thread of a session: "new", "run", "left"
  told,          \* the sessions destroyed (_bdestroy)
  unloading,     \* Desktop.destroy: "no", or what it does next
  snapshot,      \* lstcopy
  strays         \* captures that _process was made to forget

deskVars == <<current, started, living, listed, uses, desk, told, unloading, snapshot,
              strays>>

DeskInit ==
  /\ current = NoCapture /\ started = 0 /\ living = {} /\ listed = {}
  /\ uses = [s \in Desk |-> NoCapture] /\ desk = [s \in Desk |-> "new"]
  /\ told = {} /\ unloading = "no" /\ snapshot = {} /\ strays = {}

\* _add_desktop_manager: a capture if there is none, and the session, which
\* takes the one that is there.  If the session cannot be made, a capture
\* without sessions is destroyed.
Add(s) ==
  /\ desk[s] = "new"
  /\ LET fresh == current = NoCapture
         c == IF fresh THEN started + 1 ELSE current
     IN  /\ fresh => started < MaxCaptures
         /\ started' = IF fresh THEN started + 1 ELSE started
         /\ \/ /\ current' = c
               /\ living' = IF fresh THEN living \union {c} ELSE living
               /\ listed' = listed \union {s} /\ uses' = [uses EXCEPT ![s] = c]
               /\ desk' = [desk EXCEPT ![s] = "run"]
            \/ /\ listed = {}
               /\ current' = NoCapture /\ living' = living \ {c}
               /\ desk' = [desk EXCEPT ![s] = "left"]
               /\ UNCHANGED <<listed, uses>>
            \/ /\ listed # {}
               /\ current' = c
               /\ living' = IF fresh THEN living \union {c} ELSE living
               /\ desk' = [desk EXCEPT ![s] = "left"]
               /\ UNCHANGED <<listed, uses>>
  /\ UNCHANGED <<told, unloading, snapshot, strays>>

\* mutant: the one that leaves destroys the capture it used, if it is alone
LeaveLast(s) ==
  /\ desk[s] = "run"
  /\ desk' = [desk EXCEPT ![s] = "left"]
  /\ listed' = listed \ {s}
  /\ IF listed = {} THEN living' = living \ {current} /\ current' = NoCapture
                    ELSE UNCHANGED <<living, current>>
  /\ UNCHANGED <<started, uses, told, unloading, snapshot, strays>>

\* A session that ends, because it is told to, because its capture is
\* destroyed or on its own, leaves: the last one destroys the capture.
Leave(s) ==
  /\ desk[s] = "run"
  /\ desk' = [desk EXCEPT ![s] = "left"]
  /\ listed' = listed \ {s}
  /\ IF listed = {s} /\ current # NoCapture
       THEN living' = living \ {current} /\ current' = NoCapture
       ELSE UNCHANGED <<living, current>>
  /\ UNCHANGED <<started, uses, told, unloading, snapshot, strays>>

\* The capture of a session ends by itself, told an error it does not fall
\* back from: it stays the current one until the last session leaves.
CaptureEnds ==
  /\ \E c \in living : living' = living \ {c}
  /\ UNCHANGED <<current, started, listed, uses, desk, told, unloading, snapshot, strays>>

\* on_conn_close: the sessions of a connection that is closed.
OnConnClose ==
  /\ \E S \in SUBSET listed : S # {} /\ told' = told \union S
  /\ UNCHANGED <<current, started, living, listed, uses, desk, unloading, snapshot, strays>>

\* destroy: forced, or only with no sessions.
DestroyBegins ==
  /\ unloading = "no"
  /\ snapshot' = listed /\ unloading' = "sessions"
  /\ UNCHANGED <<current, started, living, listed, uses, desk, told, strays>>

DestroySessions ==
  /\ unloading = "sessions"
  /\ told' = told \union snapshot
  /\ unloading' = IF current = NoCapture THEN "done" ELSE "capture"
  /\ UNCHANGED <<current, started, living, listed, uses, desk, snapshot, strays>>

\* The two statements without the semaphore.  In between the last session may
\* have left, and the next one started another capture.  What is destroyed may
\* then be nothing, and the method ends with an exception.
DestroyCapture ==
  /\ unloading = "capture"
  /\ living' = living \ {current}
  /\ unloading' = IF current = NoCapture THEN "done" ELSE "forget"
  /\ UNCHANGED <<current, started, listed, uses, desk, told, snapshot, strays>>

DestroyForgets ==
  /\ unloading = "forget"
  /\ current' = NoCapture /\ unloading' = "done"
  /\ strays' = strays \union (living \intersect {current})
  /\ UNCHANGED <<started, living, listed, uses, desk, told, snapshot>>

DeskNext ==
  \/ \E s \in Desk : Add(s) \/ Leave(s)
  \/ CaptureEnds \/ OnConnClose \/ DestroyBegins \/ DestroySessions
  \/ DestroyCapture \/ DestroyForgets

\* A session that is told to end, or whose capture is gone, leaves.
DeskFairness == \A s \in Desk : WF_deskVars((s \in told \/ uses[s] \notin living) /\ Leave(s))

DeskSpec == DeskInit /\ [][DeskNext]_deskVars /\ DeskFairness

-----------------------------------------------------------------------------
\* A capture runs for the sessions and no longer: one at a time, and none once
\* the last session has left, but for those that Desktop.destroy forgot.  One
\* more would go on reading the screen with nobody to look at it.
CaptureForSessions ==
  \A c \in living \ strays : c = current /\ listed # {}
=============================================================================
