------------------------------ MODULE Capture -------------------------------
(* The capture of the screen: the thread of the agent that keeps a child     *)
(* process at it (DesktopProcessCapture, app_desktop/desktop.py) and the two *)
(* threads of that child (app_desktop/capture.py): the one that reads the    *)
(* requests and the one that drives the capture library.                     *)
(*                                                                           *)
(* The child finds the monitors and tells them; the agent lays out a shared  *)
(* memory for them, numbered by _monitorsid, and tells the child to start on *)
(* it.  The first byte of that memory is "O" while the agent stands by it    *)
(* and "C" when it has given it up.  A library that fails names the next one *)
(* to try.                                                                   *)
(*                                                                           *)
(* Module Desktop has the sessions that share it, and touches nothing of     *)
(* this one; nor does module Screen, which has the picture.  The proofs      *)
(* about the three are at the end.                                           *)
EXTENDS Desktop, Screen, SoundRing, SequenceTheorems, TLAPS

CONSTANTS
  NLibs,        \* the capture libraries of the platform, in the order tried
  MaxId,        \* bound: memories laid out (_monitorsid)
  MaxQueue,     \* bound: requests under way in one direction
  MaxCrashes    \* bound: deaths of the child

None == 0
Unable == -1    \* a list of monitors with an error_code: no memory

VARIABLES
  status,       \* _process_status
  destroyed,    \* _bdestroy of the agent's thread
  fallback,     \* _app_desktop_capture_fallback_lib
  shown,        \* _monitors: None, Unable, or the number of its memory
  lastId,       \* _monitorsid
  byte,         \* the first byte of each memory
  toAgent, toChild,
  main,         \* the thread of the child that reads: "none", "run", "ended"
  screen,       \* its ProcessCaptureScreen: "none", "load", "run", "ended"
  lib,          \* the library it has loaded
  capture,      \* _status of ProcessCaptureScreen: "C", "I" or "O"
  instance,     \* _monitors_instance, by the number of its memory
  detected,     \* detect_monitors_cnt is not None
  first,        \* first_time
  allowed,      \* _capture_allowed
  refused,      \* a request to start was refused: "Status must be C"
  crashes

agentVars == <<status, destroyed, fallback, shown, lastId, byte>>
screenVars == <<lib, capture, instance, detected, first, allowed>>
captureVars == <<agentVars, screenVars, toAgent, toChild, main, screen, refused, crashes>>

CaptureInit ==
  /\ status = "stopped" /\ destroyed = FALSE /\ fallback = None
  /\ shown = None /\ lastId = 0 /\ byte = [i \in 1..MaxId |-> "-"]
  /\ toAgent = <<>> /\ toChild = <<>>
  /\ main = "none" /\ screen = "none" /\ lib = None
  /\ capture = "C" /\ instance = None
  /\ detected = FALSE /\ first = TRUE /\ allowed = TRUE
  /\ refused = FALSE /\ crashes = 0

-----------------------------------------------------------------------------
(* The agent                                                                 *)

\* The memory the agent stands by is given up: its byte, seen by the capture
\* and by the encoders of the sessions, is all they are told.
GivenUp == IF shown > 0 THEN [byte EXCEPT ![shown] = "C"] ELSE byte

\* The child is told to close and its stream is closed, whatever it does next.
\* What it had sent is not read any more.
DestroyProcess ==
  /\ shown' = None /\ byte' = GivenUp
  /\ status' = "stopped"
  /\ toAgent' = <<>> /\ toChild' = <<>>
  /\ main' = "none" /\ screen' = "none"
  /\ UNCHANGED <<lastId, screenVars, refused, crashes>>

\* The loop starts a child, which begins with the library fallen back to.
Start ==
  /\ ~destroyed /\ status = "stopped"
  /\ status' = "started"
  /\ main' = "run" /\ screen' = "load"
  /\ lib' = IF fallback = None THEN 1 ELSE fallback
  /\ capture' = "C" /\ instance' = None /\ refused' = FALSE
  /\ detected' = FALSE /\ first' = TRUE /\ allowed' = TRUE
  /\ UNCHANGED <<destroyed, fallback, shown, lastId, byte, toAgent, toChild, crashes>>

\* The child cannot be started.  The loop tries again, unless the message
\* speaks of Wayland.
StartFails ==
  /\ ~destroyed /\ status = "stopped"
  /\ destroyed' = TRUE
  /\ UNCHANGED <<status, fallback, shown, lastId, byte, screenVars, toAgent, toChild,
                 main, screen, refused, crashes>>

\* mutant: the number of the former memory is told
ReceiveMonitorsFormer ==
  /\ status = "started" /\ toAgent # <<>> /\ Head(toAgent).kind = "monitors"
  /\ ~Head(toAgent).error /\ lastId < MaxId
  /\ lastId' = lastId + 1 /\ shown' = lastId + 1
  /\ byte' = [GivenUp EXCEPT ![lastId + 1] = "O"]
  /\ toChild' = Append(toChild, lastId)
  /\ toAgent' = Tail(toAgent)
  /\ UNCHANGED <<status, destroyed, fallback, main, screen, screenVars, refused, crashes>>

\* MONITORS_CHANGED: the former memory is given up, and the child is told to
\* start on the next one; no memory for a list with an error.
ReceiveMonitors ==
  /\ status = "started" /\ toAgent # <<>> /\ Head(toAgent).kind = "monitors"
  /\ IF Head(toAgent).error
       THEN /\ shown' = Unable /\ byte' = GivenUp
            /\ UNCHANGED <<lastId, toChild>>
       ELSE /\ lastId < MaxId
            /\ lastId' = lastId + 1 /\ shown' = lastId + 1
            /\ byte' = [GivenUp EXCEPT ![lastId + 1] = "O"]
            /\ toChild' = Append(toChild, lastId + 1)
  /\ toAgent' = Tail(toAgent)
  /\ UNCHANGED <<status, destroyed, fallback, main, screen, screenVars, refused, crashes>>

\* mutant: the library is noted and the child is left as it is
ReceiveErrorNoted ==
  /\ status = "started" /\ toAgent # <<>> /\ Head(toAgent).kind = "error"
  /\ fallback' = Head(toAgent).next
  /\ UNCHANGED <<status, destroyed, shown, lastId, byte, toAgent, toChild, main, screen,
                 screenVars, refused, crashes>>

\* RAISE_ERROR: another child with the next library, or the end.
ReceiveError ==
  /\ status = "started" /\ toAgent # <<>> /\ Head(toAgent).kind = "error"
  /\ fallback' = Head(toAgent).next
  /\ destroyed' = (destroyed \/ Head(toAgent).next = None)
  /\ DestroyProcess

\* The child does not run any more, or its stream is closed.
AgentSeesEnd ==
  /\ status = "started" /\ main # "run"
  /\ DestroyProcess
  /\ UNCHANGED <<destroyed, fallback>>

\* Desktop.destroy, or the last session that leaves.
Destroy == /\ ~destroyed /\ destroyed' = TRUE
           /\ UNCHANGED <<status, fallback, shown, lastId, byte, screenVars, toAgent,
                          toChild, main, screen, refused, crashes>>

\* The loop ends, and with it the child.
AgentEnds == /\ destroyed /\ status = "started"
             /\ DestroyProcess
             /\ UNCHANGED <<destroyed, fallback>>

-----------------------------------------------------------------------------
(* The child                                                                 *)

Sends(m) == Len(toAgent) < MaxQueue /\ toAgent' = Append(toAgent, m)
MonitorsChanged(err) == [kind |-> "monitors", error |-> err]

\* INIT_SCREEN_CAPTURE, in the thread that reads.  The exception of a request
\* that comes when the capture is not closed is only logged.
InitCapture ==
  /\ main = "run" /\ toChild # <<>>
  /\ IF capture = "C"
       THEN capture' = "I" /\ instance' = Head(toChild) /\ UNCHANGED refused
       ELSE refused' = TRUE /\ UNCHANGED <<capture, instance>>
  /\ toChild' = Tail(toChild)
  /\ UNCHANGED <<agentVars, toAgent, main, screen, lib, detected, first, allowed, crashes>>

\* The thread of the screen ends with an exception, told to the agent with
\* the library after this one if the failure is one to fall back from.
ScreenRaises(fallsBack) ==
  /\ Sends([kind |-> "error",
            next |-> IF fallsBack /\ lib < NLibs THEN lib + 1 ELSE None])
  /\ screen' = "ended" /\ capture' = "C" /\ instance' = None
  /\ UNCHANGED <<agentVars, toChild, main, lib, detected, first, allowed, refused, crashes>>

\* The first library from the one asked for that loads.
ScreenLoads ==
  /\ screen = "load"
  /\ \/ \E l \in lib..NLibs :
          /\ lib' = l /\ screen' = "run"
          /\ UNCHANGED <<agentVars, toAgent, toChild, main, capture, instance, detected,
                         first, allowed, refused, crashes>>
     \/ ScreenRaises(FALSE)

\* The desktop asks its user for the permission.
ScreenAsksPermission ==
  /\ screen = "run" /\ allowed
  /\ allowed' = FALSE /\ detected' = TRUE
  /\ IF first THEN Sends(MonitorsChanged(TRUE)) ELSE UNCHANGED toAgent
  /\ UNCHANGED <<agentVars, toChild, main, screen, lib, capture, instance, first, refused, crashes>>

\* The monitors are looked for: at first, every two seconds and when the
\* desktop says that it changed.  Those found are told once the capture of the
\* former ones is closed; that there are none any more, after six seconds.
ScreenDetects ==
  /\ screen = "run"
  /\ allowed' = TRUE /\ detected' = TRUE
  /\ capture' = "C" /\ instance' = None
  /\ Sends(MonitorsChanged(FALSE)) \/ (~first /\ UNCHANGED toAgent)
  /\ UNCHANGED <<agentVars, toChild, main, screen, lib, first, refused, crashes>>

\* The desktop says that it changed, or the permission is given back, and the
\* monitors are the same: the capture is opened again on them.
ScreenReopens ==
  /\ screen = "run" /\ detected
  /\ capture = "O" \/ ~allowed
  /\ allowed' = TRUE
  /\ capture' = IF capture = "O" THEN "I" ELSE capture
  /\ UNCHANGED <<agentVars, toAgent, toChild, main, screen, lib, instance, detected,
                 first, refused, crashes>>

\* The capture of the monitors is opened.
ScreenInits ==
  /\ screen = "run" /\ capture = "I" /\ instance # None
  /\ capture' = "O" /\ first' = FALSE
  /\ UNCHANGED <<agentVars, toAgent, toChild, main, screen, lib, instance, detected,
                 allowed, refused, crashes>>

\* The library finds no monitors at first, cannot open them, has no image in
\* four seconds or fails for one: another library.  Or it says that the
\* capture is unavailable.
ScreenFails ==
  /\ screen = "run"
  /\ \/ ~detected /\ ScreenRaises(TRUE)
     \/ capture \in {"I", "O"} /\ ScreenRaises(TRUE)
     \/ ScreenRaises(FALSE)

\* An image is written only in a memory the agent stands by.  The thread that
\* finds it given up ends, and says nothing.
ScreenFindsGivenUp ==
  /\ screen = "run" /\ capture = "O" /\ byte[instance] = "C"
  /\ screen' = "ended" /\ capture' = "C" /\ instance' = None
  /\ UNCHANGED <<agentVars, toAgent, toChild, main, lib, detected, first, allowed, refused, crashes>>

\* The child dies: a library of the desktop may bring it down.
Crash ==
  /\ main = "run" /\ crashes < MaxCrashes
  /\ crashes' = crashes + 1
  /\ main' = "ended" /\ screen' = "ended"
  /\ UNCHANGED <<agentVars, screenVars, toAgent, toChild, refused>>

-----------------------------------------------------------------------------
Agent == Start \/ ReceiveMonitors \/ ReceiveError \/ AgentSeesEnd \/ AgentEnds
Child == InitCapture \/ ScreenLoads \/ ScreenInits
CaptureNext ==
  \/ Start \/ StartFails \/ ReceiveMonitors \/ ReceiveError \/ AgentSeesEnd \/ Destroy \/ AgentEnds
  \/ InitCapture \/ ScreenLoads \/ ScreenAsksPermission \/ ScreenDetects
  \/ ScreenReopens \/ ScreenInits \/ ScreenFails \/ ScreenFindsGivenUp \/ Crash

\* Each thread goes on; nobody makes the desktop change, fail or crash.
CaptureFairness == WF_captureVars(status = "started" /\ Agent) /\ WF_captureVars(Child)

CaptureSpec == CaptureInit /\ [][CaptureNext]_captureVars /\ CaptureFairness

-----------------------------------------------------------------------------
\* With nothing under way and no request refused, the capture works on the
\* memory the sessions are shown: a monitor that changes while the capture
\* starts does not leave them looking at a dead image.
CaptureFollows ==
  /\ status = "started" /\ shown > 0 /\ screen = "run" /\ main = "run"
  /\ toAgent = <<>> /\ toChild = <<>> /\ ~refused /\ capture \in {"I", "O"}
  => instance = shown

\* A capture that fails is replaced by one with another library, or the thread
\* of the agent ends: the sessions do not wait for a dead one.
FailureHandled ==
  (main = "run" /\ \E i \in 1..Len(toAgent) : toAgent[i].kind = "error")
    ~> (status = "stopped" \/ lastId = MaxId)

-----------------------------------------------------------------------------
\* The last request under way to the child is for the memory that is shown, and with
\* none under way the capture works on it.
LastOf(q) == q[Len(q)]
FollowsInv ==
  status = "started" /\ shown > 0 /\ ~refused =>
    IF toChild # <<>> THEN LastOf(toChild) = shown
    ELSE capture \in {"I", "O"} => instance = shown
CaptureInv ==
  /\ toChild \in Seq(Nat) /\ lastId \in Nat /\ shown \in Int
  /\ status = "stopped" => shown = None /\ toChild = <<>>
  /\ FollowsInv

LEMMA InitCaptureInv == CaptureInit => CaptureInv
  BY EmptySeq DEF CaptureInit, CaptureInv, FollowsInv, None

LEMMA DestroyKeeps == ASSUME CaptureInv, DestroyProcess PROVE CaptureInv'
  BY EmptySeq DEF DestroyProcess, CaptureInv, FollowsInv, None

LEMMA ReceiveKeeps == ASSUME CaptureInv, ReceiveMonitors PROVE CaptureInv'
<1> USE DEF CaptureInv
<1>1. CASE Head(toAgent).error
  BY <1>1 DEF ReceiveMonitors, FollowsInv, Unable
<1>2. CASE ~Head(toAgent).error
  <2>1. /\ shown' = lastId + 1 /\ lastId' = lastId + 1 /\ toChild' = Append(toChild, lastId + 1)
        /\ status' = "started" /\ status = "started"
    BY <1>2 DEF ReceiveMonitors
  <2>2. toChild' \in Seq(Nat) /\ toChild' # <<>> /\ LastOf(toChild') = lastId + 1
    BY <2>1, AppendProperties, LenProperties, EmptySeq DEF LastOf
  <2>3. QED
    BY <2>1, <2>2 DEF FollowsInv
<1>3. QED
  BY <1>1, <1>2

LEMMA InitCaptureKeeps == ASSUME CaptureInv, InitCapture PROVE CaptureInv'
<1> USE DEF CaptureInv
<1>1. /\ toChild # <<>> /\ toChild' = Tail(toChild) /\ shown' = shown /\ lastId' = lastId
      /\ status' = status
  BY DEF InitCapture, agentVars
<1>2. /\ toChild' \in Seq(Nat) /\ Len(toChild') = Len(toChild) - 1
      /\ \A i \in 1..Len(toChild') : toChild'[i] = toChild[i + 1]
      /\ Len(toChild) \in Nat \ {0} /\ Head(toChild) = toChild[1]
  BY <1>1, HeadTailProperties, LenProperties, EmptySeq
<1>e. toChild' = <<>> <=> Len(toChild') = 0
  BY <1>2, EmptySeq
<1>3. CASE capture = "C"
  <2>1. instance' = toChild[1] /\ refused' = refused
    BY <1>2, <1>3 DEF InitCapture
  <2>2. QED
    BY <1>1, <1>2, <1>e, <2>1 DEF FollowsInv, LastOf
<1>4. CASE capture # "C"
  BY <1>1, <1>2, <1>4 DEF InitCapture, FollowsInv
<1>5. QED
  BY <1>3, <1>4

\* The thread of the screen closes the capture, or leaves it on the memory it has.
LEMMA ScreenKeeps ==
  ASSUME CaptureInv, UNCHANGED <<agentVars, toChild, refused>>,
         capture' = "C" \/ (instance' = instance /\ (capture' = capture \/ capture \in {"I", "O"}))
  PROVE  CaptureInv'
  BY DEF CaptureInv, FollowsInv, agentVars, LastOf

LEMMA StepCapture == CaptureInv /\ [CaptureNext]_captureVars => CaptureInv'
<1> SUFFICES ASSUME CaptureInv, [CaptureNext]_captureVars PROVE CaptureInv'
  OBVIOUS
<1>1. CASE Start
  BY <1>1 DEF Start, CaptureInv, FollowsInv, None
<1>2. CASE StartFails
  BY <1>2 DEF StartFails, CaptureInv, FollowsInv, screenVars
<1>3. CASE ReceiveMonitors
  BY <1>3, ReceiveKeeps
<1>4. CASE ReceiveError
  BY <1>4, DestroyKeeps DEF ReceiveError
<1>5. CASE AgentSeesEnd
  BY <1>5, DestroyKeeps DEF AgentSeesEnd
<1>6. CASE Destroy
  BY <1>6 DEF Destroy, CaptureInv, FollowsInv, screenVars
<1>7. CASE AgentEnds
  BY <1>7, DestroyKeeps DEF AgentEnds
<1>8. CASE InitCapture
  BY <1>8, InitCaptureKeeps
<1>9. CASE ScreenLoads
  BY <1>9, ScreenKeeps DEF ScreenLoads, ScreenRaises
<1>10. CASE ScreenAsksPermission
  BY <1>10, ScreenKeeps DEF ScreenAsksPermission
<1>11. CASE ScreenDetects
  BY <1>11, ScreenKeeps DEF ScreenDetects
<1>12. CASE ScreenReopens
  BY <1>12, ScreenKeeps DEF ScreenReopens
<1>13. CASE ScreenInits
  BY <1>13, ScreenKeeps DEF ScreenInits
<1>14. CASE ScreenFails
  BY <1>14, ScreenKeeps DEF ScreenFails, ScreenRaises
<1>15. CASE ScreenFindsGivenUp
  BY <1>15, ScreenKeeps DEF ScreenFindsGivenUp
<1>16. CASE Crash
  BY <1>16, ScreenKeeps DEF Crash, screenVars
<1>17. CASE UNCHANGED captureVars
  BY <1>17, ScreenKeeps DEF captureVars, screenVars
<1>18. QED
  BY <1>1, <1>2, <1>3, <1>4, <1>5, <1>6, <1>7, <1>8, <1>9, <1>10, <1>11, <1>12, <1>13,
     <1>14, <1>15, <1>16, <1>17 DEF CaptureNext

\* Whatever libraries and children fail, the open capture with no request to come works on
\* the memory the sessions see, as long as none was refused: a second change of the monitors
\* before the first was answered is, and is excluded.
THEOREM CaptureIsFollowed == CaptureSpec => []CaptureFollows
<1>1. CaptureInv => CaptureFollows
  BY DEF CaptureInv, FollowsInv, CaptureFollows
<1>2. QED
  BY <1>1, InitCaptureInv, StepCapture, PTL DEF CaptureSpec

-----------------------------------------------------------------------------
\* The sessions: a capture is numbered when it is started.
DeskInv ==
  /\ started \in Nat /\ current \in 0..started /\ living \subseteq 1..started
  /\ CaptureForSessions

\* A session that comes starts a capture if there is none, and so finds none that lives.
LEMMA AddKeeps == ASSUME DeskInv, NEW s \in Desk, Add(s) PROVE DeskInv'
<1>1. PICK c : c = IF current = NoCapture THEN started + 1 ELSE current
  OBVIOUS
<1>2. /\ strays' = strays
      /\ started' = IF current = NoCapture THEN started + 1 ELSE started
      /\ \/ current' = c /\ listed' # {} /\ living' \subseteq living \cup {c}
         \/ current' = NoCapture /\ living' = living \ {c}
  BY <1>1, Zenon DEF Add
<1>3. ASSUME NEW d \in living \ strays PROVE d = c
  BY <1>1, <1>3 DEF DeskInv, CaptureForSessions, NoCapture
<1>4. started' \in Nat /\ c \in 0..started' /\ started <= started'
  BY <1>1, <1>2 DEF DeskInv, NoCapture
<1>5. current' \in 0..started' /\ living' \subseteq 1..started'
  <2>1. c # 0
    BY <1>1 DEF DeskInv, NoCapture
  <2>2. living \subseteq 1..started'
    BY <1>4 DEF DeskInv
  <2>3. living' \subseteq living \cup {c}
    BY <1>2
  <2>4. QED
    BY <1>2, <1>4, <2>1, <2>2, <2>3 DEF NoCapture
<1>6. CaptureForSessions'
  BY <1>2, <1>3 DEF CaptureForSessions
<1>7. QED
  BY <1>4, <1>5, <1>6 DEF DeskInv

\* The last session that leaves destroys the current capture.
LEMMA LeaveKeeps == ASSUME DeskInv, NEW s \in Desk, Leave(s) PROVE DeskInv'
<1>1. /\ strays' = strays /\ started' = started /\ listed' = listed \ {s}
      /\ \/ current' = NoCapture /\ living' = living \ {current}
         \/ current' = current /\ living' = living /\ ~(listed = {s} /\ current # NoCapture)
  BY Zenon DEF Leave
<1>2. current' \in 0..started' /\ living' \subseteq 1..started' /\ started' \in Nat
  <2>1. living' \subseteq living
    BY <1>1
  <2>2. QED
    BY <1>1, <2>1 DEF DeskInv, NoCapture
<1>3. ASSUME NEW d \in living' \ strays' PROVE d = current' /\ listed' # {}
  <2>0. d \in living \ strays
    BY <1>1, <1>3
  <2>1. d = current /\ listed # {} /\ current # NoCapture
    BY <2>0 DEF DeskInv, CaptureForSessions, NoCapture
  <2>2. QED
    BY <1>1, <1>3, <2>1
<1>4. QED
  BY <1>2, <1>3 DEF DeskInv, CaptureForSessions

LEMMA StepDesk == DeskInv /\ [DeskNext]_deskVars => DeskInv'
<1> SUFFICES ASSUME DeskInv, [DeskNext]_deskVars PROVE DeskInv'
  OBVIOUS
<1> USE DEF DeskInv, CaptureForSessions, NoCapture
<1>1. ASSUME NEW s \in Desk, Add(s) PROVE DeskInv'
  BY <1>1, AddKeeps
<1>2. ASSUME NEW s \in Desk, Leave(s) PROVE DeskInv'
  BY <1>2, LeaveKeeps
<1>3. CASE CaptureEnds
  BY <1>3 DEF CaptureEnds
<1>4. CASE OnConnClose
  BY <1>4 DEF OnConnClose
<1>5. CASE DestroyBegins
  BY <1>5 DEF DestroyBegins
<1>6. CASE DestroySessions
  BY <1>6 DEF DestroySessions
<1>7. CASE DestroyCapture
  BY <1>7 DEF DestroyCapture
<1>8. CASE DestroyForgets
  BY <1>8 DEF DestroyForgets
<1>9. CASE UNCHANGED deskVars
  BY <1>9 DEF deskVars
<1>10. QED
  BY <1>1, <1>2, <1>3, <1>4, <1>5, <1>6, <1>7, <1>8, <1>9 DEF DeskNext

\* However many sessions come and leave while the app is unloaded, a capture that nobody
\* forgot is the current one and has sessions.
THEOREM CapturesServeSessions == DeskSpec => []CaptureForSessions
<1>1. DeskInit => DeskInv
  BY DEF DeskInit, DeskInv, CaptureForSessions, NoCapture
<1>2. DeskInv => CaptureForSessions
  BY DEF DeskInv
<1>3. QED
  BY <1>1, <1>2, StepDesk, PTL DEF DeskSpec
-----------------------------------------------------------------------------
(* The picture of the client (Screen)                                        *)

Images == Nat \cup {Nothing}
FrameTokens == [token : {"frame"}, monitor : Mon, image : Images, base : Images]
OtherTokens == [token : {"resolution", "locked", "unlocked", "next"},
                monitor : Mon \cup {All, Nothing}]
Tokens == FrameTokens \cup OtherTokens

Touches(t, m) == t.token = "resolution" \/ (t.token = "frame" /\ t.monitor = m)
Leaves(t) == IF t.token = "frame" THEN t.image ELSE Nothing

\* Once the first k of s are shown, a picture of m that was p is v.
ShownBy(s, k, m, p, v) ==
  \/ v = p /\ \A i \in 1..k : ~Touches(s[i], m)
  \/ \E i \in 1..k : /\ Touches(s[i], m) /\ v = Leaves(s[i])
                     /\ \A j \in (i + 1)..k : ~Touches(s[j], m)

\* What is under way, s, to a client with the pictures p: each frame is a difference to
\* what the client has by then, and b to what it has in the end, where c is viewed.
UnderWay(s, p, b, c) ==
  /\ s \in Seq(Tokens) /\ p \in [Mon -> Images] /\ b \in [Mon -> Images]
  /\ \A j \in 1..Len(s) : s[j].token = "frame" =>
       ShownBy(s, j - 1, s[j].monitor, p[s[j].monitor], s[j].base)
  /\ \A m \in Mon : c = All \/ c = m => ShownBy(s, Len(s), m, p[m], b[m])

\* What is sent later does not change what is shown before.
LEMMA ShownEarlier ==
  ASSUME NEW T, NEW s \in Seq(T), NEW f \in Seq(T), NEW k \in 0..Len(s),
         NEW m, NEW p, NEW v, ShownBy(s, k, m, p, v)
  PROVE  ShownBy(s \o f, k, m, p, v)
<1>1. \A i \in 1..k : (s \o f)[i] = s[i]
  BY ConcatProperties
<1> DEFINE e == s \o f
<1>2. \A i \in 1..k : e[i] = s[i]
  BY <1>1
<1> HIDE DEF e
<1>3. ShownBy(e, k, m, p, v)
  <2>1. CASE v = p /\ \A i \in 1..k : ~Touches(s[i], m)
    BY <2>1, <1>2 DEF ShownBy, Touches
  <2>2. CASE \E i \in 1..k : /\ Touches(s[i], m) /\ v = Leaves(s[i])
                             /\ \A j \in (i + 1)..k : ~Touches(s[j], m)
    <3>1. PICK i \in 1..k : /\ Touches(s[i], m) /\ v = Leaves(s[i])
                            /\ \A j \in (i + 1)..k : ~Touches(s[j], m)
      BY <2>2
    <3>2. \A j \in (i + 1)..k : j \in 1..k
      OBVIOUS
    <3>3. Touches(e[i], m) /\ v = Leaves(e[i])
      BY <3>1, <1>2 DEF Touches, Leaves
    <3>4. \A j \in (i + 1)..k : ~Touches(e[j], m)
      BY <3>1, <3>2, <1>2 DEF Touches
    <3> QED BY <3>3, <3>4 DEF ShownBy
  <2> QED BY <2>1, <2>2 DEF ShownBy
<1> QED BY <1>3 DEF e

\* What is sent and does not touch a monitor leaves its picture.
LEMMA ShownPast ==
  ASSUME NEW T, NEW s \in Seq(T), NEW f \in Seq(T), NEW k \in 0..Len(f),
         NEW m, NEW p, NEW v, ShownBy(s, Len(s), m, p, v),
         \A i \in 1..k : ~Touches(f[i], m)
  PROVE  ShownBy(s \o f, Len(s) + k, m, p, v)
<1> DEFINE e == s \o f
           L == Len(s)
<1>0. L \in Nat
  OBVIOUS
<1>1. /\ \A i \in 1..L : e[i] = s[i]
      /\ \A i \in 1..k : e[L + i] = f[i]
  BY ConcatProperties
<1>2. \A j \in (L + 1)..(L + k) : ~Touches(e[j], m)
  <2> TAKE j \in (L + 1)..(L + k)
  <2>1. j - L \in 1..k /\ j = L + (j - L)
    BY <1>0
  <2>2. e[j] = f[j - L]
    BY <2>1, <1>1
  <2> HIDE DEF e, L
  <2> QED BY <2>1, <2>2 DEF Touches
<1>s. ShownBy(s, L, m, p, v)
  OBVIOUS
<1> HIDE DEF e, L
<1>3. CASE v = p /\ \A i \in 1..L : ~Touches(s[i], m)
  <2>1. ASSUME NEW i \in 1..(L + k) PROVE ~Touches(e[i], m)
    <3>1. CASE i \in 1..L
      BY <3>1, <1>1, <1>3 DEF Touches
    <3>2. CASE i \in (L + 1)..(L + k)
      BY <3>2, <1>2
    <3> QED BY <3>1, <3>2, <1>0
  <2> QED BY <2>1, <1>3 DEF ShownBy, e, L
<1>4. CASE \E i \in 1..L : /\ Touches(s[i], m) /\ v = Leaves(s[i])
                           /\ \A j \in (i + 1)..L : ~Touches(s[j], m)
  <2>1. PICK i \in 1..L : /\ Touches(s[i], m) /\ v = Leaves(s[i])
                          /\ \A j \in (i + 1)..L : ~Touches(s[j], m)
    BY <1>4
  <2>2. i \in 1..(L + k) /\ Touches(e[i], m) /\ v = Leaves(e[i])
    BY <2>1, <1>0, <1>1 DEF Touches, Leaves
  <2>3. ASSUME NEW j \in (i + 1)..(L + k) PROVE ~Touches(e[j], m)
    <3>1. CASE j \in (i + 1)..L
      BY <3>1, <2>1, <1>0, <1>1 DEF Touches
    <3>2. CASE j \in (L + 1)..(L + k)
      BY <3>2, <1>2
    <3> QED BY <3>1, <3>2, <1>0
  <2> QED BY <2>2, <2>3 DEF ShownBy, e, L
<1> QED BY <1>s, <1>3, <1>4 DEF ShownBy

\* The last that touches a monitor decides its picture.
LEMMA ShownLast ==
  ASSUME NEW T, NEW s \in Seq(T), NEW f \in Seq(T), NEW i \in 1..Len(f), NEW m, NEW p,
         Touches(f[i], m), \A j \in (i + 1)..Len(f) : ~Touches(f[j], m)
  PROVE  ShownBy(s \o f, Len(s \o f), m, p, Leaves(f[i]))
<1> DEFINE e == s \o f
           L == Len(s)
           F == Len(f)
<1>0. L \in Nat /\ F \in Nat /\ Len(e) = L + F /\ i \in 1..F
  BY ConcatProperties
<1>1. \A j \in 1..F : e[L + j] = f[j]
  BY ConcatProperties
<1>n. \A j \in (i + 1)..F : ~Touches(f[j], m)
  OBVIOUS
<1> HIDE DEF e, L, F
<1>2. L + i \in 1..(L + F) /\ Touches(e[L + i], m) /\ Leaves(e[L + i]) = Leaves(f[i])
  BY <1>0, <1>1 DEF Touches, Leaves
<1>3. ASSUME NEW j \in (L + i + 1)..(L + F) PROVE ~Touches(e[j], m)
  <2>1. j - L \in (i + 1)..F /\ j - L \in 1..F /\ j = L + (j - L)
    BY <1>0
  <2>2. e[j] = f[j - L]
    BY <2>1, <1>1
  <2> QED BY <2>1, <2>2, <1>n DEF Touches
<1>4. ShownBy(e, L + F, m, p, Leaves(f[i]))
  BY <1>2, <1>3 DEF ShownBy
<1> QED BY <1>0, <1>4 DEF e

\* What the client shows, it shows as it was to be shown.
LEMMA ShownTail ==
  ASSUME NEW T, NEW s \in Seq(T), s # <<>>, NEW k \in 1..Len(s), NEW m, NEW p, NEW v,
         ShownBy(s, k, m, p, v)
  PROVE  ShownBy(Tail(s), k - 1, m, IF Touches(s[1], m) THEN Leaves(s[1]) ELSE p, v)
<1> DEFINE e == Tail(s)
           q == IF Touches(s[1], m) THEN Leaves(s[1]) ELSE p
<1>1. \A j \in 1..(k - 1) : e[j] = s[j + 1]
  BY HeadTailProperties
<1> HIDE DEF e
<1>2. CASE v = p /\ \A i \in 1..k : ~Touches(s[i], m)
  <2>1. v = q
    BY <1>2
  <2>2. ASSUME NEW j \in 1..(k - 1) PROVE ~Touches(e[j], m)
    <3>1. j + 1 \in 1..k /\ e[j] = s[j + 1]
      BY <1>1
    <3> QED BY <3>1, <1>2 DEF Touches
  <2> QED BY <2>1, <2>2 DEF ShownBy, e
<1>3. CASE \E i \in 1..k : /\ Touches(s[i], m) /\ v = Leaves(s[i])
                           /\ \A j \in (i + 1)..k : ~Touches(s[j], m)
  <2>1. PICK i \in 1..k : /\ Touches(s[i], m) /\ v = Leaves(s[i])
                          /\ \A j \in (i + 1)..k : ~Touches(s[j], m)
    BY <1>3
  <2>2. ASSUME NEW j \in i..(k - 1) PROVE ~Touches(e[j], m)
    <3>1. j + 1 \in (i + 1)..k /\ e[j] = s[j + 1]
      BY <1>1
    <3> QED BY <3>1, <2>1 DEF Touches
  <2>3. CASE i = 1
    <3>1. v = q
      BY <2>1, <2>3
    <3>2. \A j \in 1..(k - 1) : ~Touches(e[j], m)
      BY <2>2, <2>3
    <3> QED BY <3>1, <3>2 DEF ShownBy, e
  <2>4. CASE i # 1
    <3>1. i - 1 \in 1..(k - 1) /\ e[i - 1] = s[i]
      BY <1>1, <2>4
    <3>2. Touches(e[i - 1], m) /\ v = Leaves(e[i - 1])
      BY <3>1, <2>1 DEF Touches, Leaves
    <3>3. \A j \in ((i - 1) + 1)..(k - 1) : ~Touches(e[j], m)
      BY <2>2
    <3> QED BY <3>1, <3>2, <3>3 DEF ShownBy, e
  <2> QED BY <2>3, <2>4
<1> QED BY <1>2, <1>3 DEF ShownBy

\* A lock or an end that is said leaves the pictures.
LEMMA SayKeeps ==
  ASSUME NEW s, NEW p, NEW b, NEW c, UnderWay(s, p, b, c),
         NEW t \in OtherTokens, t.token # "resolution"
  PROVE  UnderWay(s \o <<t>>, p, b, c)
<1> DEFINE e == s \o <<t>>
<1>1. s \in Seq(Tokens) /\ <<t>> \in Seq(Tokens) /\ t.token # "frame"
  BY DEF UnderWay, Tokens, OtherTokens
<1>2. /\ e \in Seq(Tokens) /\ Len(e) = Len(s) + 1
      /\ \A j \in 1..Len(s) : e[j] = s[j]
      /\ e[Len(s) + 1] = t
  BY <1>1, ConcatProperties
<1>3. ASSUME NEW j \in 1..Len(e), e[j].token = "frame"
      PROVE  ShownBy(e, j - 1, e[j].monitor, p[e[j].monitor], e[j].base)
  <2>1. j \in 1..Len(s) /\ e[j] = s[j]
    BY <1>1, <1>2, <1>3
  <2>2. ShownBy(s, j - 1, s[j].monitor, p[s[j].monitor], s[j].base)
    BY <2>1, <1>3 DEF UnderWay
  <2>3. j - 1 \in 0..Len(s)
    BY <2>1, <1>1
  <2> QED BY <2>1, <2>2, <2>3, <1>1, ShownEarlier
<1>4. ASSUME NEW m \in Mon, c = All \/ c = m
      PROVE  ShownBy(e, Len(e), m, p[m], b[m])
  <2>1. ShownBy(s, Len(s), m, p[m], b[m])
    BY <1>4 DEF UnderWay
  <2>2. \A i \in 1..1 : ~Touches(<<t>>[i], m)
    BY <1>1 DEF Touches
  <2>3. 1 \in 0..Len(<<t>>)
    OBVIOUS
  <2>4. ShownBy(e, Len(s) + 1, m, p[m], b[m])
    BY <2>1, <2>2, <2>3, <1>1, ShownPast
  <2> QED BY <2>4, <1>2
<1> QED BY <1>2, <1>3, <1>4 DEF UnderWay

\* A resolution begins every picture again.
LEMMA ViewKeeps ==
  ASSUME NEW s, NEW p, NEW b, NEW c, UnderWay(s, p, b, c),
         NEW t \in OtherTokens, t.token = "resolution",
         NEW d, NEW b2 \in [Mon -> Images],
         \A m \in Mon : d = All \/ d = m => b2[m] = Nothing
  PROVE  UnderWay(s \o <<t>>, p, b2, d)
<1> DEFINE e == s \o <<t>>
<1>1. s \in Seq(Tokens) /\ <<t>> \in Seq(Tokens) /\ t.token # "frame" /\ p \in [Mon -> Images]
  BY DEF UnderWay, Tokens, OtherTokens
<1>2. /\ e \in Seq(Tokens) /\ Len(e) = Len(s) + 1
      /\ \A j \in 1..Len(s) : e[j] = s[j]
      /\ e[Len(s) + 1] = t
  BY <1>1, ConcatProperties
<1>3. ASSUME NEW j \in 1..Len(e), e[j].token = "frame"
      PROVE  ShownBy(e, j - 1, e[j].monitor, p[e[j].monitor], e[j].base)
  <2>1. j \in 1..Len(s) /\ e[j] = s[j]
    BY <1>1, <1>2, <1>3
  <2>2. ShownBy(s, j - 1, s[j].monitor, p[s[j].monitor], s[j].base)
    BY <2>1, <1>3 DEF UnderWay
  <2>3. j - 1 \in 0..Len(s)
    BY <2>1, <1>1
  <2> QED BY <2>1, <2>2, <2>3, <1>1, ShownEarlier
<1>4. ASSUME NEW m \in Mon, d = All \/ d = m
      PROVE  ShownBy(e, Len(e), m, p[m], b2[m])
  <2>1. Touches(<<t>>[1], m) /\ Leaves(<<t>>[1]) = b2[m]
    BY <1>1, <1>4 DEF Touches, Leaves
  <2>2. 1 \in 1..Len(<<t>>) /\ \A i \in (1 + 1)..Len(<<t>>) : ~Touches(<<t>>[i], m)
    OBVIOUS
  <2>3. ShownBy(e, Len(e), m, p[m], Leaves(<<t>>[1]))
    BY <2>1, <2>2, <1>1, ShownLast
  <2> QED BY <2>1, <2>3
<1> QED BY <1>1, <1>2, <1>3, <1>4 DEF UnderWay

\* f are the differences of the images im to b, of the monitors ms in the order o.
Differences(f, n, o, ms, im, b) ==
  /\ n \in Nat /\ ms \in SUBSET Mon /\ o \in [1..n -> ms] /\ im \in [Mon -> Images]
  /\ \A i, j \in 1..n : i # j => o[i] # o[j]
  /\ \A m \in ms : \E i \in 1..n : o[i] = m
  /\ f \in Seq(Tokens) /\ Len(f) = n
  /\ \A i \in 1..n : /\ f[i].token = "frame" /\ f[i].monitor = o[i]
                     /\ f[i].image = im[o[i]] /\ f[i].base = b[o[i]]

\* The elements of two sequences, one after the other.
LEMMA Joined ==
  ASSUME NEW T, NEW s \in Seq(T), NEW f \in Seq(T)
  PROVE  /\ s \o f \in Seq(T) /\ Len(s \o f) = Len(s) + Len(f)
         /\ \A j \in 1..Len(s) : (s \o f)[j] = s[j]
         /\ \A i \in 1..Len(f) : (s \o f)[Len(s) + i] = f[i]
  BY ConcatProperties

\* Differences to the last images encoded are differences to what the client has by then.
LEMMA FramesKeep ==
  ASSUME NEW s, NEW p, NEW b, NEW c, UnderWay(s, p, b, c),
         NEW f, NEW n, NEW o, NEW ms, NEW im, Differences(f, n, o, ms, im, b),
         \A m \in ms : c = All \/ c = m,
         NEW b2 \in [Mon -> Images],
         \A m \in Mon : b2[m] = IF m \in ms THEN im[m] ELSE b[m]
  PROVE  UnderWay(s \o f, p, b2, c)
<1> DEFINE e == s \o f
<1>1. /\ s \in Seq(Tokens) /\ p \in [Mon -> Images] /\ b \in [Mon -> Images]
      /\ Len(s) \in Nat
  BY DEF UnderWay
<1>d. \A i, j \in 1..n : i # j => o[i] # o[j]
  BY DEF Differences
<1>n. n \in Nat /\ ms \in SUBSET Mon /\ o \in [1..n -> ms] /\ im \in [Mon -> Images]
  BY DEF Differences
<1>o. \A m \in ms : \E i \in 1..n : o[i] = m
  BY DEF Differences
<1>f. /\ f \in Seq(Tokens) /\ Len(f) = n
      /\ \A i \in 1..n : /\ f[i].token = "frame" /\ f[i].monitor = o[i]
                         /\ f[i].image = im[o[i]] /\ f[i].base = b[o[i]]
  BY DEF Differences
<1>2. /\ e \in Seq(Tokens) /\ Len(e) = Len(s) + n
      /\ \A j \in 1..Len(s) : e[j] = s[j]
      /\ \A i \in 1..n : e[Len(s) + i] = f[i]
  <2>1. /\ e \in Seq(Tokens) /\ Len(e) = Len(s) + Len(f)
        /\ \A j \in 1..Len(s) : e[j] = s[j]
        /\ \A i \in 1..Len(f) : e[Len(s) + i] = f[i]
    <3>1. s \in Seq(Tokens) /\ f \in Seq(Tokens)
      BY <1>1, <1>f
    <3> QED BY <3>1, Joined
  <2> QED BY <2>1, <1>f
<1>3. ASSUME NEW j \in 1..Len(e), e[j].token = "frame"
      PROVE  ShownBy(e, j - 1, e[j].monitor, p[e[j].monitor], e[j].base)
  <2>1. CASE j \in 1..Len(s)
    <3>1. e[j] = s[j]
      BY <2>1, <1>2
    <3>2. ShownBy(s, j - 1, s[j].monitor, p[s[j].monitor], s[j].base)
      BY <2>1, <3>1, <1>3 DEF UnderWay
    <3>3. j - 1 \in 0..Len(s)
      BY <2>1, <1>1
    <3> QED BY <3>1, <3>2, <3>3, <1>1, <1>f, ShownEarlier
  <2>2. CASE j \notin 1..Len(s)
    <3>1. PICK i \in 1..n : j = Len(s) + i
      <4>1. j - Len(s) \in 1..n /\ j = Len(s) + (j - Len(s))
        BY <2>2, <1>1, <1>2, <1>n
      <4> QED BY <4>1
    <3>2. e[j].monitor = o[i] /\ e[j].base = b[o[i]] /\ o[i] \in Mon
      BY <3>1, <1>2, <1>f, <1>n
    <3>3. ShownBy(s, Len(s), o[i], p[o[i]], b[o[i]])
      <4>1. o[i] \in ms
        BY <1>n
      <4> QED BY <3>2, <4>1 DEF UnderWay
    <3>4. i - 1 \in 0..Len(f) /\ j - 1 = Len(s) + (i - 1)
      BY <3>1, <1>1, <1>f, <1>n
    <3>5. ASSUME NEW k \in 1..(i - 1) PROVE ~Touches(f[k], o[i])
      <4>1. k \in 1..n /\ k # i
        BY <1>n
      <4>2. o[k] # o[i] /\ f[k].token = "frame" /\ f[k].monitor = o[k]
        BY <4>1, <1>d, <1>f
      <4> QED BY <4>2 DEF Touches
    <3>6. ShownBy(e, Len(s) + (i - 1), o[i], p[o[i]], b[o[i]])
      BY <3>3, <3>4, <3>5, <1>1, <1>f, ShownPast
    <3> QED BY <3>2, <3>4, <3>6
  <2> QED BY <2>1, <2>2
<1>4. ASSUME NEW m \in Mon, c = All \/ c = m
      PROVE  ShownBy(e, Len(e), m, p[m], b2[m])
  <2>1. CASE m \in ms
    <3>1. PICK i \in 1..n : o[i] = m
      BY <2>1, <1>o
    <3>2. Touches(f[i], m) /\ Leaves(f[i]) = b2[m]
      BY <2>1, <3>1, <1>f DEF Touches, Leaves
    <3>3. ASSUME NEW k \in (i + 1)..Len(f) PROVE ~Touches(f[k], m)
      <4>1. k \in 1..n /\ k # i
        BY <1>f, <1>n
      <4>2. o[k] # m /\ f[k].token = "frame" /\ f[k].monitor = o[k]
        BY <4>1, <3>1, <1>d, <1>f
      <4> QED BY <4>2 DEF Touches
    <3>4. i \in 1..Len(f)
      BY <1>f
    <3>5. ShownBy(e, Len(e), m, p[m], Leaves(f[i]))
      BY <3>2, <3>3, <3>4, <1>1, <1>f, ShownLast
    <3> QED BY <3>2, <3>5
  <2>2. CASE m \notin ms
    <3>1. ShownBy(s, Len(s), m, p[m], b[m]) /\ b2[m] = b[m]
      BY <2>2, <1>4 DEF UnderWay
    <3>2. ASSUME NEW k \in 1..n PROVE ~Touches(f[k], m)
      BY <2>2, <1>f, <1>n DEF Touches
    <3>3. n \in 0..Len(f)
      BY <1>f, <1>n
    <3>4. ShownBy(e, Len(s) + n, m, p[m], b[m])
      BY <3>1, <3>2, <3>3, <1>1, <1>f, ShownPast
    <3> QED BY <3>1, <3>4, <1>2
  <2> QED BY <2>1, <2>2
<1> QED BY <1>1, <1>2, <1>3, <1>4 DEF UnderWay

\* What the client shows, it has.
LEMMA ShowKeeps ==
  ASSUME NEW s, NEW p, NEW b, NEW c, UnderWay(s, p, b, c), s # <<>>,
         NEW q \in [Mon -> Images],
         \A m \in Mon : q[m] = IF Touches(s[1], m) THEN Leaves(s[1]) ELSE p[m]
  PROVE  UnderWay(Tail(s), q, b, c)
<1> DEFINE e == Tail(s)
<1>1. s \in Seq(Tokens) /\ b \in [Mon -> Images] /\ Len(s) \in Nat \ {0}
  BY DEF UnderWay
<1>2. /\ e \in Seq(Tokens) /\ Len(e) = Len(s) - 1
      /\ \A j \in 1..Len(e) : e[j] = s[j + 1]
  BY <1>1, HeadTailProperties
<1>3. ASSUME NEW j \in 1..Len(e), e[j].token = "frame"
      PROVE  ShownBy(e, j - 1, e[j].monitor, q[e[j].monitor], e[j].base)
  <2>1. j + 1 \in 1..Len(s) /\ e[j] = s[j + 1] /\ j \in 1..Len(s)
    BY <1>1, <1>2
  <2>2. s[j + 1] \in Tokens /\ s[j + 1].token = "frame"
    BY <2>1, <1>1, <1>3
  <2>3. s[j + 1].monitor \in Mon
    BY <2>2 DEF Tokens, FrameTokens, OtherTokens
  <2>4. ShownBy(s, (j + 1) - 1, s[j + 1].monitor, p[s[j + 1].monitor], s[j + 1].base)
    BY <2>1, <2>2 DEF UnderWay
  <2>5. (j + 1) - 1 = j
    OBVIOUS
  <2>6. ShownBy(s, j, s[j + 1].monitor, p[s[j + 1].monitor], s[j + 1].base)
    BY <2>4, <2>5
  <2>7. ShownBy(e, j - 1, s[j + 1].monitor,
                IF Touches(s[1], s[j + 1].monitor) THEN Leaves(s[1]) ELSE p[s[j + 1].monitor],
                s[j + 1].base)
    BY <2>1, <2>6, <1>1, ShownTail
  <2> QED BY <2>1, <2>3, <2>7
<1>4. ASSUME NEW m \in Mon, c = All \/ c = m
      PROVE  ShownBy(e, Len(e), m, q[m], b[m])
  <2>1. ShownBy(s, Len(s), m, p[m], b[m])
    BY <1>4 DEF UnderWay
  <2>2. Len(s) \in 1..Len(s)
    BY <1>1
  <2>3. ShownBy(e, Len(s) - 1, m, IF Touches(s[1], m) THEN Leaves(s[1]) ELSE p[m], b[m])
    BY <2>1, <2>2, <1>1, ShownTail
  <2> QED BY <2>3, <1>2
<1> QED BY <1>1, <1>2, <1>3, <1>4 DEF UnderWay

Slots == [st : {"-", "K", "P", "E"}, id : Int, image : Images]
Views == Mon \cup {All}

\* What is under way is made of differences to what the client will have by then.
PictureInv ==
  /\ displayed \in [Mon -> Nat] /\ slots \in [Mon -> Slots] /\ capid \in [Mon -> Int]
  /\ wanted \in Views /\ cur \in Views \cup {Nothing}
  /\ asked # <<>> => Head(asked).monitor \in Views
  /\ encoder \in {"begun", "wait", "served"} => cur \in Views
  /\ UnderWay(out, picture, base, cur)

\* These steps leave what is under way and what it is based on.
LEMMA EventsKeep ==
  ASSUME PictureInv, ScreenChanges \/ PermissionChanges \/ MonitorsFound \/ BeginRound
                       \/ GivenUpSeen \/ Skipped \/ SkippedFirst
  PROVE  PictureInv'
<1> USE DEF PictureInv, sourceVars, grabVars, sessionVars, encVars, clientVars
<1>1. CASE ScreenChanges
  <2>1. PICK m \in Mon : displayed' = [displayed EXCEPT ![m] = @ + 1]
    BY <1>1 DEF ScreenChanges
  <2>2. displayed' \in [Mon -> Nat]
    BY <2>1
  <2> QED BY <1>1, <2>2 DEF ScreenChanges
<1>2. CASE PermissionChanges
  BY <1>2 DEF PermissionChanges
<1>3. CASE MonitorsFound
  <2>1. slots' \in [Mon -> Slots] /\ capid' \in [Mon -> Int]
    BY <1>3 DEF MonitorsFound, Empty, Slots, Images
  <2> QED BY <1>3, <2>1 DEF MonitorsFound
<1>4. CASE BeginRound
  BY <1>4 DEF BeginRound
<1>5. CASE GivenUpSeen
  BY <1>5 DEF GivenUpSeen
<1>6. CASE Skipped
  BY <1>6 DEF Skipped
<1>7. CASE SkippedFirst
  BY <1>7 DEF SkippedFirst
<1> QED BY <1>1, <1>2, <1>3, <1>4, <1>5, <1>6, <1>7

\* The memory holds an image for each monitor, or none.
LEMMA GetImageKeeps == ASSUME PictureInv, GetImage PROVE PictureInv'
<1>1. /\ turn \in Mon
      /\ UNCHANGED <<displayed, wanted, cur, asked, encoder, out, picture, base>>
  BY DEF GetImage, sessionVars, encVars, clientVars
<1>2. /\ displayed \in [Mon -> Nat] /\ slots \in [Mon -> Slots] /\ capid \in [Mon -> Int]
      /\ slots[turn] \in Slots
  BY <1>1 DEF PictureInv
<1>3. slots' \in [Mon -> Slots] /\ capid' \in [Mon -> Int]
  <2>1. CASE /\ capid' = [capid EXCEPT ![turn] = @ + 1]
             /\ slots' = [slots EXCEPT ![turn] =
                            [st |-> "K", id |-> capid[turn] + 1, image |-> displayed[turn]]]
    <3>1. [st |-> "K", id |-> capid[turn] + 1, image |-> displayed[turn]] \in Slots
      BY <1>1, <1>2 DEF Slots, Images
    <3> QED BY <2>1, <1>1, <1>2, <3>1
  <2>2. CASE UNCHANGED <<capid, slots>>
    BY <2>2, <1>2
  <2>3. ASSUME NEW t \in {"E", "P"}, slots' = [slots EXCEPT ![turn].st = t], UNCHANGED capid
        PROVE  slots' \in [Mon -> Slots] /\ capid' \in [Mon -> Int]
    <3>1. [slots[turn] EXCEPT !.st = t] \in Slots
      BY <1>2 DEF Slots
    <3> QED BY <2>3, <1>1, <1>2, <3>1
  <2> QED BY <2>1, <2>2, <2>3 DEF GetImage
<1> QED BY <1>1, <1>3 DEF PictureInv

\* A request is for a view.
LEMMA AskKeeps == ASSUME PictureInv, Switch \/ Ask PROVE PictureInv'
<1>1. CASE Switch
  BY <1>1 DEF Switch, PictureInv, Views, grabVars, encVars, clientVars
<1>2. CASE Ask
  <2>1. Head(asked') = [monitor |-> wanted, memory |-> memory]
    BY <1>2 DEF Ask
  <2> QED BY <1>2, <2>1 DEF Ask, PictureInv, sourceVars, grabVars, encVars, clientVars
<1> QED BY <1>1, <1>2

\* The end of a request.
LEMMA ServedKeeps == ASSUME PictureInv, Served PROVE PictureInv'
<1>1. /\ UNCHANGED <<displayed, slots, capid, wanted, cur, asked, picture, base>>
      /\ encoder' = "idle" /\ out' = Append(out, [token |-> "next", monitor |-> cur])
  BY DEF Served, sourceVars, grabVars, sessionVars, encVars, clientVars
<1>2. [token |-> "next", monitor |-> cur] \in OtherTokens
  BY DEF PictureInv, Views, OtherTokens
<1>3. out \in Seq(Tokens)
  BY DEF PictureInv, UnderWay
<1>4. out' = out \o <<[token |-> "next", monitor |-> cur]>>
  BY <1>1, <1>3
<1>5. UnderWay(out', picture, base, cur)
  <2>1. UnderWay(out, picture, base, cur)
    BY DEF PictureInv
  <2> QED BY <2>1, <1>2, <1>4, SayKeeps
<1> QED BY <1>1, <1>5 DEF PictureInv

\* Another view or another memory: the encoder and the client begin again.
LEMMA BeginKeeps == ASSUME PictureInv, Begin PROVE PictureInv'
<1> DEFINE r == Head(asked)
           t == [token |-> "resolution", monitor |-> r.monitor]
<1>1. /\ UNCHANGED <<displayed, slots, capid, wanted, picture>>
      /\ asked # <<>> /\ encoder' = "begun" /\ asked' = <<>> /\ cur' = r.monitor
  BY DEF Begin, sourceVars, grabVars, clientVars
<1>2. cur' \in Views
  BY <1>1 DEF PictureInv
<1>3. UnderWay(out, picture, base, cur)
  BY DEF PictureInv
<1>4. UnderWay(out', picture, base', cur')
  <2>1. CASE r.memory # has \/ r.monitor # cur
    <3>1. ViewChanged(r.monitor, Encoded(r)) /\ out' = Append(out, t)
      BY <2>1 DEF Begin
    <3>2. Encoded(r) \in [Mon -> Images]
      BY <1>3 DEF Encoded, Blank, Images, UnderWay
    <3>3. base' \in [Mon -> Images]
      BY <3>1, <3>2 DEF ViewChanged, Images
    <3>4. \A m \in Mon : r.monitor = All \/ r.monitor = m => base'[m] = Nothing
      BY <3>1 DEF ViewChanged, Viewed
    <3>5. t \in OtherTokens /\ t.token = "resolution"
      BY <1>1, <1>2 DEF OtherTokens, Views
    <3>6. out' = out \o <<t>>
      <4>1. out \in Seq(Tokens)
        BY <1>3 DEF UnderWay
      <4> QED BY <3>1, <4>1
    <3>7. UnderWay(out \o <<t>>, picture, base', r.monitor)
      BY <1>3, <3>3, <3>4, <3>5, ViewKeeps
    <3> QED BY <3>6, <3>7, <1>1
  <2>2. CASE ~(r.memory # has \/ r.monitor # cur)
    <3>1. base' = base /\ out' = out /\ cur' = cur
      BY <2>2, <1>1 DEF Begin
    <3> QED BY <3>1, <1>3
  <2> QED BY <2>1, <2>2
<1> QED BY <1>1, <1>2, <1>4 DEF PictureInv

\* What the library gives brings the client to the images of the memory.
LEMMA FramesGiven ==
  ASSUME NEW s, UnderWay(s, picture, base, cur), slots \in [Mon -> Slots],
         NEW ms \in SUBSET Mon, \A m \in ms : cur = All \/ cur = m,
         NEW f \in Frames(ms), NEW b \in [Mon -> Images],
         \A m \in Mon : b[m] = IF m \in ms THEN slots[m].image ELSE base[m]
  PROVE  UnderWay(s \o f, picture, b, cur)
<1> DEFINE cs == {m \in ms : slots[m].image # base[m]}
           im == [m \in Mon |-> slots[m].image]
<1>1. PICK o \in Ordered(cs) : f = [i \in DOMAIN o |-> Frame(o[i])]
  BY DEF Frames
<1>2. PICK n \in 0..Monitors : /\ o \in [1..n -> cs]
                               /\ \A i, j \in 1..n : i < j => o[i] < o[j]
                               /\ \A m \in cs : \E i \in 1..n : o[i] = m
  BY DEF Ordered
<1>3. n \in Nat /\ cs \in SUBSET Mon /\ \A m \in cs : cur = All \/ cur = m
  BY ScreenAssumption
<1>4. im \in [Mon -> Images]
  BY DEF Slots
<1>5. /\ f \in Seq(Tokens) /\ Len(f) = n
      /\ \A i \in 1..n : /\ f[i].token = "frame" /\ f[i].monitor = o[i]
                         /\ f[i].image = im[o[i]] /\ f[i].base = base[o[i]]
  <2>1. \A i \in 1..n : o[i] \in Mon
    BY <1>2
  <2>2. f = [i \in 1..n |-> Frame(o[i])]
    BY <1>1, <1>2
  <2>3. \A i \in 1..n : Frame(o[i]) \in Tokens
    BY <2>1, <1>4 DEF Frame, Tokens, FrameTokens, UnderWay
  <2>4. f \in [1..n -> Tokens]
    BY <2>2, <2>3
  <2>5. f \in Seq(Tokens) /\ Len(f) = n
    BY <2>4, <1>3
  <2> QED BY <2>1, <2>2, <2>5 DEF Frame
<1>6. \A m \in Mon : b[m] = IF m \in cs THEN im[m] ELSE base[m]
  OBVIOUS
<1>7. o \in [1..n -> cs] /\ \A m \in cs : \E i \in 1..n : o[i] = m
  BY <1>2
<1>8. ASSUME NEW i \in 1..n, NEW j \in 1..n, i # j PROVE o[i] # o[j]
  <2>1. o[i] \in Mon /\ o[j] \in Mon
    BY <1>7
  <2>2. o[i] \in Int /\ o[j] \in Int
    BY <2>1, ScreenAssumption DEF Mon
  <2>3. i < j \/ j < i
    BY <1>8
  <2> QED BY <1>2, <2>2, <2>3
<1>9. Differences(f, n, o, cs, im, base)
  BY <1>3, <1>4, <1>5, <1>7, <1>8 DEF Differences
<1> HIDE DEF cs, im
<1> QED BY <1>3, <1>6, <1>9, FramesKeep

\* The end or the beginning of a lock, if it is said.
LEMMA SaidKeeps ==
  ASSUME UnderWay(out, picture, base, cur), cur \in Views,
         NEW x, x = <<>> \/ x = Token("locked") \/ x = Token("unlocked")
  PROVE  UnderWay(out \o x, picture, base, cur)
<1>1. CASE x = <<>>
  <2>1. out \in Seq(Tokens)
    BY DEF UnderWay
  <2>2. out \o x = out
    BY <1>1, <2>1
  <2> QED BY <2>2
<1>2. ASSUME NEW w \in {"locked", "unlocked"}, x = Token(w)
      PROVE  UnderWay(out \o x, picture, base, cur)
  <2> DEFINE t == [token |-> w, monitor |-> cur]
  <2>1. t \in OtherTokens /\ t.token # "resolution" /\ x = <<t>>
    BY <1>2 DEF OtherTokens, Views, Token
  <2> QED BY <2>1, SayKeeps
<1> QED BY <1>1, <1>2

\* One monitor.
LEMMA SingleKeeps == ASSUME PictureInv, Single PROVE PictureInv'
<1> DEFINE c == slots[cur]
           new == c.st = "K" /\ c.id # curid[cur]
           ms == IF new THEN {cur} ELSE {}
           x == IF c.st = "K" /\ curst[cur] = "P" THEN Token("unlocked")
                ELSE IF c.st = "P" /\ curst[cur] # "P" THEN Token("locked") ELSE <<>>
<1>1. /\ UNCHANGED <<displayed, slots, capid, wanted, cur, asked, picture>>
      /\ cur \in Mon /\ encoder \in {"begun", "wait"}
  BY DEF Single, Looks, PictureInv, Views, sourceVars, grabVars, sessionVars, clientVars
<1>2. base' = IF new THEN [base EXCEPT ![cur] = c.image] ELSE base
  BY DEF Single
<1>3. PICK f \in Frames(ms) : out' = out \o x \o f
  BY DEF Single
<1>4. /\ UnderWay(out, picture, base, cur) /\ slots \in [Mon -> Slots] /\ cur \in Views
      /\ base \in [Mon -> Images]
  BY <1>1 DEF PictureInv, Views, UnderWay
<1>5. /\ base' \in [Mon -> Images] /\ ms \in SUBSET Mon /\ \A m \in ms : cur = m
      /\ \A m \in Mon : base'[m] = IF m \in ms THEN slots[m].image ELSE base[m]
  <2>1. c.image \in Images
    BY <1>1, <1>4 DEF Slots
  <2> QED BY <2>1, <1>1, <1>2, <1>4
<1>6. x = <<>> \/ x = Token("locked") \/ x = Token("unlocked")
  OBVIOUS
<1> HIDE DEF x, ms
<1>7. UnderWay(out \o x, picture, base, cur)
  BY <1>4, <1>6, SaidKeeps
<1>8. UnderWay((out \o x) \o f, picture, base', cur)
  BY <1>3, <1>4, <1>5, <1>7, FramesGiven
<1> QED BY <1>1, <1>3, <1>4, <1>8 DEF PictureInv

\* All the monitors.
LEMMA MultiKeeps == ASSUME PictureInv, Multi PROVE PictureInv'
<1> DEFINE seen == {m \in Mon : \A k \in 1..m : slots[k].st # "P"}
           new == {m \in seen : slots[m].st = "K" /\ slots[m].id # curid[m]}
           st == IF seen = Mon THEN "K" ELSE "P"
           x == IF st = "P" /\ curst[All] # "P" THEN Token("locked") ELSE <<>>
<1>1. /\ UNCHANGED <<displayed, slots, capid, wanted, cur, asked, picture>>
      /\ cur = All /\ encoder \in {"begun", "wait"}
  BY DEF Multi, Looks, sourceVars, grabVars, sessionVars, clientVars
<1>2. base' = [m \in Mon |-> IF m \in new THEN slots[m].image ELSE base[m]]
  BY DEF Multi
<1>3. PICK f \in Frames(new) : out' = out \o x \o f
  BY DEF Multi
<1>4. /\ UnderWay(out, picture, base, cur) /\ slots \in [Mon -> Slots] /\ cur \in Views
      /\ base \in [Mon -> Images]
  BY <1>1 DEF PictureInv, Views, UnderWay
<1>5. new \in SUBSET Mon
  OBVIOUS
<1>6. x = <<>> \/ x = Token("locked") \/ x = Token("unlocked")
  OBVIOUS
<1> HIDE DEF x, new
<1>7. /\ base' \in [Mon -> Images]
      /\ \A m \in Mon : base'[m] = IF m \in new THEN slots[m].image ELSE base[m]
  <2>1. \A m \in Mon : slots[m].image \in Images
    BY <1>4 DEF Slots
  <2> QED BY <2>1, <1>2, <1>4
<1>8. UnderWay(out \o x, picture, base, cur)
  BY <1>4, <1>6, SaidKeeps
<1>9. UnderWay((out \o x) \o f, picture, base', cur)
  BY <1>1, <1>3, <1>4, <1>5, <1>7, <1>8, FramesGiven
<1> QED BY <1>1, <1>3, <1>4, <1>9 DEF PictureInv

\* The client finds each difference based on the picture it has.
LEMMA ShowsKeep == ASSUME PictureInv, Show PROVE PictureInv'
<1> DEFINE t == Head(out)
<1>1. /\ UNCHANGED <<displayed, slots, capid, wanted, cur, asked, base, encoder>>
      /\ out # <<>> /\ out' = Tail(out)
  BY DEF Show, sourceVars, grabVars, encVars
<1>2. /\ UnderWay(out, picture, base, cur) /\ out \in Seq(Tokens)
      /\ picture \in [Mon -> Images] /\ base \in [Mon -> Images]
  BY DEF PictureInv, UnderWay
<1>3. t = out[1] /\ t \in Tokens /\ 1 \in 1..Len(out)
  BY <1>1, <1>2
<1>4. /\ picture' \in [Mon -> Images]
      /\ \A m \in Mon : picture'[m] = IF Touches(t, m) THEN Leaves(t) ELSE picture[m]
  <2>1. CASE t.token = "resolution"
    <3>1. picture' = Blank
      BY <2>1 DEF Show
    <3> QED BY <2>1, <3>1 DEF Blank, Images, Touches, Leaves
  <2>2. CASE t.token = "frame"
    <3>1. t.monitor \in Mon /\ t.image \in Images
      BY <2>2, <1>3 DEF Tokens, FrameTokens, OtherTokens
    <3>2. ShownBy(out, 0, t.monitor, picture[t.monitor], t.base)
      <4>1. ShownBy(out, 1 - 1, out[1].monitor, picture[out[1].monitor], out[1].base)
        BY <1>2, <1>3, <2>2 DEF UnderWay
      <4> QED BY <4>1, <1>3
    <3>3. t.base = picture[t.monitor]
      BY <3>2 DEF ShownBy
    <3>4. picture' = [picture EXCEPT ![t.monitor] = t.image]
      <4>1. picture' = [picture EXCEPT ![t.monitor] = IF t.base = @ THEN t.image ELSE Wrong]
        BY <2>2 DEF Show
      <4> QED BY <4>1, <3>3
    <3> QED BY <2>2, <3>1, <3>4, <1>2 DEF Touches, Leaves
  <2>3. CASE t.token \notin {"resolution", "frame"}
    <3>1. picture' = picture
      BY <2>3 DEF Show
    <3> QED BY <2>3, <3>1, <1>2 DEF Touches
  <2> QED BY <2>1, <2>2, <2>3
<1>5. UnderWay(out', picture', base, cur)
  <2>1. \A m \in Mon : picture'[m] = IF Touches(out[1], m) THEN Leaves(out[1]) ELSE picture[m]
    BY <1>3, <1>4
  <2>2. picture' \in [Mon -> Images]
    BY <1>4
  <2>3. UnderWay(Tail(out), picture', base, cur)
    BY <1>1, <1>2, <2>1, <2>2, ShowKeeps
  <2> QED BY <2>3, <1>1
<1> QED BY <1>1, <1>5 DEF PictureInv

\* Every step keeps it.
LEMMA StepPicture == PictureInv /\ [ScrNext]_scrVars => PictureInv'
<1> SUFFICES ASSUME PictureInv, [ScrNext]_scrVars PROVE PictureInv'
  OBVIOUS
<1>1. CASE UNCHANGED scrVars
  BY <1>1 DEF PictureInv, scrVars, sourceVars, grabVars, sessionVars, encVars, clientVars
<1>2. CASE ScrNext
  BY <1>2, EventsKeep, GetImageKeeps, AskKeeps, ShowsKeep, BeginKeeps, SingleKeeps,
     MultiKeeps, ServedKeeps DEF ScrNext
<1> QED BY <1>1, <1>2

\* Whatever monitor the client asks for, and whatever memories and locks come in between.
THEOREM PictureIsWhole == ScrSpec => []PictureWhole
<1>1. ScrInit => PictureInv
  <2> SUFFICES ASSUME ScrInit PROVE PictureInv
    OBVIOUS
  <2>1. /\ displayed \in [Mon -> Nat] /\ slots \in [Mon -> Slots] /\ capid \in [Mon -> Int]
        /\ picture \in [Mon -> Images] /\ base \in [Mon -> Images] /\ base = picture
    BY DEF ScrInit, Empty, Blank, Slots, Images
  <2>2. wanted \in Views /\ cur = Nothing /\ asked = <<>> /\ encoder = "idle" /\ out = <<>>
    BY ScreenAssumption DEF ScrInit, Views, Mon
  <2>3. UnderWay(<<>>, picture, base, cur)
    <3>1. Len(<<>>) = 0 /\ <<>> \in Seq(Tokens)
      OBVIOUS
    <3> QED BY <2>1, <3>1 DEF UnderWay, ShownBy
  <2> QED BY <2>1, <2>2, <2>3 DEF PictureInv
<1>2. PictureInv => PictureWhole
  <2>1. Wrong \notin Images
    BY DEF Wrong, Images, Nothing
  <2>2. PictureInv => picture \in [Mon -> Images]
    BY DEF PictureInv, UnderWay
  <2> QED BY <2>1, <2>2 DEF PictureWhole
<1> QED BY <1>1, <1>2, StepPicture, PTL DEF ScrSpec

-----------------------------------------------------------------------------
(* The ring of module SoundRing: its inductive invariant. *)

RingType ==
  /\ cells \in [0..(Size - 1) -> Nat] /\ count \in Nat /\ frame \in Nat
  /\ limit \in 0..(Size - 1)
  /\ readFrame \in Nat /\ readLimit \in -1..(Size - 1)
  /\ heard \in Seq(Nat)

\* The byte of the stream at the beginning of the ring, in the turn it is in.
Base == count - limit

\* Before limit the bytes of this turn, from it on those of the one before.
Holds(i) ==
  cells[i] = IF i < limit THEN Base + i + 1 ELSE IF Base = 0 THEN 0 ELSE Base - Size + i + 1
CellsInv == /\ Base = 0 \/ Base >= Size
            /\ \A i \in 0..(Size - 1) : Holds(i)

\* The reader was at byte c of the stream, in this turn of the ring, in the one before,
\* or left behind.
LeftAt(c) ==
  /\ c \in Nat /\ c <= count /\ readLimit <= c
  /\ c - readLimit = Base \/ c - readLimit = Base - Size \/ c - readLimit <= Base - Size - Size
  /\ readFrame # frame => c < count
  /\ heard # <<>> => heard[Len(heard)] = c
ReaderInv ==
  /\ readFrame <= frame
  /\ readLimit = -1 => heard = <<>>
  /\ readLimit # -1 => \E c \in Nat : LeftAt(c)

RingInv == RingType /\ CellsInv /\ ReaderInv

LEMMA InitRing == ASSUME Init PROVE RingInv
<1>1. Size \in Nat \ {0}
  BY RingAssumption
<1>2. RingType
  BY <1>1 DEF Init, RingType
<1>3. QED
  BY <1>1, <1>2 DEF Init, RingInv, CellsInv, Holds, Base, ReaderInv

\* Where a burst goes.
LEMMA WriteGoes ==
  ASSUME RingType, CellsInv, NEW sz \in 1..Burst, Write(sz)
  PROVE  /\ count' = count + sz /\ limit' \in 0..(Size - 1)
         /\ \/ limit + sz < Size /\ limit' = limit + sz /\ Base' = Base
            \/ limit + sz >= Size /\ limit' = limit + sz - Size /\ Base' = Base + Size
         /\ cells' \in [0..(Size - 1) -> Nat]
         /\ \A i \in 0..(Size - 1) : Holds(i)'
<1>1. /\ Size \in Nat /\ sz \in Nat /\ sz > 0 /\ sz < Size /\ limit \in Nat /\ limit < Size
      /\ count \in Nat
  BY RingAssumption DEF RingType
<1>2. CASE limit + sz < Size
  <2>1. ToEnd(sz) = 0
    BY <1>1, <1>2 DEF ToEnd
  <2>2. /\ count' = count + sz /\ limit' = limit + sz
        /\ cells' = [i \in 0..(Size - 1) |->
                       IF i \in limit..(limit + 0 - 1) THEN count + 1 + (i - limit)
                       ELSE IF i \in limit..(limit + (sz - 0) - 1)
                         THEN count + 1 + 0 + (i - limit)
                       ELSE cells[i]]
    BY <1>1, <1>2, <2>1 DEF Write
  <2>3. ASSUME NEW i \in 0..(Size - 1)
        PROVE  cells'[i] = IF i >= limit /\ i < limit + sz THEN count + 1 + (i - limit) ELSE cells[i]
    BY <1>1, <2>2
  <2>4. Base' = Base
    BY <1>1, <2>2 DEF Base
  <2>5. ASSUME NEW i \in 0..(Size - 1) PROVE Holds(i)' /\ cells'[i] \in Nat
    BY <1>1, <2>2, <2>3, <2>4 DEF Holds, CellsInv, Base, RingType
  <2>6. QED
    BY <1>1, <1>2, <2>2, <2>4, <2>5
<1>3. CASE limit + sz >= Size
  <2>1. ToEnd(sz) = Size - limit
    BY <1>3 DEF ToEnd
  <2>2. /\ count' = count + sz /\ limit' = limit + sz - Size
        /\ cells' = [i \in 0..(Size - 1) |->
                       IF i \in limit..(limit + (Size - limit) - 1) THEN count + 1 + (i - limit)
                       ELSE IF i \in 0..(0 + (sz - (Size - limit)) - 1)
                         THEN count + 1 + (Size - limit) + (i - 0)
                       ELSE cells[i]]
    BY <1>1, <1>3, <2>1 DEF Write
  <2>3. ASSUME NEW i \in 0..(Size - 1)
        PROVE  cells'[i] = IF i >= limit THEN count + 1 + (i - limit)
                           ELSE IF i < limit' THEN count + 1 + (Size - limit) + i ELSE cells[i]
    BY <1>1, <2>2
  <2>4. Base' = Base + Size
    BY <1>1, <2>2 DEF Base
  <2>5. ASSUME NEW i \in 0..(Size - 1) PROVE Holds(i)' /\ cells'[i] \in Nat
    BY <1>1, <2>2, <2>3, <2>4 DEF Holds, CellsInv, Base, RingType
  <2>6. QED
    BY <1>1, <1>3, <2>2, <2>4, <2>5
<1>4. QED
  BY <1>1, <1>2, <1>3

LEMMA WriteKeeps == ASSUME RingInv, NEW sz \in 1..Burst, Write(sz) PROVE RingInv'
<1>1. /\ count' = count + sz /\ limit' \in 0..(Size - 1)
      /\ Base' = Base \/ Base' = Base + Size
      /\ cells' \in [0..(Size - 1) -> Nat]
      /\ \A i \in 0..(Size - 1) : Holds(i)'
  BY WriteGoes DEF RingInv
<1>2. /\ frame' = frame + 1 /\ readFrame' = readFrame /\ readLimit' = readLimit /\ heard' = heard
      /\ sz \in Nat /\ sz > 0 /\ Size \in Nat /\ Size > 0
  BY RingAssumption DEF Write
<1>3. count \in Nat /\ Base \in Int /\ readLimit \in Int /\ frame \in Nat /\ readFrame \in Nat
  BY DEF RingInv, RingType, Base
<1>4. RingType'
  BY <1>1, <1>2, <1>3 DEF RingInv, RingType
<1>5. CellsInv'
  BY <1>1, <1>2, <1>3 DEF RingInv, CellsInv
<1>6. ASSUME NEW c \in Nat, LeftAt(c) PROVE LeftAt(c)'
  BY <1>1, <1>2, <1>3, <1>6 DEF LeftAt
<1>7. ReaderInv'
  BY <1>2, <1>3, <1>6 DEF RingInv, ReaderInv
<1>8. QED
  BY <1>4, <1>5, <1>7 DEF RingInv

\* What is read is a run of the stream that ends with what was captured last, and starts
\* after what was heard; if the ring has not gone round, at the very next byte.
LEMMA ReadHears ==
  ASSUME RingInv, Read, readLimit # -1
  PROVE  /\ heard' \in Seq(Nat) /\ heard' # <<>> /\ Len(heard') \in Nat \ {0}
         /\ \A k \in 1..Len(heard') : heard'[k] = count - Len(heard') + k
         /\ heard # <<>> => heard[Len(heard)] < heard'[1]
         /\ heard # <<>> /\ count - heard[Len(heard)] <= Size => heard'[1] = heard[Len(heard)] + 1
<1>1. PICK c \in Nat : LeftAt(c)
  BY DEF RingInv, ReaderInv
<1>2. /\ Size \in Nat /\ limit \in Nat /\ limit < Size /\ readLimit \in Nat /\ readLimit < Size
      /\ count \in Nat /\ Base = count - limit /\ Base \in Int
  BY RingAssumption DEF RingInv, RingType, Base
<1>3. /\ c < count /\ c <= count /\ readLimit <= c
      /\ c - readLimit = Base \/ c - readLimit = Base - Size \/ c - readLimit <= Base - Size - Size
      /\ heard # <<>> => heard[Len(heard)] = c
  BY <1>1 DEF LeftAt, Read
<1>4. ASSUME NEW i \in 0..(Size - 1)
      PROVE  cells[i] = IF i < limit THEN Base + i + 1 ELSE IF Base = 0 THEN 0 ELSE Base - Size + i + 1
  BY DEF RingInv, CellsInv, Holds
<1>5. CASE readLimit < limit
  <2>1. heard' = [k \in 1..(limit - readLimit) |-> cells[readLimit + k - 1]]
    BY <1>2, <1>5 DEF Read, Cells
  <2>2. ASSUME NEW k \in 1..(limit - readLimit) PROVE cells[readLimit + k - 1] = Base + readLimit + k
    BY <1>2, <1>4, <1>5
  <2>3. Base + readLimit >= 0
    BY <1>2, <1>3
  <2>4. heard' \in Seq(Nat) /\ Len(heard') = limit - readLimit
    <3>1. limit - readLimit \in Nat
      BY <1>2, <1>5
    <3>2. \A k \in 1..(limit - readLimit) : cells[readLimit + k - 1] \in Nat
      BY <1>2, <2>2, <2>3
    <3>3. QED
      BY <2>1, <3>1, <3>2
  <2>5. \A k \in 1..Len(heard') : heard'[k] = Base + readLimit + k
    BY <2>1, <2>2, <2>4
  <2>6. heard'[1] = Base + readLimit + 1 /\ heard' # <<>>
    BY <1>2, <1>5, <2>4, <2>5
  <2>7. QED
    BY <1>2, <1>3, <1>5, <2>4, <2>5, <2>6
<1>6. CASE readLimit >= limit
  <2>1. Base >= Size /\ c - readLimit <= Base - Size
    BY <1>2, <1>3, <1>6
  <2> DEFINE a == Cells(readLimit, Size)
             b == Cells(0, limit)
  <2>2. heard' = a \o b
    BY <1>2, <1>6 DEF Read
  <2>3. ASSUME NEW k \in 1..(Size - readLimit)
        PROVE  cells[readLimit + k - 1] = Base - Size + readLimit + k /\ cells[readLimit + k - 1] \in Nat
    BY <1>2, <1>4, <1>6, <2>1
  <2>4. ASSUME NEW k \in 1..limit PROVE cells[0 + k - 1] = Base + k /\ cells[0 + k - 1] \in Nat
    BY <1>2, <1>4, <2>1
  <2>5. /\ a \in Seq(Nat) /\ Len(a) = Size - readLimit
        /\ \A k \in 1..(Size - readLimit) : a[k] = Base - Size + readLimit + k
    <3>1. Size - readLimit \in Nat
      BY <1>2
    <3>2. QED
      BY <2>3, <3>1 DEF Cells
  <2>6. /\ b \in Seq(Nat) /\ Len(b) = limit
        /\ \A k \in 1..limit : b[k] = Base + k
    <3>1. limit - 0 = limit /\ limit \in Nat
      BY <1>2
    <3>2. QED
      BY <2>4, <3>1 DEF Cells
  <2> HIDE DEF a, b
  <2>7. /\ heard' \in Seq(Nat) /\ Len(heard') = (Size - readLimit) + limit
        /\ \A k \in 1..Len(heard') :
             heard'[k] = IF k <= Size - readLimit THEN a[k] ELSE b[k - (Size - readLimit)]
    <3>1. /\ Len(a \o b) = Len(a) + Len(b) /\ a \o b \in Seq(Nat)
          /\ \A k \in 1..(Len(a) + Len(b)) :
               (a \o b)[k] = IF k <= Len(a) THEN a[k] ELSE b[k - Len(a)]
      BY <2>5, <2>6, ConcatProperties
    <3>2. QED
      BY <2>2, <2>5, <2>6, <3>1
  <2>8. \A k \in 1..Len(heard') : heard'[k] = Base - Size + readLimit + k
    <3>1. ASSUME NEW k \in 1..Len(heard') PROVE heard'[k] = Base - Size + readLimit + k
      <4>1. CASE k <= Size - readLimit
        BY <1>2, <2>5, <2>7, <4>1
      <4>2. CASE k > Size - readLimit
        <5>1. k - (Size - readLimit) \in 1..limit
          BY <1>2, <2>7, <4>2
        <5>2. QED
          BY <1>2, <2>6, <2>7, <4>2, <5>1
      <4>3. QED
        BY <1>2, <2>7, <4>1, <4>2
    <3>2. QED
      BY <3>1
  <2>9. heard'[1] = Base - Size + readLimit + 1 /\ heard' # <<>>
    BY <1>2, <2>7, <2>8
  <2>10. QED
    BY <1>2, <1>3, <1>6, <2>1, <2>7, <2>8, <2>9
<1>7. QED
  BY <1>2, <1>5, <1>6

LEMMA ReadKeeps == ASSUME RingInv, Read PROVE RingInv'
<1>1. /\ readFrame' = frame /\ readLimit' = limit
      /\ UNCHANGED <<cells, count, frame, limit>>
  BY DEF Read
<1>2. CASE readLimit = -1
  <2>1. heard' = <<>>
    BY <1>2 DEF Read
  <2>2. RingType' /\ CellsInv'
    BY <1>1, <2>1 DEF RingInv, RingType, CellsInv, Holds, Base
  <2>3. LeftAt(count)'
    BY <1>1, <2>1, RingAssumption DEF RingInv, RingType, CellsInv, LeftAt, Base
  <2>4. QED
    BY <1>1, <2>1, <2>2, <2>3 DEF RingInv, RingType, ReaderInv
<1>3. CASE readLimit # -1
  <2>1. /\ heard' \in Seq(Nat) /\ heard' # <<>> /\ Len(heard') \in Nat \ {0}
        /\ \A k \in 1..Len(heard') : heard'[k] = count - Len(heard') + k
    BY <1>3, ReadHears
  <2>2. RingType' /\ CellsInv'
    BY <1>1, <2>1 DEF RingInv, RingType, CellsInv, Holds, Base
  <2>3. heard'[Len(heard')] = count
    BY <2>1 DEF RingInv, RingType
  <2>4. LeftAt(count)'
    BY <1>1, <2>3, RingAssumption DEF RingInv, RingType, CellsInv, LeftAt, Base
  <2>5. QED
    BY <1>1, <2>1, <2>2, <2>4 DEF RingInv, RingType, ReaderInv
<1>4. QED
  BY <1>2, <1>3

LEMMA StepRing == ASSUME RingInv, [Next]_vars PROVE RingInv'
<1>1. CASE UNCHANGED <<cells, count, frame, limit, readFrame, readLimit, heard>>
  BY <1>1 DEF RingInv, RingType, CellsInv, Holds, Base, ReaderInv, LeftAt
<1>2. QED
  BY <1>1, WriteKeeps, ReadKeeps DEF Next, SetSoundEnable, Close, vars

\* Whatever the size of the ring and of the bursts of the library, and however far the
\* encoder is left behind: what it is given (encode_sound, encoder.py) is in the order of
\* the stream, never twice, and the next byte each time while the ring has not gone round.
THEOREM SoundIsWhole == Spec => SoundWhole
<1>1. Init => RingInv
  BY InitRing
<1>2. RingInv /\ [Next]_vars => RingInv'
  BY StepRing
<1>3. ASSUME RingInv, [Next]_vars, heard' # heard
      PROVE  /\ \A k \in 1..Len(heard') : heard'[k] = count - Len(heard') + k
             /\ heard # <<>> /\ heard' # <<>> => heard[Len(heard)] < heard'[1]
             /\ heard # <<>> /\ count - heard[Len(heard)] <= Size
                  => heard' # <<>> /\ heard'[1] = heard[Len(heard)] + 1
  <2>1. Read
    BY <1>3 DEF Next, Write, SetSoundEnable, Close, vars
  <2>2. CASE readLimit = -1
    BY <1>3, <2>1, <2>2 DEF Read, RingInv, ReaderInv
  <2>3. CASE readLimit # -1
    BY <1>3, <2>1, <2>3, ReadHears
  <2>4. QED
    BY <2>2, <2>3
<1>4. RingInv /\ [Next]_vars =>
        [heard' # heard =>
           /\ \A k \in 1..Len(heard') : heard'[k] = count - Len(heard') + k
           /\ heard # <<>> /\ heard' # <<>> => heard[Len(heard)] < heard'[1]]_vars
  BY <1>3
<1>5. RingInv /\ [Next]_vars =>
        [heard # <<>> /\ heard' # heard /\ count - heard[Len(heard)] <= Size
           => heard' # <<>> /\ heard'[1] = heard[Len(heard)] + 1]_vars
  BY <1>3
<1>6. QED
  BY <1>1, <1>2, <1>4, <1>5, PTL DEF Spec, SoundWhole, SoundInOrder, SoundComplete
=============================================================================
