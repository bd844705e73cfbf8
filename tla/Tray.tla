-------------------------------- MODULE Tray ---------------------------------
(* ui/monitor.py: the window and the icon that show the state of the agent,  *)
(* ask the user to accept a session, and enable or disable the agent, on the *)
(* windows of ui/gdi.py.  A callback of the native loop handles an event,    *)
(* then the functions that are due, then what was posted (PostActions).      *)
EXTENDS Naturals, FiniteSets

CONSTANTS Session,  \* numbers, in the order of initTime
          None,
          Systray   \* mode systray with its icon; FALSE is mode window

VARIABLES
  \* the agent and the Property that its listener writes
  online, waits, told, moved, enabled,
  \* Main
  client, status, stopFile, checking,
  \* NotifyAcceptSession
  cur, skip, popup,
  \* gdi: the windows, those to destroy, whether the main window takes events
  windows, terms, active, ended,
  asked     \* what the dialog that is open asks, as the value of "enabled"

agentVars == <<online, waits, told, moved, enabled>>
mainVars == <<client, status, stopFile, checking>>
acceptVars == <<cur, skip, popup>>
gdiVars == <<windows, terms, active, ended>>
trayVars == <<agentVars, mainVars, acceptVars, gdiVars, asked>>

Dialogs == {"question", "password", "message"}

Init == /\ online = TRUE /\ waits = {} /\ told = {} /\ moved = FALSE
        /\ enabled = TRUE
        /\ client = FALSE /\ status = "off"
        /\ stopFile = FALSE /\ checking = TRUE
        /\ cur = None /\ skip = {} /\ popup = FALSE
        /\ windows = {} /\ terms = {} /\ active = TRUE /\ ended = TRUE
        /\ asked = None

\* Main.start, with monitor.lock held and no monitor.stop
Start == /\ status = "off" /\ status' = "NOSERVICE"
         /\ windows' = {"app"} /\ ended' = FALSE
         /\ UNCHANGED <<agentVars, client, stopFile, checking, acceptVars, terms, active, asked>>

----------------------------------------------------------------------------
(* The agent: IPCStatus counts, and writes the sessions after it has counted *)

Arrive == /\ \E s \in Session : waits' = waits \cup {s} /\ s \notin waits
          /\ UNCHANGED <<online, told, moved, enabled>>
Count == /\ online /\ ~moved /\ moved' = TRUE
         /\ UNCHANGED <<online, waits, told, enabled>>
WriteSessions == /\ online /\ told # waits /\ told' = waits
                 /\ UNCHANGED <<online, waits, moved, enabled>>
AgentStops == /\ online /\ online' = FALSE /\ waits' = {}
              /\ UNCHANGED <<told, moved, enabled>>
Agent == /\ ~ended
         /\ Arrive \/ Count \/ WriteSessions \/ AgentStops
         /\ UNCHANGED <<mainVars, acceptVars, gdiVars, asked>>

\* Another program enables or disables it.
Configured == /\ ~ended /\ enabled' = ~enabled
              /\ UNCHANGED <<online, waits, told, moved, mainVars,
                             acceptVars, gdiVars, asked>>

----------------------------------------------------------------------------
(* The functions that the scheduler of gdi runs                              *)

First(S) == CHOOSE s \in S : \A t \in S : s <= t

\* NotifyAcceptSession.update: what was decided is left out once
AcceptUpdate(ar) ==
  LET itm == IF ar \ skip = {} THEN None ELSE First(ar \ skip)
  IN /\ skip' = {} /\ cur' = itm
     /\ popup' = (IF itm = cur THEN popup ELSE itm # None)

\* The windows of the notifications are made when they are first needed; "late" is one
\* made in the callback that destroys the others.
Made == IF terms = {} THEN {"notify"} ELSE {"late"}
GetInfo == IF {"notify", "late"} \cap windows = {}
           THEN windows' = windows \cup Made ELSE UNCHANGED windows

\* The first read of a client is only of its counter.
UpdateStatus ==
  /\ ~ended /\ UNCHANGED <<online, waits, told, enabled, stopFile,
                           checking, terms, active, ended, asked>>
  /\ IF client /\ moved
     THEN /\ moved' = FALSE /\ UNCHANGED client
          /\ status' = (IF enabled THEN "ONLINE" ELSE "DISABLE")
          /\ AcceptUpdate(IF enabled THEN told ELSE {}) /\ GetInfo
     ELSE /\ client' = TRUE /\ moved' = (moved /\ client)
          /\ status' = "NOSERVICE" /\ UNCHANGED <<windows, acceptVars>>

\* check_events, of monitor.stop or monitor.update
CheckEvents ==
  /\ checking /\ ~ended /\ stopFile
  /\ checking' = FALSE
  /\ terms' = terms \cup ({"app", "notify"} \cap windows)
  /\ UNCHANGED <<agentVars, client, status, stopFile, acceptVars, windows, active,
                 ended, asked>>
StopFile == /\ ~ended /\ ~stopFile /\ stopFile' = TRUE
            /\ UNCHANGED <<agentVars, client, status, checking, acceptVars, gdiVars,
                           asked>>

\* TERM: the loop ends with its last window
PostActions ==
  /\ terms # {} /\ ~ended
  /\ windows' = windows \ terms /\ terms' = {} /\ ended' = (windows' = {})
  /\ popup' = (popup /\ "notify" \notin terms)
  /\ UNCHANGED <<agentVars, mainVars, cur, skip, active, asked>>

----------------------------------------------------------------------------
(* What the user does                                                        *)

Event == terms = {} /\ ~ended
Open == Dialogs \cap windows
AppShown == "app" \in windows /\ active

\* Window.destroy of a dialog gives the main window its events back; what follows in
\* the same function may have opened another.
Turn(closed, opened) == /\ windows' = (windows \ {closed}) \cup opened
                        /\ UNCHANGED <<terms, ended>>

\* _window_action
CloseWindow ==
  /\ Event /\ AppShown /\ ~Systray
  /\ terms' = {"app", "notify"} \cap windows
  /\ UNCHANGED <<agentVars, mainVars, acceptVars, windows, active, ended, asked>>

\* _on_accept, _on_reject: the request is made, or its answer does not come
Decide ==
  /\ Event /\ popup /\ cur # None /\ "notify" \in windows
  /\ skip' = skip \cup {cur} /\ cur' = None /\ popup' = FALSE
  /\ UNCHANGED <<online, told, moved, enabled, mainVars, asked>>
  /\ \/ online /\ waits' = waits \ {cur} /\ UNCHANGED gdiVars
     \/ /\ waits' \in {waits, waits \ {cur}} /\ "app" \in windows
        /\ windows' = windows \cup {"message"} /\ active' = FALSE /\ UNCHANGED <<terms, ended>>

\* enable_disable asks by the state shown, _enable_disable_action sends by the one shown then
Wanted == status = "DISABLE"
Ask == /\ Event /\ AppShown /\ Open = {} /\ status # "NOSERVICE"
       /\ windows' = windows \cup {"question"} /\ active' = FALSE /\ asked' = Wanted
       /\ UNCHANGED <<agentVars, mainVars, acceptVars, terms, ended>>
Send == enabled' = Wanted
KeepAgent == UNCHANGED <<online, waits, told, moved>>
Answer ==
  /\ Event /\ "question" \in windows /\ active' = TRUE
  /\ UNCHANGED <<mainVars, acceptVars>> /\ KeepAgent
  /\ \/ Turn("question", {}) /\ UNCHANGED enabled /\ asked' = None              \* No
     \/ online /\ Send /\ Turn("question", {"message"}) /\ asked' = None
     \/ online /\ Turn("question", {"password"}) /\ UNCHANGED <<enabled, asked>>
     \/ Turn("question", {"message"}) /\ UNCHANGED enabled /\ asked' = None     \* no answer
Password ==
  /\ Event /\ "password" \in windows /\ asked' = None
  /\ UNCHANGED <<mainVars, acceptVars>> /\ KeepAgent
  /\ \/ online /\ Send /\ Turn("password", {"message"}) /\ active' = FALSE
     \/ online /\ UNCHANGED enabled /\ Turn("password", {"message"}) /\ active' = FALSE
     \/ UNCHANGED enabled /\ Turn("password", {}) /\ active' = TRUE
Dismiss == /\ Event /\ "message" \in windows
           /\ Turn("message", {}) /\ active' = TRUE
           /\ UNCHANGED <<agentVars, mainVars, acceptVars, asked>>

User == CloseWindow \/ Decide \/ Ask \/ Answer \/ Password \/ Dismiss
Next == Start \/ Agent \/ Configured \/ UpdateStatus \/ CheckEvents \/ StopFile \/ PostActions \/ User

Fairness == /\ WF_trayVars(UpdateStatus) /\ WF_trayVars(CheckEvents) /\ WF_trayVars(PostActions)
            /\ WF_trayVars(Count /\ Agent) /\ WF_trayVars(WriteSessions /\ Agent)
Spec == Init /\ [][Next]_trayVars /\ Fairness

Runs == online /\ enabled /\ "app" \in windows /\ ~stopFile

\* A session that waits is shown, however the request that accepted the one before went.
WaitingShown == (Runs /\ waits # {}) ~> (popup \/ waits = {} \/ ~Runs)

\* monitor.stop ends the loop, and with it the lock, unless a dialog is left open.
StopEnds == (stopFile /\ "app" \in windows) ~> (ended \/ (Dialogs \cup {"late"}) \cap windows # {})

\* "Do you want disable the agent?" (messages/default.py:101) disables it.
AnswerMeans == [][(asked # None /\ User) => (enabled' # enabled => enabled' = asked)]_trayVars
=============================================================================
