------------------------------- MODULE Service -------------------------------
(***************************************************************************)
(* The Windows service that keeps the agent running                         *)
(* (os_win_service/src/main.cpp): ServiceMain, which starts the agent,      *)
(* applies updates and starts it again when it ends; ServiceCtrlHandler,    *)
(* called by the service manager in another thread; and their signs to the  *)
(* agent, the files dwagent.pid, dwagent.start and dwagent.stop.            *)
(*                                                                          *)
(* A service is its number, the pid it writes; an agent is one of the pids  *)
(* free when it starts.  Service and agents may be killed at any moment;    *)
(* the manager then starts the service again.  A waiting loop may end at    *)
(* any round.                                                               *)
(***************************************************************************)
EXTENDS Naturals, FiniteSets

CONSTANTS
  MaxServices,   \* bound: starts of the service
  MaxAgents      \* bound: agents that run at once

VARIABLES
  service,    \* the service that runs, or the last one
  up,         \* its process runs
  state,      \* dwCurrentState as the manager knows it
  bRunning,
  main,       \* where ServiceMain is
  attempt,    \* ti, the attempts to start the agent
  handler,    \* where ServiceCtrlHandler is
  agents,     \* agents that run
  child,      \* piProcessInfo: the last agent started
  follows,    \* follows[a]: _svcpid of agent a; 0 before it has read it
  hangs,      \* agents that do not look at dwagent.stop
  pidFile,    \* the pid in dwagent.pid, 0 without it
  startFile, stopFile

signs == <<pidFile, startFile, stopFile>>
serviceVars == <<service, up, state, bRunning, main, attempt, handler, child>>
agentVars == <<agents, follows, hangs>>
vars == <<serviceVars, agentVars, signs>>

Agents == 1..MaxAgents
Starting == {"start", "starting", "restart", "restarting"}

Init ==
  /\ service = 0 /\ up = FALSE /\ state = "STOPPED" /\ bRunning = FALSE
  /\ main = "none" /\ attempt = 0 /\ handler = "idle"
  /\ agents = {} /\ child = 0 /\ follows = [a \in Agents |-> 0] /\ hangs = {}
  /\ pidFile = 0 /\ startFile = FALSE /\ stopFile = FALSE

MainTo(p, q) == up /\ main = p /\ main' = q
Active == child \in agents

-----------------------------------------------------------------------------
(* The service manager, and those who kill processes *)

ServiceStarts ==
  /\ ~up /\ service < MaxServices
  /\ service' = service + 1 /\ up' = TRUE
  /\ state' = "START_PENDING" /\ bRunning' = FALSE
  /\ main' = "start" /\ attempt' = 1 /\ handler' = "idle" /\ child' = 0
  /\ pidFile' = service + 1
  /\ UNCHANGED <<agentVars, startFile, stopFile>>

ServiceKilled ==
  /\ up /\ up' = FALSE
  /\ state' = "STOPPED" /\ main' = "none" /\ handler' = "idle"
  /\ UNCHANGED <<service, bRunning, attempt, child, agentVars, signs>>

AgentEnds(a) ==
  /\ agents' = agents \ {a}
  /\ UNCHANGED <<serviceVars, follows, hangs, signs>>

AgentHangs(a) ==
  /\ a \notin hangs /\ hangs' = hangs \cup {a}
  /\ UNCHANGED <<serviceVars, agents, follows, signs>>

-----------------------------------------------------------------------------
(* ServiceMain *)

\* processStart: signs of an earlier start are removed first
ProcessStart ==
  /\ MainTo("start", "starting") \/ MainTo("restart", "restarting")
  /\ agents # Agents
  /\ LET a == CHOOSE b \in Agents : b \notin agents IN
       /\ child' = a
       /\ agents' = agents \cup {a}
       /\ hangs' = hangs \ {a}
       /\ follows' = [follows EXCEPT ![a] = 0]
  /\ startFile' = FALSE /\ stopFile' = FALSE
  /\ UNCHANGED <<service, up, state, bRunning, attempt, handler, pidFile>>

\* the agent says it has started: the first time the service is RUNNING
ProcessStarted ==
  /\ Active /\ startFile
  /\ \/ MainTo("starting", "report") /\ state' = "RUNNING"
     \/ MainTo("restarting", "watch") /\ UNCHANGED state
  /\ startFile' = FALSE
  /\ UNCHANGED <<service, up, bRunning, attempt, handler, child, agentVars, pidFile,
                 stopFile>>

\* It has ended, or the time is over: it is killed.
ProcessFails ==
  /\ ~(Active /\ startFile)
  /\ \/ MainTo("starting", IF attempt < 3 THEN "start" ELSE "stopped")
     \/ MainTo("restarting", "watch")
  /\ attempt' = IF main = "starting" THEN attempt + 1 ELSE attempt
  /\ agents' = agents \ {child}
  /\ startFile' = FALSE /\ stopFile' = FALSE
  /\ UNCHANGED <<service, up, state, bRunning, handler, child, follows, hangs, pidFile>>

Runs ==
  /\ MainTo("report", "watch")
  /\ bRunning' = TRUE
  /\ UNCHANGED <<service, up, state, attempt, handler, child, agentVars, signs>>

\* every 5 seconds: an agent that has ended is updated and started again; an update that
\* fails changes nothing, and is tried again
Watch ==
  /\ bRunning /\ ~Active
  /\ MainTo("watch", "restart")
  /\ UNCHANGED <<service, up, state, bRunning, attempt, handler, child, agentVars, signs>>

\* processStop: the sign is made, and the agent has 40 seconds
ProcessStop ==
  /\ ~bRunning /\ MainTo("watch", "stopping")
  /\ stopFile' = TRUE
  /\ UNCHANGED <<service, up, state, bRunning, attempt, handler, child, agentVars, pidFile,
                 startFile>>

\* mutant: the service does not kill an agent that does not stop
ProcessStoppedLeft ==
  /\ MainTo("stopping", "stopped")
  /\ stopFile' = FALSE
  /\ UNCHANGED <<service, up, state, bRunning, attempt, handler, child, agentVars, pidFile,
                 startFile>>

ProcessStopped ==
  /\ MainTo("stopping", "stopped")
  /\ agents' = agents \ {child}
  /\ stopFile' = FALSE /\ startFile' = IF Active THEN FALSE ELSE startFile
  /\ UNCHANGED <<service, up, state, bRunning, attempt, handler, child, follows, hangs,
                 pidFile>>

ServiceStopped ==
  /\ MainTo("stopped", "none")
  /\ up' = FALSE /\ state' = "STOPPED" /\ handler' = "idle"
  /\ pidFile' = 0
  /\ UNCHANGED <<service, bRunning, attempt, child, agentVars, startFile, stopFile>>

ServiceMain ==
  \/ ProcessStart \/ ProcessStarted \/ ProcessFails \/ Runs \/ Watch
  \/ ProcessStop \/ ProcessStopped \/ ServiceStopped

-----------------------------------------------------------------------------
\* ServiceCtrlHandler: STOP and SHUTDOWN; it returns when the state changes
Control ==
  /\ up /\ state = "RUNNING" /\ handler = "idle"
  /\ handler' = "waiting"
  /\ bRunning' = FALSE
  /\ UNCHANGED <<service, up, state, main, attempt, child, agentVars, signs>>

-----------------------------------------------------------------------------
(* The agent (core/agent.py) *)

\* start: dwagent.pid is read, and dwagent.start made
AgentStarts(a) ==
  /\ a \in agents /\ follows[a] = 0 /\ pidFile # 0
  /\ follows' = [follows EXCEPT ![a] = pidFile]
  /\ startFile' = TRUE
  /\ UNCHANGED <<serviceVars, agents, hangs, pidFile, stopFile>>

\* is_run
AgentStops(a) ==
  /\ a \in agents \ hangs /\ follows[a] # 0
  /\ stopFile \/ ~up \/ follows[a] # service
  /\ agents' = agents \ {a}
  /\ UNCHANGED <<serviceVars, follows, hangs, signs>>

Next ==
  \/ ServiceStarts \/ ServiceKilled \/ ServiceMain \/ Control
  \/ \E a \in agents : AgentEnds(a) \/ AgentHangs(a) \/ AgentStarts(a) \/ AgentStops(a)

Fairness ==
  /\ WF_vars(ProcessStart) /\ WF_vars(ProcessStarted) /\ WF_vars(ProcessFails)
  /\ WF_vars(Runs) /\ WF_vars(Watch) /\ WF_vars(ProcessStop) /\ WF_vars(ProcessStopped)
  /\ WF_vars(ServiceStopped)
  /\ \A a \in Agents : WF_vars(AgentStops(a))

Spec == Init /\ [][Next]_vars /\ Fairness

-----------------------------------------------------------------------------
\* A stop handled before ServiceMain sets bRunning: Runs takes it back (main.cpp:949-954),
\* the service goes on, and the handler waits for a state that does not come.
Overwritten == handler = "waiting" /\ bRunning

\* A stop that has reached ServiceCtrlHandler ends the agent that is watched and then the
\* service, also when it comes in the middle of a restart or the agent hangs; the one
\* exception is a stop that is overwritten.
StopHonoured ==
  handler = "waiting" ~> ((~up /\ (pidFile = 0 => ~Active)) \/ Overwritten)

\* An agent whose service is gone ends, when another service runs by then too.
OrphanEnds ==
  \A a \in Agents :
    (a \in agents /\ follows[a] # 0 /\ (~up \/ follows[a] # service))
      ~> (a \notin agents \/ a \in hangs)
=============================================================================
