------------------------------ MODULE HaikuService ------------------------------
(***************************************************************************)
(* The agent as a service of a Haiku user session: the supervisor script   *)
(* os_haiku/dwagent-haiku-service that starts the agent again when it      *)
(* ends, the helper os_haiku/haikonnect-agent-control that starts and      *)
(* stops it, and the Deskbar replicant of os_haiku_control that shows its  *)
(* state and runs the helper.  They meet in two files: agent.status, which *)
(* supervisor and helper write, and supervisor.pid.                        *)
(*                                                                         *)
(* The launch daemon is external: it keeps the requested state, starts the *)
(* service when asked, and starts it again when it ends while requested.   *)
(***************************************************************************)
EXTENDS Naturals, FiniteSets

CONSTANTS Pids,         \* the ids of agent processes; an id is used again
          None,         \* no process, no file
          MaxDeaths,    \* how many times the agent ends by itself
          MaxBoots      \* how many times the machine is restarted

VARIABLES status,       \* agent.status
          supfile,      \* supervisor.pid exists
          wanted,       \* what the launch daemon was asked for
          sup,          \* the supervisor: [pc, forked ($!), child, term]
          agents,       \* the agents that run
          ending,       \* the agents that have received a TERM
          control,      \* the helper: [pc, sup, state, told]
          view,         \* the replicant: [light, running, menu, busy]
          configured,   \* config.json can be read
          orphans,      \* history: those whose supervisor had not noted them when it was told
          deaths, boots

vars == <<status, supfile, wanted, sup, agents, ending, control, view, configured, orphans, deaths, boots>>
files == <<status, supfile>>

Say(s) == [s |-> s, pid |-> None]
Off == [pc |-> "off", forked |-> None, child |-> None, term |-> FALSE]
Idle == [pc |-> "idle", sup |-> FALSE, state |-> Say("none"), told |-> "nothing"]

\* The replicant of a new session, where no agent runs yet.
Attached(conf) == [light |-> IF conf THEN "red" ELSE "yellow", running |-> FALSE, menu |-> "closed", busy |-> FALSE]

Init ==
    /\ status = Say("none") /\ supfile = FALSE /\ wanted = TRUE
    /\ sup = Off /\ agents = {} /\ ending = {} /\ control = Idle
    /\ configured \in BOOLEAN /\ view = Attached(configured) /\ orphans = {} /\ deaths = 0 /\ boots = 0

-----------------------------------------------------------------------------
\* The launch daemon (external), which also starts again what has ended.
JobRunning == sup.pc # "off"

Launch ==
    /\ wanted /\ ~JobRunning
    /\ sup' = [Off EXCEPT !.pc = "begin"]
    /\ UNCHANGED <<files, wanted, agents, ending, control, view, configured, orphans, deaths, boots>>

-----------------------------------------------------------------------------
\* The supervisor.  The shell runs a trap between two commands: not during the
\* sleep, but also between the fork and the assignment.
Trappable(pc) == pc \notin {"off", "begin", "sleep", "trapped"}
Step(from, s) == sup.pc = from /\ ~(sup.term /\ (Trappable(from) \/ from = "begin")) /\ sup' = s

\* The directories and the token, then the trap and supervisor.pid.  A TERM that
\* comes before the trap is set ends the script.
Publish ==
    /\ Step("begin", [sup EXCEPT !.pc = "loop"])
    /\ supfile' = TRUE
    /\ UNCHANGED <<status, wanted, agents, ending, control, view, configured, orphans, deaths, boots>>

EnterLoop ==
    /\ Step("loop", [sup EXCEPT !.pc = "fork"])
    /\ status' = Say("starting")
    /\ UNCHANGED <<supfile, wanted, agents, ending, control, view, configured, orphans, deaths, boots>>

NoDirectory ==
    /\ Step("loop", Off)
    /\ deaths < MaxDeaths /\ deaths' = deaths + 1
    /\ supfile' = FALSE /\ status' = Say("error")
    /\ UNCHANGED <<wanted, agents, ending, control, view, configured, orphans, boots>>

\* "$PYTHON" agent.py ... &  and the assignment of $! to child_pid.
Fork ==
    /\ \E p \in Pids \ agents :
          /\ agents' = agents \cup {p}
          /\ Step("fork", [sup EXCEPT !.pc = "forked", !.forked = p])
    /\ UNCHANGED <<files, wanted, ending, control, view, configured, orphans, deaths, boots>>

Assign ==
    /\ Step("forked", [sup EXCEPT !.pc = "assigned", !.child = sup.forked, !.forked = None])
    /\ UNCHANGED <<files, wanted, agents, ending, control, view, configured, orphans, deaths, boots>>

WriteRunning ==
    /\ Step("assigned", [sup EXCEPT !.pc = "wait"])
    /\ status' = [s |-> "running", pid |-> sup.child]
    /\ UNCHANGED <<supfile, wanted, agents, ending, control, view, configured, orphans, deaths, boots>>

Waited ==
    /\ sup.child \notin agents
    /\ Step("wait", [sup EXCEPT !.pc = "sleep", !.child = None])
    /\ status' = Say("error")
    /\ UNCHANGED <<supfile, wanted, agents, ending, control, view, configured, orphans, deaths, boots>>

\* The sleep grows to 300 seconds; a trap runs only when it is over.
Slept ==
    /\ Step("sleep", [sup EXCEPT !.pc = "loop"])
    /\ UNCHANGED <<files, wanted, agents, ending, control, view, configured, orphans, deaths, boots>>

\* stop_agent, the trap: the child is told and waited for.
Trap ==
    /\ sup.term /\ Trappable(sup.pc)
    /\ sup' = [sup EXCEPT !.pc = "trapped", !.forked = None]
    /\ ending' = ending \cup ({sup.child} \cap agents)
    /\ orphans' = orphans \cup ({sup.forked} \cap agents)
    /\ UNCHANGED <<files, wanted, agents, control, view, configured, deaths, boots>>

TrapEnds ==
    /\ sup.pc = "trapped" /\ sup.child \notin agents
    /\ sup' = Off
    /\ supfile' = FALSE /\ status' = Say("stopped")
    /\ UNCHANGED <<wanted, agents, ending, control, view, configured, orphans, deaths, boots>>

EarlyTerm ==
    /\ sup.term /\ sup.pc = "begin" /\ sup' = Off
    /\ UNCHANGED <<files, wanted, agents, ending, control, view, configured, orphans, deaths, boots>>

-----------------------------------------------------------------------------
\* The agent, seen from here: it ends when told, or by itself.
Gone(p) == agents' = agents \ {p} /\ ending' = ending \ {p} /\ orphans' = orphans \ {p}

AgentEnds ==
    /\ \E p \in ending : Gone(p)
    /\ UNCHANGED <<files, wanted, sup, control, view, configured, deaths, boots>>

AgentFails ==
    /\ deaths < MaxDeaths /\ deaths' = deaths + 1
    /\ \E p \in agents : Gone(p)
    /\ UNCHANGED <<files, wanted, sup, control, view, configured, boots>>

-----------------------------------------------------------------------------
\* The helper.  The ids are read before the processes are told.
RosterStop ==
    /\ control.pc = "stop" /\ wanted' = FALSE
    /\ control' = [control EXCEPT !.pc = "read", !.sup = supfile]
    /\ UNCHANGED <<files, sup, agents, ending, view, configured, orphans, deaths, boots>>

ReadStatus ==
    /\ control.pc = "read"
    /\ control' = [control EXCEPT !.pc = "kill", !.state = status]
    /\ UNCHANGED <<files, wanted, sup, agents, ending, view, configured, orphans, deaths, boots>>

KillSupervisor ==
    /\ control.pc = "kill"
    /\ sup' = IF control.sup /\ JobRunning THEN [sup EXCEPT !.term = TRUE] ELSE sup
    /\ control' = [control EXCEPT !.pc = "killAgent"]
    /\ UNCHANGED <<files, wanted, agents, ending, view, configured, orphans, deaths, boots>>

KillAgent ==
    /\ control.pc = "killAgent"
    /\ ending' = IF control.state.s = "running" THEN ending \cup ({control.state.pid} \cap agents) ELSE ending
    /\ control' = [control EXCEPT !.pc = "stopping"]
    /\ UNCHANGED <<files, wanted, sup, agents, view, configured, orphans, deaths, boots>>

WriteStopped ==
    /\ control.pc = "stopping" /\ ~JobRunning
    /\ status' = Say("stopped")
    /\ control' = [control EXCEPT !.pc = "done", !.told = "stopped"]
    /\ UNCHANGED <<supfile, wanted, sup, agents, ending, view, configured, orphans, deaths, boots>>

RosterStart ==
    /\ control.pc = "start" /\ wanted' = TRUE
    /\ control' = [control EXCEPT !.pc = "starting"]
    /\ UNCHANGED <<files, sup, agents, ending, view, configured, orphans, deaths, boots>>

Started ==
    /\ control.pc = "starting" /\ JobRunning
    /\ status.s = "running" /\ status.pid \in agents
    /\ control' = [control EXCEPT !.pc = "done", !.told = "started"]
    /\ UNCHANGED <<files, wanted, sup, agents, ending, view, configured, orphans, deaths, boots>>

\* Fifteen tries, one each second.
GiveUp ==
    /\ control.pc \in {"stopping", "starting"}
    /\ control' = [control EXCEPT !.pc = "done", !.told = "failed"]
    /\ UNCHANGED <<files, wanted, sup, agents, ending, view, configured, orphans, deaths, boots>>

-----------------------------------------------------------------------------
\* The replicant.  is_agent_team asks the system for the process of the file.
RuntimeStatus == status.s = "running" /\ status.pid \in agents

\* mutant: the file is believed
RefreshedTrusting(v) ==
    [v EXCEPT !.running = status.s = "running",
              !.light = IF ~configured THEN "yellow" ELSE IF status.s = "running" THEN "green" ELSE "red"]

Refreshed(v) ==
    [v EXCEPT !.running = RuntimeStatus,
              !.light = IF ~configured THEN "yellow" ELSE IF RuntimeStatus THEN "green" ELSE "red"]

Refresh ==
    /\ view' = Refreshed(view) /\ view' # view
    /\ UNCHANGED <<files, wanted, sup, agents, ending, control, configured, orphans, deaths, boots>>

MouseDown ==
    /\ view.menu = "closed"
    /\ view' = [Refreshed(view) EXCEPT !.menu = IF RuntimeStatus THEN "stop" ELSE "start"]
    /\ UNCHANGED <<files, wanted, sup, agents, ending, control, configured, orphans, deaths, boots>>

\* One action at a time; a start is refused while there is no configuration.
Choose ==
    /\ view.menu # "closed"
    /\ \/ view' = [view EXCEPT !.menu = "closed"] /\ UNCHANGED control
       \/ /\ ~view.busy /\ (view.menu = "start" => configured)
          /\ view' = [view EXCEPT !.menu = "closed", !.busy = TRUE]
          /\ control' = [Idle EXCEPT !.pc = view.menu]
    /\ UNCHANGED <<files, wanted, sup, agents, ending, configured, orphans, deaths, boots>>

ActionFinished ==
    /\ view.busy /\ control.pc = "done"
    /\ view' = [Refreshed(view) EXCEPT !.busy = FALSE]
    /\ control' = [control EXCEPT !.pc = "idle"]
    /\ UNCHANGED <<files, wanted, sup, agents, ending, configured, orphans, deaths, boots>>

-----------------------------------------------------------------------------
CreateConfig ==
    /\ ~configured /\ configured' = TRUE
    /\ UNCHANGED <<files, wanted, sup, agents, ending, control, view, orphans, deaths, boots>>

\* The machine is restarted: the files stay.
Reboot ==
    /\ boots < MaxBoots /\ boots' = boots + 1
    /\ wanted' = TRUE /\ sup' = Off /\ agents' = {} /\ ending' = {} /\ orphans' = {}
    /\ control' = Idle
    /\ view' = Attached(configured)
    /\ UNCHANGED <<files, configured, deaths>>

Supervise ==
    \/ Publish \/ EnterLoop \/ NoDirectory \/ Fork \/ Assign \/ WriteRunning \/ Waited \/ Slept
    \/ Trap \/ TrapEnds \/ EarlyTerm
Help == RosterStop \/ ReadStatus \/ KillSupervisor \/ KillAgent \/ WriteStopped \/ RosterStart \/ Started \/ GiveUp

Next ==
    \/ Launch \/ Supervise \/ AgentEnds \/ AgentFails \/ Help
    \/ Refresh \/ MouseDown \/ Choose \/ ActionFinished \/ CreateConfig \/ Reboot

\* The scripts go on, a process that was told ends, the replicant's runner ticks.
\* The network that the service waits for may never come, so Launch is not fair.
Fairness ==
    /\ WF_vars(Supervise) /\ WF_vars(AgentEnds) /\ WF_vars(Help)
    /\ WF_vars(Refresh) /\ WF_vars(ActionFinished)

Spec == Init /\ [][Next]_vars /\ Fairness

-----------------------------------------------------------------------------
TypeOK ==
    /\ status.s \in {"none", "starting", "running", "error", "stopped"}
    /\ sup.child \in Pids \cup {None} /\ agents \subseteq Pids /\ ending \subseteq agents
    /\ view.light \in {"red", "yellow", "green"} /\ view.menu \in {"closed", "start", "stop"}

\* The light of the Deskbar becomes what the agent is: green when the agent that
\* the supervisor waits for runs configured, and not green when no agent runs,
\* also after a restart of the machine that left the file behind.
LightFollows ==
    /\ (configured /\ sup.pc = "wait" /\ sup.child \in agents)
          ~> (view.light = "green" \/ ~(configured /\ sup.pc = "wait" /\ sup.child \in agents))
    /\ (agents = {}) ~> (view.light # "green" \/ agents # {})

\* The supervisor publishes the state of its child: a file that says stopped, by
\* the supervisor or by the helper, means that no agent runs, but one that was told to
\* stop between the start of the agent and child_pid=$!.
StoppedMeansStopped == status.s = "stopped" => agents \subseteq orphans
=============================================================================
