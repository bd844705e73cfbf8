-------------------------------- MODULE OnFly --------------------------------
(* The run without installation of ui/installer.py: the loop of              *)
(* step_runonfly, which starts the agent, follows the status the agent       *)
(* writes in a Property, starts it again after an update and stops it by a   *)
(* file, with the agent's side of those files.                               *)
EXTENDS Naturals, FiniteSets

CONSTANTS Agent,    \* the agent processes, more of them than MaxSlow
          RunCode,  \* option runputcode
          MaxSlow   \* bound: waits that end before what they wait for

VARIABLES
  step,      \* where step_runonfly is; "page" when the window waits for the user
  alive,     \* _runWithoutInstallAgentAlive
  byClient,  \* _runWithoutInstallAgentCloseByClient
  closeEnd,  \* _runWithoutInstallAgentCloseEnd
  shown,     \* what the page says
  stopFile, startFile, pidFile, updateDir,
  agent,     \* "none", "starting", "run", "ended"
  follows,   \* the agent read the pid of the installer
  current,   \* the agent that was started last
  told,      \* the status in the Property, and who made it
  connected, notFound, slow

flags == <<alive, byClient, closeEnd>>
files == <<stopFile, startFile, pidFile, updateDir>>
agents == <<agent, follows, told>>
loop == <<current, connected, notFound, slow>>
flyVars == <<step, flags, shown, files, agents, loop>>

Nobody == [by |-> "none", status |-> ""]

Init == /\ step = "page" /\ shown = "start"
        /\ alive = TRUE /\ byClient = FALSE /\ closeEnd = TRUE
        /\ stopFile = FALSE /\ startFile = FALSE /\ pidFile = FALSE /\ updateDir = FALSE
        /\ agent = [a \in Agent |-> "none"] /\ follows = [a \in Agent |-> FALSE]
        /\ told = Nobody /\ current = "none"
        /\ connected = FALSE /\ notFound = FALSE /\ slow = 0

Goto(s) == step' = s
InTime == UNCHANGED slow
TooSlow == slow < MaxSlow /\ slow' = slow + 1
Lives(a) == a \in Agent /\ agent[a] \in {"starting", "run"}

\* step_runonfly, of the page before it or of the chooser of a failed connection
Begin == /\ step = "page" /\ shown \in {"start", "retry", "badCode"} /\ ~byClient
         /\ Goto("loop") /\ closeEnd' = FALSE /\ connected' = FALSE /\ notFound' = FALSE
         /\ shown' = "starting"
         /\ UNCHANGED <<alive, byClient, files, agents, current, slow>>

LoopTest == /\ step = "loop"
            /\ Goto(IF alive THEN "clean" ELSE "finish")
            /\ UNCHANGED <<flags, shown, files, agents, loop>>

\* The update is copied, the files of the last run are removed, the pid is written.
\* mutant: the pid of the installer is not written
CleanNoPid == /\ step = "clean" /\ Goto("launch")
              /\ updateDir' = FALSE /\ startFile' = FALSE /\ stopFile' = FALSE
              /\ pidFile' = FALSE
              /\ UNCHANGED <<flags, shown, agents, loop>>
Clean == /\ step = "clean" /\ Goto("launch")
         /\ updateDir' = FALSE /\ startFile' = FALSE /\ stopFile' = FALSE
         /\ pidFile' = TRUE
         /\ UNCHANGED <<flags, shown, agents, loop>>

Unused == {a \in Agent : ~Lives(a)}
Launch == /\ step = "launch" /\ Unused # {}
          /\ LET a == CHOOSE x \in Unused : TRUE IN
               /\ agent' = [agent EXCEPT ![a] = "starting"] /\ current' = a
          /\ Goto("waitStart")
          /\ UNCHANGED <<flags, shown, files, follows, told, connected, notFound, slow>>

\* dwagent.start is waited for ten seconds, then the Property of the agent is opened.
WaitStart == /\ step = "waitStart" /\ UNCHANGED <<flags, shown, agents, current, connected,
                                                  notFound, stopFile, pidFile, updateDir>>
             /\ \/ startFile /\ startFile' = FALSE /\ InTime
                   /\ Goto(IF told = Nobody THEN "failed" ELSE "watch")
                \/ ~startFile /\ UNCHANGED startFile /\ Goto("failed")
                   /\ IF Lives(current) THEN TooSlow ELSE InTime

\* The status of the agent, looked at every second; a run code that is not found any
\* more after the connection is the end of the session.
Watch ==
  /\ step = "watch" /\ UNCHANGED <<files, agents, current, closeEnd, slow>>
  /\ LET st == told.status
         ended == ~Lives(current)
         lost == st = "NOTFOUND" /\ RunCode /\ ~ended
         tired == st = "TIRED" /\ ~ended
     IN /\ connected' = (connected \/ (st = "CONNECTED" /\ RunCode))
        /\ byClient' = (byClient \/ (lost /\ connected))
        /\ notFound' = (notFound \/ (lost /\ ~connected))
        /\ alive' = (alive /\ ~lost /\ ~tired)
        /\ shown' = (IF st = "CONNECTED" THEN "online" ELSE shown)
        /\ IF ended \/ ~alive' THEN Goto("stop") ELSE UNCHANGED step

StopAgent == /\ step = "stop" /\ stopFile' = TRUE /\ Goto("stopping")
             /\ UNCHANGED <<flags, shown, startFile, pidFile, updateDir, agents, loop>>
Stopping == /\ step = "stopping" /\ Goto("loop")
            /\ IF Lives(current) THEN TooSlow ELSE InTime
            /\ UNCHANGED <<flags, shown, files, agents, current, connected, notFound>>

Failed == /\ step = "failed" /\ Goto("page")
          /\ stopFile' = TRUE /\ closeEnd' = TRUE /\ shown' = "unexpected"
          /\ UNCHANGED <<alive, byClient, startFile, pidFile, updateDir, agents, loop>>

\* What the loop ended with is read, then the flag is set for another try.
Finish == /\ step = "finish" /\ closeEnd' = TRUE
          /\ IF byClient THEN Goto("page") /\ shown' = "end" ELSE Goto("rearm") /\ UNCHANGED shown
          /\ UNCHANGED <<alive, byClient, files, agents, loop>>
Rearm == /\ step = "rearm" /\ Goto("page") /\ alive' = TRUE
         /\ shown' = (IF notFound THEN "badCode" ELSE "retry")
         /\ UNCHANGED <<byClient, closeEnd, files, agents, loop>>

\* CLOSE of the window, at any page and at any wait that allows it
Close == /\ step # "gone" /\ ~byClient
         /\ alive' = FALSE /\ byClient' = TRUE
         /\ UNCHANGED <<step, closeEnd, shown, files, agents, loop>>
\* The program ends when its thread has, or is killed.
Exit == /\ step # "gone" /\ Goto("gone")
        /\ UNCHANGED <<flags, shown, files, agents, loop>>

\* The agent: the pid is read before dwagent.start is written.
AgentStarts(a) == /\ agent[a] = "starting" /\ agent' = [agent EXCEPT ![a] = "run"]
                  /\ follows' = [follows EXCEPT ![a] = pidFile]
                  /\ told' = [by |-> a, status |-> "CONNECTING"] /\ startFile' = TRUE
                  /\ UNCHANGED <<step, flags, shown, stopFile, pidFile, updateDir, loop>>
AgentTells(a) == /\ agent[a] = "run" /\ told.by = a
                 /\ \E st \in {"CONNECTING", "CONNECTED", "TIRED"}
                               \cup (IF RunCode THEN {"NOTFOUND"} ELSE {}) :
                      told' = [told EXCEPT !.status = st]
                 /\ UNCHANGED <<step, flags, shown, files, agent, follows, loop>>
Ends(a) == /\ agent' = [agent EXCEPT ![a] = "ended"]
           /\ told' = IF told.by = a THEN Nobody ELSE told
           /\ UNCHANGED <<step, flags, shown, stopFile, startFile, pidFile, follows, loop>>
AgentUpdates(a) == agent[a] = "run" /\ updateDir' = TRUE /\ Ends(a)
AgentCrashes(a) == Lives(a) /\ Ends(a) /\ UNCHANGED updateDir
\* is_run: the file, and the process that is followed
AgentStops(a) == /\ agent[a] = "run" /\ (stopFile \/ (follows[a] /\ step = "gone"))
                 /\ Ends(a) /\ UNCHANGED updateDir

Installer == LoopTest \/ Clean \/ Launch \/ WaitStart \/ Watch \/ StopAgent \/ Stopping
             \/ Failed \/ Finish \/ Rearm
Next == \/ Begin \/ Installer \/ Close \/ Exit
        \/ \E a \in Agent : AgentStarts(a) \/ AgentTells(a) \/ AgentUpdates(a)
                            \/ AgentCrashes(a) \/ AgentStops(a)

Fairness == /\ WF_flyVars(Installer)
            /\ \A a \in Agent : WF_flyVars(AgentStarts(a)) /\ WF_flyVars(AgentStops(a))
Spec == Init /\ [][Next]_flyVars /\ Fairness

Running == \E a \in Agent : Lives(a)

\* No agent outlives a session that the user has closed, or an installer that was killed,
\* wherever the start, an update or a slow stop then was.
OnFlyEnds == (byClient \/ step = "gone") ~> ~Running
=============================================================================
