------------------------------- MODULE Process -------------------------------
(***************************************************************************)
(* The child processes of the agent (core/ipc.py): Process, ProcessConfig,  *)
(* ProcessManager in the agent, fmain and ChildProcessThread in the child.  *)
(* Parent and child talk through a small file: a status and a pid of each,  *)
(* and the time at which the manager last saw the child run.  Processes     *)
(* share objects (memory maps, conditions); one that dies holding them      *)
(* takes the others that share them down.                                   *)
(***************************************************************************)
EXTENDS FiniteSets

CONSTANTS Procs, Objs, NoProc

VARIABLES
  agentUp,    \* the agent that starts them runs
  start,      \* start[p]: how far start() is
  child,      \* child[p]: where the operating system's process is
  stuck,      \* children whose thread does not answer to destroy
  cfg,        \* cfg[p]: the ProcessConfig file
  listed,     \* ProcessManager._list_process
  shared,     \* shared[p]: _list_shared_obj, the objects sent to p
  closed,     \* closed[p]: _bclose
  closers,    \* the processes a _close_wait thread waits for
  mgr,        \* the manager's handling of an abnormal end
  destroyed   \* objects destroyed by the manager

startVars == <<start>>
childVars == <<child, stuck>>
mgrVars == <<listed, mgr, destroyed>>
vars == <<agentUp, startVars, childVars, cfg, mgrVars, shared, closed, closers>>

StartStates == {"new", "spawned", "info", "waiting", "started", "failing", "failed"}
ChildStates == {"none", "boot", "opened", "running", "closing", "exiting", "gone"}
NoFile == [file |-> FALSE, parent |-> "I", child |-> "I", pid |-> FALSE]
Idle == [at |-> "idle", proc |-> NoProc, objs |-> {}, todo |-> {}]

Running(p) == child[p] \notin {"none", "gone"}    \* is_running

Init ==
  /\ agentUp = TRUE
  /\ start = [p \in Procs |-> "new"]
  /\ child = [p \in Procs |-> "none"] /\ stuck = {}
  /\ cfg = [p \in Procs |-> NoFile]
  /\ listed = {} /\ mgr = Idle /\ destroyed = {}
  /\ shared = [p \in Procs |-> {}]
  /\ closed = [p \in Procs |-> FALSE] /\ closers = {}

StartTo(p, s) == start' = [start EXCEPT ![p] = s]
ChildTo(p, c) == child' = [child EXCEPT ![p] = c]

-----------------------------------------------------------------------------
\* start(): the file is created, then the process
StartCreates(p) ==
  /\ agentUp /\ start[p] = "new"
  /\ cfg' = [cfg EXCEPT ![p] = [NoFile EXCEPT !.file = TRUE]]
  /\ \E ok \in BOOLEAN :    \* _create_process may raise
       IF ok THEN StartTo(p, "spawned") /\ ChildTo(p, "boot")
             ELSE StartTo(p, "waiting") /\ UNCHANGED child
  /\ UNCHANGED <<agentUp, stuck, mgrVars, shared, closed, closers>>

StartSeesPid(p) ==
  /\ agentUp /\ start[p] = "spawned" /\ Running(p) /\ cfg[p].pid
  /\ StartTo(p, "info")
  /\ UNCHANGED <<agentUp, childVars, cfg, mgrVars, shared, closed, closers>>

StartGivesInfo(p) ==
  /\ agentUp /\ start[p] = "info"
  /\ cfg' = [cfg EXCEPT ![p].parent = "O"]
  /\ StartTo(p, "waiting")
  /\ UNCHANGED <<agentUp, childVars, mgrVars, shared, closed, closers>>

\* the status C of a child that ends is not told apart here: the exception
\* it raises is caught in the loop, which goes on to one of the other ends
StartEnds(p) ==
  /\ agentUp /\ start[p] = "waiting" /\ Running(p) /\ cfg[p].child = "O"
  /\ listed' = listed \cup {p}
  /\ StartTo(p, "started")
  /\ UNCHANGED <<agentUp, childVars, cfg, mgr, destroyed, shared, closed, closers>>

\* not running, or 15 seconds have elapsed: status C, the file removed
StartFails(p) ==
  /\ agentUp /\ start[p] \in {"spawned", "info", "waiting"}
  /\ cfg' = [cfg EXCEPT ![p] = NoFile]
  /\ StartTo(p, "failing")
  /\ UNCHANGED <<agentUp, childVars, mgrVars, shared, closed, closers>>

Kill(p) == ChildTo(p, IF Running(p) THEN "gone" ELSE child[p])

StartKills(p) ==
  /\ agentUp /\ start[p] = "failing"
  /\ Kill(p)
  /\ StartTo(p, "failed")
  /\ UNCHANGED <<agentUp, stuck, cfg, mgrVars, shared, closed, closers>>

\* an object is pickled into a message to p
Share(p, o) ==
  /\ agentUp /\ start[p] = "started" /\ ~closed[p]
  /\ p \in listed /\ mgr.proc # p
  /\ shared' = [shared EXCEPT ![p] = @ \cup {o}]
  /\ UNCHANGED <<agentUp, startVars, childVars, cfg, mgrVars, closed, closers>>

\* close() of those not closed yet: a thread waits for the ones that run
CloseAll(ps) ==
  LET new == {p \in ps : ~closed[p]}
      run == {p \in new : Running(p)}
  IN /\ closed' = [p \in Procs |-> closed[p] \/ p \in new]
     /\ cfg' = [p \in Procs |->
                  IF p \in run /\ cfg[p].file THEN [cfg[p] EXCEPT !.parent = "C"]
                                              ELSE cfg[p]]
     /\ closers' = closers \cup run

Close(p) ==
  /\ agentUp /\ start[p] = "started" /\ ~closed[p]
  /\ CloseAll({p})
  /\ UNCHANGED <<agentUp, startVars, childVars, mgrVars, shared>>

\* mutant: nobody is killed
CloserWaits(p) ==
  /\ agentUp /\ p \in closers /\ ~Running(p)
  /\ closers' = closers \ {p}
  /\ UNCHANGED <<agentUp, startVars, childVars, cfg, mgrVars, shared, closed>>

\* _close_wait: until it has ended, or 5 seconds and a kill
CloserEnds(p) ==
  /\ agentUp /\ p \in closers
  /\ Kill(p)
  /\ closers' = closers \ {p}
  /\ UNCHANGED <<agentUp, startVars, stuck, cfg, mgrVars, shared, closed>>

-----------------------------------------------------------------------------
\* ProcessManager.run and Process._check_close
ManagerFinds(p) ==
  /\ agentUp /\ mgr.at = "idle" /\ p \in listed /\ ~Running(p)
  /\ closed' = [closed EXCEPT ![p] = TRUE]
  /\ cfg' = [cfg EXCEPT ![p] = NoFile]
  /\ shared' = [shared EXCEPT ![p] = {}]
  /\ IF cfg[p].child = "C"
     THEN listed' = listed \ {p} /\ UNCHANGED mgr
     ELSE /\ mgr' = [at |-> "closing", proc |-> p, objs |-> shared[p], todo |-> shared[p]]
          /\ UNCHANGED listed
  /\ UNCHANGED <<agentUp, startVars, childVars, destroyed, closers>>

\* _destroy_process_by_shared_obj, object after object
ManagerCloses ==
  /\ agentUp /\ mgr.at = "closing"
  /\ IF mgr.todo = {}
     THEN mgr' = [mgr EXCEPT !.at = "destroying"] /\ UNCHANGED <<cfg, closed, closers>>
     ELSE \E o \in mgr.todo :
            /\ CloseAll({q \in listed : o \in shared[q]})
            /\ mgr' = [mgr EXCEPT !.todo = @ \ {o}]
  /\ UNCHANGED <<agentUp, startVars, childVars, listed, destroyed, shared>>

ManagerDestroys ==
  /\ agentUp /\ mgr.at = "destroying"
  /\ destroyed' = destroyed \cup mgr.objs
  /\ listed' = listed \ {mgr.proc}
  /\ mgr' = Idle
  /\ UNCHANGED <<agentUp, startVars, childVars, cfg, shared, closed, closers>>

-----------------------------------------------------------------------------
\* fmain of the child
ChildOpens(p) ==
  /\ child[p] = "boot"
  /\ IF cfg[p].file
     THEN cfg' = [cfg EXCEPT ![p].pid = TRUE] /\ ChildTo(p, "opened")
     ELSE ChildTo(p, "exiting") /\ UNCHANGED cfg    \* File config missing.
  /\ UNCHANGED <<agentUp, startVars, stuck, mgrVars, shared, closed, closers>>

ChildRuns(p) ==
  /\ child[p] = "opened" /\ cfg[p].file /\ cfg[p].parent = "O"
  /\ \/ ChildTo(p, "running") /\ cfg' = [cfg EXCEPT ![p].child = "O"]
     \/ ChildTo(p, "closing") /\ UNCHANGED cfg    \* its module does not load
  /\ UNCHANGED <<agentUp, startVars, stuck, mgrVars, shared, closed, closers>>

\* The manager writes the alive time of those listed each second, and start
\* gives up before the child does.
Refreshed(p) ==
  agentUp /\ (p \in listed \/ start[p] \in {"spawned", "info", "waiting"})

\* status C, no file to read, or no alive time for 15 seconds
ChildToldToEnd(p) ==
  /\ child[p] \in {"opened", "running"}
  /\ cfg[p].parent = "C" \/ ~cfg[p].file \/ ~Refreshed(p)
  /\ ChildTo(p, "closing")
  /\ UNCHANGED <<agentUp, startVars, stuck, cfg, mgrVars, shared, closed, closers>>

\* the thread of the child ends by itself, as when its stream is closed
ChildThreadEnds(p) ==
  /\ child[p] = "running" /\ p \notin stuck
  /\ ChildTo(p, "closing")
  /\ UNCHANGED <<agentUp, startVars, stuck, cfg, mgrVars, shared, closed, closers>>

\* destroy, join(5), _destroy_child_shared_obj, then the status if there is
\* a file for it
ChildCloses(p) ==
  /\ child[p] = "closing"
  /\ cfg' = [cfg EXCEPT ![p].child = IF cfg[p].file THEN "C" ELSE @]
  /\ ChildTo(p, "exiting")
  /\ UNCHANGED <<agentUp, startVars, stuck, mgrVars, shared, closed, closers>>

\* the interpreter waits for the thread, which is not a daemon
ChildExits(p) ==
  /\ child[p] = "exiting" /\ p \notin stuck
  /\ ChildTo(p, "gone")
  /\ UNCHANGED <<agentUp, startVars, stuck, cfg, mgrVars, shared, closed, closers>>

ChildCrashes(p) ==
  /\ Running(p)
  /\ ChildTo(p, "gone")
  /\ UNCHANGED <<agentUp, startVars, stuck, cfg, mgrVars, shared, closed, closers>>

ChildSticks(p) ==
  /\ child[p] = "running"
  /\ stuck' = stuck \cup {p}
  /\ UNCHANGED <<agentUp, startVars, child, cfg, mgrVars, shared, closed, closers>>

-----------------------------------------------------------------------------
\* The agent ends or is killed, with whatever its threads were doing.
AgentEnds ==
  /\ agentUp
  /\ agentUp' = FALSE
  /\ UNCHANGED <<startVars, childVars, cfg, mgrVars, shared, closed, closers>>

\* initialize of the next agent: clear_path removes every .cfg file
NextAgentClears ==
  /\ ~agentUp
  /\ cfg' = [p \in Procs |-> NoFile]
  /\ UNCHANGED <<agentUp, startVars, childVars, mgrVars, shared, closed, closers>>

StartStep(p) ==
  \/ StartSeesPid(p) \/ StartGivesInfo(p) \/ StartEnds(p) \/ StartFails(p)
  \/ StartKills(p)

ChildStep(p) ==
  \/ ChildOpens(p) \/ ChildToldToEnd(p) \/ ChildCloses(p) \/ ChildExits(p)

Next ==
  \/ \E p \in Procs :
       \/ StartCreates(p) \/ StartStep(p) \/ Close(p)
       \/ CloserEnds(p) \/ ManagerFinds(p)
       \/ ChildStep(p) \/ ChildRuns(p) \/ ChildThreadEnds(p)
       \/ ChildCrashes(p) \/ ChildSticks(p)
       \/ \E o \in Objs : Share(p, o)
  \/ ManagerCloses \/ ManagerDestroys
  \/ AgentEnds \/ NextAgentClears

\* The loops of start, of the manager, of the closers and of the child poll.
Fairness ==
  /\ \A p \in Procs :
       /\ WF_vars(StartStep(p)) /\ WF_vars(ChildStep(p))
       /\ WF_vars(CloserEnds(p)) /\ WF_vars(ManagerFinds(p))
  /\ WF_vars(ManagerCloses \/ ManagerDestroys)

Spec == Init /\ [][Next]_vars /\ Fairness

-----------------------------------------------------------------------------
\* A child whose process was closed, or whose start failed, ends even if it
\* does not answer; one whose agent has ended does if its thread still answers.
\* And one that shares an object with a child that has died without its goodbye,
\* and that the manager has still to find, ends as well: it could wait for ever
\* for a lock the other held.
ChildEnds(p) ==
  /\ closed[p] \/ start[p] \in {"failing", "failed"} ~>
       ~Running(p) \/ ~agentUp
  /\ ~agentUp ~> ~Running(p) \/ p \in stuck
  /\ (\E q \in Procs \ {p}, o \in Objs :
        /\ q \in listed /\ mgr.proc # q /\ child[q] = "gone" /\ cfg[q].child # "C"
        /\ p \in listed /\ o \in shared[q] \cap shared[p]) ~>
       ~Running(p) \/ ~agentUp
ChildrenEnd == \A p \in Procs : ChildEnds(p)
=============================================================================
