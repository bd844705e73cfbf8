------------------------------- MODULE MCCore --------------------------------
(* The parts of core/ that do not touch each other's state, part says which *)
(* of them runs: the streams, the messages of a session with their          *)
(* recovery, the updater and the sessions (CoreSpec); the processes, the    *)
(* conditions and the search of the active console of ipc.py (IPCSpec); the *)
(* streams, and the sessions (with one worker and no requests, so that what *)
(* closes them all is all there is), with fairness (LiveSpec).              *)
(*                                                                          *)
(* The rings are small and of different sizes: enough writes to go around   *)
(* each more than once, in pieces larger than what is left before the end.  *)
(* The messages and the sessions share the pool, and its queue has room for *)
(* two close tasks of a session, its reader's and that of                   *)
(* _close_all_sessions: with fewer places all wait for ever (see README).   *)
EXTENDS StreamIPC, Updater, Sessions, MessageRecovery, ConditionIPC, TLC

CONSTANTS x1, x2, s1, s2, child1, child2, o1, t1, t2, t3, u1

VARIABLES
  part,
  agentUp, start, child, stuck, cfg, listed, shared, closed, closers, mgr, destroyed,
  fg, sess, changes, cAt, console, environ, capture

\* What is not the pool's.
messageVars == <<linkVars, toAgent, toServer, bufferVars, readerVars, countVars, workerVars,
                 serverVars, msgHistoryVars>>
sessionVars == <<sessions, updateStatus, locked, mainThreadVars, phase, connVars, requestVars,
                 appStateVars>>
coreVars == <<poolVars, messageVars, updateVars, sessionVars>>
processVars == <<agentUp, start, child, stuck, cfg, listed, shared, closed, closers, mgr,
                 destroyed>>
consoleVars == <<fg, sess, changes, cAt, console, environ, capture>>
ipcVars == <<processVars, conditionVars, consoleVars>>
allVars == <<part, vars, coreVars, ipcVars>>

MCSizes == 1 :> 3 @@ 2 :> 2

\* Two packages and two releases, the second of which changes one of them.
MCPackages == {"agent.zip", "agentlib.zip"}
MCChanged == 1 :> MCPackages @@ 2 :> {"agent.zip"}
\* Three counts of messages, one of them that of the recovery message.
MCTasks == [kind : {"fire", "answer", "skip", "reply"}, ns : SUBSET (1..3)]
           \cup [kind : {"open", "close", "request"}, of : {s1, s2}]
\* Two processes that share an object; two consoles that root and a user share.
P == INSTANCE Process WITH Procs <- {child1, child2}, Objs <- {o1}, NoProc <- NoThread
A == INSTANCE ActiveConsole WITH Tty <- {t1, t2}, User <- {u1}, None <- NoThread,
                                 MaxChanges <- 3, at <- cAt

MCInit(parts) == /\ part \in parts
                 /\ Init /\ MsgInit /\ UpdaterInit /\ SessInit /\ P!Init /\ CondInit /\ A!Init
                 /\ part # "condition" => user = "event"
MCNext ==
  /\ UNCHANGED part
  /\ \/ part = "stream" /\ Next /\ UNCHANGED <<coreVars, ipcVars>>
     \/ part = "messages" /\ MsgNext /\ UNCHANGED <<vars, updateVars, sessionVars, ipcVars>>
     \/ part = "updater" /\ UpdaterNext
        /\ UNCHANGED <<vars, poolVars, messageVars, sessionVars, ipcVars>>
     \/ part = "sessions" /\ SessNext /\ UNCHANGED <<vars, messageVars, updateVars, ipcVars>>
     \/ part = "processes" /\ P!Next
        /\ UNCHANGED <<vars, coreVars, conditionVars, consoleVars>>
     \/ part = "condition" /\ CondNext /\ UNCHANGED <<vars, coreVars, processVars, consoleVars>>
     \/ part = "console" /\ A!Next /\ UNCHANGED <<vars, coreVars, processVars, conditionVars>>

CoreSpec == MCInit({"stream", "messages", "updater", "sessions"}) /\ [][MCNext]_allVars

\* No fair action of a part is enabled in its initial state.
IPCSpec == /\ MCInit({"processes", "condition", "console"}) /\ [][MCNext]_allVars
           /\ P!Fairness /\ CondFairness /\ A!Fairness
\* Open is enabled from the start: it is fair where the streams run.
LiveSpec ==
  /\ MCInit({"stream", "sessions"}) /\ [][MCNext]_allVars /\ SessFairness
  /\ WF_vars(part = "stream" /\ Open)
  /\ \A s \in Sides : SF_vars(WriteLoop(s)) /\ SF_vars(ReadLoop(s)) /\ WF_vars(StartRead(s))

\* One part alone.
StreamSpec == MCInit({"stream"}) /\ [][MCNext]_allVars /\ Fairness
UpdaterAlone == MCInit({"updater"}) /\ [][MCNext]_allVars

\* A child that is closed, whose agent is gone, or that shares an object with one that
\* died, ends (the two processes are alike); and a call of notify comes back.
IPCEnds == P!ChildEnds(child1) /\ NotifyReturns

\* A capture does not stay when the console of somebody else is the active one, and has
\* the display and the authority of its own user.
FollowsConsole == A!FollowsConsole /\ A!OwnScreen
=============================================================================
