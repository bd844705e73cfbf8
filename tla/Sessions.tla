------------------------------- MODULE Sessions -------------------------------
(***************************************************************************)
(* The sessions of the agent (core/agent.py): open_session, close_session,  *)
(* _close_all_sessions and the requests of a session run as tasks of the    *)
(* pool or in the main thread; the readers of the sessions' connections and *)
(* of the agent's put those tasks; the main thread updates the agent while  *)
(* no session is open, reconnects, and closes all sessions.                 *)
(*                                                                          *)
(* _sessions_semaphore is held for one step by everyone but                 *)
(* _close_all_sessions, which puts tasks while it holds it: locked is TRUE  *)
(* only then.  _libs_apps_semaphore is held within one step.                *)
(*                                                                          *)
(* A session's connection is reduced to what Connection.tla shows of it:    *)
(* it ends once, and its reader then calls evt_on_close once, if set.       *)
(***************************************************************************)
EXTENDS ThreadPool, FiniteSets

CONSTANTS
  Sess,        \* the sessions the server asks for
  Requesting   \* those of them that send a request

(* Their tasks; the pool runs others as well. *)
SessTask(kind, s) == [kind |-> kind, of |-> s]
OpenTask(s) == SessTask("open", s)
CloseTask(s) == SessTask("close", s)
RequestTask(s) == SessTask("request", s)

ASSUME SessAssumption == [kind : {"open", "close", "request"}, of : Sess] \subseteq Tasks

VARIABLES
  sessions,   \* keys of self._sessions
  updateStatus,     \* self._sessions_update_status, its "" written "none"
  locked,     \* _close_all_sessions holds _sessions_semaphore
  main,       \* where the main thread is
  todo,       \* sessions _close_all_sessions has still to visit
  visiting,   \* the one it is visiting, as a set
  phase,      \* phase[x]: how far the task of worker x is
  conn,       \* conn[s]: the connection of session s
  reader,     \* reader[s]: the thread that ends s's connection
  evts,       \* evts[s]: the handlers of s's connection are set
  elapsed,    \* elapsed[s]: iconntimeout of the open_session for s has elapsed
  requested,  \* requested[s]: what the server has asked for s
  appState,   \* the sessions the loaded apps hold state for
  told,       \* history: told[s] counts on_conn_close(s)
  stale       \* history: a request ran after the apps were told of its session's end

mainThreadVars == <<main, todo, visiting>>
connVars == <<conn, reader, evts>>
requestVars == <<elapsed, requested>>
appStateVars == <<appState, told, stale>>
sessVars == <<poolVars, sessions, updateStatus, locked, mainThreadVars, phase, connVars,
          requestVars, appStateVars>>

MainStates == {"run", "updating", "fetching", "rebooting", "reconnect",
               "closing", "unload", "ended"}
Phases == {"start", "enter", "abort", "unload"}

SessTypeOK ==
  /\ PoolTypeOK
  /\ sessions \subseteq Sess
  /\ updateStatus \in {"none", "INPROGRESS", "REBOOT"}
  /\ locked \in BOOLEAN
  /\ main \in MainStates
  /\ todo \subseteq Sess /\ visiting \subseteq Sess
  /\ phase \in [Workers -> Phases]
  /\ conn \in [Sess -> {"none", "up", "ended"}]
  /\ reader \in [Sess -> {"none", "notify", "done"}]
  /\ evts \in [Sess -> BOOLEAN]
  /\ elapsed \in [Sess -> BOOLEAN]
  /\ requested \in [Sess -> SUBSET {"open", "request"}]
  /\ appState \subseteq Sess
  /\ told \in [Sess -> Nat]
  /\ stale \in BOOLEAN

SessInit ==
  /\ PoolInit
  /\ sessions = {} /\ updateStatus = "none" /\ locked = FALSE
  /\ main = "run" /\ todo = {} /\ visiting = {}
  /\ phase = [x \in Workers |-> "start"]
  /\ conn = [s \in Sess |-> "none"]
  /\ reader = [s \in Sess |-> "none"]
  /\ evts = [s \in Sess |-> FALSE]
  /\ elapsed = [s \in Sess |-> FALSE]
  /\ requested = [s \in Sess |-> {}]
  /\ appState = {} /\ told = [s \in Sess |-> 0] /\ stale = FALSE

-----------------------------------------------------------------------------
(* The reader of the agent's connection: an openSession message.  The       *)
(* session's own reader: a request, and the end of the connection.          *)

AskOpen(s) ==
  /\ "open" \notin requested[s] /\ main # "ended"
  /\ Execute(OpenTask(s))
  /\ requested' = [requested EXCEPT ![s] = @ \cup {"open"}]
  /\ UNCHANGED <<sessions, updateStatus, locked, mainThreadVars, phase, connVars, elapsed, appStateVars>>

AskRequest(s) ==
  /\ s \in Requesting /\ "request" \notin requested[s] /\ conn[s] = "up" /\ evts[s]
  /\ Execute(RequestTask(s))
  /\ requested' = [requested EXCEPT ![s] = @ \cup {"request"}]
  /\ UNCHANGED <<sessions, updateStatus, locked, mainThreadVars, phase, connVars, elapsed, appStateVars>>

ConnectionEnds(s) ==
  /\ conn[s] = "up"
  /\ conn' = [conn EXCEPT ![s] = "ended"]
  /\ reader' = [reader EXCEPT ![s] = "notify"]
  /\ UNCHANGED <<poolVars, sessions, updateStatus, locked, mainThreadVars, phase, evts,
                 requestVars, appStateVars>>

(* Session._on_close, if the connection has its handlers; the destruction   *)
(* of the session's ConnectionPool that follows is not modelled here.       *)
ReaderNotifies(s) ==
  /\ reader[s] = "notify"
  /\ IF evts[s] THEN Execute(CloseTask(s)) ELSE UNCHANGED poolVars
  /\ reader' = [reader EXCEPT ![s] = "done"]
  /\ UNCHANGED <<sessions, updateStatus, locked, mainThreadVars, phase, conn, evts,
                 requestVars, appStateVars>>

Elapse(s) ==
  /\ ~elapsed[s] /\ "open" \in requested[s]
  /\ elapsed' = [elapsed EXCEPT ![s] = TRUE]
  /\ UNCHANGED <<poolVars, sessions, updateStatus, locked, mainThreadVars, phase,
                 connVars, requested, appStateVars>>

-----------------------------------------------------------------------------
(* The workers.  A task is at "start" when it is taken. *)

At(x, task, st) == busy[x] = task /\ phase[x] = st

TakeTask(x) ==
  /\ Take(x)
  /\ UNCHANGED <<sessions, updateStatus, locked, mainThreadVars, phase, connVars,
                 requestVars, appStateVars>>

Proceeds(x, st) == phase' = [phase EXCEPT ![x] = st] /\ UNCHANGED poolVars

Ends(x) ==
  /\ Finish(x)
  /\ phase' = [phase EXCEPT ![x] = "start"]
  /\ UNCHANGED <<queue, stopped>>

(* open_session: the connection is opened, or raises and nothing is left.   *)
OpenConnects(x, s) ==
  /\ At(x, OpenTask(s), "start")
  /\ \/ conn' = [conn EXCEPT ![s] = "up"] /\ Proceeds(x, "enter")
     \/ conn' = conn /\ Ends(x)
  /\ UNCHANGED <<sessions, updateStatus, locked, mainThreadVars, reader, evts, requestVars, appStateVars>>

(* The loop before the session is registered waits while an update is in    *)
(* progress AND iconntimeout has elapsed.                                   *)
WaitsForUpdate(s) == updateStatus = "INPROGRESS" /\ elapsed[s]

(* Mutant of OpenEnters: set_events does not look at the socket. *)
OpenIgnoresLoss(x, s) ==
  /\ At(x, OpenTask(s), "enter")
  /\ ~locked /\ ~WaitsForUpdate(s)
  /\ evts' = [evts EXCEPT ![s] = updateStatus = "none"]
  /\ IF updateStatus = "none"
     THEN sessions' = sessions \cup {s} /\ Ends(x)
     ELSE sessions' = sessions /\ Proceeds(x, "abort")
  /\ UNCHANGED <<updateStatus, locked, mainThreadVars, conn, reader, requestVars, appStateVars>>

(* Under the semaphore: an update refuses; else the Session is built, whose *)
(* set_events raises on a socket already closed; else it is registered.     *)
OpenEnters(x, s) ==
  /\ At(x, OpenTask(s), "enter")
  /\ ~locked /\ ~WaitsForUpdate(s)
  /\ evts' = [evts EXCEPT ![s] = updateStatus = "none"]
  /\ IF updateStatus = "none" /\ conn[s] = "up"
     THEN sessions' = sessions \cup {s} /\ Ends(x)
     ELSE sessions' = sessions /\ Proceeds(x, "abort")
  /\ UNCHANGED <<updateStatus, locked, mainThreadVars, conn, reader, requestVars, appStateVars>>

(* The exception: appconn.close(). *)
OpenAborts(x, s) ==
  /\ At(x, OpenTask(s), "abort")
  /\ conn' = [conn EXCEPT ![s] = "ended"]
  /\ Ends(x)
  /\ UNCHANGED <<sessions, updateStatus, locked, mainThreadVars, reader, evts, requestVars, appStateVars>>

(* _fire_close_conn_apps(s): the loaded apps drop what they hold for s. *)
TellApps(s) ==
  /\ appState' = appState \ {s}
  /\ told' = [told EXCEPT ![s] = @ + 1]
  /\ UNCHANGED stale

(* close_session, its part under the semaphore, and then _unload_apps if no *)
(* session was left then.                                                   *)
CloseRemoves(x, s) ==
  /\ At(x, CloseTask(s), "start")
  /\ ~locked
  /\ sessions' = sessions \ {s}
  /\ IF s \in sessions THEN TellApps(s) ELSE UNCHANGED appStateVars
  /\ IF sessions' = {} THEN Proceeds(x, "unload") ELSE Ends(x)
  /\ UNCHANGED <<updateStatus, locked, mainThreadVars, connVars, requestVars>>

UnloadApps == appState' = {} /\ UNCHANGED <<told, stale>>

CloseUnloads(x, s) ==
  /\ At(x, CloseTask(s), "unload")
  /\ UnloadApps
  /\ Ends(x)
  /\ UNCHANGED <<sessions, updateStatus, locked, mainThreadVars, connVars, requestVars>>

(* A request: get_app, then the app's req_ function, which leaves state for *)
(* the session; nothing looks whether the session is still there.           *)
RequestInvokes(x, s) ==
  /\ At(x, RequestTask(s), "start")
  /\ appState' = appState \cup {s}
  /\ stale' = (stale \/ s \notin sessions \/ told[s] > 0)
  /\ Ends(x)
  /\ UNCHANGED <<sessions, updateStatus, locked, mainThreadVars, connVars, requestVars, told>>

Worker(x) ==
  \/ TakeTask(x)
  \/ \E s \in Sess :
       \/ OpenConnects(x, s) \/ OpenEnters(x, s) \/ OpenAborts(x, s)
       \/ CloseRemoves(x, s) \/ CloseUnloads(x, s)
       \/ RequestInvokes(x, s)

-----------------------------------------------------------------------------
(* The main thread. *)

MainGoes(from, to) == main = from /\ main' = to /\ UNCHANGED <<todo, visiting>>

(* _check_and_update_distr: only while no session is open.                  *)
UpdateBegins ==
  /\ MainGoes("run", "updating")
  /\ ~locked /\ sessions = {}
  /\ updateStatus' = "INPROGRESS"
  /\ UNCHANGED <<poolVars, sessions, locked, phase, connVars, requestVars, appStateVars>>

UpdateUnloads ==
  /\ MainGoes("updating", "fetching")
  /\ UnloadApps
  /\ UNCHANGED <<poolVars, sessions, updateStatus, locked, phase, connVars, requestVars>>

(* Nothing was updated, or the update is ready and the agent has to reboot. *)
UpdateEnds ==
  /\ \/ MainGoes("fetching", "run") /\ updateStatus' = "none"
     \/ MainGoes("fetching", "rebooting") /\ updateStatus' = "REBOOT"
  /\ UNCHANGED <<poolVars, sessions, locked, phase, connVars, requestVars, appStateVars>>

(* The agent's own connection was lost: _run_agent again.  Sessions stay.   *)
Reconnect ==
  /\ MainGoes("run", "reconnect")
  /\ ~locked
  /\ updateStatus' = "none"
  /\ UNCHANGED <<poolVars, sessions, locked, phase, connVars, requestVars, appStateVars>>

ReconnectUnloads ==
  /\ MainGoes("reconnect", "run")
  /\ UnloadApps
  /\ UNCHANGED <<poolVars, sessions, updateStatus, locked, phase, connVars, requestVars>>

(* _close_all_sessions: when the agent is disabled, and at its end. *)
CloseAllBegins ==
  /\ main \in {"run", "rebooting"} /\ ~locked
  /\ main' = "closing" /\ locked' = TRUE /\ todo' = sessions
  /\ UNCHANGED <<poolVars, sessions, updateStatus, visiting, phase, connVars, requestVars, appStateVars>>

(* ses.close() first puts the close task... *)
CloseAllPuts(s) ==
  /\ main = "closing" /\ visiting = {} /\ s \in todo
  /\ Execute(CloseTask(s))
  /\ todo' = todo \ {s} /\ visiting' = {s}
  /\ UNCHANGED <<sessions, updateStatus, locked, main, phase, connVars, requestVars, appStateVars>>

(* ... then closes the connection, which reports nothing then; and the apps *)
(* are told.                                                                *)
CloseAllVisits(s) ==
  /\ main = "closing" /\ visiting = {s}
  /\ conn' = [conn EXCEPT ![s] = "ended"]
  /\ TellApps(s)
  /\ visiting' = {}
  /\ UNCHANGED <<poolVars, sessions, updateStatus, locked, main, todo, phase,
                 reader, evts, requestVars>>

(* Mutant of CloseAllReleases: it waits until the close tasks removed them. *)
CloseAllWaits ==
  /\ main = "closing" /\ todo = {} /\ visiting = {} /\ sessions = {}
  /\ locked' = FALSE /\ main' = "unload"
  /\ UNCHANGED <<poolVars, sessions, updateStatus, todo, visiting, phase, connVars, requestVars, appStateVars>>

CloseAllReleases ==
  /\ main = "closing" /\ todo = {} /\ visiting = {}
  /\ sessions' = {} /\ locked' = FALSE /\ main' = "unload"
  /\ UNCHANGED <<poolVars, updateStatus, todo, visiting, phase, connVars, requestVars, appStateVars>>

(* Then the apps are unloaded; a disabled agent goes on, a stopping one     *)
(* destroys the pool.                                                       *)
CloseAllUnloads ==
  /\ \/ MainGoes("unload", "run") /\ updateStatus # "REBOOT" /\ UNCHANGED poolVars
     \/ MainGoes("unload", "ended") /\ Destroy
  /\ UnloadApps
  /\ UNCHANGED <<sessions, updateStatus, locked, phase, connVars, requestVars>>

MainEnds ==
  \/ UpdateUnloads \/ UpdateEnds \/ ReconnectUnloads
  \/ \E s \in Sess : CloseAllPuts(s) \/ CloseAllVisits(s)
  \/ CloseAllReleases \/ CloseAllUnloads

Main == UpdateBegins \/ Reconnect \/ CloseAllBegins \/ MainEnds

-----------------------------------------------------------------------------
SessNext ==
  \/ \E s \in Sess : \/ AskOpen(s) \/ AskRequest(s) \/ Elapse(s)
                     \/ ConnectionEnds(s) \/ ReaderNotifies(s)
  \/ \E x \in Workers : Worker(x)
  \/ Main

(* SessFairness.  Threads that can run do run.  The semaphore is not fair, but  *)
(* its holders sleep for a second or more between two acquisitions in a     *)
(* row, and an update that begins again and again ends in between: a worker *)
(* that finds it free again and again gets it.                              *)
SessFairness ==
  /\ \A x \in Workers : SF_sessVars(Worker(x))
  /\ \A s \in Sess : WF_sessVars(ReaderNotifies(s))
  /\ WF_sessVars(MainEnds)

SessSpec == SessInit /\ [][SessNext]_sessVars /\ SessFairness

-----------------------------------------------------------------------------
(* Properties. *)

(* No session is registered while the agent is updated or waits to reboot.  *)
UpdateExclusive == updateStatus # "none" => sessions = {}

ClosePending(s) ==
  \/ reader[s] = "notify"
  \/ Waiting(CloseTask(s))
  \/ \E x \in Workers : At(x, CloseTask(s), "start")

(* A registered session whose connection has ended has a close task that    *)
(* will find it, or is being closed with all the others, or the agent ends. *)
EndedClosed ==
  \A s \in sessions : conn[s] = "ended" =>
    ClosePending(s) \/ main = "closing" \/ stopped

(* The apps are told of the end of a session at most once, though its own   *)
(* close task and _close_all_sessions both may find it.                     *)
ToldOnce == \A s \in Sess : told[s] <= 1

(* What the apps hold is for sessions that are open (unless a request of a  *)
(* session ran after its end: see the README).                              *)
AppStateOwned == ~stale => appState \subseteq sessions

(* _close_all_sessions gets its tasks into the queue and gives the          *)
(* semaphore back.                                                          *)
CloseAllEnds == locked ~> ~locked

(* The sessions the agent has registered are those it has: the four of them *)
(* hold together in every state.                                            *)
NoGhostSession == UpdateExclusive /\ EndedClosed /\ ToldOnce /\ AppStateOwned
==============================================================================
