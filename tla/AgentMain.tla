------------------------------ MODULE AgentMain ------------------------------
(***************************************************************************)
(* The agent's main thread (core/agent.py: start and _run_agent), which     *)
(* reads the configuration and keeps a connection to a node for it, and     *)
(* those who disturb it: the thread of the local listener, which changes    *)
(* the configuration and then asks for it to be read again; the server,     *)
(* which refuses, ends the connection, forgets keys and asks for a restart; *)
(* and whoever stops the service.                                           *)
(*                                                                          *)
(* Each use of _config_semaphore is one step.  A key is a number: the n-th  *)
(* the server has given, 0 for none.  The file holds what the last write of *)
(* _config put there (JsonFile.tla); nodes is the length of its list.       *)
(***************************************************************************)
EXTENDS Integers

CONSTANTS
  MaxKeys,      \* bound: keys the server gives
  MaxNodes,     \* nodes it answers with
  CntMin, CntMax,   \* rounds of the loop between two attempts
  MaxChanges,   \* bound: changes of the configuration, besides new keys
  MaxReads      \* bound: reads of the configuration that fail

ASSUME MainAssumption == MaxKeys \in Nat /\ MaxNodes \in Nat \ {0}

VARIABLES
  main,         \* where the main thread is
  config, file, \* _config and config.json; _config is NoConfig when not read
  reload, reboot, cnt,   \* _breloadconfig, _brebootagent, _cnt
  agentKey,     \* _agent_key
  error,        \* _agent_last_error
  conn,         \* _agent_conn: "none", "open" or "closed"
  running,          \* is_run() and not _update_ready_reboot
  listener,     \* the listener has still to call _reload_config
  rebootTask,   \* a message reboot waits for a worker of the pool
  keys,         \* the keys the server knows
  given,        \* keys it has given
  refused,      \* history: keys the agent was told are removed
  changes, reads    \* bounded counters

loadFlags == <<reload, reboot, cnt>>
env == <<rebootTask, keys, given, changes, reads>>
mainVars == <<main, config, file, loadFlags, agentKey, error, conn, running,
          listener, refused, env>>

Configs == [key : 0..MaxKeys, enabled : BOOLEAN, nodes : 0..MaxNodes]
NoConfig == [key |-> -1]

\* config.json as the installer leaves it, with a key or without
MainInit ==
  /\ main = "off"
  /\ config = NoConfig
  /\ file \in [key : {0, 1}, enabled : {TRUE}, nodes : {0}]
  /\ reload = TRUE /\ reboot = FALSE /\ cnt = 0
  /\ agentKey = 0 /\ error = "none" /\ conn = "none"
  /\ running = TRUE
  /\ listener = FALSE /\ rebootTask = FALSE
  /\ keys = 1..file.key /\ given = file.key
  /\ refused = {} /\ changes = 0 /\ reads = 0

-----------------------------------------------------------------------------
(* The main thread *)

MainTo(p, q) == main = p /\ main' = q

\* The file is written with the change, under the semaphore.
SetConfig(c) == config' = c /\ file' = c

Turn == ~reboot /\ running

Start ==
  /\ MainTo("off", "test")
  /\ UNCHANGED <<config, file, loadFlags, agentKey, error, conn, running,
                 listener, refused, env>>

MainEnds ==
  /\ ~Turn /\ MainTo("test", "ended")
  /\ UNCHANGED <<config, file, loadFlags, agentKey, error, conn, running,
                 listener, refused, env>>

LoopWaits ==
  /\ Turn /\ main = "test" /\ cnt > 0
  /\ cnt' = cnt - 1
  /\ UNCHANGED <<main, config, file, reload, reboot, agentKey, error, conn,
                 running, listener, refused, env>>

LoopTurns ==
  /\ Turn /\ cnt = 0 /\ MainTo("test", IF reload THEN "read" ELSE "clear")
  /\ cnt' = CntMax
  /\ UNCHANGED <<config, file, reload, reboot, agentKey, error, conn,
                 running, listener, refused, env>>

ReadConfig ==
  /\ MainTo("read", "reset")
  /\ config' = file
  /\ UNCHANGED <<file, loadFlags, agentKey, error, conn, running,
                 listener, refused, env>>

ReadFails ==
  /\ reads < MaxReads /\ MainTo("read", "clear")
  /\ config' = NoConfig
  /\ reads' = reads + 1
  /\ UNCHANGED <<file, loadFlags, agentKey, error, conn, running,
                 listener, refused, rebootTask, keys, given, changes>>

ReloadReset ==
  /\ MainTo("reset", "clear")
  /\ reload' = FALSE
  /\ UNCHANGED <<config, file, reboot, cnt, agentKey, error, conn,
                 running, listener, refused, env>>

RebootReset ==
  /\ MainTo("clear", IF config = NoConfig THEN "test" ELSE "enabled")
  /\ reboot' = FALSE
  /\ UNCHANGED <<config, file, reload, cnt, agentKey, error, conn,
                 running, listener, refused, env>>

\* _load_config
Load ==
  /\ main = "enabled"
  /\ agentKey' = IF config.enabled THEN config.key ELSE agentKey
  /\ main' = IF config.enabled /\ config.key # 0 THEN "info" ELSE "test"
  /\ UNCHANGED <<config, file, loadFlags, error, conn, running, listener, refused, env>>

\* _get_connection_info: the nodes of the configuration, or those the server names
KnowsNodes ==
  /\ MainTo("info", "connect") /\ config.nodes > 0
  /\ UNCHANGED <<config, file, loadFlags, agentKey, error, conn, running,
                 listener, refused, env>>

GetsNodes ==
  /\ MainTo("info", "connect") /\ config.nodes = 0
  /\ SetConfig([config EXCEPT !.nodes = MaxNodes])
  /\ UNCHANGED <<loadFlags, agentKey, error, conn, running, listener,
                 refused, env>>

GetsNoNode ==
  /\ MainTo("info", "test") /\ config.nodes = 0
  /\ UNCHANGED <<config, file, loadFlags, agentKey, error, conn, running, listener,
                 refused, env>>

\* _check_and_update_distr: see Updater.tla
UpdateFound ==
  /\ main \in {"connect", "online"} /\ MainTo(main, "term")
  /\ running' = FALSE
  /\ UNCHANGED <<config, file, loadFlags, agentKey, error, conn, listener, refused, env>>

Connect ==
  /\ agentKey \in keys /\ MainTo("connect", "ready")
  /\ error' = "none" /\ conn' = "open"
  /\ UNCHANGED <<config, file, loadFlags, agentKey, running, listener,
                 refused, env>>

Errors == {"#NODE_NOT_AVAILABLE", "#ALREADY_ONLINE", "#REMOVED_KEY", "other"}

ConnectFails(e) ==
  /\ MainTo("connect", "pop")
  /\ e = "#REMOVED_KEY" => agentKey \notin keys
  /\ error' = e
  /\ refused' = IF e = "#REMOVED_KEY" THEN refused \cup {agentKey} ELSE refused
  /\ UNCHANGED <<config, file, loadFlags, agentKey, conn, running,
                 listener, env>>

\* The node that failed leaves the list, and the empty list the configuration.
PopNode ==
  /\ MainTo("pop", IF error = "#REMOVED_KEY" THEN "remove" ELSE "term")
  /\ \/ error = "#ALREADY_ONLINE" /\ UNCHANGED <<config, file>>
     \/ error # "#ALREADY_ONLINE" /\ SetConfig([config EXCEPT !.nodes = @ - 1])
  /\ UNCHANGED <<loadFlags, agentKey, error, conn, running, listener,
                 refused, env>>

WithoutKey(c) == [c EXCEPT !.key = 0, !.enabled = TRUE]

\* mutant: the key is removed, and not from the file
RemoveKeyUnwritten ==
  /\ MainTo("remove", "rereload")
  /\ config' = WithoutKey(config)
  /\ UNCHANGED <<file, loadFlags, agentKey, error, conn, running, listener,
                 refused, env>>

\* remove_key: whatever key is installed by now
RemoveKey ==
  /\ MainTo("remove", "rereload")
  /\ SetConfig(WithoutKey(config))
  /\ UNCHANGED <<loadFlags, agentKey, error, conn, running, listener,
                 refused, env>>

ReloadConfig == cnt' = 0 /\ reload' = TRUE

RemoveKeyReloads ==
  /\ MainTo("rereload", "term")
  /\ ReloadConfig
  /\ UNCHANGED <<config, file, reboot, agentKey, error, conn, running,
                 listener, refused, env>>

\* A node closed by now makes the message fail, and the loop end.
Ready ==
  /\ MainTo("ready", IF conn = "open" THEN "online" ELSE "term")
  /\ UNCHANGED <<config, file, loadFlags, agentKey, error, conn, running, listener,
                 refused, env>>

OnlineEnds ==
  /\ ~running \/ reboot \/ reload \/ conn = "closed"
  /\ MainTo("online", "term")
  /\ UNCHANGED <<config, file, loadFlags, agentKey, error, conn, running,
                 listener, refused, env>>

\* _run_agent returns, and the next attempt is soon, or not
Terminated ==
  /\ MainTo("term", "test")
  /\ conn' = "none"
  /\ cnt' \in CASE error = "none" -> CntMin..(CntMax - 1)
                [] error = "#NODE_NOT_AVAILABLE" -> {2}
                [] OTHER -> {cnt}
  /\ UNCHANGED <<config, file, reload, reboot, agentKey, error, running,
                 listener, refused, env>>

Main ==
  \/ MainEnds \/ LoopWaits \/ LoopTurns \/ ReadConfig \/ ReadFails \/ ReloadReset \/ RebootReset
  \/ Load \/ KnowsNodes \/ GetsNodes \/ GetsNoNode \/ Connect
  \/ \E e \in Errors : ConnectFails(e)
  \/ PopNode \/ RemoveKey \/ RemoveKeyReloads \/ Ready \/ OnlineEnds \/ Terminated

-----------------------------------------------------------------------------
(* The listener's thread: one request at a time *)

ListenerIdle == ~listener /\ config # NoConfig /\ main # "ended"

SetEnabled ==
  /\ ListenerIdle /\ changes < MaxChanges
  /\ SetConfig([config EXCEPT !.enabled = ~@])
  /\ changes' = changes + 1
  /\ listener' = TRUE
  /\ UNCHANGED <<main, loadFlags, agentKey, error, conn, running, refused,
                 rebootTask, keys, given, reads>>

\* install_key and install_new_agent: the server gives a key, and it is kept
InstallKey ==
  /\ ListenerIdle /\ given < MaxKeys
  /\ given' = given + 1 /\ keys' = keys \cup {given + 1}
  /\ SetConfig([config EXCEPT !.key = given + 1, !.enabled = TRUE])
  /\ listener' = TRUE
  /\ UNCHANGED <<main, loadFlags, agentKey, error, conn, running, refused,
                 rebootTask, changes, reads>>

UserRemovesKey ==
  /\ ListenerIdle /\ changes < MaxChanges /\ config.key # 0
  /\ SetConfig(WithoutKey(config))
  /\ changes' = changes + 1
  /\ listener' = TRUE
  /\ UNCHANGED <<main, loadFlags, agentKey, error, conn, running, refused,
                 rebootTask, keys, given, reads>>

ListenerReloads ==
  /\ listener /\ listener' = FALSE
  /\ ReloadConfig
  /\ UNCHANGED <<main, config, file, reboot, agentKey, error, conn,
                 running, refused, env>>

-----------------------------------------------------------------------------
(* The server, the network and the service manager *)

ConnectionEnds ==
  /\ conn = "open" /\ conn' = "closed"
  /\ UNCHANGED <<main, config, file, loadFlags, agentKey, error, running,
                 listener, refused, env>>

ForgetKey(k) ==
  /\ keys' = keys \ {k}
  /\ UNCHANGED <<main, config, file, loadFlags, agentKey, error, conn,
                 running, listener, refused, rebootTask, given, changes, reads>>

ServerReboots ==
  /\ conn = "open" /\ ~rebootTask /\ rebootTask' = TRUE
  /\ UNCHANGED <<main, config, file, loadFlags, agentKey, error, conn,
                 running, listener, refused, keys, given, changes, reads>>

\* _reboot_agent
RebootTask ==
  /\ rebootTask /\ rebootTask' = FALSE
  /\ reboot' = TRUE /\ cnt' = 0
  /\ UNCHANGED <<main, config, file, reload, agentKey, error, conn,
                 running, listener, refused, keys, given, changes, reads>>

Stop ==
  /\ running /\ running' = FALSE
  /\ UNCHANGED <<main, config, file, loadFlags, agentKey, error, conn,
                 listener, refused, env>>

MainNext ==
  \/ Start \/ Main \/ UpdateFound
  \/ SetEnabled \/ InstallKey \/ UserRemovesKey \/ ListenerReloads
  \/ ConnectionEnds \/ \E k \in keys : ForgetKey(k)
  \/ ServerReboots \/ RebootTask \/ Stop

MainFairness == WF_mainVars(Main) /\ WF_mainVars(ListenerReloads)

MainSpec == MainInit /\ [][MainNext]_mainVars /\ MainFairness

-----------------------------------------------------------------------------
Stale == conn # "none" /\ (~config.enabled \/ agentKey # config.key)

\* A connection made with a configuration that has changed since is closed, however the
\* change meets the reading of the file and the reset of the flags.
StaleEnds == Stale ~> ~Stale

\* A restart asked while the agent is connected ends the loop, even when the connection
\* ends, or the configuration changes, at that moment.
RebootHonoured == (reboot /\ main = "online") ~> (main = "ended")

\* An agent that was told its key is removed does not present it again.
RemovedNotPresented == main = "connect" => agentKey \notin refused

\* "Key no longer valid. Agent authentication configuration has been deleted."
\* (agent.py:1755): what the agent deletes is a key that is no longer valid.
DeletesRefusedKey ==
  [][main = "remove" /\ main' = "rereload" => config.key \in {0} \cup refused]_mainVars
=============================================================================
