------------------------------- MODULE MCAgent -------------------------------
(* part says which of the parts runs; none touches the state of another.     *)
(* Those of the agent's process that are not sessions (AgentSpec): the list  *)
(* of its shared names, the mailbox of its user interfaces, the files it     *)
(* keeps, its main loop, its native libraries, and the service that starts   *)
(* it.  What the sessions and the apps send beside the messages (NetSpec):   *)
(* the files over HTTP, the way to the server through a proxy, the web       *)
(* socket that is made of requests, the connections for an older server and  *)
(* the web sockets made of them.                                             *)
EXTENDS SharedNames, JsonFile, Listener, ProxyConnect, AgentMain, Channels, Transfers,
        AppSockets, Libraries, TLC

CONSTANTS proc1, proc2, o1, o2, o3, c1, c2, t1, t2, w1, w2

VARIABLES
  part,
  service, up, state, bRunning, sMain, attempt, handler, agents, child, follows, hangs,
  pidFile, startFile, stopFile

MCOwner == o1 :> proc1 @@ o2 :> proc1 @@ o3 :> proc2
MCRequests == c1 :> 2 @@ c2 :> 1

\* the libraries of the desktop app on Windows (lib_*/config.json)
MCDeps == [screencapture |-> <<"stdcpp">>, soundcapture |-> <<"stdcpp">>,
           stdcpp |-> <<"gcc">>, gcc |-> <<>>]
MCNeeds == [screen |-> "screencapture", sound |-> "soundcapture"]

svcVars == <<service, up, state, bRunning, sMain, attempt, handler, agents, child, follows,
             hangs, pidFile, startFile, stopFile>>
agentVars == <<namesVars, mailboxVars, fileVars, mainVars, libVars, svcVars>>

netVars == <<transferVars, proxyVars, httpVars, chanVars, aVars>>

S == INSTANCE Service WITH MaxServices <- 2, MaxAgents <- 2, main <- sMain

\* One of the initial states of a part that does not run.
ProxyRests == system /\ (\A w \in Ways : way[w] = "ok")
              /\ \A t \in Caller : choice[t] = "NONE"

MCInit(parts) ==
  /\ part \in parts
  /\ NamesInit /\ MailboxInit /\ FileInit /\ MainInit /\ LibInit /\ S!Init
  /\ TransferInit /\ ProxyInit /\ HttpInit /\ ChanInit /\ AInit
  /\ part # "file" => nm = CHOOSE v \in Value : TRUE
  /\ part # "main" => file.key = 1
  /\ part # "proxy" => ProxyRests
  /\ part # "channels" => ~locked
  /\ part # "sockets" => mode = "old"

AgentNext ==
  \/ part = "names" /\ NamesNext /\ UNCHANGED <<mailboxVars, fileVars, mainVars, libVars, svcVars>>
  \/ part = "mailbox" /\ MailboxNext /\ UNCHANGED <<namesVars, fileVars, mainVars, libVars, svcVars>>
  \/ part = "file" /\ FileNext /\ UNCHANGED <<namesVars, mailboxVars, mainVars, libVars, svcVars>>
  \/ part = "main" /\ MainNext /\ UNCHANGED <<namesVars, mailboxVars, fileVars, libVars, svcVars>>
  \/ part = "libraries" /\ LibNext /\ UNCHANGED <<namesVars, mailboxVars, fileVars, mainVars, svcVars>>
  \/ part = "service" /\ S!Next /\ UNCHANGED <<namesVars, mailboxVars, fileVars, mainVars, libVars>>
NetNext ==
  \/ part = "transfers" /\ TransferNext /\ UNCHANGED <<proxyVars, httpVars, chanVars, aVars>>
  \/ part = "proxy" /\ ProxyNext /\ UNCHANGED <<transferVars, httpVars, chanVars, aVars>>
  \/ part = "http" /\ HttpNext /\ UNCHANGED <<transferVars, proxyVars, chanVars, aVars>>
  \/ part = "channels" /\ ChanNext /\ UNCHANGED <<transferVars, proxyVars, httpVars, aVars>>
  \/ part = "sockets" /\ ANext /\ UNCHANGED <<transferVars, proxyVars, httpVars, chanVars>>
MCNext == /\ UNCHANGED part
          /\ \/ AgentNext /\ UNCHANGED netVars
             \/ NetNext /\ UNCHANGED agentVars

\* No fair action of a part is enabled in its initial state.
AgentSpec == /\ MCInit({"names", "mailbox", "file", "main", "libraries", "service"})
             /\ [][MCNext]_<<part, agentVars, netVars>>
             /\ MainFairness /\ S!Fairness
NetSpec == /\ MCInit({"transfers", "proxy", "http", "channels", "sockets"})
           /\ [][MCNext]_<<part, agentVars, netVars>>
           /\ TransferFairness /\ AFairness

\* A stop ends the agent, and then the service, unless it is overwritten as the service comes
\* to run; a restart asked by the server ends the agent.
StopHonoured == S!StopHonoured /\ RebootHonoured

\* A transfer comes to an end, and each request of a client is answered.
TransferEnds == ExchangeEnds /\ RequestAnswered
=============================================================================
