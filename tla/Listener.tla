------------------------------- MODULE Listener -------------------------------
(***************************************************************************)
(* The mailbox between the agent and its local user interfaces: IPCServer   *)
(* with its IPCConfig thread, IPCClient.send_request (core/listener.py) and *)
(* Property (core/ipc.py), a file mapped by all of them whose fields are    *)
(* read and written one by one, with no lock between processes.             *)
(*                                                                          *)
(* The fields request_pid, request_data and response_data hold the client   *)
(* they belong to or Empty.  Waiting loops of 2 and of 40 seconds may end   *)
(* at any of their rounds.                                                  *)
(***************************************************************************)
EXTENDS Naturals

CONSTANTS
  Clients,
  Empty,         \* a field of spaces
  Invalid,       \* the answer ERROR:INVALID_REQUEST
  MaxRequests    \* bound: MaxRequests[c], the requests of c

ASSUME MailboxAssumption == Empty \notin Clients

VARIABLES
  requestPid, requestData, responseData,
  server,     \* where IPCConfig.run is
  taken,      \* the request_data it has read
  client,     \* client[c]: where send_request of c is
  answer,     \* answer[c]: sret, or Empty
  asked,      \* history: requests c has made
  executed    \* history: executed[c]: requests of c that the agent has run

fields == <<requestPid, requestData, responseData>>
serverVars == <<server, taken>>
clientVars == <<client, answer, asked>>
mailboxVars == <<fields, serverVars, clientVars, executed>>

ServerStates == {"poll", "data", "invoke", "answered", "clear", "clear2", "clear3"}
ClientStates == {"idle", "ready", "pid", "data", "await", "check", "end", "gone"}

\* IPCServer.start
MailboxInit ==
  /\ requestPid = Empty /\ requestData = Empty /\ responseData = Empty
  /\ server = "poll" /\ taken = Empty
  /\ client = [c \in Clients |-> "idle"]
  /\ answer = [c \in Clients |-> Empty]
  /\ asked = [c \in Clients |-> 0]
  /\ executed = [c \in Clients |-> 0]

-----------------------------------------------------------------------------
ServerTo(s) == server' = s

ServerSeesPid ==
  /\ server = "poll" /\ requestPid # Empty
  /\ ServerTo("data")
  /\ UNCHANGED <<fields, taken, clientVars, executed>>

\* up to 2 seconds for the data, and on with none
ServerReadsData ==
  /\ server = "data"
  /\ taken' = requestData
  /\ ServerTo("invoke")
  /\ UNCHANGED <<fields, clientVars, executed>>

\* _invoke_request and its _req_* function
ServerInvokes ==
  /\ server = "invoke"
  /\ IF taken = Empty
     THEN responseData' = Invalid /\ UNCHANGED executed
     ELSE /\ responseData' = taken
          /\ executed' = [executed EXCEPT ![taken] = @ + 1]
  /\ taken' = Empty
  /\ ServerTo("answered")
  /\ UNCHANGED <<requestPid, requestData, clientVars>>

\* until the client has emptied request_data, or 2 seconds
ServerEndsWait ==
  /\ server = "answered"
  /\ ServerTo("clear")
  /\ UNCHANGED <<fields, taken, clientVars, executed>>

\* mutant: the request stays in the mailbox
ServerClearsRest ==
  /\ \/ /\ server = "clear"  /\ responseData' = Empty /\ ServerTo("clear3")
        /\ UNCHANGED requestPid
     \/ /\ server = "clear3" /\ requestPid' = Empty /\ ServerTo("poll")
        /\ UNCHANGED responseData
  /\ UNCHANGED <<requestData, taken, clientVars, executed>>

ServerClears ==
  /\ \/ /\ server = "clear"  /\ responseData' = Empty /\ ServerTo("clear2")
        /\ UNCHANGED <<requestPid, requestData>>
     \/ /\ server = "clear2" /\ requestData' = Empty /\ ServerTo("clear3")
        /\ UNCHANGED <<requestPid, responseData>>
     \/ /\ server = "clear3" /\ requestPid' = Empty /\ ServerTo("poll")
        /\ UNCHANGED <<requestData, responseData>>
  /\ UNCHANGED <<taken, clientVars, executed>>

-----------------------------------------------------------------------------
ClientTo(c, s) == client' = [client EXCEPT ![c] = s]

\* request_pid is empty: ready to accept requests
ClientSeesReady(c) ==
  /\ client[c] = "idle" /\ asked[c] < MaxRequests[c]
  /\ requestPid = Empty
  /\ ClientTo(c, "ready")
  /\ answer' = [answer EXCEPT ![c] = Empty]
  /\ asked' = [asked EXCEPT ![c] = @ + 1]
  /\ UNCHANGED <<fields, serverVars, executed>>

ClientWrites(c) ==
  /\ \/ /\ client[c] = "ready" /\ requestPid' = c /\ ClientTo(c, "pid")
        /\ UNCHANGED <<requestData, responseData>>
     \/ /\ client[c] = "pid" /\ requestData' = c /\ ClientTo(c, "data")
        /\ UNCHANGED <<requestPid, responseData>>
     \/ /\ client[c] = "data" /\ responseData' = Empty /\ ClientTo(c, "await")
        /\ UNCHANGED <<requestPid, requestData>>
  /\ UNCHANGED <<serverVars, answer, asked, executed>>

\* a round of the 40 seconds: the answer is read, then whose turn it is
ClientReads(c) ==
  /\ client[c] = "await"
  /\ answer' = [answer EXCEPT ![c] = responseData]
  /\ ClientTo(c, "check")
  /\ UNCHANGED <<fields, serverVars, asked, executed>>

ClientChecks(c) ==
  /\ client[c] = "check"
  /\ IF requestPid # c
     THEN answer' = [answer EXCEPT ![c] = Empty] /\ ClientTo(c, "end")
     ELSE /\ ClientTo(c, IF answer[c] = Empty THEN "await" ELSE "end")
          /\ UNCHANGED answer
  /\ UNCHANGED <<fields, serverVars, asked, executed>>

\* the time is over, or the counter of IPCStatus stands still
ClientGivesUp(c) ==
  /\ client[c] = "await"
  /\ ClientTo(c, "end")
  /\ UNCHANGED <<fields, serverVars, answer, asked, executed>>

\* with its pid still there the fields are emptied; no answer is a timeout
ClientEnds(c) ==
  /\ client[c] = "end"
  /\ IF requestPid = c
     THEN responseData' = Empty /\ requestData' = Empty
     ELSE UNCHANGED <<responseData, requestData>>
  /\ ClientTo(c, "idle")
  /\ UNCHANGED <<requestPid, serverVars, answer, asked, executed>>

\* the user interface is closed or killed in the middle of it
ClientDies(c) ==
  /\ client[c] # "gone"
  /\ ClientTo(c, "gone")
  /\ UNCHANGED <<fields, serverVars, answer, asked, executed>>

ServerStep ==
  \/ ServerSeesPid \/ ServerReadsData \/ ServerInvokes \/ ServerEndsWait
  \/ ServerClears

ClientStep(c) ==
  \/ ClientSeesReady(c) \/ ClientWrites(c) \/ ClientReads(c) \/ ClientChecks(c)
  \/ ClientGivesUp(c) \/ ClientEnds(c)

MailboxNext == ServerStep \/ \E c \in Clients : ClientStep(c) \/ ClientDies(c)

\* The thread of the agent runs; clients may stop anywhere.
MailboxFairness == WF_mailboxVars(ServerStep)

MailboxSpec == MailboxInit /\ [][MailboxNext]_mailboxVars /\ MailboxFairness

-----------------------------------------------------------------------------
\* A request is run once at most, however clients that come at the same time
\* overwrite each other's, and die in the middle of it.
RunOnce == \A c \in Clients : executed[c] <= asked[c]

\* The mailbox is freed whatever becomes of the client that took it.
MailboxFreed == requestPid # Empty ~> requestPid = Empty

\* "Gestione concorrenza": the answer a client takes away is that of its own
\* request, or says that it was not a valid one.
AnswersOwn == \A c \in Clients :
  client[c] = "end" => answer[c] \in {c, Invalid, Empty}
=============================================================================
