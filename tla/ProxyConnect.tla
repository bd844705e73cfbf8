---------------------------- MODULE ProxyConnect -----------------------------
(* _connect_socket (core/communication.py): a TLS connection to the server,  *)
(* through the proxy the user chose, or through the one the system names,    *)
(* which all threads share (_proxy_detected).  A proxy that was detected and *)
(* does not work is given up for a direct connection; one that was chosen is *)
(* not.  What the network does with each way is fixed during an attempt.     *)
EXTENDS Naturals

CONSTANTS
  Caller,      \* the threads that connect
  Windows,     \* the system is Windows
  MaxAttempts  \* bound: attempts of a thread

Ways == {"direct", "system", "chosen"}   \* without proxy, or through which

VARIABLES
  system,      \* a proxy is set in the system
  way,         \* way[w]: it does not open a TCP connection to the server ("shut"),
               \* or TLS over it is "ok", has another certificate ("cert"), or "fails"
  checked, info, \* _proxy_detected: its "check", and whether its "info" is a proxy
  at,          \* where a thread is
  choice,      \* the proxy_info it was given: "SYSTEM", "NONE", "HTTP", "SOCKS5"
  by,          \* prxi: the way it takes
  det,         \* bprxdet
  sockets,     \* its open sockets
  attempts

networkVars == <<system, way>>
proxyVars == <<networkVars, checked, info, at, choice, by, det, sockets, attempts>>

Choices == {"SYSTEM", "NONE", "HTTP", "SOCKS5"}

ProxyInit ==
  /\ system \in BOOLEAN
  /\ way \in [Ways -> {"shut", "ok", "cert", "fails"}]
  /\ checked = FALSE /\ info = FALSE
  /\ at = [c \in Caller |-> "idle"] /\ choice \in [Caller -> Choices]
  /\ by = [c \in Caller |-> "direct"] /\ det = [c \in Caller |-> FALSE]
  /\ sockets = [c \in Caller |-> 0] /\ attempts = [c \in Caller |-> 0]

\* The proxy of the registry, if it is enabled.
DetectWindows == system
\* The environment's is never found: the function splits the first character
\* of the variable where it means its parts, and drops the exception; macOS and Haiku have none.
DetectLinux == FALSE
Detected == IF Windows THEN DetectWindows ELSE DetectLinux

Goto(c, from, to) == at[c] = from /\ at' = [at EXCEPT ![c] = to]

Begin(c) ==
  /\ Goto(c, "idle", "detect") /\ attempts[c] < MaxAttempts
  /\ attempts' = [attempts EXCEPT ![c] = @ + 1]
  /\ sockets' = [sockets EXCEPT ![c] = 1] /\ det' = [det EXCEPT ![c] = FALSE]
  /\ UNCHANGED <<networkVars, checked, info, choice, by>>

\* mutant: a proxy the user chose may be given up as well
DetectAll(c) ==
  /\ Goto(c, "detect", "dial") /\ det' = [det EXCEPT ![c] = TRUE]
  /\ checked' = TRUE /\ info' = (IF checked THEN info ELSE Detected)
  /\ by' = [by EXCEPT ![c] = IF choice[c] \in {"HTTP", "SOCKS5"} THEN "chosen"
                             ELSE IF choice[c] = "SYSTEM" /\ info' THEN "system"
                             ELSE "direct"]
  /\ UNCHANGED <<networkVars, choice, sockets, attempts>>

\* The system is asked once, under the semaphore of the shared record.
Detect(c) ==
  /\ Goto(c, "detect", "dial")
  /\ IF choice[c] = "SYSTEM"
       THEN /\ checked' = TRUE /\ info' = IF checked THEN info ELSE Detected
            /\ det' = [det EXCEPT ![c] = TRUE]
            /\ by' = [by EXCEPT ![c] = IF info' THEN "system" ELSE "direct"]
       ELSE /\ by' = [by EXCEPT ![c] = IF choice[c] = "NONE" THEN "direct" ELSE "chosen"]
            /\ UNCHANGED <<checked, info, det>>
  /\ UNCHANGED <<networkVars, choice, sockets, attempts>>

\* The exception leaves _connect_socket, which closes its last socket.
Raise(c, from) ==
  /\ Goto(c, from, "idle") /\ sockets' = [sockets EXCEPT ![c] = @ - 1]
  /\ UNCHANGED <<networkVars, checked, info, choice, by, det, attempts>>

\* release_detected_proxy, then the socket is closed and another one made.
GiveUp(c, from) ==
  /\ det[c] /\ Goto(c, from, "redial")
  /\ checked' = FALSE /\ info' = FALSE
  /\ UNCHANGED <<networkVars, choice, by, det, sockets, attempts>>

\* The connection, and with a proxy the request for the server (CONNECT, or
\* the exchange of SOCKS4, SOCKS4A and SOCKS5).  A direct one has no other way.
Dial(c) ==
  /\ way[by[c]] # "shut" /\ Goto(c, "dial", "tls")
  /\ UNCHANGED <<networkVars, checked, info, choice, by, det, sockets, attempts>>
DialFails(c) ==
  /\ way[by[c]] = "shut"
  /\ IF by[c] # "direct" /\ det[c] THEN GiveUp(c, "dial") ELSE Raise(c, "dial")

\* Without proxy, once: from now on none is detected, and it is final.
Redial(c) ==
  /\ way["direct"] # "shut" /\ Goto(c, "redial", "tls")
  /\ by' = [by EXCEPT ![c] = "direct"] /\ det' = [det EXCEPT ![c] = FALSE]
  /\ checked' = TRUE /\ info' = FALSE
  /\ UNCHANGED <<networkVars, choice, sockets, attempts>>
RedialFails(c) == way["direct"] = "shut" /\ Raise(c, "redial")

\* wrap_socket: a proxy that shows a certificate of its own is given up too.
Wrap(c) ==
  /\ way[by[c]] = "ok" /\ Goto(c, "tls", "done")
  /\ UNCHANGED <<networkVars, checked, info, choice, by, det, sockets, attempts>>
WrapFails(c) ==
  \/ way[by[c]] = "cert" /\ (IF det[c] THEN GiveUp(c, "tls") ELSE Raise(c, "tls"))
  \/ way[by[c]] = "fails" /\ Raise(c, "tls")

\* The connection ends, and its user closes it.
CloseSocket(c) == /\ Goto(c, "done", "idle") /\ sockets' = [sockets EXCEPT ![c] = 0]
            /\ UNCHANGED <<networkVars, checked, info, choice, by, det, attempts>>

\* The agent before each connection, of its own or for a check of its nodes:
\* release_detected_proxy.
Forget == /\ checked /\ checked' = FALSE /\ info' = FALSE
          /\ UNCHANGED <<networkVars, at, choice, by, det, sockets, attempts>>

ProxyNext ==
  \/ \E c \in Caller :
       \/ Begin(c) \/ Detect(c) \/ Dial(c) \/ DialFails(c) \/ Redial(c) \/ RedialFails(c)
       \/ Wrap(c) \/ WrapFails(c) \/ CloseSocket(c)
  \/ Forget

ProxySpec == ProxyInit /\ [][ProxyNext]_proxyVars

-----------------------------------------------------------------------------
\* Whatever other threads do to the proxy they share, a connection is made
\* directly only by one that was not told a proxy by the user, it has the
\* server's certificate, and it holds one socket; an attempt that failed holds none.
ConnectedAsTold ==
  \A c \in Caller :
    /\ at[c] = "done" => /\ way[by[c]] = "ok" /\ sockets[c] = 1
                         /\ by[c] = "chosen" <=> choice[c] \in {"HTTP", "SOCKS5"}
                         /\ by[c] = "system" => choice[c] = "SYSTEM"
    /\ at[c] = "idle" => sockets[c] = 0
=============================================================================
