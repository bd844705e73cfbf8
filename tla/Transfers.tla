----------------------------- MODULE Transfers ------------------------------
(* The files a session sends and receives over HTTP: agent.Download and      *)
(* agent.Upload with the threads HttpUpload and HttpDownload, their          *)
(* HttpConnection, and HttpConnectionSocketPoll, which keeps the sockets of  *)
(* finished exchanges for later ones (core/communication.py).  Nothing calls *)
(* close() of a transfer that runs, so it is left out.  The server answers   *)
(* in order and keeps its connections alive; an answer to a GET is its head  *)
(* and one more piece, an answer to a POST its head.                         *)
EXTENDS Sequences, FiniteSets, Integers

CONSTANTS
  Transfer,    \* the transfers
  Gets,        \* those that receive a file: Upload and HttpDownload
  Socket,      \* the sockets the program may open
  NoSock,
  Pieces       \* pieces of a file that is sent

ASSUME TransferAssumption == Pieces \in Nat \ {0} /\ NoSock \notin Socket

VARIABLES
  idle,        \* HttpConnectionSocketPoll._list
  pollStopped, \* its thread has ended
  sockState,   \* what the program did with a socket: "new", "open", "closed"
  eof,         \* the server has closed its side
  inbox,       \* the pieces that have arrived, each the name of its transfer
  due,         \* those the server has still to send
  want,        \* pieces of a body the server awaits
  phase,       \* where a transfer's thread is
  held,        \* HttpConnection._sock
  connected, keep, \* its _connected and _keep_alive
  answered,    \* its _response_loaded, by a socket that was found ended
  toWrite,     \* pieces of the file not sent yet
  status,      \* _status of the Download or Upload
  complete,    \* _bcomplete
  temp,        \* the temporary file of an Upload exists
  got,         \* the transfers whose pieces this one took for its answer
  active,      \* Session._activities: how many "uploads" and "downloads"
  abandoned    \* history: an exchange gave up without an error of its socket

sockVars == <<idle, pollStopped, sockState, eof, inbox, due, want>>
exchangeVars == <<held, connected, keep, answered>>
bodyVars == <<toWrite, status, complete, temp, got, active, abandoned>>
transferVars == <<sockVars, phase, exchangeVars, bodyVars>>

Kind(e) == IF e \in Gets THEN "uploads" ELSE "downloads"

TransferInit ==
  /\ idle = <<>> /\ pollStopped = FALSE
  /\ sockState = [s \in Socket |-> "new"] /\ eof = [s \in Socket |-> FALSE]
  /\ inbox = [s \in Socket |-> <<>>] /\ due = [s \in Socket |-> <<>>]
  /\ want = [s \in Socket |-> 0]
  /\ phase = [e \in Transfer |-> "new"]
  /\ held = [e \in Transfer |-> NoSock]
  /\ connected = [e \in Transfer |-> FALSE] /\ keep = [e \in Transfer |-> FALSE]
  /\ answered = [e \in Transfer |-> FALSE]
  /\ toWrite = [e \in Transfer |-> IF e \in Gets THEN 0 ELSE Pieces]
  /\ status = [e \in Transfer |-> "I"] /\ complete = [e \in Transfer |-> FALSE]
  /\ temp = [e \in Transfer |-> FALSE] /\ got = [e \in Transfer |-> {}]
  /\ active = [k \in {"uploads", "downloads"} |-> 0]
  /\ abandoned = FALSE

TransferTo(e, from, to) == phase[e] = from /\ phase' = [phase EXCEPT ![e] = to]

-----------------------------------------------------------------------------
\* The server sends what is due, answers a POST early, or ends a connection.
ServerSends(s) == /\ due[s] # <<>> /\ ~eof[s] /\ sockState[s] = "open"
           /\ inbox' = [inbox EXCEPT ![s] = Append(@, Head(due[s]))]
           /\ due' = [due EXCEPT ![s] = Tail(@)]
           /\ UNCHANGED <<idle, pollStopped, sockState, eof, want, phase, exchangeVars, bodyVars>>
AnswerEarly(e) == /\ phase[e] = "write" /\ want[held[e]] > 0 /\ due[held[e]] = <<>>
             /\ want' = [want EXCEPT ![held[e]] = 0]
             /\ due' = [due EXCEPT ![held[e]] = <<e>>]
             /\ UNCHANGED <<idle, pollStopped, sockState, eof, inbox, phase, exchangeVars, bodyVars>>
Hangup(s) == /\ sockState[s] = "open" /\ ~eof[s]
             /\ eof' = [eof EXCEPT ![s] = TRUE] /\ due' = [due EXCEPT ![s] = <<>>]
             /\ UNCHANGED <<idle, pollStopped, sockState, inbox, want, phase, exchangeVars, bodyVars>>

-----------------------------------------------------------------------------
\* accept: the file is made with its rights, and the thread started; an
\* exception removes it, and the server is told.
AcceptTransfer(e) ==
  /\ TransferTo(e, "new", "start")
  /\ status' = [status EXCEPT ![e] = "T"] /\ temp' = [temp EXCEPT ![e] = e \in Gets]
  /\ UNCHANGED <<sockVars, exchangeVars, toWrite, complete, got, active, abandoned>>
AcceptFails(e) == TransferTo(e, "new", "refused") /\ UNCHANGED <<sockVars, exchangeVars, bodyVars>>

\* fire_on_start
OnStart(e) ==
  /\ TransferTo(e, "start", "get")
  /\ active' = [active EXCEPT ![Kind(e)] = @ + 1]
  /\ UNCHANGED <<sockVars, exchangeVars, toWrite, status, complete, temp, got, abandoned>>

\* get_socket: the last one that was put back, whatever its age (the test of
\* it is "elps>=0 or ...", which is always true).
Take(e) ==
  /\ idle # <<>> /\ TransferTo(e, "get", "check")
  /\ held' = [held EXCEPT ![e] = Head(idle)] /\ idle' = Tail(idle)
  /\ UNCHANGED <<pollStopped, sockState, eof, inbox, due, want, connected, keep, answered,
                 bodyVars>>
\* A socket that has something to read, or has ended, is closed.
Check(e) ==
  LET s == held[e]
      usable == inbox[s] = <<>> /\ ~eof[s]
  IN  /\ TransferTo(e, "check", IF usable THEN "request" ELSE "get")
      /\ sockState' = IF usable THEN sockState ELSE [sockState EXCEPT ![s] = "closed"]
      /\ held' = IF usable THEN held ELSE [held EXCEPT ![e] = NoSock]
      /\ UNCHANGED <<idle, pollStopped, eof, inbox, due, want, connected, keep, answered,
                     bodyVars>>
\* _connect_socket
ConnectSocket(e) ==
  /\ idle = <<>>
  /\ \/ /\ TransferTo(e, "get", "request") /\ \E s \in Socket : sockState[s] = "new"
        /\ LET s == CHOOSE s \in Socket : sockState[s] = "new"
           IN  sockState' = [sockState EXCEPT ![s] = "open"] /\ held' = [held EXCEPT ![e] = s]
     \/ TransferTo(e, "get", "except") /\ UNCHANGED <<sockState, held>>
  /\ UNCHANGED <<idle, pollStopped, eof, inbox, due, want, connected, keep, answered,
                 bodyVars>>

\* HttpConnection.connect, after it has its socket: an exception leaves the
\* socket to the object, which does not close it, for it is not _connected.
SendRequest(e) ==
  LET s == held[e]
  IN  /\ TransferTo(e, "request", IF e \in Gets THEN "code" ELSE "write")
      /\ connected' = [connected EXCEPT ![e] = TRUE] /\ keep' = [keep EXCEPT ![e] = TRUE]
      /\ IF eof[s] THEN UNCHANGED <<due, want>>
         ELSE IF e \in Gets THEN due' = [due EXCEPT ![s] = @ \o <<e, e>>] /\ UNCHANGED want
         ELSE want' = [want EXCEPT ![s] = Pieces] /\ UNCHANGED due
      /\ UNCHANGED <<idle, pollStopped, sockState, eof, inbox, held, answered, bodyVars>>
RequestFails(e) == TransferTo(e, "request", "except") /\ UNCHANGED <<sockVars, exchangeVars, bodyVars>>

\* disconnect(True): after an error of the socket it is closed.
Break(e) ==
  /\ connected' = [connected EXCEPT ![e] = FALSE] /\ keep' = [keep EXCEPT ![e] = FALSE]
  /\ sockState' = [sockState EXCEPT ![held[e]] = "closed"] /\ held' = [held EXCEPT ![e] = NoSock]
  /\ UNCHANGED <<idle, pollStopped, eof, inbox, due, want, answered, bodyVars>>

\* HttpConnection.write: at most every quarter of a second, and the first
\* time, it looks for an answer, which is an error if there is one.
WritePiece(e) ==
  LET s == held[e]
  IN  /\ phase[e] = "write" /\ toWrite[e] > 0
      /\ \E looks \in (IF toWrite[e] = Pieces THEN {TRUE} ELSE BOOLEAN) :
           /\ ~(looks /\ inbox[s] # <<>>)
           /\ answered' = [answered EXCEPT ![e] = @ \/ (looks /\ eof[s])]
      /\ toWrite' = [toWrite EXCEPT ![e] = @ - 1]
      /\ IF eof[s] \/ want[s] = 0 THEN UNCHANGED <<want, due>>
         ELSE /\ want' = [want EXCEPT ![s] = @ - 1]
              /\ due' = IF want[s] = 1 THEN [due EXCEPT ![s] = Append(@, e)] ELSE due
      /\ UNCHANGED <<idle, pollStopped, sockState, eof, inbox, phase, held, connected, keep,
                     status, complete, temp, got, active, abandoned>>
WriteFails(e) == toWrite[e] > 0 /\ TransferTo(e, "write", "except") /\ Break(e)
AllWritten(e) ==
  /\ toWrite[e] = 0 /\ TransferTo(e, "write", "code")
  /\ complete' = [complete EXCEPT ![e] = TRUE]
  /\ UNCHANGED <<sockVars, exchangeVars, toWrite, status, temp, got, active, abandoned>>

\* The next piece on the socket is taken for this transfer's.
TakePiece(e) ==
  /\ got' = [got EXCEPT ![e] = @ \cup {Head(inbox[held[e]])}]
  /\ inbox' = [inbox EXCEPT ![held[e]] = Tail(@)]
  /\ UNCHANGED <<idle, pollStopped, sockState, eof, due, want, exchangeVars, toWrite, status, temp,
                 active>>

\* get_response_code
ReadCode(e) ==
  /\ TransferTo(e, "code", IF e \in Gets THEN "read" ELSE "final")
  /\ ~answered[e] /\ inbox[held[e]] # <<>>
  /\ TakePiece(e) /\ UNCHANGED <<complete, abandoned>>
\* Another code than 200: what follows the head is not read.
BadCode(e) ==
  /\ TransferTo(e, "code", "except") /\ ~answered[e] /\ inbox[held[e]] # <<>>
  /\ complete' = [complete EXCEPT ![e] = FALSE]
  /\ abandoned' = (abandoned \/ e \in Gets)
  /\ TakePiece(e)
\* The socket ends, or the file is shorter than was said.
Ended(e) ==
  /\ TransferTo(e, "code", "except") \/ TransferTo(e, "read", "except")
  /\ answered[e] \/ (eof[held[e]] /\ inbox[held[e]] = <<>>)
  /\ complete' = [complete EXCEPT ![e] = FALSE]
  /\ UNCHANGED <<sockVars, exchangeVars, toWrite, status, temp, got, active, abandoned>>
\* mutant: the error of a read leaves the connection to be kept
TimeoutKeeps(e) ==
  /\ TransferTo(e, "code", "except") \/ TransferTo(e, "read", "except")
  /\ UNCHANGED <<sockVars, exchangeVars, bodyVars>>
\* Nothing came in time, or the socket is broken: the exception leaves
\* _bcomplete as it is, set for a POST whose file was sent.
Timeout(e) ==
  /\ TransferTo(e, "code", "except") \/ TransferTo(e, "read", "except")
  /\ Break(e)

ReadPiece(e) ==
  /\ phase[e] = "read" /\ inbox[held[e]] # <<>>
  /\ phase' = [phase EXCEPT ![e] = "final"] /\ complete' = [complete EXCEPT ![e] = TRUE]
  /\ TakePiece(e) /\ UNCHANGED abandoned
\* The file cannot be opened or written.
DiskFails(e) ==
  /\ TransferTo(e, "read", "except") /\ abandoned' = TRUE
  /\ UNCHANGED <<sockVars, exchangeVars, toWrite, status, complete, temp, got, active>>

\* fire_except
OnExcept(e) ==
  /\ TransferTo(e, "except", "final")
  /\ status' = [status EXCEPT ![e] = "E"]
  /\ active' = [active EXCEPT ![Kind(e)] = @ - 1]
  /\ UNCHANGED <<sockVars, exchangeVars, toWrite, complete, temp, got, abandoned>>

\* disconnect: a connection to be kept gives its socket to the pool.
Disconnect(e) ==
  /\ TransferTo(e, "final", "finish")
  /\ IF ~connected[e] THEN UNCHANGED <<idle, sockState, held>>
     ELSE /\ held' = [held EXCEPT ![e] = NoSock]
          /\ IF keep[e] THEN idle' = <<held[e]>> \o idle /\ UNCHANGED sockState
             ELSE sockState' = [sockState EXCEPT ![held[e]] = "closed"] /\ UNCHANGED idle
  /\ connected' = [connected EXCEPT ![e] = FALSE]
  /\ UNCHANGED <<pollStopped, eof, inbox, due, want, keep, answered, bodyVars>>

\* _on_complete: the transfer is told, then the file moved, which may fail.
OnComplete(e) ==
  /\ complete[e] /\ TransferTo(e, "finish", "end")
  /\ status' = [status EXCEPT ![e] = "C"]
  /\ active' = [active EXCEPT ![Kind(e)] = @ - 1]
  /\ \E moved \in {TRUE, e \notin Gets} : temp' = [temp EXCEPT ![e] = @ /\ ~moved]
  /\ UNCHANGED <<sockVars, exchangeVars, toWrite, complete, got, abandoned>>
\* mutant: what was received of an incomplete file stays
IncompleteStays(e) ==
  /\ ~complete[e] /\ TransferTo(e, "finish", "end") /\ UNCHANGED temp
  /\ UNCHANGED <<sockVars, exchangeVars, toWrite, status, complete, got, active, abandoned>>
Incomplete(e) ==
  /\ ~complete[e] /\ TransferTo(e, "finish", "end")
  /\ temp' = [temp EXCEPT ![e] = FALSE]
  /\ UNCHANGED <<sockVars, exchangeVars, toWrite, status, complete, got, active, abandoned>>
\* The last bytes do not fit on the disk: the exception leaves the thread.
SyncFails(e) ==
  /\ e \in Gets /\ complete[e] /\ TransferTo(e, "finish", "end")
  /\ UNCHANGED <<sockVars, exchangeVars, bodyVars>>

\* The poll's thread closes a socket that nobody took for long; when the agent
\* stops it ends, and closes them all.
Sweep ==
  /\ ~pollStopped
  /\ \E i \in DOMAIN idle :
       /\ sockState' = [sockState EXCEPT ![idle[i]] = "closed"]
       /\ idle' = SubSeq(idle, 1, i - 1) \o SubSeq(idle, i + 1, Len(idle))
  /\ UNCHANGED <<pollStopped, eof, inbox, due, want, phase, exchangeVars, bodyVars>>
DestroyPoll ==
  /\ ~pollStopped /\ pollStopped' = TRUE /\ idle' = <<>>
  /\ sockState' = [s \in Socket |-> IF \E i \in DOMAIN idle : idle[i] = s THEN "closed"
                                ELSE sockState[s]]
  /\ UNCHANGED <<eof, inbox, due, want, phase, exchangeVars, bodyVars>>

\* The thread of a transfer never stops for good by itself.
Works(e) ==
  \/ OnStart(e) \/ Take(e) \/ Check(e) \/ ConnectSocket(e) \/ SendRequest(e) \/ RequestFails(e)
  \/ WritePiece(e) \/ WriteFails(e) \/ AllWritten(e) \/ ReadCode(e) \/ BadCode(e) \/ Ended(e)
  \/ Timeout(e) \/ ReadPiece(e) \/ DiskFails(e) \/ OnExcept(e) \/ Disconnect(e)
  \/ OnComplete(e) \/ Incomplete(e) \/ SyncFails(e)

TransferNext ==
  \/ \E e \in Transfer : AcceptTransfer(e) \/ AcceptFails(e) \/ Works(e) \/ AnswerEarly(e)
  \/ \E s \in Socket : ServerSends(s) \/ Hangup(s)
  \/ Sweep \/ DestroyPoll

TransferFairness == \A e \in Transfer : WF_transferVars(Works(e))

TransferSpec == TransferInit /\ [][TransferNext]_transferVars /\ TransferFairness

-----------------------------------------------------------------------------
Pooled == {idle[i] : i \in DOMAIN idle}

\* A socket is one exchange's or the pool's, once, and it is open: two
\* transfers never write on the same connection, and the thread that closes
\* old sockets never closes one that was just taken.
SocketsExclusive ==
  /\ Cardinality(Pooled) = Len(idle)
  /\ \A s \in Pooled : sockState[s] = "open"
  /\ \A e \in Transfer : held[e] # NoSock =>
       /\ held[e] \notin Pooled /\ sockState[held[e]] = "open"
       /\ \A f \in Transfer \ {e} : held[f] # held[e]

\* As long as no exchange gave up its answer half read, a transfer that takes
\* over a kept socket reads its own answer only, never what is left of another.
OwnAnswer == ~abandoned => \A e \in Transfer : got[e] \subseteq {e}

\* A transfer that runs has a socket of its own, and the answers it reads are its own.
AnswersOwned == SocketsExclusive /\ OwnAnswer

\* A transfer ends whatever the server does, and one that failed leaves no
\* temporary file behind.
ExchangeEnds ==
  \A e \in Transfer : phase[e] = "start" ~> phase[e] = "end" /\ (status[e] = "E" => ~temp[e])

\* "#CHECK CONNECTION" (communication.py:1043): a kept socket is handed out
\* only when nothing of a former exchange is left on it.
GivenClean ==
  \A e \in Transfer : phase[e] = "request" => due[held[e]] = <<>> /\ inbox[held[e]] = <<>>

\* A file that was sent without the answer 200 is not complete
\* (communication.py:1534-1536): a transfer that was told to have failed is
\* not told to be complete as well.
ToldOnce == [][\A e \in Transfer : status[e] = "E" => status'[e] = "E"]_transferVars
=============================================================================
