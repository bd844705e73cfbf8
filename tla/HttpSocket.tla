----------------------------- MODULE HttpSocket ------------------------------
(* A web socket where web sockets do not pass: WebSocketSimulate of          *)
(* core/communication.py, which asks the server for messages by a GET and    *)
(* answers with its own by a POST, in turns, and agent.WebSocket, by which   *)
(* an app sends on it, is told what came and is told of its end.  A message  *)
(* is its number; all have the length 1.                                     *)
EXTENDS Naturals, Sequences

CONSTANTS
  AppThread,   \* the threads of the app that send
  MaxSend,     \* _get_max_send_size
  MaxPosted    \* bound: messages of the app

ASSUME SendSizeAssumption == MaxSend \in Nat

VARIABLES
  hShut,       \* _close
  hHandlers,   \* the events are set
  data,        \* _data_list
  size,        \* _data_list_size
  hAt,         \* where run() is
  turn,        \* arsend: the messages it is about to post
  says,        \* what the server said last: "data" or "destroy"
  caller,      \* where a sender is: "idle", "send"
  appended,    \* history: the messages in the order they were taken
  posted,      \* the messages the server has
  ends,        \* on_close calls
  tells        \* on_data calls of the turn that are left

simVars == <<hShut, hHandlers, data, size, hAt, turn, says>>
httpVars == <<simVars, caller, appended, posted, ends, tells>>

HttpInit ==
  /\ hShut = TRUE /\ hHandlers = TRUE /\ data = <<>> /\ size = 0
  /\ hAt = "new" /\ turn = <<>> /\ says = "data"
  /\ caller = [s \in AppThread |-> "idle"]
  /\ appended = <<>> /\ posted = <<>> /\ ends = 0 /\ tells = 0

\* accept and open: the first GET says "ok" or the socket stays closed.
HttpOpen ==
  /\ hAt = "new"
  /\ \/ hAt' = "read" /\ hShut' = FALSE
     \/ hAt' = "end" /\ hShut' = TRUE
  /\ UNCHANGED <<hHandlers, data, size, turn, says, caller, appended, posted, ends, tells>>

\* _read_requests, which the server answers in time, or the timeout ends.
ReadRequests ==
  /\ hAt = "read" /\ ~hShut
  /\ \/ \E n \in 0..1 : says' = "data" /\ tells' = n /\ hAt' = "tell"
     \/ says' = "destroy" /\ hAt' = "last" /\ UNCHANGED tells
     \/ hAt' = "finally" /\ UNCHANGED <<says, tells>>
  /\ UNCHANGED <<hShut, hHandlers, data, size, turn, caller, appended, posted, ends>>
\* The loop ends: the server is told, unless it had said so itself.
LoopEnds == /\ \/ hAt = "read" /\ hShut
               \/ hAt = "last"
            /\ hAt' = "finally"
            /\ UNCHANGED <<hShut, hHandlers, data, size, turn, says, caller, appended,
                           posted, ends, tells>>
\* _on_data of the app, as long as close() has not taken it away; the call
\* that finds it gone raises.
OnData ==
  /\ hAt = "tell"
  /\ \/ tells > 0 /\ hHandlers /\ tells' = tells - 1 /\ UNCHANGED hAt
     \/ tells > 0 /\ ~hHandlers /\ hAt' = "finally" /\ UNCHANGED tells
     \/ tells = 0 /\ hAt' = "collect" /\ UNCHANGED tells
  /\ UNCHANGED <<hShut, hHandlers, data, size, turn, says, caller, appended, posted, ends>>

\* mutant: the last messages are taken first
CollectLast ==
  /\ hAt = "collect" /\ hAt' = "post"
  /\ LET n == IF Len(data) < MaxSend THEN Len(data) ELSE MaxSend
     IN  /\ turn' = SubSeq(data, Len(data) - n + 1, Len(data))
         /\ data' = SubSeq(data, 1, Len(data) - n)
  /\ size' = size - Len(turn')
  /\ UNCHANGED <<hShut, hHandlers, says, caller, appended, posted, ends, tells>>
\* After a wait for something to send, a turn's worth is taken off the list,
\* and the senders are woken.
Collect ==
  /\ hAt = "collect" /\ hAt' = "post"
  /\ LET n == IF Len(data) < MaxSend THEN Len(data) ELSE MaxSend
     IN  turn' = SubSeq(data, 1, n) /\ data' = SubSeq(data, n + 1, Len(data))
  /\ size' = size - Len(turn')
  /\ UNCHANGED <<hShut, hHandlers, says, caller, appended, posted, ends, tells>>
\* _write_responses
Post ==
  /\ hAt = "post" /\ turn' = <<>>
  /\ \/ hAt' = "read" /\ posted' = posted \o turn
     \/ hAt' = "finally" /\ posted' \in {posted, posted \o turn}
  /\ UNCHANGED <<hShut, hHandlers, data, size, says, caller, appended, ends, tells>>

\* bonclose is decided under the condition, and on_close called after it.
Finally ==
  /\ hAt = "finally" /\ hShut' = TRUE
  /\ hAt' = IF hShut THEN "end" ELSE "close"
  /\ UNCHANGED <<hHandlers, data, size, turn, says, caller, appended, posted, ends, tells>>
HttpOnClose ==
  /\ hAt = "close" /\ hAt' = "end"
  /\ ends' = ends + 1
  /\ UNCHANGED <<hShut, hHandlers, data, size, turn, says, caller, appended, posted, tells>>

\* _send: while the list is too long the sender waits.
SendBegins(s) == /\ caller[s] = "idle" /\ Len(appended) < MaxPosted
                 /\ hAt # "new" /\ caller' = [caller EXCEPT ![s] = "send"]
                 /\ UNCHANGED <<simVars, appended, posted, ends, tells>>
SendEnds(s) ==
  /\ caller[s] = "send" /\ (hShut \/ size <= MaxSend)
  /\ caller' = [caller EXCEPT ![s] = "idle"]
  /\ IF hShut THEN UNCHANGED <<data, size, appended>>
     ELSE LET m == Len(appended) + 1
          IN  /\ data' = Append(data, m) /\ size' = size + 1 /\ appended' = Append(appended, m)
  /\ UNCHANGED <<hShut, hHandlers, hAt, turn, says, posted, ends, tells>>

\* close() of the app, which is not told of the end it made.
HttpClose ==
  /\ ~hShut /\ hShut' = TRUE /\ hHandlers' = FALSE
  /\ UNCHANGED <<data, size, hAt, turn, says, caller, appended, posted, ends, tells>>

HttpRun == \/ HttpOpen \/ ReadRequests \/ LoopEnds \/ OnData \/ Collect \/ Post
           \/ Finally \/ HttpOnClose

HttpNext == HttpRun \/ HttpClose \/ \E s \in AppThread : SendBegins(s) \/ SendEnds(s)

\* The server's answers come or time out.  A sender looks again at the latest
\* after half a second.
HttpFairness == /\ WF_httpVars(HttpRun /\ hAt # "new")
                /\ \A s \in AppThread : WF_httpVars(SendEnds(s))

HttpSpec == HttpInit /\ [][HttpNext]_httpVars /\ HttpFairness

-----------------------------------------------------------------------------
\* The server has the messages in the order they were taken, each once, and
\* none is missing before one that it has, up to the one where the socket broke.
InOrder == /\ \E k \in 0..Len(appended) : posted = SubSeq(appended, 1, k)
           /\ ~hShut /\ hAt # "finally" => posted \o turn \o data = appended

\* The app is told of the end once, and never of one it made itself.
EndTold == ends <= (IF hHandlers THEN 1 ELSE 0)

\* A sender does not wait for ever: the list gets shorter or the socket closes.
SendsEnd == \A s \in AppThread : caller[s] = "send" ~> caller[s] = "idle"
=============================================================================
