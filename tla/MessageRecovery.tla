---------------------------- MODULE MessageRecovery ----------------------------
(***************************************************************************)
(* core/agent.Message over a connection that is lost and recovered: the     *)
(* readers of the successive sockets put the server's frames together in    *)
(* one buffer, notice by requestCount the requests that went with a socket, *)
(* tell the server to skip them, and answer its recovery messages by        *)
(* sending again the responses it has not received; the pool's workers run  *)
(* the requests and send.                                                   *)
(*                                                                          *)
(* The connection is Connection.tla's, reduced: "up", "lost" (dead, and     *)
(* nobody has noticed), "down" (noticed).  Recovery succeeds, and no socket *)
(* is lost while recovery is going on: Connection.tla treats both.          *)
(* conn._semaphore is held for one step, except by a reader that puts a     *)
(* SKIP while it holds it: skipping is TRUE then.                             *)
(***************************************************************************)
EXTENDS ThreadPool

CONSTANTS
  Requests,    \* bound: how many requests the server sends
  Losses       \* bound: how many sockets are lost

Counts == 1..(Requests + Losses)     \* values of requestCount

(* Their tasks are among those of the pool. *)
ASSUME MsgAssumption ==
  /\ Requests \in Nat /\ Losses \in Nat
  /\ [kind : {"fire", "answer", "skip", "reply"}, ns : SUBSET Counts] \subseteq Tasks

Gens == 1..(Losses + 1)              \* the sockets, and their readers

(* What the server sends: a request, or a recovery message with             *)
(* cntRequestReceived and status "end".  got is 0 in a request.             *)
DownMsgs == [kind : {"request", "recovery"}, n : Counts, got : {0} \cup Counts]
NoMsg == [kind |-> "none", n |-> 0, got |-> 0]

(* What the agent sends: the responses to from..to, the skips of from..to,  *)
(* or the response to the recovery message from = to.                       *)
UpMsgs == [kind : {"answer", "skip", "reply"}, from : Counts, to : Counts]

(* The tasks: a request to run, or messages to send. *)
FireTask(n) == [kind |-> "fire", ns |-> {n}]
SendTask(kind, ns) == [kind |-> kind, ns |-> ns]

VARIABLES
  link,        \* the connection
  recovering,  \* from the loss until _on_recovery has run
  gen,         \* the socket in use
  toAgent,     \* what its server end has sent and the reader not yet read
  toServer,    \* what the agent has sent and the server not yet read
  temp,        \* self._temp_msg: its state and the reader that filled it
  half,        \* the reader that has read the first frame of Head(toAgent)
  inHand,        \* inHand[g]: the message reader g deals with
  rpc,         \* rpc[g]: where reader g is with it
  skipping,      \* a reader holds conn._semaphore to put a SKIP
  lastreqcnt,  \* self._lastreqcnt
  kept,        \* the requestCounts in self._send_response_recovery
  stage,       \* stage[x]: where worker x is with its task
  out,         \* out[x]: what it has still to send
  sent,        \* the last requestCount the server has used
  asked,       \* how many of them were requests
  answered,    \* counts whose response the server has received
  skipped,     \* counts it was told to skip
  executed,    \* history: executed[n] counts the runs of request n
  garbled,     \* history: bytes of two messages were taken for one
  raced        \* history: a reader overlapped recovery; see the README

countVars == <<lastreqcnt, kept>>
bufferVars == <<temp, half>>
readerVars == <<inHand, rpc, skipping>>
workerVars == <<stage, out>>
linkVars == <<link, recovering, gen>>
serverVars == <<sent, asked, answered, skipped>>
msgHistoryVars == <<executed, garbled, raced>>
msgVars == <<poolVars, linkVars, toAgent, toServer, bufferVars, readerVars,
          countVars, workerVars, serverVars, msgHistoryVars>>

Empty == [st |-> "empty", by |-> 0]

MsgShape ==
  /\ link \in {"up", "lost", "down"} /\ gen \in Gens
  /\ toAgent \in Seq(DownMsgs) /\ toServer \in Seq(UpMsgs)
  /\ temp \in [st : {"empty", "part", "whole"}, by : {0} \cup Gens]
  /\ half \in {0} \cup Gens
  /\ inHand \in [Gens -> DownMsgs \cup {NoMsg}]
  /\ rpc \in [Gens -> {"idle", "check", "skip", "fire", "purge", "resend", "reply"}]
  /\ lastreqcnt \in {0} \cup Counts
  /\ kept \subseteq Counts
  /\ stage \in [Workers -> {"start", "send", "wait"}]
  /\ out \in [Workers -> SUBSET UpMsgs]
  /\ sent \in {0} \cup Counts /\ asked \in 0..Requests
  /\ answered \subseteq Counts /\ skipped \subseteq Counts
  /\ executed \in [Counts -> Nat]

MsgTypeOK == PoolOK /\ ~stopped /\ MsgShape

MsgInit ==
  /\ PoolInit
  /\ link = "up" /\ recovering = FALSE /\ gen = 1
  /\ toAgent = <<>> /\ toServer = <<>>
  /\ temp = Empty /\ half = 0
  /\ inHand = [g \in Gens |-> NoMsg] /\ rpc = [g \in Gens |-> "idle"]
  /\ skipping = FALSE
  /\ lastreqcnt = 0 /\ kept = {}
  /\ stage = [x \in Workers |-> "start"] /\ out = [x \in Workers |-> {}]
  /\ sent = 0 /\ asked = 0 /\ answered = {} /\ skipped = {}
  /\ executed = [n \in Counts |-> 0] /\ garbled = FALSE /\ raced = FALSE

-----------------------------------------------------------------------------
(* The server, as far as the agent relies on it: it numbers its requests    *)
(* and recovery messages one after another, sends none twice, and starts a  *)
(* recovered socket with a recovery message that says up to where it has    *)
(* everything settled.                                                      *)

ServerRequests ==
  /\ asked < Requests /\ link \in {"up", "lost"}
  /\ ~recovering
  /\ sent' = sent + 1 /\ asked' = asked + 1
  /\ toAgent' = IF link = "up"
                THEN Append(toAgent, [kind |-> "request", n |-> sent + 1, got |-> 0])
                ELSE toAgent
  /\ UNCHANGED <<poolVars, linkVars, toServer, bufferVars, readerVars, countVars,
                 workerVars, answered, skipped, msgHistoryVars>>

ServerReads ==
  /\ toServer # <<>>
  /\ LET m == Head(toServer) IN
       /\ answered' = IF m.kind \in {"answer", "reply"} THEN answered \cup (m.from..m.to)
                      ELSE answered
       /\ skipped' = IF m.kind = "skip" THEN skipped \cup (m.from..m.to) ELSE skipped
  /\ toServer' = Tail(toServer)
  /\ UNCHANGED <<poolVars, linkVars, toAgent, bufferVars, readerVars, countVars,
                 workerVars, sent, asked, msgHistoryVars>>

(* cntRequestReceived: everything up to it is settled. *)
Received ==
  CHOOSE c \in 0..sent :
    /\ 1..c \subseteq answered \cup skipped
    /\ c = sent \/ c + 1 \notin answered \cup skipped

(* A socket dies: of what is under way each side still gets a prefix.       *)
Lose ==
  /\ link = "up" /\ ~recovering /\ gen <= Losses
  /\ link' = "lost"
  /\ \E i \in 0..Len(toAgent) : toAgent' = SubSeq(toAgent, 1, i)
  /\ \E j \in 0..Len(toServer) : toServer' = SubSeq(toServer, 1, j)
  /\ half' = IF toAgent' = <<>> THEN 0 ELSE half
  /\ UNCHANGED <<poolVars, recovering, gen, temp, readerVars, countVars,
                 workerVars, serverVars, msgHistoryVars>>

(* The reader, having read what there is, or the alive thread, whatever the *)
(* reader does, notices and goes into _on_close.                            *)
Notice ==
  /\ link = "lost" /\ ~skipping
  /\ link' = "down" /\ recovering' = TRUE
  /\ toAgent' = <<>> /\ half' = 0
  /\ raced' = (raced \/ rpc[gen] # "idle")
  /\ UNCHANGED <<poolVars, gen, toServer, temp, readerVars, countVars,
                 workerVars, serverVars, executed, garbled>>

(* _on_close gets a new socket, whose reader runs at once. *)
Reopen ==
  /\ link = "down"
  /\ link' = "up" /\ gen' = gen + 1
  /\ sent' = sent + 1
  /\ toAgent' = <<[kind |-> "recovery", n |-> sent + 1, got |-> Received]>>
  /\ UNCHANGED <<poolVars, recovering, toServer, bufferVars, readerVars,
                 countVars, workerVars, asked, answered, skipped, msgHistoryVars>>

(* evt_on_recovery: _clear_temp_msg; then _set_recovering(False, False).    *)
OnRecovery ==
  /\ recovering /\ link = "up" /\ ~skipping
  /\ temp' = Empty
  /\ recovering' = FALSE
  /\ UNCHANGED <<poolVars, link, gen, toAgent, toServer, half, readerVars,
                 countVars, workerVars, serverVars, msgHistoryVars>>

-----------------------------------------------------------------------------
(* The reader of socket g in on_data_message. *)

Hands(g, m, pc) ==
  /\ inHand' = [inHand EXCEPT ![g] = m]
  /\ rpc' = [rpc EXCEPT ![g] = pc]

ReaderUnchanged ==
  /\ raced' = (raced \/ recovering)
  /\ UNCHANGED <<poolVars, linkVars, toServer, skipping, countVars, workerVars,
                 serverVars, executed>>

(* A frame with a message, or the first of the two frames of one.  A buffer *)
(* with part of another message takes it for the rest of that one; a buffer *)
(* another reader has not cleared yet gives that reader's message again.    *)
ReadFirst(g) ==
  /\ g = gen /\ rpc[g] = "idle" /\ half = 0 /\ toAgent # <<>>
  /\ ~skipping /\ ~garbled
  /\ \/ /\ temp.st = "empty"
        /\ Hands(g, Head(toAgent), "check")
        /\ temp' = [st |-> "whole", by |-> g]
        /\ toAgent' = Tail(toAgent)
        /\ UNCHANGED <<half, garbled>>
     \/ /\ temp.st = "empty"
        /\ temp' = [st |-> "part", by |-> g] /\ half' = g
        /\ UNCHANGED <<inHand, rpc, toAgent, garbled>>
     \/ /\ temp.st = "part"
        /\ garbled' = TRUE /\ UNCHANGED <<inHand, rpc, bufferVars, toAgent>>
     \/ /\ temp.st = "whole"
        /\ Hands(g, inHand[temp.by], "check")
        /\ UNCHANGED <<bufferVars, toAgent, garbled>>
  /\ ReaderUnchanged

ReadRest(g) ==
  /\ half = g /\ ~skipping /\ ~garbled
  /\ IF temp = [st |-> "part", by |-> g]
     THEN /\ Hands(g, Head(toAgent), "check")
          /\ temp' = [st |-> "whole", by |-> g]
          /\ toAgent' = Tail(toAgent) /\ half' = 0
          /\ UNCHANGED garbled
     ELSE garbled' = TRUE /\ UNCHANGED <<inHand, rpc, bufferVars, toAgent>>
  /\ ReaderUnchanged

Rpc(g, pc) == rpc' = [rpc EXCEPT ![g] = pc]
Afterwards(m) == IF m.kind = "request" THEN "fire" ELSE "purge"

(* _check_recovery_msg, its look at requestCount: a gap is told first.      *)
Check(g) ==
  /\ rpc[g] = "check" /\ ~skipping
  /\ LET n == inHand[g].n IN
     IF n > lastreqcnt + 1
     THEN skipping' = TRUE /\ Rpc(g, "skip") /\ UNCHANGED lastreqcnt
     ELSE lastreqcnt' = n /\ Rpc(g, Afterwards(inHand[g])) /\ UNCHANGED skipping
  /\ UNCHANGED <<poolVars, linkVars, toAgent, toServer, bufferVars, inHand, kept,
                 workerVars, serverVars, msgHistoryVars>>

Gap(n) == (lastreqcnt + 1)..(n - 1)

PutSkip(g) ==
  /\ rpc[g] = "skip"
  /\ Execute(SendTask("skip", Gap(inHand[g].n)))
  /\ lastreqcnt' = inHand[g].n /\ skipping' = FALSE
  /\ Rpc(g, Afterwards(inHand[g]))
  /\ UNCHANGED <<linkVars, toAgent, toServer, bufferVars, inHand, kept,
                 workerVars, serverVars, msgHistoryVars>>

(* Mutant of Cleared: the buffer is not cleared. *)
ClearedKeeps(g) == ~skipping /\ Rpc(g, "idle") /\ UNCHANGED <<inHand, temp>>

(* The finally of on_data_message: _clear_temp_msg. *)
Cleared(g) == ~skipping /\ Hands(g, NoMsg, "idle") /\ temp' = Empty

PutFire(g) ==
  /\ rpc[g] = "fire"
  /\ Execute(FireTask(inHand[g].n))
  /\ Cleared(g)
  /\ UNCHANGED <<linkVars, toAgent, toServer, half, skipping, countVars,
                 workerVars, serverVars, msgHistoryVars>>

(* Mutant of Purged: the first response not received goes as well. *)
PurgedTooFar(got) == {n \in kept : n > got + 1}

Purged(got) == {n \in kept : n > got}

Purge(g) ==
  /\ rpc[g] = "purge" /\ ~skipping
  /\ kept' = Purged(inHand[g].got)
  /\ Rpc(g, "resend")
  /\ UNCHANGED <<poolVars, linkVars, toAgent, toServer, bufferVars, inHand, skipping,
                 lastreqcnt, workerVars, serverVars, msgHistoryVars>>

PutResend(g) ==
  /\ rpc[g] = "resend" /\ ~skipping
  /\ IF kept = {} THEN UNCHANGED poolVars ELSE Execute(SendTask("answer", kept))
  /\ Rpc(g, "reply")
  /\ UNCHANGED <<linkVars, toAgent, toServer, bufferVars, inHand, skipping,
                 countVars, workerVars, serverVars, msgHistoryVars>>

PutReply(g) ==
  /\ rpc[g] = "reply"
  /\ Execute(SendTask("reply", {inHand[g].n}))
  /\ Cleared(g)
  /\ UNCHANGED <<linkVars, toAgent, toServer, half, skipping, countVars,
                 workerVars, serverVars, msgHistoryVars>>

Reader(g) ==
  \/ ReadFirst(g) \/ ReadRest(g) \/ Check(g) \/ PutSkip(g)
  \/ PutFire(g) \/ Purge(g) \/ PutResend(g) \/ PutReply(g)

-----------------------------------------------------------------------------
(* The workers. *)

TakeMsgTask(x) ==
  /\ Take(x)
  /\ UNCHANGED <<linkVars, toAgent, toServer, bufferVars, readerVars, countVars,
                 workerVars, serverVars, msgHistoryVars>>

UpMsg(kind, from, to) == [kind |-> kind, from |-> from, to |-> to]
Answers(ns) == {UpMsg("answer", n, n) : n \in ns}

ToSend(task) ==
  CASE task.kind \in {"fire", "answer"} -> Answers(task.ns)
    [] task.kind = "reply" -> {UpMsg("reply", n, n) : n \in task.ns}
    [] task.kind = "skip" ->
         {UpMsg("skip", CHOOSE n \in task.ns : \A k \in task.ns : n <= k,
                        CHOOSE n \in task.ns : \A k \in task.ns : n >= k)}

(* A request is run and its response kept, by send_response; the other      *)
(* tasks only send.                                                         *)
Begin(x) ==
  /\ busy[x] # NoTask /\ stage[x] = "start"
  /\ stage' = [stage EXCEPT ![x] = "send"]
  /\ out' = [out EXCEPT ![x] = ToSend(busy[x])]
  /\ IF busy[x].kind = "fire"
     THEN /\ ~skipping
          /\ kept' = kept \cup busy[x].ns
          /\ executed' = [n \in Counts |->
               executed[n] + IF n \in busy[x].ns THEN 1 ELSE 0]
     ELSE UNCHANGED <<kept, executed>>
  /\ UNCHANGED <<poolVars, linkVars, toAgent, toServer, bufferVars, readerVars,
                 lastreqcnt, serverVars, garbled, raced>>

(* send_message on a socket that is up, or lost and seems up. *)
Send(x) ==
  /\ stage[x] = "send" /\ link # "down"
  /\ \E m \in out[x] :
       /\ toServer' = IF link = "up" THEN Append(toServer, m) ELSE toServer
       /\ out' = [out EXCEPT ![x] = @ \ {m}]
       /\ IF out[x] = {m}
          THEN Finish(x) /\ stage' = [stage EXCEPT ![x] = "start"]
          ELSE UNCHANGED <<busy, stage>>
  /\ UNCHANGED <<queue, stopped, linkVars, toAgent, bufferVars, readerVars,
                 countVars, serverVars, msgHistoryVars>>

(* It raises: wait_recovery, and once more. *)
SendRaises(x) ==
  /\ stage[x] = "send" /\ link = "down"
  /\ stage' = [stage EXCEPT ![x] = "wait"]
  /\ UNCHANGED <<poolVars, linkVars, toAgent, toServer, bufferVars, readerVars,
                 countVars, out, serverVars, msgHistoryVars>>

WaitRecovery(x) ==
  /\ stage[x] = "wait" /\ ~recovering /\ ~skipping
  /\ stage' = [stage EXCEPT ![x] = "send"]
  /\ UNCHANGED <<poolVars, linkVars, toAgent, toServer, bufferVars, readerVars,
                 countVars, out, serverVars, msgHistoryVars>>

MsgWorker(x) ==
  TakeMsgTask(x) \/ Begin(x) \/ Send(x) \/ SendRaises(x) \/ WaitRecovery(x)

-----------------------------------------------------------------------------
Link == Notice \/ Reopen \/ OnRecovery

MsgNext ==
  \/ ServerRequests \/ ServerReads \/ Lose \/ Link
  \/ \E g \in Gens : Reader(g)
  \/ \E x \in Workers : MsgWorker(x)

MsgSpec == MsgInit /\ [][MsgNext]_msgVars

-----------------------------------------------------------------------------
(* Properties. *)

(* A response the server still waits for can be sent again: what            *)
(* _check_recovery_msg drops from _send_response_recovery is settled there. *)
ResponsesKept ==
  \A n \in Counts :
    executed[n] > 0 /\ n \notin answered \cup skipped => n \in kept

(* A request is run once, though its frames, its response and its socket    *)
(* may be lost (raced: see the README).                                     *)
RanOnce == ~raced => \A n \in Counts : executed[n] <= 1

(* The server is never told to skip what the agent has run or is about to.  *)
SkippedNotExecuted ==
  ~raced => \A n \in Counts :
    /\ n \in skipped => executed[n] = 0
    /\ \A i \in 1..Len(queue) : queue[i] = FireTask(n) => n \notin skipped

(* Frames of a lost socket and of its successor never make one message.     *)
WholeMessages == ~raced => ~garbled

(* The agent and the server agree on each request: it is run, or given up.  *)
ExecutedOnce == RanOnce /\ SkippedNotExecuted /\ WholeMessages
=============================================================================
