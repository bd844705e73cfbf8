------------------------------ MODULE ThreadPool ------------------------------
(***************************************************************************)
(* communication.ThreadPool and its Workers: a bounded queue that any       *)
(* thread puts tasks on (execute blocks while it is full) and that a fixed  *)
(* number of workers take from.  The agent's task pool is                   *)
(* ThreadPool("Task", 50, 30).  What a task does is a matter of the module  *)
(* that extends this one; a worker that raises goes on with its loop, so    *)
(* the end of a task is the same either way.                                *)
(***************************************************************************)
EXTENDS Integers, Sequences

CONSTANTS
  Workers,     \* the worker threads
  QueueSize,   \* the bound of the queue, at least 1
  Tasks,       \* what may be put on it
  NoTask       \* a worker that has none

ASSUME PoolAssumption == NoTask \notin Tasks

VARIABLES
  queue,       \* self._queue
  busy,        \* busy[x]: the task worker x runs
  stopped      \* self._destroy

poolVars == <<queue, busy, stopped>>

PoolTypeOK ==
  /\ queue \in Seq(Tasks) /\ Len(queue) <= QueueSize
  /\ busy \in [Workers -> Tasks \cup {NoTask}]
  /\ stopped \in BOOLEAN

PoolInit ==
  /\ queue = <<>>
  /\ busy = [x \in Workers |-> NoTask]
  /\ stopped = FALSE

(* Mutant of Execute: the queue has no bound. *)
ExecuteUnbounded(t) ==
  /\ queue' = IF stopped THEN queue ELSE Append(queue, t)
  /\ UNCHANGED <<busy, stopped>>

(* execute(t): a blocking put; after destroy() the task is dropped. *)
Execute(t) ==
  /\ stopped \/ Len(queue) < QueueSize
  /\ queue' = IF stopped THEN queue ELSE Append(queue, t)
  /\ UNCHANGED <<busy, stopped>>

(* A worker's get; after destroy() its loop test ends it instead. *)
Take(x) ==
  /\ busy[x] = NoTask /\ ~stopped /\ queue # <<>>
  /\ busy' = [busy EXCEPT ![x] = Head(queue)]
  /\ queue' = Tail(queue)
  /\ UNCHANGED stopped

(* The task of worker x returns or raises. *)
Finish(x) == busy' = [busy EXCEPT ![x] = NoTask]

Destroy ==
  /\ stopped' = TRUE
  /\ UNCHANGED <<queue, busy>>

-----------------------------------------------------------------------------
(* Where a task is. *)

PoolOK == queue \in Seq(Tasks) /\ busy \in [Workers -> Tasks \cup {NoTask}]

Waiting(t) == \E i \in 1..Len(queue) : queue[i] = t
Running(t) == \E x \in Workers : busy[x] = t
Held(t) == Waiting(t) \/ Running(t)

(* No two of a task are on the queue, or run, or one of each. *)
Alone(t) == \A i, j \in 1..Len(queue) : queue[i] = t /\ queue[j] = t => i = j
Once(t) ==
  /\ Alone(t)
  /\ \A x \in Workers : busy[x] = t => ~Waiting(t)
  /\ \A x, y \in Workers : busy[x] = t /\ busy[y] = t => x = y
=============================================================================
