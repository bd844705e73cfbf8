----------------------------- MODULE ConditionIPC -----------------------------
(***************************************************************************)
(* ConditionIPC and EventIPC of core/ipc.py: a condition variable built on  *)
(* a lock and three counting semaphores in shared memory, and an event      *)
(* built on it, between threads of several processes.                       *)
(*                                                                          *)
(* A thread is in one operation at a time.  sleeping is touched only with   *)
(* the lock held; woken and wait_semaphore also without it, which is what   *)
(* the steps of wait and notify are cut at.                                 *)
(***************************************************************************)
EXTENDS Naturals, FiniteSets

CONSTANTS
  Thread, NoThread,
  MaxDepth,      \* bound: nested acquisitions of the RLock
  MaxSleeping    \* bound: waits, timed out ones included, between notifications

ASSUME ConditionAssumption == NoThread \notin Thread /\ IsFiniteSet(Thread)

VARIABLES
  owner, depth,  \* of self._lock
  sleeping,      \* _sleeping_count
  woken,         \* _woken_count
  waitSem,       \* _wait_semaphore
  condPc,        \* condPc[t]: where thread t is in wait or notify
  saved,         \* saved[t]: count of wait, or sleepers of notify_all
  timed,         \* the threads whose wait has a timeout
  call,          \* history: the notification going on and whom it found waiting
  user,          \* what uses it: a condition of its own, or an EventIPC
  flag,          \* EventIPC._flag
  op             \* op[t]: the EventIPC operation t is in

condVars == <<owner, depth, sleeping, woken, waitSem, condPc, saved, timed, call>>
eventVars == <<user, flag, op>>
conditionVars == <<condVars, eventVars>>

Blocked == {t \in Thread : condPc[t] = "blocked"}

Leaving == {t \in Thread : condPc[t] = "left"}

AbstractMonitor == INSTANCE Monitor WITH
  holder <- owner, waiting <- Blocked, leaving <- Leaving

InNotify == {"drain", "wake", "await", "rezero"}
PcStates == {"run", "blocked", "left", "relock"} \cup InNotify

CondInit ==
  /\ owner = NoThread /\ depth = 0
  /\ sleeping = 0 /\ woken = 0 /\ waitSem = 0
  /\ condPc = [t \in Thread |-> "run"]
  /\ saved = [t \in Thread |-> 0]
  /\ timed = {}
  /\ call = AbstractMonitor!NoCall
  /\ user \in {"condition", "event"}
  /\ flag = 0
  /\ op = [t \in Thread |-> "none"]

Goto(t, p) == condPc' = [condPc EXCEPT ![t] = p]
Mine(t) == owner = t /\ condPc[t] = "run"

\* acquire of the lock by a thread that has not got it
Lock(t) ==
  /\ owner = NoThread
  /\ owner' = t /\ depth' = 1
  /\ UNCHANGED <<sleeping, woken, waitSem, condPc, saved, timed, call>>

\* RLockIPC: its owner may acquire it again
Relock(t) ==
  /\ Mine(t) /\ depth < MaxDepth
  /\ depth' = depth + 1
  /\ UNCHANGED <<owner, sleeping, woken, waitSem, condPc, saved, timed, call>>

Unlock(t) ==
  /\ Mine(t)
  /\ depth' = depth - 1
  /\ owner' = IF depth = 1 THEN NoThread ELSE owner
  /\ UNCHANGED <<sleeping, woken, waitSem, condPc, saved, timed, call>>

\* wait up to its block: counted as a sleeper, the lock given back count times
WaitBegins(t, hasTimeout) ==
  /\ Mine(t) /\ sleeping < MaxSleeping
  /\ sleeping' = sleeping + 1
  /\ saved' = [saved EXCEPT ![t] = depth]
  /\ owner' = NoThread /\ depth' = 0
  /\ timed' = IF hasTimeout THEN timed \cup {t} ELSE timed \ {t}
  /\ Goto(t, "blocked")
  /\ UNCHANGED <<woken, waitSem, call>>

WaitWoken(t) ==
  /\ condPc[t] = "blocked" /\ waitSem > 0
  /\ waitSem' = waitSem - 1
  /\ Goto(t, "left")
  /\ call' = [call EXCEPT !.ended = @ \/ t \notin timed]
  /\ UNCHANGED <<owner, depth, sleeping, woken, saved, timed>>

WaitTimesOut(t) ==
  /\ condPc[t] = "blocked" /\ t \in timed
  /\ Goto(t, "left")
  /\ UNCHANGED <<owner, depth, sleeping, woken, waitSem, saved, timed, call>>

\* the finally of wait: counted as woken, then the lock taken count times
WaitCounted(t) ==
  /\ condPc[t] = "left"
  /\ woken' = woken + 1
  /\ Goto(t, "relock")
  /\ UNCHANGED <<owner, depth, sleeping, waitSem, saved, timed, call>>

WaitRelocks(t) ==
  /\ condPc[t] = "relock" /\ owner = NoThread
  /\ owner' = t /\ depth' = saved[t]
  /\ saved' = [saved EXCEPT ![t] = 0]
  /\ Goto(t, "run")
  /\ UNCHANGED <<sleeping, woken, waitSem, timed, call>>

\* notify and notify_all: assert not _wait_semaphore.acquire(False)
NotifyBegins(t, all) ==
  /\ Mine(t) /\ waitSem = 0
  /\ call' = [AbstractMonitor!NoCall EXCEPT !.on = TRUE, !.all = all,
                                            !.due = Blocked \cup Leaving]
  /\ Goto(t, "drain")
  /\ UNCHANGED <<owner, depth, sleeping, woken, waitSem, saved, timed>>

\* mutant: nothing is drained
NotifySkipsDrain(t) ==
  /\ condPc[t] = "drain"
  /\ Goto(t, "wake")
  /\ UNCHANGED <<owner, depth, sleeping, woken, waitSem, saved, timed, call>>

\* those who left since the last notification are no sleepers any more
NotifyDrains(t) ==
  /\ condPc[t] = "drain"
  /\ IF woken > 0
     THEN /\ sleeping > 0    \* assert res
          /\ woken' = woken - 1 /\ sleeping' = sleeping - 1
          /\ UNCHANGED condPc
     ELSE /\ Goto(t, "wake")
          /\ UNCHANGED <<woken, sleeping>>
  /\ UNCHANGED <<owner, depth, waitSem, saved, timed, call>>

NotifyDone(t) == Goto(t, "run") /\ call' = AbstractMonitor!NoCall

NotifyWakes(t) ==
  /\ condPc[t] = "wake"
  /\ IF sleeping > 0
     THEN /\ sleeping' = sleeping - 1
          /\ waitSem' = waitSem + 1
          /\ saved' = [saved EXCEPT ![t] = @ + 1]
          /\ Goto(t, IF call.all THEN "wake" ELSE "await")
          /\ UNCHANGED call
     ELSE /\ IF saved[t] > 0 THEN Goto(t, "await") /\ UNCHANGED call
                             ELSE NotifyDone(t)
          /\ UNCHANGED <<sleeping, waitSem, saved>>
  /\ UNCHANGED <<owner, depth, woken, timed>>

NotifyAwaits(t) ==
  /\ condPc[t] = "await" /\ woken > 0
  /\ woken' = woken - 1
  /\ saved' = [saved EXCEPT ![t] = @ - 1]
  /\ Goto(t, IF saved[t] = 1 THEN "rezero" ELSE "await")
  /\ UNCHANGED <<owner, depth, sleeping, waitSem, timed, call>>

\* notify takes back one token at most, notify_all all there are
NotifyRezeroes(t) ==
  /\ condPc[t] = "rezero"
  /\ waitSem' = IF waitSem > 0 THEN waitSem - 1 ELSE 0
  /\ IF call.all /\ waitSem > 0 THEN UNCHANGED <<condPc, call>> ELSE NotifyDone(t)
  /\ UNCHANGED <<owner, depth, sleeping, woken, saved, timed>>

\* what a thread goes on with once it is in wait or notify
Continues(t) ==
  \/ WaitWoken(t) \/ WaitTimesOut(t) \/ WaitCounted(t) \/ WaitRelocks(t)
  \/ NotifyDrains(t) \/ NotifyWakes(t) \/ NotifyAwaits(t) \/ NotifyRezeroes(t)

Operates(t) ==
  \/ Lock(t) /\ condPc[t] = "run"
  \/ Relock(t) \/ Unlock(t)
  \/ \E b \in BOOLEAN : WaitBegins(t, b) \/ NotifyBegins(t, b)

\* a condition of its own, as the screen and the sound capture use it
ConditionNext == user = "condition" /\ \E t \in Thread :
  (Operates(t) \/ Continues(t)) /\ UNCHANGED eventVars

-----------------------------------------------------------------------------
\* EventIPC: every operation runs with the condition's LockIPC held.
Enter(t, o) == op' = [op EXCEPT ![t] = o]

EventBegins(t) ==
  /\ op[t] = "none" /\ condPc[t] = "run"
  /\ Lock(t)
  /\ \E o \in {"is_set", "set", "clear", "wait", "wait_timed"} : Enter(t, o)
  /\ UNCHANGED <<user, flag>>

EventSets(t) ==
  /\ op[t] = "set" /\ Mine(t)
  /\ flag' = 1 /\ UNCHANGED user
  /\ NotifyBegins(t, TRUE)
  /\ Enter(t, "end")

EventClears(t) ==
  /\ op[t] = "clear" /\ Mine(t)
  /\ flag' = 0
  /\ Enter(t, "end")
  /\ UNCHANGED <<condVars, user>>

EventTests(t) ==
  /\ op[t] \in {"is_set", "wait", "wait_timed"} /\ Mine(t)
  /\ IF flag = 0 /\ op[t] # "is_set"
     THEN WaitBegins(t, op[t] = "wait_timed")
     ELSE UNCHANGED condVars
  /\ Enter(t, "end")
  /\ UNCHANGED <<user, flag>>

EventEnds(t) ==
  /\ op[t] = "end"
  /\ Unlock(t)
  /\ Enter(t, "none")
  /\ UNCHANGED <<user, flag>>

EventNext == user = "event" /\ \E t \in Thread :
  \/ EventBegins(t) \/ EventSets(t) \/ EventClears(t) \/ EventTests(t)
  \/ EventEnds(t)
  \/ Continues(t) /\ UNCHANGED eventVars

CondNext == ConditionNext \/ EventNext

\* Threads run, and acquire in slices of a second; a timeout may come late.
Steps(t) ==
  \/ WaitWoken(t) \/ WaitCounted(t)
  \/ NotifyDrains(t) \/ NotifyWakes(t) \/ NotifyAwaits(t) \/ NotifyRezeroes(t)
CondFairness == \A t \in Thread : WF_conditionVars(Steps(t) /\ UNCHANGED eventVars)

CondSpec == CondInit /\ [][CondNext]_conditionVars /\ CondFairness

-----------------------------------------------------------------------------
\* notify and notify_all reach those who were waiting, and a wait without a
\* timeout ends by a notification only: four counters keep the monitor's word.
ImplementsMonitor == AbstractMonitor!Spec

\* The assertions of notify and notify_all hold: no token is left over from
\* an earlier call, and there is a sleeper for each thread counted as woken.
AssertionsHold == \A t \in Thread :
  /\ Mine(t) => waitSem = 0
  /\ condPc[t] = "drain" /\ woken > 0 => sleeping > 0

\* A thread that waits for the event while it is set is one that the set
\* going on has still to wake: no set is missed.
NoMissedEvent == flag = 1 =>
  Blocked = {} \/ \E t \in Thread : condPc[t] \in InNotify

\* notify_all, which waits for each thread it wakes, comes to an end.
NotifyReturns == call.on ~> ~call.on
=============================================================================
