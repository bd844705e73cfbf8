------------------------------- MODULE Monitor -------------------------------
(***************************************************************************)
(* What a condition variable promises its users: a lock, threads that wait  *)
(* with the lock given back, and notifications that reach those who were in *)
(* a wait when the notification began.                                      *)
(***************************************************************************)
CONSTANTS Thread, NoThread

VARIABLES
  holder,   \* the thread that holds the lock, or NoThread
  waiting,  \* the threads that wait
  leaving,  \* those whose wait has ended and has not returned yet
  timed,    \* those whose wait has a timeout
  call      \* the notification going on: of all or of one, who was in a wait
            \* when it began, and whether it has ended one without a timeout

NoCall == [on |-> FALSE, all |-> FALSE, due |-> {}, ended |-> FALSE]

Init ==
  /\ holder = NoThread
  /\ waiting = {} /\ leaving = {} /\ timed = {}
  /\ call = NoCall

Acquire(t) ==
  /\ holder = NoThread
  /\ holder' = t
  /\ UNCHANGED <<waiting, leaving, timed, call>>

Release(t) ==
  /\ holder = t /\ ~call.on
  /\ holder' = NoThread
  /\ UNCHANGED <<waiting, leaving, timed, call>>

Wait(t, hasTimeout) ==
  /\ holder = t /\ ~call.on
  /\ holder' = NoThread
  /\ waiting' = waiting \cup {t}
  /\ timed' = IF hasTimeout THEN timed \cup {t} ELSE timed \ {t}
  /\ UNCHANGED <<leaving, call>>

\* A wait without a timeout ends only by a notification that found it, and
\* a notification of one thread ends one such wait.
Leave(t) ==
  /\ t \in waiting
  /\ IF t \in timed
     THEN UNCHANGED call
     ELSE /\ t \in call.due
          /\ call.all \/ ~call.ended
          /\ call' = [call EXCEPT !.ended = TRUE]
  /\ waiting' = waiting \ {t}
  /\ leaving' = leaving \cup {t}
  /\ UNCHANGED <<holder, timed>>

Return(t) ==
  /\ t \in leaving
  /\ leaving' = leaving \ {t}
  /\ UNCHANGED <<holder, waiting, timed, call>>

NotifyBegins(t) ==
  /\ holder = t /\ ~call.on
  /\ \E all \in BOOLEAN :
       call' = [NoCall EXCEPT !.on = TRUE, !.all = all, !.due = waiting \cup leaving]
  /\ UNCHANGED <<holder, waiting, leaving, timed>>

\* notify_all misses nobody, and notify sees someone leave.
NotifyEnds(t) ==
  /\ holder = t /\ call.on
  /\ LET still == call.due \cap (waiting \cup leaving) IN
       still = {} \/ (~call.all /\ still # call.due)
  /\ call' = NoCall
  /\ UNCHANGED <<holder, waiting, leaving, timed>>

Next == \E t \in Thread :
  \/ Acquire(t) \/ Release(t) \/ Leave(t) \/ Return(t)
  \/ \E b \in BOOLEAN : Wait(t, b)
  \/ NotifyBegins(t) \/ NotifyEnds(t)

Spec == Init /\ [][Next]_<<holder, waiting, leaving, timed, call>>
=============================================================================
