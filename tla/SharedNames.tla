----------------------------- MODULE SharedNames -----------------------------
(***************************************************************************)
(* The names of semaphores and shared memory (core/ipc.py).  They outlive   *)
(* the process that creates them, so each process keeps a list of its own   *)
(* in a file, dwa_<pid>.rls, and the next agent unlinks what the lists of   *)
(* processes that are gone name.                                            *)
(*                                                                          *)
(* Threads of a process change its list one at a time; the file is opened   *)
(* for writing, which empties it, and then written.                         *)
(***************************************************************************)
CONSTANTS
  Pids,    \* processes: agents and their children
  Objs,
  Owner    \* Owner[o]: the process that creates o

ASSUME OwnerAssumption == Owner \in [Objs -> Pids]

VARIABLES
  alive,    \* processes that run
  names,    \* names[p]: _ipcmap["list_names"] of p
  rls,      \* rls[p]: the names in p's .rls file
  emptied,  \* p's file is open and not written yet, or was left so
  life,     \* life[o]: how far the thread that creates or destroys o is
  kernel    \* objects that exist in the system

namesVars == <<alive, names, rls, emptied, life, kernel>>

Stages == {"none", "naming", "named", "exists", "unnaming", "unnamed"}

NamesInit ==
  /\ alive = Pids
  /\ names = [p \in Pids |-> {}] /\ rls = [p \in Pids |-> {}]
  /\ emptied = {}
  /\ life = [o \in Objs |-> "none"]
  /\ kernel = {}

Runs(o) == Owner[o] \in alive
To(o, s) == life' = [life EXCEPT ![o] = s]

\* both take list_names_lock, change the list and open the file
Rewrite(o, ns) ==
  LET p == Owner[o] IN
    /\ p \notin emptied
    /\ names' = [names EXCEPT ![p] = ns]
    /\ rls' = [rls EXCEPT ![p] = {}]
    /\ emptied' = emptied \cup {p}

\* _add_name, before the object is made
AddName(o) ==
  /\ Runs(o) /\ life[o] = "none"
  /\ Rewrite(o, names[Owner[o]] \cup {o})
  /\ To(o, "naming")
  /\ UNCHANGED <<alive, kernel>>

\* _rem_name: first of all in _destroy, and when the object cannot be made
RemName(o) ==
  /\ Runs(o) /\ life[o] \in {"exists", "named"}
  /\ Rewrite(o, names[Owner[o]] \ {o})
  /\ To(o, "unnaming")
  /\ UNCHANGED <<alive, kernel>>

WriteNames(p) ==
  /\ p \in alive /\ p \in emptied
  /\ rls' = [rls EXCEPT ![p] = names[p]]
  /\ emptied' = emptied \ {p}
  /\ life' = [o \in Objs |->
       IF Owner[o] # p THEN life[o]
       ELSE CASE life[o] = "naming"   -> "named"
              [] life[o] = "unnaming" -> IF o \in kernel THEN "unnamed" ELSE "none"
              [] OTHER                 -> life[o]]
  /\ UNCHANGED <<alive, names, kernel>>

\* semaphoreInitialize, sharedMemoryInitialize: one that fails stays "named"
\* and its name is removed, up to ten or five times
Create(o) ==
  /\ Runs(o) /\ life[o] = "named"
  /\ kernel' = kernel \cup {o}
  /\ To(o, "exists")
  /\ UNCHANGED <<alive, names, rls, emptied>>

\* _create_mem when the memory cannot be mapped: here the object goes first
MapFails(o) ==
  /\ Runs(o) /\ life[o] = "exists"
  /\ kernel' = kernel \ {o}
  /\ To(o, "named")
  /\ UNCHANGED <<alive, names, rls, emptied>>

\* semaphoreDestroy, sharedMemoryDestroy
Unlink(o) ==
  /\ Runs(o) /\ life[o] = "unnamed"
  /\ kernel' = kernel \ {o}
  /\ To(o, "none")
  /\ UNCHANGED <<alive, names, rls, emptied>>

Dies(p) ==
  /\ p \in alive
  /\ alive' = alive \ {p}
  /\ UNCHANGED <<names, rls, emptied, life, kernel>>

\* mutant: the lists of running processes are not skipped
ClearPathAll ==
  /\ kernel' = kernel \ UNION {rls[p] : p \in Pids}
  /\ rls' = [p \in Pids |-> IF p \in alive THEN rls[p] ELSE {}]
  /\ UNCHANGED <<alive, names, emptied, life>>

\* initialize of an agent: clear_path(True) skips the lists of running pids;
\* a list it cannot read names nothing and is removed all the same
ClearPath ==
  /\ kernel' = kernel \ UNION {rls[p] : p \in Pids \ alive}
  /\ rls' = [p \in Pids |-> IF p \in alive THEN rls[p] ELSE {}]
  /\ UNCHANGED <<alive, names, emptied, life>>

NamesNext ==
  \/ \E o \in Objs : AddName(o) \/ RemName(o) \/ Create(o) \/ MapFails(o) \/ Unlink(o)
  \/ \E p \in Pids : WriteNames(p) \/ Dies(p)
  \/ ClearPath

NamesSpec == NamesInit /\ [][NamesNext]_namesVars

-----------------------------------------------------------------------------
\* Whatever exists is named where the next agent finds it, but for what the
\* process was about to destroy, or while it rewrites its list; and what a
\* running process uses is not unlinked under it.
NamesKept == \A o \in Objs :
  /\ o \in kernel =>
       \/ o \in rls[Owner[o]] \/ Owner[o] \in emptied
       \/ life[o] \in {"unnaming", "unnamed"}
  /\ Runs(o) /\ life[o] = "exists" => o \in kernel
=============================================================================
