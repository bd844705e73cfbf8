---------------------------------- MODULE Shell ----------------------------------
(***************************************************************************)
(* The shell app (app_shell/shell.py): a manager with a thread of its own  *)
(* for every web socket, the shells of each manager, the log-in that may   *)
(* precede a shell's process, and the recovery of a manager whose web      *)
(* socket was lost by a new web socket of the same session.                *)
(*                                                                         *)
(* Every step is taken under the manager's semaphore, but those of Destroy.*)
(* External: the web sockets, the processes of the shells, and the client, *)
(* which gives a shell an id that the manager does not use.                *)
(***************************************************************************)
EXTENDS Naturals, FiniteSets, Functions, SequenceTheorems, TLAPS

CONSTANTS Managers, Ids

VARIABLES listed,   \* Shell._list
          mgr,      \* manager -> [pc, bclose, recovery, supported, info, ws, shells], ws its web socket
          procs,    \* the processes that run, each named after its manager and shell
          unnoted,  \* others run, forked by an open_session that failed: nobody knows their pids
          session,  \* the session: "open", "closing" with the copy of the list, "closed"
          copy

shellVars == <<listed, mgr, procs, unnoted, session, copy>>

Unused == [pc |-> "none", bclose |-> FALSE, recovery |-> FALSE, supported |-> FALSE,
           info |-> FALSE, ws |-> "none", shells |-> <<>>]

ShellsInit ==
    /\ listed = {} /\ procs = {} /\ unnoted = FALSE /\ session = "open" /\ copy = {}
    /\ mgr = [m \in Managers |-> Unused]

Sid(m) == DOMAIN mgr[m].shells
Shell(m, i) == mgr[m].shells[i]
Set(m, r) == mgr' = [mgr EXCEPT ![m] = r]
SetShell(m, i, s) == Set(m, [mgr[m] EXCEPT !.shells = [j \in Sid(m) \cup {i} |-> IF j = i THEN s ELSE Shell(m, j)]])
\* _bclose, after which the flags of the recovery are not read any more.
Closing(m) == [mgr[m] EXCEPT !.bclose = TRUE, !.recovery = FALSE, !.supported = FALSE, !.info = FALSE]
DropShell(r, i) == [r EXCEPT !.shells = Restrict(r.shells, DOMAIN r.shells \ {i})]
Connected(m) == mgr[m].ws = "open"

-----------------------------------------------------------------------------
\* _add_shell_manager: a manager that waits is given the socket, else a new one is
\* put in the list, and started when the list is free again.
Recover ==
    /\ session = "open"
    /\ \E m \in listed :
          /\ ~mgr[m].bclose /\ mgr[m].recovery
          /\ Set(m, [mgr[m] EXCEPT !.ws = "open", !.recovery = FALSE])
    /\ UNCHANGED <<listed, procs, unnoted, session, copy>>

Free == Managers \ listed

\* A request of a session that is being closed may still be executed.
Add ==
    /\ session # "closed" /\ Free # {}
    /\ ~\E m \in listed : ~mgr[m].bclose /\ mgr[m].recovery
    /\ LET m == CHOOSE x \in Free : TRUE
       IN  /\ listed' = listed \cup {m}
           /\ Set(m, [Unused EXCEPT !.pc = "start", !.ws = "open"])
    /\ UNCHANGED <<procs, unnoted, session, copy>>

StartThread(m) ==
    /\ mgr[m].pc = "start" /\ Set(m, [mgr[m] EXCEPT !.pc = "run"])
    /\ UNCHANGED <<listed, procs, unnoted, session, copy>>

-----------------------------------------------------------------------------
\* The shells.  open_session: the process of the shell; initialize asks for the
\* user first when shell.enable_authentication says so at that moment.  What fails after
\* the fork and before the pid is noted (fcntl, the size of the window) leaves a process
\* that terminate() does not know of.
Opened(m, i) ==
    \/ procs' = procs \cup {<<m, i>>} /\ SetShell(m, i, "complete") /\ UNCHANGED unnoted
    \/ /\ procs' = procs /\ SetShell(m, i, "terminated")
       /\ unnoted' \in {unnoted, TRUE}

\* terminate: the process is told, then killed and waited for.
Terminated(m, i, r) == procs' = procs \ {<<m, i>>} /\ Set(m, r)

\* mutant: the messages are handled also when the manager closes
ReceivesAlways(m) == Connected(m)

\* _on_data does nothing once the manager closes; an exception closes it.
Receives(m) == ~mgr[m].bclose /\ Connected(m)

OnOpen(m) ==
    /\ Receives(m)
    /\ \E i \in Ids \ Sid(m) :
          \/ SetShell(m, i, "user") /\ UNCHANGED <<procs, unnoted>>
          \/ Opened(m, i)
    /\ UNCHANGED <<listed, session, copy>>

OnCloseShell(m) ==
    /\ Receives(m)
    /\ \E i \in Sid(m) : Terminated(m, i, DropShell(mgr[m], i))
    /\ UNCHANGED <<listed, unnoted, session, copy>>

OnInit(m) ==
    /\ Receives(m) /\ ~mgr[m].supported
    /\ Set(m, [mgr[m] EXCEPT !.supported = TRUE, !.info = TRUE])
    /\ UNCHANGED <<listed, procs, unnoted, session, copy>>

OnTerm(m) ==
    /\ Receives(m) /\ Set(m, Closing(m))
    /\ UNCHANGED <<listed, procs, unnoted, session, copy>>

\* LoginRequest.write_inputs, the ENTER that ends the user or the password; what
\* is typed in the other states is kept or ignored.
Enter(key) == CASE key = "user" -> {"password"}
                [] key = "password" -> {"openSession", "loginIncorrect"}
                [] OTHER -> {}

OnInputs(m) ==
    /\ Receives(m)
    /\ \E i \in Sid(m) :
          \/ /\ \E k \in Enter(Shell(m, i)) : SetShell(m, i, k)
             /\ UNCHANGED procs
          \/ /\ Shell(m, i) = "complete"
             /\ procs' = procs \ {<<m, i>>}
             /\ SetShell(m, i, "terminated")
    /\ UNCHANGED <<listed, unnoted, session, copy>>

-----------------------------------------------------------------------------
\* run: the turns of the loop.
Turn(m) == mgr[m].pc = "run" /\ ~mgr[m].bclose

\* No message for 40 seconds, 20 in recovery: the client is not there.
Timeout(m) ==
    /\ Turn(m) /\ ~Connected(m) /\ (mgr[m].recovery \/ ~mgr[m].supported \/ session # "open")
    /\ Set(m, Closing(m))
    /\ UNCHANGED <<listed, procs, unnoted, session, copy>>

\* A failure to send the ids is an exception of the loop.
SendInfo(m) ==
    /\ Turn(m) /\ ~mgr[m].recovery /\ mgr[m].info
    /\ Set(m, IF Connected(m) THEN [mgr[m] EXCEPT !.info = FALSE] ELSE Closing(m))
    /\ UNCHANGED <<listed, procs, unnoted, session, copy>>

\* LoginRequest.read_update: the user is asked again after a while, or
\* the process is opened.
ReadLogin(m) ==
    /\ Turn(m) /\ ~mgr[m].recovery /\ ~mgr[m].info
    /\ \E i \in Sid(m) :
          LET s == Shell(m, i)
          IN  \/ s = "loginIncorrect" /\ SetShell(m, i, "user") /\ UNCHANGED <<procs, unnoted>>
              \/ s = "openSession" /\ Opened(m, i)
    /\ UNCHANGED <<listed, session, copy>>

\* What a process wrote is sent; a shell that ended, and one whose data could not
\* be sent, is terminated and removed.
ReadUpdate(m) ==
    /\ Turn(m) /\ ~mgr[m].recovery /\ ~mgr[m].info
    /\ \E i \in Sid(m) :
          LET s == Shell(m, i)
              ended == s = "terminated" \/ (s = "complete" /\ <<m, i>> \notin procs)
          IN  /\ ended \/ (s = "complete" /\ ~Connected(m))
              /\ Terminated(m, i, DropShell(mgr[m], i))
    /\ UNCHANGED <<listed, unnoted, session, copy>>

LoopEnds(m) ==
    /\ mgr[m].pc = "run" /\ mgr[m].bclose /\ Set(m, [mgr[m] EXCEPT !.pc = "destroy"])
    /\ UNCHANGED <<listed, procs, unnoted, session, copy>>

\* _destroy, without the semaphore: the shells, the socket, the list.
DestroyShells(m) ==
    /\ mgr[m].pc = "destroy" /\ Set(m, [mgr[m] EXCEPT !.pc = "unlist", !.shells = <<>>])
    /\ procs' = procs \ {<<m, i>> : i \in Sid(m)}
    /\ UNCHANGED <<listed, unnoted, session, copy>>

Destroy(m) ==
    /\ mgr[m].pc = "unlist" /\ Set(m, Unused)
    /\ listed' = listed \ {m}
    /\ UNCHANGED <<procs, unnoted, session, copy>>

-----------------------------------------------------------------------------
\* The web socket is lost: what is sent raises, and later _on_close is called.
Lost(m) ==
    /\ Connected(m) /\ ~mgr[m].bclose /\ Set(m, [mgr[m] EXCEPT !.ws = "lost"])
    /\ UNCHANGED <<listed, procs, unnoted, session, copy>>

OnClose(m) ==
    /\ mgr[m].ws = "lost" /\ ~mgr[m].bclose
    /\ Set(m, IF mgr[m].supported THEN [mgr[m] EXCEPT !.ws = "none", !.recovery = TRUE] ELSE Closing(m))
    /\ UNCHANGED <<listed, procs, unnoted, session, copy>>

\* on_conn_close: the managers of a copy of the list.
SessionCloses ==
    /\ session = "open" /\ session' = "closing" /\ copy' = listed
    /\ UNCHANGED <<listed, mgr, procs, unnoted>>

CloseOne ==
    /\ session = "closing"
    /\ \/ copy = {} /\ session' = "closed" /\ UNCHANGED <<copy, mgr>>
       \/ \E m \in copy : copy' = copy \ {m} /\ Set(m, Closing(m)) /\ UNCHANGED session
    /\ UNCHANGED <<listed, procs, unnoted>>

\* Another session, when nothing is left of the first.
NextSession ==
    /\ session = "closed" /\ listed = {} /\ session' = "open"
    /\ UNCHANGED <<listed, mgr, procs, unnoted, copy>>

ProcessEnds ==
    /\ \/ \E p \in procs : procs' = procs \ {p} /\ UNCHANGED unnoted
       \/ unnoted /\ unnoted' = FALSE /\ UNCHANGED procs
    /\ UNCHANGED <<listed, mgr, session, copy>>

Loop(m) == Timeout(m) \/ SendInfo(m) \/ ReadLogin(m) \/ ReadUpdate(m) \/ LoopEnds(m) \/ DestroyShells(m) \/ Destroy(m)

ShellsNext ==
    \/ Recover \/ Add \/ SessionCloses \/ CloseOne \/ NextSession \/ ProcessEnds
    \/ \E m \in Managers : StartThread(m) \/ OnOpen(m) \/ OnCloseShell(m) \/ OnInit(m) \/ OnTerm(m) \/ OnInputs(m)
                            \/ Loop(m) \/ Lost(m) \/ OnClose(m)

ShellsSpec == ShellsInit /\ [][ShellsNext]_shellVars

-----------------------------------------------------------------------------
\* Every process is that of a shell of a manager in the list: none is left behind
\* when a shell is closed, fails or is not recovered, or a manager is destroyed
\* while messages still come (_destroy without the semaphore).  The exception is
\* what open_session forked and then failed to take (shell.py:722-725)
\* runs on with its terminal open, and nobody ends it (unnoted).
NoOrphanProcess ==
    \A p \in procs : p \in listed \X Ids /\ p[2] \in Sid(p[1])

\* When the web socket of a client that recovers is lost its shells wait for it
\* ("WAIT RECOVERY", _on_close): none is terminated because nothing can be sent.
ShellsWait ==
    [][\A m \in Managers : \A i \in Sid(m) :
          mgr[m].supported /\ ~mgr[m].bclose /\ ~Connected(m) /\ <<m, i>> \in procs
              => i \in DOMAIN mgr'[m].shells]_shellVars
-----------------------------------------------------------------------------
\* The inductive invariant.
ShellStates == {"user", "password", "openSession", "loginIncorrect", "complete", "terminated"}
Shells == UNION {[S -> ShellStates] : S \in SUBSET Ids}
Manager == [pc : {"none", "start", "run", "destroy", "unlist"}, bclose : BOOLEAN, recovery : BOOLEAN,
            supported : BOOLEAN, info : BOOLEAN, ws : {"none", "open", "lost"}, shells : Shells]

ShellTypeOK == /\ listed \subseteq Managers /\ copy \subseteq Managers
               /\ mgr \in [Managers -> Manager] /\ procs \subseteq Managers \X Ids

\* A manager that is not in the list has no thread, no web socket and no shells.
UnlistedIsUnused ==
  \A m \in Managers \ listed : mgr[m].pc = "none" /\ mgr[m].ws = "none" /\ Sid(m) = {}

\* One that ends gets no more messages, and has no shells once they were terminated.
EndsAlone ==
  \A m \in Managers : /\ mgr[m].pc \in {"destroy", "unlist"} => mgr[m].bclose
                      /\ mgr[m].pc = "unlist" => Sid(m) = {}

\* A process that runs is that of a shell of its manager.
Owned == \A m \in Managers, i \in Ids : <<m, i>> \in procs => i \in Sid(m)

ShellInv == ShellTypeOK /\ UnlistedIsUnused /\ EndsAlone /\ Owned

\* A manager without shells.
LEMMA NoShells == <<>> \in Shells /\ DOMAIN <<>> = {} /\ Unused \in Manager
<1>1. <<>> \in [{} -> ShellStates] /\ DOMAIN <<>> = {}
  OBVIOUS
<1>2. <<>> \in Shells
  BY <1>1 DEF Shells
<1>3. QED
  BY <1>1, <1>2 DEF Unused, Manager

\* A shell is put in, or changed.
LEMMA WithShell ==
  ASSUME NEW f \in Shells, NEW i \in Ids, NEW s \in ShellStates
  PROVE  /\ [j \in DOMAIN f \cup {i} |-> IF j = i THEN s ELSE f[j]] \in Shells
         /\ DOMAIN [j \in DOMAIN f \cup {i} |-> IF j = i THEN s ELSE f[j]] = DOMAIN f \cup {i}
<1>1. PICK S \in SUBSET Ids : f \in [S -> ShellStates]
  BY DEF Shells
<1>2. [j \in S \cup {i} |-> IF j = i THEN s ELSE f[j]] \in [S \cup {i} -> ShellStates]
  BY <1>1
<1>3. S \cup {i} \in SUBSET Ids
  OBVIOUS
<1>4. DOMAIN f = S
  BY <1>1
<1>5. [S \cup {i} -> ShellStates] \subseteq Shells
  BY <1>3, Zenon DEF Shells
<1>6. QED
  BY <1>2, <1>4, <1>5

\* A shell is taken out.
LEMMA WithoutShell ==
  ASSUME NEW f \in Shells, NEW i
  PROVE  /\ Restrict(f, DOMAIN f \ {i}) \in Shells
         /\ DOMAIN Restrict(f, DOMAIN f \ {i}) = DOMAIN f \ {i}
<1>1. PICK S \in SUBSET Ids : f \in [S -> ShellStates]
  BY DEF Shells
<1>2. Restrict(f, S \ {i}) \in [S \ {i} -> ShellStates]
  BY <1>1 DEF Restrict
<1>3. S \ {i} \in SUBSET Ids /\ DOMAIN f = S
  BY <1>1
<1>4. [S \ {i} -> ShellStates] \subseteq Shells
  BY <1>3, Zenon DEF Shells
<1>5. QED
  BY <1>2, <1>3, <1>4

\* The others keep what they have when one manager is written.
LEMMA OneManager ==
  ASSUME ShellTypeOK, NEW m \in Managers, NEW r \in Manager, Set(m, r)
  PROVE  /\ mgr' \in [Managers -> Manager] /\ mgr'[m] = r
         /\ \A x \in Managers \ {m} : mgr'[x] = mgr[x]
  BY DEF ShellTypeOK, Set

\* The flags of a manager are not its shells.
LEMMA ClosingIs ==
  ASSUME ShellTypeOK, NEW m \in Managers
  PROVE  /\ Closing(m) \in Manager /\ Closing(m).bclose
         /\ Closing(m).pc = mgr[m].pc /\ Closing(m).ws = mgr[m].ws
         /\ Closing(m).shells = mgr[m].shells
<1>1. PICK r \in Manager : r = mgr[m]
  BY DEF ShellTypeOK
<1>2. Closing(m) = [r EXCEPT !.bclose = TRUE, !.recovery = FALSE, !.supported = FALSE, !.info = FALSE]
  BY <1>1 DEF Closing
<1>3. /\ Closing(m).bclose /\ Closing(m).pc = r.pc /\ Closing(m).ws = r.ws
      /\ Closing(m).shells = r.shells
  BY <1>2 DEF Manager
<1>4. Closing(m) \in Manager
  BY <1>2 DEF Manager
<1>5. QED
  BY <1>1, <1>3, <1>4

\* A step that writes one manager of the list, or takes notice only of its end.
LEMMA SetKeeps ==
  ASSUME ShellInv, NEW m \in Managers, NEW r \in Manager, Set(m, r),
         m \in listed \/ (r.pc = "none" /\ r.ws = "none" /\ DOMAIN r.shells = {}),
         r.pc \in {"destroy", "unlist"} => r.bclose,
         r.pc = "unlist" => DOMAIN r.shells = {},
         listed' = listed, copy' \subseteq Managers, procs' \subseteq Managers \X Ids,
         \A x \in Managers \ {m}, i \in Ids : <<x, i>> \in procs' => <<x, i>> \in procs,
         \A i \in Ids : <<m, i>> \in procs' => i \in DOMAIN r.shells
  PROVE  ShellInv'
<1>1. /\ mgr' \in [Managers -> Manager] /\ mgr'[m] = r
      /\ \A x \in Managers \ {m} : mgr'[x] = mgr[x]
  BY OneManager DEF ShellInv
<1>2. ShellTypeOK'
  BY <1>1 DEF ShellInv, ShellTypeOK
<1>3. UnlistedIsUnused'
  BY <1>1 DEF ShellInv, UnlistedIsUnused, Sid
<1>4. EndsAlone'
  BY <1>1 DEF ShellInv, EndsAlone, Sid
<1>5. Owned'
  BY <1>1 DEF ShellInv, Owned, Sid
<1>6. QED
  BY <1>2, <1>3, <1>4, <1>5 DEF ShellInv

\* Neither do the shells change.
LEMMA FlagKeeps ==
  ASSUME ShellInv, NEW m \in Managers, NEW r \in Manager, Set(m, r), r.shells = mgr[m].shells,
         m \in listed \/ (r.pc = "none" /\ r.ws = "none"),
         r.pc \in {"destroy", "unlist"} => r.bclose,
         r.pc = "unlist" => mgr[m].pc = "unlist",
         listed' = listed, copy' \subseteq Managers, procs' = procs
  PROVE  ShellInv'
<1>1. \A i \in Ids : <<m, i>> \in procs => i \in DOMAIN r.shells
  BY DEF ShellInv, Owned, Sid
<1>2. m \notin listed \/ r.pc = "unlist" => DOMAIN r.shells = {}
  BY DEF ShellInv, UnlistedIsUnused, EndsAlone, Sid
<1>3. procs' \subseteq Managers \X Ids
  BY DEF ShellInv, ShellTypeOK
<1>4. QED
  BY <1>1, <1>2, <1>3, SetKeeps

\* A manager that closes, in the list or not, does what it did.
LEMMA ClosingKeeps ==
  ASSUME ShellInv, NEW m \in Managers, Set(m, Closing(m)), listed' = listed,
         copy' \subseteq Managers, procs' = procs
  PROVE  ShellInv'
<1>1. /\ Closing(m) \in Manager /\ Closing(m).bclose
      /\ Closing(m).pc = mgr[m].pc /\ Closing(m).ws = mgr[m].ws
      /\ Closing(m).shells = mgr[m].shells
  BY ClosingIs DEF ShellInv
<1>2. m \notin listed => mgr[m].pc = "none" /\ mgr[m].ws = "none"
  BY DEF ShellInv, UnlistedIsUnused
<1>3. QED
  BY <1>1, <1>2, FlagKeeps

\* A manager that runs, or whose web socket is there, is in the list.
LEMMA InList ==
  ASSUME ShellInv, NEW m \in Managers, mgr[m].pc # "none" \/ mgr[m].ws # "none"
  PROVE  m \in listed
  BY DEF ShellInv, UnlistedIsUnused

\* One that takes messages, or turns, has not come to its end.
LEMMA NotEnding ==
  ASSUME ShellInv, NEW m \in Managers, ~mgr[m].bclose
  PROVE  mgr[m].pc \in {"none", "start", "run"}
  BY DEF ShellInv, ShellTypeOK, EndsAlone, Manager

\* A shell is changed, with its process or without.
LEMMA SetShellKeeps ==
  ASSUME ShellInv, NEW m \in listed, ~mgr[m].bclose, NEW i \in Ids, NEW s \in ShellStates,
         SetShell(m, i, s), procs' \subseteq procs \cup {<<m, i>>}, UNCHANGED <<listed, copy>>
  PROVE  ShellInv'
<1> DEFINE f == [j \in Sid(m) \cup {i} |-> IF j = i THEN s ELSE Shell(m, j)]
           r == [mgr[m] EXCEPT !.shells = f]
<1>1. m \in Managers /\ mgr[m] \in Manager /\ mgr[m].shells \in Shells
  BY DEF ShellInv, ShellTypeOK, Manager
<1>2. f \in Shells /\ DOMAIN f = Sid(m) \cup {i}
  BY <1>1, WithShell DEF Sid, Shell
<1> HIDE DEF f
<1>3. /\ r \in Manager /\ r.shells = f /\ r.pc = mgr[m].pc /\ r.bclose = mgr[m].bclose
  BY <1>1, <1>2 DEF Manager
<1>4. Set(m, r)
  BY DEF SetShell, f
<1>5. mgr[m].pc \in {"none", "start", "run"}
  BY <1>1, NotEnding
<1>6. procs' \subseteq Managers \X Ids
  BY <1>1 DEF ShellInv, ShellTypeOK
<1>7. \A j \in Ids : <<m, j>> \in procs' => j \in DOMAIN r.shells
  BY <1>1, <1>2, <1>3 DEF ShellInv, Owned
<1>8. \A x \in Managers \ {m}, j \in Ids : <<x, j>> \in procs' => <<x, j>> \in procs
  OBVIOUS
<1>9. copy' \subseteq Managers
  BY DEF ShellInv, ShellTypeOK
<1> HIDE DEF r
<1>10. QED
  BY <1>1, <1>3, <1>4, <1>5, <1>6, <1>7, <1>8, <1>9, SetKeeps

\* A shell is terminated and taken out.
LEMMA DropKeeps ==
  ASSUME ShellInv, NEW m \in listed, ~mgr[m].bclose, NEW i \in Sid(m),
         Terminated(m, i, DropShell(mgr[m], i)), UNCHANGED <<listed, copy>>
  PROVE  ShellInv'
<1> DEFINE f == Restrict(mgr[m].shells, DOMAIN mgr[m].shells \ {i})
           r == [mgr[m] EXCEPT !.shells = f]
<1>1. m \in Managers /\ mgr[m] \in Manager /\ mgr[m].shells \in Shells
  BY DEF ShellInv, ShellTypeOK, Manager
<1>2. f \in Shells /\ DOMAIN f = Sid(m) \ {i}
  BY <1>1, WithoutShell DEF Sid
<1>3. Set(m, r) /\ procs' = procs \ {<<m, i>>}
  BY DEF Terminated, DropShell
<1> HIDE DEF f
<1>4. /\ r \in Manager /\ r.shells = f /\ r.pc = mgr[m].pc /\ r.bclose = mgr[m].bclose
  BY <1>1, <1>2 DEF Manager
<1>5. mgr[m].pc \in {"none", "start", "run"}
  BY <1>1, NotEnding
<1>6. procs' \subseteq Managers \X Ids
  BY <1>3 DEF ShellInv, ShellTypeOK
<1>7. \A j \in Ids : <<m, j>> \in procs' => j \in DOMAIN r.shells
  BY <1>1, <1>2, <1>3, <1>4 DEF ShellInv, Owned
<1>8. \A x \in Managers \ {m}, j \in Ids : <<x, j>> \in procs' => <<x, j>> \in procs
  BY <1>3
<1>9. copy' \subseteq Managers
  BY DEF ShellInv, ShellTypeOK
<1> HIDE DEF r
<1>10. QED
  BY <1>1, <1>3, <1>4, <1>5, <1>6, <1>7, <1>8, <1>9, SetKeeps

\* Each action keeps the invariant: those of a manager first.
LEMMA ManagerStep ==
  ASSUME ShellInv, NEW m \in Managers,
         \/ StartThread(m) \/ OnOpen(m) \/ OnCloseShell(m) \/ OnInit(m) \/ OnTerm(m) \/ OnInputs(m)
         \/ Loop(m) \/ Lost(m) \/ OnClose(m)
  PROVE  ShellInv'
<1>t. mgr[m] \in Manager /\ copy \subseteq Managers /\ procs \subseteq Managers \X Ids
  BY DEF ShellInv, ShellTypeOK
<1>i. Sid(m) \subseteq Ids
  BY <1>t DEF Sid, Manager, Shells
<1>c. /\ Closing(m) \in Manager /\ Closing(m).bclose
  BY ClosingIs DEF ShellInv
<1>1. CASE StartThread(m)
  <2> DEFINE r == [mgr[m] EXCEPT !.pc = "run"]
  <2>1. r \in Manager /\ r.shells = mgr[m].shells /\ r.pc = "run"
    BY <1>t DEF Manager
  <2>2. m \in listed /\ Set(m, r) /\ listed' = listed /\ copy' = copy /\ procs' = procs
    BY <1>1, InList DEF StartThread
  <2> HIDE DEF r
  <2>3. QED
    BY <2>1, <2>2, <1>t, FlagKeeps
<1>2. CASE OnOpen(m)
  <2>1. m \in listed /\ ~mgr[m].bclose /\ UNCHANGED <<listed, copy>>
    BY <1>2, InList DEF OnOpen, Receives, Connected
  <2>2. PICK i \in Ids \ Sid(m) : \/ SetShell(m, i, "user") /\ procs' = procs
                                  \/ Opened(m, i)
    BY <1>2 DEF OnOpen
  <2>3. CASE SetShell(m, i, "user") /\ procs' = procs
    BY <2>1, <2>3, SetShellKeeps DEF ShellStates
  <2>4. CASE Opened(m, i)
    <3>1. CASE procs' = procs \cup {<<m, i>>} /\ SetShell(m, i, "complete")
      BY <2>1, <3>1, SetShellKeeps DEF ShellStates
    <3>2. CASE procs' = procs /\ SetShell(m, i, "terminated")
      BY <2>1, <3>2, SetShellKeeps DEF ShellStates
    <3> QED BY <2>4, <3>1, <3>2 DEF Opened
  <2> QED BY <2>2, <2>3, <2>4
<1>3. CASE OnCloseShell(m)
  <2>1. m \in listed /\ ~mgr[m].bclose /\ UNCHANGED <<listed, copy>>
    BY <1>3, InList DEF OnCloseShell, Receives, Connected
  <2>2. PICK i \in Sid(m) : Terminated(m, i, DropShell(mgr[m], i))
    BY <1>3 DEF OnCloseShell
  <2> QED BY <2>1, <2>2, DropKeeps
<1>4. CASE OnInit(m)
  <2> DEFINE r == [mgr[m] EXCEPT !.supported = TRUE, !.info = TRUE]
  <2>1. r \in Manager /\ r.shells = mgr[m].shells /\ r.pc = mgr[m].pc
    BY <1>t DEF Manager
  <2>2. m \in listed /\ ~mgr[m].bclose /\ Set(m, r) /\ UNCHANGED <<listed, copy, procs>>
    BY <1>4, InList DEF OnInit, Receives, Connected
  <2>3. mgr[m].pc \in {"none", "start", "run"}
    BY <2>2, NotEnding
  <2> HIDE DEF r
  <2>4. QED
    BY <2>1, <2>2, <2>3, <1>t, FlagKeeps
<1>5. CASE OnTerm(m)
  BY <1>5, <1>t, ClosingKeeps DEF OnTerm
<1>6. CASE OnInputs(m)
  <2>1. m \in listed /\ ~mgr[m].bclose /\ UNCHANGED <<listed, copy>>
    BY <1>6, InList DEF OnInputs, Receives, Connected
  <2>2. PICK i \in Sid(m) :
          \/ (\E k \in Enter(Shell(m, i)) : SetShell(m, i, k)) /\ UNCHANGED procs
          \/ /\ Shell(m, i) = "complete" /\ procs' = procs \ {<<m, i>>}
             /\ SetShell(m, i, "terminated")
    BY <1>6 DEF OnInputs
  <2>3. CASE (\E k \in Enter(Shell(m, i)) : SetShell(m, i, k)) /\ UNCHANGED procs
    <3>1. PICK k \in Enter(Shell(m, i)) : SetShell(m, i, k)
      BY <2>3
    <3>2. k \in ShellStates
      BY DEF Enter, ShellStates
    <3> QED BY <2>1, <2>3, <3>1, <3>2, <1>i, SetShellKeeps
  <2>4. CASE procs' = procs \ {<<m, i>>} /\ SetShell(m, i, "terminated")
    BY <2>1, <2>4, <1>i, SetShellKeeps DEF ShellStates
  <2> QED BY <2>2, <2>3, <2>4
<1>7. CASE Timeout(m)
  BY <1>7, <1>t, ClosingKeeps DEF Timeout
<1>8. CASE SendInfo(m)
  <2> DEFINE r == [mgr[m] EXCEPT !.info = FALSE]
  <2>1. r \in Manager /\ r.shells = mgr[m].shells /\ r.pc = mgr[m].pc
    BY <1>t DEF Manager
  <2>2. m \in listed /\ mgr[m].pc = "run" /\ UNCHANGED <<listed, copy, procs>>
    BY <1>8, InList DEF SendInfo, Turn
  <2>3. Set(m, r) \/ Set(m, Closing(m))
    BY <1>8 DEF SendInfo
  <2> HIDE DEF r
  <2>4. CASE Set(m, r)
    BY <2>1, <2>2, <2>4, <1>t, FlagKeeps
  <2>5. CASE Set(m, Closing(m))
    BY <2>2, <2>5, <1>t, ClosingKeeps
  <2> QED BY <2>3, <2>4, <2>5
<1>9. CASE ReadLogin(m)
  <2>1. m \in listed /\ ~mgr[m].bclose /\ UNCHANGED <<listed, copy>>
    BY <1>9, InList DEF ReadLogin, Turn
  <2>2. PICK i \in Sid(m) : \/ SetShell(m, i, "user") /\ procs' = procs
                            \/ Opened(m, i)
    BY <1>9 DEF ReadLogin
  <2>3. CASE SetShell(m, i, "user") /\ procs' = procs
    BY <2>1, <2>3, <1>i, SetShellKeeps DEF ShellStates
  <2>4. CASE Opened(m, i)
    <3>1. CASE procs' = procs \cup {<<m, i>>} /\ SetShell(m, i, "complete")
      BY <2>1, <3>1, <1>i, SetShellKeeps DEF ShellStates
    <3>2. CASE procs' = procs /\ SetShell(m, i, "terminated")
      BY <2>1, <3>2, <1>i, SetShellKeeps DEF ShellStates
    <3> QED BY <2>4, <3>1, <3>2 DEF Opened
  <2> QED BY <2>2, <2>3, <2>4
<1>10. CASE ReadUpdate(m)
  <2>1. m \in listed /\ ~mgr[m].bclose /\ UNCHANGED <<listed, copy>>
    BY <1>10, InList DEF ReadUpdate, Turn
  <2>2. PICK i \in Sid(m) : Terminated(m, i, DropShell(mgr[m], i))
    BY <1>10 DEF ReadUpdate
  <2> QED BY <2>1, <2>2, DropKeeps
<1>11. CASE LoopEnds(m)
  <2> DEFINE r == [mgr[m] EXCEPT !.pc = "destroy"]
  <2>1. r \in Manager /\ r.shells = mgr[m].shells /\ r.pc = "destroy" /\ r.bclose = mgr[m].bclose
    BY <1>t DEF Manager
  <2>2. m \in listed /\ mgr[m].bclose /\ Set(m, r) /\ UNCHANGED <<listed, copy, procs>>
    BY <1>11, InList DEF LoopEnds
  <2> HIDE DEF r
  <2>3. QED
    BY <2>1, <2>2, <1>t, FlagKeeps
<1>12. CASE DestroyShells(m)
  <2> DEFINE r == [mgr[m] EXCEPT !.pc = "unlist", !.shells = <<>>]
  <2>1. r \in Manager /\ DOMAIN r.shells = {} /\ r.pc = "unlist" /\ r.bclose = mgr[m].bclose
    BY <1>t, NoShells DEF Manager
  <2>2. /\ m \in listed /\ mgr[m].pc = "destroy" /\ Set(m, r) /\ UNCHANGED <<listed, copy>>
        /\ procs' = procs \ {<<m, i>> : i \in Sid(m)}
    BY <1>12, InList DEF DestroyShells
  <2>3. mgr[m].bclose
    BY <2>2 DEF ShellInv, EndsAlone
  <2>4. \A i \in Ids : <<m, i>> \notin procs'
    BY <2>2 DEF ShellInv, Owned
  <2>5. \A x \in Managers \ {m}, i \in Ids : <<x, i>> \in procs' => <<x, i>> \in procs
    BY <2>2
  <2>6. procs' \subseteq Managers \X Ids
    BY <2>2, <1>t
  <2> HIDE DEF r
  <2>7. QED
    BY <2>1, <2>2, <2>3, <2>4, <2>5, <2>6, <1>t, SetKeeps
<1>13. CASE Destroy(m)
  <2>1. /\ Set(m, Unused) /\ listed' = listed \ {m} /\ procs' = procs /\ copy' = copy
        /\ mgr[m].pc = "unlist"
    BY <1>13 DEF Destroy
  <2>2. /\ mgr' \in [Managers -> Manager] /\ mgr'[m] = Unused
        /\ \A x \in Managers \ {m} : mgr'[x] = mgr[x]
    BY <2>1, NoShells, OneManager DEF ShellInv
  <2>3. \A i \in Ids : <<m, i>> \notin procs
    BY <2>1 DEF ShellInv, EndsAlone, Owned
  <2>4. /\ Unused.pc = "none" /\ Unused.ws = "none" /\ DOMAIN Unused.shells = {}
    BY NoShells DEF Unused
  <2>5. ShellTypeOK'
    BY <2>1, <2>2 DEF ShellInv, ShellTypeOK
  <2>6. UnlistedIsUnused'
    BY <2>1, <2>2, <2>4 DEF ShellInv, UnlistedIsUnused, Sid
  <2>7. EndsAlone'
    BY <2>2, <2>4 DEF ShellInv, EndsAlone, Sid
  <2>8. Owned'
    BY <2>1, <2>2, <2>3 DEF ShellInv, Owned, Sid
  <2> QED BY <2>5, <2>6, <2>7, <2>8 DEF ShellInv
<1>14. CASE Lost(m)
  <2> DEFINE r == [mgr[m] EXCEPT !.ws = "lost"]
  <2>1. r \in Manager /\ r.shells = mgr[m].shells /\ r.pc = mgr[m].pc
    BY <1>t DEF Manager
  <2>2. m \in listed /\ ~mgr[m].bclose /\ Set(m, r) /\ UNCHANGED <<listed, copy, procs>>
    BY <1>14, InList DEF Lost, Connected
  <2>3. mgr[m].pc \in {"none", "start", "run"}
    BY <2>2, NotEnding
  <2> HIDE DEF r
  <2>4. QED
    BY <2>1, <2>2, <2>3, <1>t, FlagKeeps
<1>15. CASE OnClose(m)
  <2> DEFINE r == [mgr[m] EXCEPT !.ws = "none", !.recovery = TRUE]
  <2>1. r \in Manager /\ r.shells = mgr[m].shells /\ r.pc = mgr[m].pc
    BY <1>t DEF Manager
  <2>2. m \in listed /\ ~mgr[m].bclose /\ UNCHANGED <<listed, copy, procs>>
    BY <1>15, InList DEF OnClose
  <2>3. mgr[m].pc \in {"none", "start", "run"}
    BY <2>2, NotEnding
  <2>4. Set(m, r) \/ Set(m, Closing(m))
    BY <1>15 DEF OnClose
  <2> HIDE DEF r
  <2>5. CASE Set(m, r)
    BY <2>1, <2>2, <2>3, <2>5, <1>t, FlagKeeps
  <2>6. CASE Set(m, Closing(m))
    BY <2>2, <2>6, <1>t, ClosingKeeps
  <2> QED BY <2>4, <2>5, <2>6
<1>16. QED
  BY <1>1, <1>2, <1>3, <1>4, <1>5, <1>6, <1>7, <1>8, <1>9, <1>10, <1>11, <1>12, <1>13, <1>14,
     <1>15 DEF Loop

\* The rest are of the app: the requests, the end of the session, and the processes.
LEMMA StepShells == ShellInv /\ [ShellsNext]_shellVars => ShellInv'
<1> SUFFICES ASSUME ShellInv, [ShellsNext]_shellVars PROVE ShellInv'
  OBVIOUS
<1>t. /\ mgr \in [Managers -> Manager] /\ copy \subseteq Managers /\ listed \subseteq Managers
      /\ procs \subseteq Managers \X Ids
  BY DEF ShellInv, ShellTypeOK
<1>1. CASE Recover
  <2>1. PICK m \in listed : /\ ~mgr[m].bclose
                            /\ Set(m, [mgr[m] EXCEPT !.ws = "open", !.recovery = FALSE])
    BY <1>1 DEF Recover
  <2> DEFINE r == [mgr[m] EXCEPT !.ws = "open", !.recovery = FALSE]
  <2>2. m \in Managers /\ mgr[m] \in Manager
    BY <1>t
  <2>3. r \in Manager /\ r.shells = mgr[m].shells /\ r.pc = mgr[m].pc
    BY <2>2 DEF Manager
  <2>4. mgr[m].pc \in {"none", "start", "run"}
    BY <2>1, <2>2, NotEnding
  <2>5. Set(m, r) /\ UNCHANGED <<listed, copy, procs>>
    BY <1>1, <2>1 DEF Recover
  <2> HIDE DEF r
  <2>6. QED
    BY <2>2, <2>3, <2>4, <2>5, <1>t, FlagKeeps
<1>2. CASE Add
  <2> DEFINE m == CHOOSE x \in Free : TRUE
             r == [Unused EXCEPT !.pc = "start", !.ws = "open"]
  <2>1. /\ Free # {} /\ listed' = listed \cup {m} /\ Set(m, r) /\ procs' = procs /\ copy' = copy
    BY <1>2 DEF Add
  <2>2. m \in Managers \ listed
    BY <2>1 DEF Free
  <2>3. r \in Manager /\ r.pc = "start" /\ r.shells = <<>> /\ DOMAIN r.shells = {}
    BY NoShells DEF Unused, Manager
  <2> HIDE DEF m, r
  <2>4. /\ mgr' \in [Managers -> Manager] /\ mgr'[m] = r
        /\ \A x \in Managers \ {m} : mgr'[x] = mgr[x]
    BY <2>1, <2>2, <2>3, OneManager DEF ShellInv
  <2>5. \A i \in Ids : <<m, i>> \notin procs
    BY <2>2 DEF ShellInv, UnlistedIsUnused, Owned
  <2>6. ShellTypeOK'
    BY <1>t, <2>1, <2>2, <2>4 DEF ShellTypeOK
  <2>7. UnlistedIsUnused'
    BY <2>1, <2>2, <2>4 DEF ShellInv, UnlistedIsUnused, Sid
  <2>8. EndsAlone'
    BY <2>3, <2>4 DEF ShellInv, EndsAlone, Sid
  <2>9. Owned'
    BY <2>1, <2>4, <2>5 DEF ShellInv, Owned, Sid
  <2> QED BY <2>6, <2>7, <2>8, <2>9 DEF ShellInv
<1>3. CASE CloseOne
  <2>1. CASE UNCHANGED mgr
    BY <1>3, <2>1, <1>t DEF CloseOne, ShellInv, ShellTypeOK, UnlistedIsUnused, EndsAlone, Owned, Sid
  <2>2. CASE ~UNCHANGED mgr
    <3>1. PICK m \in copy : copy' = copy \ {m} /\ Set(m, Closing(m))
      BY <1>3, <2>2 DEF CloseOne
    <3>2. UNCHANGED <<listed, procs>>
      BY <1>3 DEF CloseOne
    <3> QED BY <3>1, <3>2, <1>t, ClosingKeeps
  <2> QED BY <2>1, <2>2
<1>4. CASE SessionCloses \/ NextSession \/ UNCHANGED shellVars
  BY <1>4, <1>t DEF SessionCloses, NextSession, shellVars, ShellInv, ShellTypeOK,
     UnlistedIsUnused, EndsAlone, Owned, Sid
<1>5. CASE ProcessEnds
  BY <1>5, <1>t DEF ProcessEnds, ShellInv, ShellTypeOK, UnlistedIsUnused, EndsAlone, Owned, Sid
<1>6. QED
  BY <1>1, <1>2, <1>3, <1>4, <1>5, ManagerStep DEF ShellsNext

LEMMA InitShells == ShellsInit => ShellInv
<1> SUFFICES ASSUME ShellsInit PROVE ShellInv
  OBVIOUS
<1>1. mgr \in [Managers -> Manager] /\ \A m \in Managers : mgr[m] = Unused
  BY NoShells DEF ShellsInit
<1>2. /\ Unused.pc = "none" /\ Unused.ws = "none" /\ DOMAIN Unused.shells = {}
  BY NoShells DEF Unused
<1>3. QED
  BY <1>1, <1>2 DEF ShellsInit, ShellInv, ShellTypeOK, UnlistedIsUnused, EndsAlone, Owned, Sid

\* No process whose pid was noted is left behind, however many managers and shells
\* there are: a manager that ends takes no more messages, so none is opened behind
\* _destroy.  What an open_session forked that failed is not among them.
THEOREM NoneLeftBehind == ShellsSpec => []NoOrphanProcess
<1>1. ShellInv => NoOrphanProcess
  <2> SUFFICES ASSUME ShellInv, NEW p \in procs PROVE p \in listed \X Ids /\ p[2] \in Sid(p[1])
    BY DEF NoOrphanProcess
  <2>1. PICK m \in Managers, i \in Ids : p = <<m, i>>
    BY DEF ShellInv, ShellTypeOK
  <2>2. i \in Sid(m)
    BY <2>1 DEF ShellInv, Owned
  <2>3. m \in listed
    BY <2>2 DEF ShellInv, UnlistedIsUnused
  <2> QED BY <2>1, <2>2, <2>3
<1>2. QED
  BY InitShells, StepShells, <1>1, PTL DEF ShellsSpec
==============================================================================
