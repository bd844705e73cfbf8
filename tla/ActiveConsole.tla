--------------------------- MODULE ActiveConsole ---------------------------
(* ProcessInActiveConsole of core/ipc.py on Linux, with an agent that is    *)
(* root: the capture runs as the user of the active console, with the       *)
(* display and the authority that four searches find, and is ended when     *)
(* another console becomes active.                                          *)
EXTENDS Naturals

CONSTANTS
  Tty, User, None,
  MaxChanges    \* bound: logins, logouts and switches of console

VARIABLES
  fg,       \* the active console, None when the system tells of none
  sess,     \* sess[t]: who uses console t, and how
  changes,
  at,       \* "stopped", "detected", "loaded", "running"
  console,  \* _currentconsole, None or a record
  environ,  \* os.environ of the agent
  capture   \* the child: its user and its environment

vars == <<fg, sess, changes, at, console, environ, capture>>
world == <<fg, sess, changes>>

Root == "root"
\* kind of session; uid of its X server; how utmp names it; its processes run
Getty == [user |-> Root, kind |-> "text", server |-> None, line |-> "none",
          ready |-> FALSE, number |-> None]
Nothing == [display |-> None, auth |-> None, wayland |-> FALSE]
NoCapture == [user |-> None, env |-> Nothing]

Init == /\ fg = None /\ sess = [t \in Tty |-> Getty] /\ changes = 0
        /\ at = "stopped" /\ console = None /\ environ = Nothing /\ capture = NoCapture

-----------------------------------------------------------------------------
\* The sessions of the machine.
Changes == changes < MaxChanges /\ changes' = changes + 1
           /\ UNCHANGED <<at, console, environ, capture>>

Switch(t) == Changes /\ fg # t /\ fg' = t /\ UNCHANGED sess

FreeNumber == CHOOSE n \in 0..10 : /\ \A t \in Tty : sess[t].number # n
                                   /\ \A m \in 0..(n - 1) : \E t \in Tty : sess[t].number = m

Login(t, u) ==
  /\ Changes /\ sess[t] = Getty /\ UNCHANGED fg
  /\ \/ sess' = [sess EXCEPT ![t] = [Getty EXCEPT !.user = u, !.line = "tty", !.ready = TRUE]]
     \/ \E kind \in {"x", "wayland"}, server \in {Root, u}, line \in {"tty", "display"} :
          /\ kind = "wayland" => server = u
          /\ sess' = [sess EXCEPT ![t] = [user |-> u, kind |-> kind, server |-> server,
                        line |-> line, ready |-> FALSE, number |-> FreeNumber]]

\* its desktop runs: processes with DISPLAY and XAUTHORITY in their environment
Desktop(t) == /\ sess[t].user # Root /\ ~sess[t].ready
              /\ sess' = [sess EXCEPT ![t].ready = TRUE]
              /\ UNCHANGED <<fg, changes, at, console, environ, capture>>

Logout(t) == Changes /\ sess[t] # Getty /\ sess' = [sess EXCEPT ![t] = Getty] /\ UNCHANGED fg

-----------------------------------------------------------------------------
\* _detect_console: utmp names the user of the tty, or the device its owner
Detected == [tty |-> fg, cktype |-> IF sess[fg].line = "tty" THEN "USER_NAME" ELSE "USER_ID",
             ckvalue |-> sess[fg].user, uid |-> None, env |-> Nothing]

\* _get_linux_envirionment: each search gives the environments it may end with,
\* for the order of the processes and of the lines of w is the system's.
Own(uid) == {t \in Tty : sess[t].user = uid /\ sess[t].kind # "text" /\ sess[t].ready}
Of(t) == [display |-> sess[t].number, auth |-> t, wayland |-> sess[t].kind = "wayland"]
Lines(uid) == {t \in Tty : sess[t].user = uid /\ sess[t].line # "none"}

\* a process of the user that has both variables
ByProcess(uid) == IF Own(uid) = {} THEN {Nothing} ELSE {Of(t) : t \in Own(uid)}

\* the process whose command is in the first line w has of the user, when it is found
ByWhat(uid, e) ==
  {e} \cup {IF sess[t].kind = "text" THEN [e EXCEPT !.wayland = FALSE] ELSE Of(t) :
              t \in {s \in Lines(uid) : sess[s].ready}}

\* the display in that line: the variable is not set when it is a tty, and the search ends
ByDisplay(uid, e) ==
  IF Lines(uid) = {} THEN {e}
  ELSE {IF sess[t].line = "display" THEN [e EXCEPT !.display = sess[t].number] ELSE e :
          t \in Lines(uid)}

\* the command line of an X server of the tty and the user, which may leave the display out
ByCmdline(uid, tty, e) ==
  LET mine == {t \in Tty : tty \in {None, t} /\ uid \in {None, sess[t].server}}
      xs == {t \in mine : sess[t].kind = "x"}
      wl == {t \in mine : sess[t].kind = "wayland"}
  IN IF xs = {} THEN {[e EXCEPT !.wayland = @ \/ wl # {}]}
     ELSE {[e EXCEPT !.auth = t, !.display = d] : t \in xs, d \in {e.display}}
          \cup {[e EXCEPT !.auth = t, !.display = sess[t].number] : t \in xs}

DisplayOr0(e) == IF e.display = None THEN [e EXCEPT !.display = 0] ELSE e
Anyone == {DisplayOr0(e) : e \in ByCmdline(None, None, Nothing)}

\* with no authority the search is made again, for no user and no tty
Environment(uid, tty) ==
  LET a == ByProcess(uid)
      b == UNION {ByWhat(uid, e) : e \in a}
      c == UNION {ByDisplay(uid, e) : e \in b}
      d == UNION {ByCmdline(uid, tty, e) : e \in c}
  IN UNION {IF e.wayland \/ e.auth # None THEN {DisplayOr0(e)} ELSE Anyone : e \in d}

\* what is found is written over os.environ, and stays there
Over(old, e) == [display |-> e.display, auth |-> IF e.auth = None THEN old.auth ELSE e.auth,
                 wayland |-> old.wayland \/ e.wayland]

-----------------------------------------------------------------------------
Detect == /\ at = "stopped" /\ at' = "detected"
          /\ console' = (IF fg = None THEN None ELSE Detected)
          /\ UNCHANGED <<world, environ, capture>>

\* _load_linux_console_info: a user that is not known leaves the agent's own environment
Load ==
  /\ at = "detected" /\ at' = "loaded" /\ UNCHANGED <<world, capture>>
  /\ \/ console = None /\ UNCHANGED <<console, environ>>
     \/ /\ console # None /\ UNCHANGED environ
        /\ \E e \in Environment(console.ckvalue, console.tty) :
             console' = [console EXCEPT !.uid = console.ckvalue, !.env = e]
     \/ /\ console # None
        /\ \E e \in Environment(None, console.tty) :
             /\ environ' = Over(environ, e)
             /\ console' = [console EXCEPT !.env = Over(environ, e)]

\* _create_process: as the user of the console
Demoted == /\ at = "loaded" /\ console # None /\ console.uid # None
           /\ at' = "running" /\ capture' = [user |-> console.uid, env |-> console.env]
           /\ UNCHANGED <<world, console, environ>>

\* or as root, when the console, its user or the demotion is missing
FallBack == /\ at = "loaded" /\ at' = "running" /\ UNCHANGED <<world, console>>
            /\ \E e \in Environment(None, None) :
                 environ' = Over(environ, e) /\ capture' = [user |-> Root, env |-> environ']

\* _start_ipc raises: the console is forgotten
StartFails == /\ at = "loaded" /\ at' = "stopped" /\ console' = None
              /\ UNCHANGED <<world, environ, capture>>

\* is_change_console
\* mutant: another user is looked for only when utmp did not name the first
ChangedNamed == /\ fg # None /\ console # None /\ Detected.tty # console.tty
                /\ Detected.cktype = "" \/ Detected.cktype # console.cktype
ConsoleChanged == /\ fg # None /\ console # None /\ Detected.tty # console.tty
                  /\ Detected.cktype # console.cktype \/ Detected.ckvalue # console.ckvalue

\* The servers let in who can read the authority of their display, and a Wayland
\* session its own user.
Works == \E t \in Tty :
  /\ sess[t].kind # "text" /\ capture.user \in {Root, sess[t].user}
  /\ IF sess[t].kind = "wayland" THEN capture.env.wayland
     ELSE capture.env.display = sess[t].number /\ capture.env.auth = t

Stop == at' = "stopped" /\ console' = None /\ capture' = NoCapture
        /\ UNCHANGED <<world, environ>>
Follow == at = "running" /\ ConsoleChanged /\ Stop
Dies == at = "running" /\ ~Works /\ Stop

Next == \/ \E t \in Tty : \/ Switch(t) \/ Desktop(t) \/ Logout(t)
                          \/ \E u \in User : Login(t, u)
        \/ Detect \/ Load \/ Demoted \/ FallBack \/ StartFails \/ Follow \/ Dies

\* The loop of the desktop app asks each turn whether the console has changed.
Fairness == WF_vars(Follow)
Spec == Init /\ [][Next]_vars /\ Fairness

-----------------------------------------------------------------------------
\* A capture that runs for the user of a console does not stay when the console of
\* somebody else is the active one.
FollowsConsole ==
  LET mine == at = "running" /\ console # None /\ capture.user = console.uid
      elsewhere == fg # None /\ console.tty # fg /\ sess[fg].user # capture.user
  IN mine /\ elsewhere ~> ~(mine /\ elsewhere)

\* A user with one desktop is given its display and its authority together, whichever
\* of the searches finds them and however it is named by w.
OwnScreen ==
  [][\A u \in User, t \in Tty :
       (at = "detected" /\ console # None /\ console'.uid = u /\ Own(u) = {t}
        /\ \A s \in Tty \ {t} : sess[s].user = u => sess[s].kind = "text")
       => console'.env.display = sess[t].number /\ console'.env.auth = t]_vars
=============================================================================
