------------------------------ MODULE Configure ------------------------------
(* ui/configure.py on the wizard of ui/ui.py: the pages, the thread that     *)
(* each press of Next or Back starts (AsyncInvoke), the requests it sends to *)
(* the agent, the dialogs and the closing of the window.                     *)
EXTENDS Naturals, FiniteSets

CONSTANT Thread    \* bound: the threads a user can start before the buttons are off

VARIABLES
  page,     \* _cur_step_ui
  buttons,  \* Next and Back are enabled
  waiting,  \* _wait_ui is not None
  dialog,   \* "none", "error", "exit"
  closing,  \* _closing
  thread    \* per thread: [at, move, pg], pg the page it starts from and then the one it shows

cfVars == <<page, buttons, waiting, dialog, closing, thread>>

P(name) == [name |-> name, key |-> ""]
Type(k) == [name |-> "proxyType", key |-> k]
None == P("none")
ErrorDialog == P("ErrorDialog")
Idle == [at |-> "idle", move |-> "", pg |-> None]

\* step_password comes first when a password is set
Init == /\ page = P("password") /\ buttons = TRUE /\ waiting = FALSE /\ dialog = "none"
        /\ closing = FALSE /\ thread = [t \in Thread |-> Idle]

\* prev_step of a page, "" where there is none
BackOf(pg) ==
  CASE pg.name \in {"agentMenu", "monitorMenu"} -> "main"
    [] pg.name \in {"changeKey", "code", "enable", "passwordMenu"} -> "agentMenu"
    [] pg.name \in {"badCode", "noConnection"} -> "code"
    [] pg.name \in {"setPassword", "removePassword"} -> "passwordMenu"
    [] pg.name \in {"notification", "configPasswordMenu"} -> "monitorMenu"
    [] pg.name \in {"setConfigPassword", "removeConfigPassword"} -> "configPasswordMenu"
    [] pg.name \in {"proxyType", "tryProxy"} ->
         IF pg.key = "installCode" THEN "code" ELSE "main"
    [] pg.name = "proxyInfo" -> "proxyType"
    [] OTHER -> ""

\* The pages that the choices of a page lead to without a request that changes the agent.
Leads(pg) ==
  CASE pg.name = "password" -> {P("main"), ErrorDialog}
    [] pg.name = "main" -> {P("agentMenu"), Type("menuProxy"), P("monitorMenu")}
    [] pg.name = "agentMenu" -> {P("changeKey"), P("passwordMenu"), P("enable")}
    [] pg.name = "passwordMenu" -> {P("setPassword"), P("removePassword")}
    [] pg.name = "monitorMenu" -> {P("configPasswordMenu"), P("notification")}
    [] pg.name = "configPasswordMenu" -> {P("setConfigPassword"), P("removeConfigPassword")}
    [] pg.name = "badCode" -> {P("code"), P("main")}
    [] pg.name = "noConnection" -> {Type("installCode"), P("main")}
    [] pg.name = "tryProxy" -> {IF pg.key = "installCode" THEN P("code") ELSE P("main")}
    [] pg.name = "proxyType" -> {[name |-> "proxyInfo", key |-> pg.key]}
    [] pg.name \in {"setPassword", "setConfigPassword", "proxyInfo", "code"} -> {ErrorDialog}
    [] pg.name = "done" -> {P("main")}
    [] OTHER -> {}

\* The request that Next of a page sends, "" where it only leads on.
Asks(pg) ==
  CASE pg.name = "changeKey" -> "remove_key"
    [] pg.name \in {"code", "noConnection"} -> "install_key"
    [] pg.name \in {"setPassword", "removePassword"} -> "change_session_pwd"
    [] pg.name \in {"setConfigPassword", "removeConfigPassword"} -> "change_config_pwd"
    [] pg.name \in {"enable", "notification"} -> "set_config"
    [] pg.name \in {"proxyType", "proxyInfo", "tryProxy"} -> "set_proxy"
    [] OTHER -> ""

\* A page that reads the agent first: whether it has a key; no answer is an error.
Reads(target) == target.name \in {"main", "agentMenu", "notification"}
Opened(target) == {target} \cup (IF Reads(target) THEN {ErrorDialog} ELSE {})
                           \cup (IF target.name = "agentMenu" THEN {P("code")} ELSE {})

Result(t, pg) == thread' = [thread EXCEPT ![t] = [at |-> "complete", move |-> "", pg |-> pg]]

\* _guimode_next, _guimode_back: the buttons are off when the thread has begun
Press(t, move) ==
  /\ thread[t].at = "idle" /\ buttons /\ dialog = "none" /\ ~closing
  /\ \A u \in Thread : thread[u].at \in {"idle", "begin"}    \* bound: a double click
  /\ IF move = "next" THEN Leads(page) # {} \/ Asks(page) # "" ELSE BackOf(page) # ""
  /\ thread' = [thread EXCEPT ![t] = [at |-> "begin", move |-> move, pg |-> page]]
  /\ UNCHANGED <<page, buttons, waiting, dialog, closing>>

\* AsyncInvoke.run: _wait_ui is made again by wait_message
Begin(t) == /\ thread[t].at = "begin" /\ thread' = [thread EXCEPT ![t].at = "run"]
            /\ buttons' = FALSE /\ waiting' = TRUE
            /\ UNCHANGED <<page, dialog, closing>>

\* A step that shows another page; BackOf of a proxy page keeps its key.
Show(t) ==
  /\ thread[t].at = "run" /\ UNCHANGED <<page, buttons, waiting, dialog, closing>>
  /\ LET pg == thread[t].pg
         back == [name |-> BackOf(pg), key |-> IF BackOf(pg) = "proxyType" THEN pg.key ELSE ""]
         targets == IF thread[t].move = "back" THEN {back} ELSE Leads(pg)
     IN \E pg2 \in UNION {Opened(target) : target \in targets} : Result(t, pg2)

\* What the step shows when the agent has done what was asked.
Done(req) == IF req = "remove_key" THEN P("code") ELSE P("done")
Refusals(req, pg) ==
  CASE req = "install_key" -> {P("badCode"), P("noConnection"), ErrorDialog}
    [] req = "set_proxy" -> {[name |-> "tryProxy", key |-> pg.key]}
    [] OTHER -> {ErrorDialog}

\* The request of a step: done, or refused or without an answer in time.
Ask(t) ==
  LET pg == thread[t].pg  req == Asks(pg)
  IN /\ thread[t].at = "run" /\ thread[t].move = "next" /\ req # ""
     /\ UNCHANGED <<page, buttons, waiting, dialog, closing>>
     /\ \/ IF req = "set_proxy" /\ pg.key = "installCode"
           THEN thread' = [thread EXCEPT ![t].pg = P("code")]   \* step_check_install_code
           ELSE Result(t, Done(req))
        \/ \E r \in Refusals(req, pg) : Result(t, r)

\* _op_complete with _prepare_step, or the dialog over the page that waits
Complete(t) ==
  /\ thread[t].at = "complete" /\ thread' = [thread EXCEPT ![t] = Idle]
  /\ IF thread[t].pg = ErrorDialog
     THEN dialog' = "error" /\ UNCHANGED <<page, buttons>>
     ELSE /\ page' = thread[t].pg /\ UNCHANGED dialog
          /\ buttons' = (buttons \/ ~closing)
  /\ UNCHANGED <<waiting, closing>>

\* A click in the dialog brings the page back when it waits, its button removes it.
ErrorClick == /\ dialog = "error" /\ dialog' = "none"
              /\ buttons' = (buttons \/ (waiting /\ ~closing))
              /\ UNCHANGED <<page, waiting, closing, thread>>

\* _guimode_close: a page with buttons asks first
Leaves == Asks(page) # "" \/ Leads(page) # {} \/ BackOf(page) # ""
CloseButton == /\ buttons /\ dialog = "none" /\ ~closing
               /\ IF Leaves THEN dialog' = "exit" /\ UNCHANGED closing
                  ELSE closing' = TRUE /\ UNCHANGED dialog
               /\ UNCHANGED <<page, buttons, waiting, thread>>
ExitDialog == /\ dialog = "exit" /\ dialog' = "none" /\ closing' \in BOOLEAN
              /\ UNCHANGED <<page, buttons, waiting, thread>>

Step(t) == Begin(t) \/ Show(t) \/ Ask(t) \/ Complete(t)
Next == \/ \E t \in Thread : Press(t, "next") \/ Press(t, "back") \/ Step(t)
        \/ ErrorClick \/ CloseButton \/ ExitDialog

\* A thread that has been started runs; the user answers an error.
Fairness == (\A t \in Thread : WF_cfVars(Step(t))) /\ WF_cfVars(ErrorClick)
Spec == Init /\ [][Next]_cfVars /\ Fairness

\* However its steps end, and when two presses started two of them, the window comes
\* back with a page that can be used, unless it is being closed.
PageReturns == (\E t \in Thread : thread[t].at # "idle") ~> (buttons \/ closing)
=============================================================================
