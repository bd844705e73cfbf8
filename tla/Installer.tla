------------------------------ MODULE Installer ------------------------------
(* ui/installer.py on Linux: the pages of Install with the step its thread   *)
(* runs, Uninstall, and what both do to the machine.  The program may be     *)
(* killed at any step, and started again.                                    *)
EXTENDS Naturals, FiniteSets, TLAPS

CONSTANTS Path,     \* the directories that may be chosen
          NoPath,
          Pack,     \* the archives that are downloaded
          MaxRuns,  \* bound: how often a program is started
          MaxFaults \* bound: steps that fail

\* What /etc/dwagent names when there is no such file, or it is not whole, is no directory.
ASSUME PathAssumption ==
  /\ Path \cap {NoPath, "torn"} = {}
  /\ Pack \cap {"dir", "runtime", "native", "prepared"} = {}

VARIABLES
  page,     \* _cur_step_ui: its name, set_key, the parameter firstConfig, prev_step
  job,      \* the step that the thread runs, "none" when the page waits for the user
  todo,     \* the archives step_install has still to download
  path,     \* _install_path
  proxied,  \* _proxy is not None
  asked,    \* _install_code is not None
  silent,
  disk,     \* what is whole in each directory, with "dir" when there is one
  unit,     \* the directory of the service that is registered
  running,  \* the directory of the service that runs
  etc,      \* the directory named by /etc/dwagent; "torn" when it was being written
  stale,    \* /etc/dwagent is one that an uninstallation could not remove
  runs, faults

machine == <<disk, unit, running, etc>>
choices == <<path, proxied, asked, silent>>
counts == <<stale, runs, faults>>
inVars == <<page, job, todo, choices, machine, counts>>

Whole == Pack \cup {"dir", "runtime", "native", "prepared"}
P(name) == [name |-> name, key |-> "none", first |-> FALSE, back |-> "none"]
Off == P("off")
Keyed(name, key) == [P(name) EXCEPT !.key = key]
First(name, first) == [P(name) EXCEPT !.first = first]
\* step_configure_proxy_type: where Back leads is set when the page is made
TypePage(key) == [P("proxyType") EXCEPT !.key = key,
                    !.back = IF key = "install" THEN "confirm" ELSE "config"]

InstallInit == /\ page = Off /\ job = "none" /\ todo = {}
               /\ path = NoPath /\ proxied = FALSE /\ asked = FALSE /\ silent = FALSE
               /\ disk = [p \in Path |-> {}] /\ unit = NoPath /\ running = NoPath /\ etc = NoPath
               /\ stale = FALSE /\ runs = 0 /\ faults = 0

At(name) == page.name = name /\ job = "none"
Show(pg) == page' = pg /\ job' = "none" /\ UNCHANGED todo
Do(j) == job' = j /\ UNCHANGED <<page, todo>>

\* An ErrorDialog leaves the page under it; what a silent run shows is its last page.
Error == IF silent THEN Show(P("failed")) ELSE Show(page)
AFault == faults < MaxFaults /\ faults' = faults + 1 /\ UNCHANGED runs
Fault == AFault /\ UNCHANGED stale
NoFault == UNCHANGED counts

InstallPath == IF etc \in Path /\ disk[etc] # {} THEN etc ELSE NoPath
\* dwagsvc can be run
HasService(p) == {"native", "prepared"} \subseteq disk[p]

Start(name, quiet) ==
  /\ page = Off /\ runs < MaxRuns
  /\ page' = P(name) /\ job' = "init" /\ todo' = {}
  /\ path' = NoPath /\ proxied' = FALSE /\ asked' = FALSE /\ silent' = quiet
  /\ runs' = runs + 1 /\ UNCHANGED <<machine, stale, faults>>

\* The window is closed when the page lets it, the process is killed at any time.
Gone == /\ page # Off
        /\ page' = Off /\ job' = "none" /\ todo' = {}
        /\ etc' \in (IF job = "shortcuts" THEN {etc, "torn"} ELSE {etc})
        /\ UNCHANGED <<choices, disk, unit, running, counts>>

\* step_check_already_install, of a file that can be read
\* mutant: what is installed is not looked for
CheckSkipped(next) == /\ page' = next /\ job' = "none" /\ UNCHANGED todo
CheckAlready(next) ==
  IF etc = "torn" THEN Error
  ELSE IF InstallPath # NoPath THEN Show(P("already")) ELSE Show(next)

StepInit == /\ job = "init" /\ page.name = "install"
            /\ NoFault /\ UNCHANGED machine
            /\ IF ~silent THEN Show(P("welcome")) /\ UNCHANGED choices
               ELSE IF etc = "torn" THEN Error /\ UNCHANGED choices
               ELSE IF InstallPath # NoPath
               THEN Show(P("already")) /\ UNCHANGED choices
               ELSE /\ path' \in Path /\ Do("makedir")
                    /\ proxied' \in BOOLEAN /\ UNCHANGED <<asked, silent>>

ChooseInstall == /\ At("welcome") /\ CheckAlready(P("path"))
                 /\ NoFault /\ UNCHANGED <<choices, machine>>
ChoosePath == /\ At("path") /\ path' \in Path /\ Show(P("confirm"))
              /\ NoFault /\ UNCHANGED <<proxied, asked, silent, machine>>
BackToWelcome == /\ At("path") /\ Show(P("welcome"))
                 /\ NoFault /\ UNCHANGED <<choices, machine>>
BackToPath == /\ At("confirm") /\ CheckAlready(P("path"))
              /\ NoFault /\ UNCHANGED <<choices, machine>>

\* step_install, of a page that has no key or the key of a download that failed
Begin(key) == IF key \in {"retryDownload", "retryDownloadProxy"}
              THEN job' = "download" /\ todo' = Pack
              ELSE job' = "makedir" /\ UNCHANGED todo
ConfirmInstall == /\ At("confirm") /\ Begin("none") /\ UNCHANGED page
                  /\ NoFault /\ UNCHANGED <<choices, machine>>
Retry == /\ At("retry")
         /\ \/ Begin("retryDownload") /\ UNCHANGED page
            \/ Show(TypePage("install"))
            \/ Show(P("confirm"))
         /\ NoFault /\ UNCHANGED <<choices, machine>>

\* stop_service and delete_service, whose results are not looked at
StopDelete(p) ==
  \/ /\ HasService(p) /\ unit' = NoPath /\ running' = NoPath /\ NoFault
  \/ /\ ~HasService(p) /\ UNCHANGED <<unit, running>> /\ NoFault
  \/ /\ HasService(p) /\ Fault
     /\ \/ running' = NoPath /\ UNCHANGED unit
        \/ unit' = NoPath /\ UNCHANGED running

\* _make_directory: the old directory is removed a file at a time
MakeDirectory == /\ job = "makedir" /\ Do("remove")
                 /\ IF disk[path] # {} THEN StopDelete(path)
                    ELSE UNCHANGED <<unit, running>> /\ NoFault
                 /\ UNCHANGED <<choices, disk, etc>>
RemoveFormer ==
  /\ job = "remove" /\ UNCHANGED <<choices, unit, running, etc>>
  /\ \/ /\ disk' = [disk EXCEPT ![path] = {"dir"}] /\ NoFault
        /\ job' = "download" /\ todo' = Pack /\ UNCHANGED page
     \/ /\ \E left \in SUBSET (disk[path] \ {"dir"}) :
             disk' = [disk EXCEPT ![path] = left \cup {"dir"}]
        /\ Fault /\ Error

\* _download_files: an archive is unpacked when its hash is right
NextPack == CHOOSE k \in todo : TRUE
Download ==
  /\ job = "download" /\ todo # {} /\ UNCHANGED <<choices, unit, running, etc>>
  /\ \/ disk' = [disk EXCEPT ![path] = @ \ {NextPack}] /\ Do("unzip") /\ NoFault
     \/ /\ Fault /\ UNCHANGED disk
        /\ IF silent THEN Error ELSE Show(Keyed("retry", "retryDownload"))
Unzip ==
  /\ job = "unzip" /\ UNCHANGED <<choices, unit, running, etc>>
  /\ \/ /\ disk' = [disk EXCEPT ![path] = @ \cup {NextPack}]
        /\ todo' = todo \ {NextPack} /\ job' = "download" /\ UNCHANGED page /\ NoFault
     \/ /\ Fault /\ UNCHANGED disk
        /\ IF silent THEN Error ELSE Show(Keyed("retry", "retryDownload"))

\* A step of step_install that writes in the directory, or fails.
Fill(from, new, gone, next) ==
  /\ disk' = [disk EXCEPT ![path] = (@ \ gone) \cup new] /\ NoFault /\ Do(next)
  /\ UNCHANGED <<choices, unit, running, etc>>
Fails(at, gone) ==
  /\ job = at /\ Fault /\ Error
  /\ disk' = [disk EXCEPT ![path] = @ \ gone]
  /\ UNCHANGED <<choices, unit, running, etc>>
CopyRuntime == \/ /\ job = "download" /\ todo = {}
                  /\ Fill("download", {"runtime"}, {}, "native")
               \/ todo = {} /\ Fails("download", {"runtime"})
CopyNative == \/ job = "native" /\ Fill("native", {"native"}, {"prepared"}, "prepare")
              \/ Fails("native", {"native", "prepared"})
PrepareFile == \/ job = "prepare" /\ Fill("prepare", {"prepared"}, {}, "dirty")
               \/ Fails("prepare", {"prepared"})

\* _install_service: a unit that could not be deleted is in the way of the new one
InstallService ==
  /\ UNCHANGED <<choices, disk, etc>>
  /\ \/ job = "dirty" /\ StopDelete(path) /\ Do("service")
     \/ /\ job = "service" /\ unit = NoPath /\ NoFault
        /\ unit' = path /\ Do("start") /\ UNCHANGED running
     \/ /\ job = "service" /\ unit # NoPath /\ Error /\ NoFault /\ UNCHANGED <<unit, running>>
     \/ /\ job = "start" /\ NoFault
        /\ running' = (IF running = NoPath THEN path ELSE running)
        /\ Do("shortcuts") /\ UNCHANGED unit
     \/ /\ job \in {"service", "start"} /\ Fault /\ Error /\ UNCHANGED <<unit, running>>

\* _install_monitor fails in no way that is told; install_shortcuts writes /etc/dwagent,
\* after the former file is removed, or that fails
InstallShortcuts ==
  /\ job = "shortcuts" /\ UNCHANGED <<choices, disk, unit, running>>
  /\ \/ /\ etc' = path /\ stale' = FALSE /\ UNCHANGED <<runs, faults>>
        /\ IF silent THEN Do("request") ELSE Show(First("mode", TRUE))
     \/ etc' = NoPath /\ stale' = FALSE /\ AFault /\ Error
     \/ UNCHANGED etc /\ Fault /\ Error

\* step_config_init, step_config
ChooseMode == /\ At("mode") /\ Show(First("config", page.first)) /\ asked' = TRUE
              /\ NoFault /\ UNCHANGED <<path, proxied, silent, machine>>
ConfigPage(first) == Show(First("config", first)) /\ asked' = TRUE
                     /\ UNCHANGED <<path, proxied, silent>>
Config == /\ At("config") /\ NoFault /\ UNCHANGED <<choices, machine>>
          /\ \/ Show(First("mode", page.first))
             \/ Do("request")

\* step_config_install_request: an agent that runs there answers, or does not in time
Answers == running = path /\ path # NoPath
InstallRequest ==
  /\ job = "request" /\ NoFault /\ UNCHANGED <<choices, machine>>
  /\ \/ Error                                         \* REQUEST_TIMEOUT, of the proxy or the code
     \/ ~asked /\ ~silent /\ Show(P("exception"))     \* there is no code yet
     \/ asked /\ Answers /\ Show(P("installed"))
     \/ silent /\ Show(P("installed"))                \* without a code there is nothing to ask
     \/ ~silent /\ Answers /\ Show(P("again"))        \* INVALID_CODE
     \/ ~silent /\ Answers /\ Show(P("connError"))
Again ==
  /\ page.name \in {"again", "connError", "exception"} /\ job = "none"
  /\ NoFault /\ UNCHANGED machine
  /\ \/ ConfigPage(FALSE)
     \/ Show(P("later")) /\ UNCHANGED choices
     \/ page.name # "again" /\ Do("request") /\ UNCHANGED choices
     \/ page.name = "connError" /\ Show(TypePage("configure")) /\ UNCHANGED choices

\* step_configure_proxy_set: the page it is called from keeps the key it is given
ProxySet ==
  /\ proxied' = TRUE /\ UNCHANGED <<path, asked, silent, machine>> /\ NoFault
  /\ IF page.key = "install"
     THEN page' = [page EXCEPT !.key = "retryDownloadProxy"] /\ Begin("retryDownloadProxy")
     ELSE \/ Answers /\ Do("request")
          \/ Error
ProxyType ==
  /\ At("proxyType")
  /\ \/ ProxySet
     \/ /\ Show(Keyed("proxyInfo", page.key)) /\ NoFault /\ UNCHANGED <<choices, machine>>
     \/ /\ page.back = "confirm" /\ Show(P("confirm"))
        /\ NoFault /\ UNCHANGED <<choices, machine>>
     \/ /\ page.back = "config" /\ ConfigPage(FALSE) /\ NoFault /\ UNCHANGED machine
ProxyInfo ==
  /\ At("proxyInfo")
  /\ \/ ProxySet
     \/ /\ Show(TypePage(page.key)) /\ NoFault /\ UNCHANGED <<choices, machine>>

\* Uninstall
UninstallInit ==
  /\ job = "init" /\ page.name = "uninstall" /\ NoFault /\ UNCHANGED machine
  /\ IF InstallPath = NoPath THEN Show(P("notInstalled")) /\ UNCHANGED choices
     ELSE /\ path' = InstallPath /\ UNCHANGED <<proxied, asked, silent>>
          /\ IF silent THEN Do("unservice") ELSE Show(P("confirmUninstall"))
ConfirmUninstall == /\ At("confirmUninstall") /\ Do("unservice")
                    /\ NoFault /\ UNCHANGED <<choices, machine>>
UninstallService == /\ job = "unservice" /\ StopDelete(path) /\ Do("unshortcuts")
                    /\ UNCHANGED <<choices, disk, etc>>
UninstallShortcuts == /\ job = "unshortcuts" /\ Do("unmark")
                      /\ \/ /\ etc' = NoPath /\ stale' = FALSE /\ UNCHANGED <<runs, faults>>
                         \/ UNCHANGED etc /\ stale' = TRUE /\ AFault
                      /\ UNCHANGED <<choices, disk, unit, running>>
\* agent.uninstall, of which the script that started the program removes the directory
Uninstalled == /\ job = "unmark" /\ UNCHANGED <<choices, unit, running, etc>>
               /\ \/ disk' = [disk EXCEPT ![path] = {}] /\ Show(P("uninstalled")) /\ NoFault
                  \/ UNCHANGED disk /\ Fault /\ Error

InstallNext == \/ \E name \in {"install", "uninstall"}, quiet \in BOOLEAN : Start(name, quiet)
               \/ Gone \/ StepInit \/ ChooseInstall \/ ChoosePath \/ BackToWelcome \/ BackToPath
               \/ ConfirmInstall \/ Retry \/ MakeDirectory \/ RemoveFormer \/ Download \/ Unzip
               \/ CopyRuntime \/ CopyNative \/ PrepareFile \/ InstallService \/ InstallShortcuts
               \/ ChooseMode \/ Config \/ InstallRequest \/ Again \/ ProxyType \/ ProxyInfo
               \/ UninstallInit \/ ConfirmUninstall \/ UninstallService \/ UninstallShortcuts
               \/ Uninstalled

InstallSpec == InstallInit /\ [][InstallNext]_inVars

\* What /etc/dwagent says is installed is whole, wherever a program was stopped and
\* whatever step failed: it is what a later installation gives way to.  The exception is
\* a file that an uninstallation could not remove: what is installed after it in the
\* same directory is registered before it is there.
RegisteredWhole == etc \in Path /\ ~stale => disk[etc] = Whole
-----------------------------------------------------------------------------
\* The inductive invariant.
Names == {"off", "install", "welcome", "already", "path", "confirm", "retry", "failed", "mode",
          "config", "proxyType", "proxyInfo", "exception", "again", "connError", "later",
          "installed", "uninstall", "notInstalled", "confirmUninstall", "uninstalled"}
Keys == {"none", "install", "configure", "retryDownload", "retryDownloadProxy"}
Pages == [name : Names, key : Keys, first : BOOLEAN, back : {"none", "confirm", "config"}]
PageTypeOK == page \in Pages
InstallTypeOK ==
  /\ PageTypeOK
  /\ todo \subseteq Pack /\ path \in Path \cup {NoPath} /\ disk \in [Path -> SUBSET Whole]
  /\ silent \in BOOLEAN /\ stale \in BOOLEAN

Filling == job \in {"makedir", "remove", "download", "unzip", "native", "prepare", "dirty",
                    "service", "start", "shortcuts"}
Removing == job \in {"unservice", "unshortcuts", "unmark"}
\* A page the user can go on from to step_install.
Offered == \/ page.name \in {"path", "confirm", "retry"}
           \/ page.key \in {"install", "retryDownloadProxy"}
           \/ page.back = "confirm"

\* step_check_already_install holds from the page it leads to, until /etc/dwagent is
\* written; and an uninstallation removes that file before its directory.
NotRegistered == Filling \/ Offered \/ job = "unmark" => stale \/ etc \notin Path

PathChosen ==
  \/ Filling \/ Removing \/ (Offered /\ page.name # "path") \/ page.name = "confirmUninstall"
     => path \in Path

\* What is in the directory, by the step that comes next.
Built ==
  /\ page.name = "retry" \/ page.key = "install" => "dir" \in disk[path]
  /\ job \in {"download", "unzip"} => {"dir"} \cup (Pack \ todo) \subseteq disk[path]
  /\ job = "unzip" => todo # {}
  /\ job = "native" => Pack \cup {"dir", "runtime"} \subseteq disk[path]
  /\ job = "prepare" => Pack \cup {"dir", "runtime", "native"} \subseteq disk[path]
  /\ job \in {"dirty", "service", "start", "shortcuts"} => disk[path] = Whole

\* A silent run asks nothing, and the pages of Uninstall lead to no installation.
PagesApart ==
  /\ silent \/ Removing \/ page.name \in {"uninstall", "confirmUninstall"} =>
       ~Offered /\ page.name \notin {"welcome", "mode", "config", "proxyType", "proxyInfo",
                                     "again", "connError", "exception"}
  /\ Removing => page.name \in {"uninstall", "confirmUninstall"}

InstallInv == /\ InstallTypeOK /\ NotRegistered /\ PathChosen /\ Built /\ PagesApart
              /\ RegisteredWhole

LEMMA PagesShown ==
  ASSUME NEW n \in Names
  PROVE  P(n) \in Pages /\ First(n, TRUE) \in Pages /\ First(n, FALSE) \in Pages
<1>1. "none" \in Keys
  BY DEF Keys
<1>2. QED
  BY <1>1 DEF P, First, Pages

LEMMA PagesKeyed ==
  ASSUME NEW k \in Keys
  PROVE  /\ TypePage(k) \in Pages
         /\ \A n \in Names : Keyed(n, k) \in Pages
         /\ \A pg \in Pages : [pg EXCEPT !.key = k] \in Pages
<1>1. "none" \in Keys /\ "proxyType" \in Names
  BY DEF Keys, Names
<1>2. CASE k = "install"
  BY <1>1, <1>2 DEF TypePage, Keyed, P, Pages
<1>3. CASE k # "install"
  BY <1>1, <1>3 DEF TypePage, Keyed, P, Pages
<1>4. QED
  BY <1>2, <1>3

LEMMA PagesKept ==
  ASSUME NEW pg \in Pages, NEW n \in Names
  PROVE  /\ First(n, pg.first) \in Pages /\ Keyed(n, pg.key) \in Pages
         /\ pg.key \in Keys /\ TypePage(pg.key) \in Pages
<1>1. pg.first \in BOOLEAN /\ pg.key \in Keys /\ "none" \in Keys
  BY DEF Pages, Keys
<1>2. QED
  BY <1>1, PagesKeyed DEF First, P, Pages

LEMMA TypePageIs ==
  ASSUME NEW k
  PROVE  /\ TypePage(k).name = "proxyType" /\ TypePage(k).key = k
         /\ k = "install" => TypePage(k).back = "confirm"
         /\ k # "install" => TypePage(k).back = "config"
  BY DEF TypePage, P

\* What get_install_path finds.
LEMMA WhatIsThere ==
  /\ InstallPath \in Path \cup {NoPath}
  /\ RegisteredWhole /\ InstallPath = NoPath => stale \/ etc \notin Path
<1>1. InstallPath \in Path \cup {NoPath}
  BY DEF InstallPath
<1>2. Whole # {}
  BY DEF Whole
<1>3. QED
  BY <1>1, <1>2, PathAssumption DEF InstallPath, RegisteredWhole

LEMMA NextIs == todo # {} => NextPack \in todo
  BY Zenon DEF NextPack

LEMMA ErrorShows == Error => page' \in {page, P("failed")} /\ job' = "none" /\ todo' = todo
  BY Zenon DEF Error, Show

\* What each step does, as far as the invariant is concerned.
LEMMA StartDoes ==
  ASSUME NEW name \in {"install", "uninstall"}, NEW quiet \in BOOLEAN, Start(name, quiet)
  PROVE  /\ page' = P(name) /\ job' = "init" /\ todo' = {} /\ path' = NoPath /\ silent' = quiet
         /\ UNCHANGED <<stale, disk, etc>>
  BY DEF Start, Off, At, Show, Do, Fault, AFault, NoFault, counts, choices, machine

LEMMA GoneDoes ==
  ASSUME Gone
  PROVE  /\ page' = P("off") /\ job' = "none" /\ todo' = {}
         /\ UNCHANGED <<silent, stale, path, disk>>
         /\ etc' \in {etc, "torn"}
  BY DEF Gone, Off, At, Show, Do, Fault, AFault, NoFault, counts, choices, machine

LEMMA StepInitDoes ==
  ASSUME StepInit
  PROVE  /\ job = "init"
         /\ UNCHANGED <<silent, stale, disk, etc, todo>>
         /\ \/ UNCHANGED path /\ job' = "none" /\ page' \in {P("failed"), P("already")}
            \/ UNCHANGED path /\ job' = "none" /\ page' = P("welcome") /\ ~silent
            \/ path' \in Path /\ job' = "makedir" /\ page' = page /\ InstallPath = NoPath /\ silent
<1>1. job = "init" /\ UNCHANGED <<silent, stale, disk, etc>>
  BY DEF StepInit, NoFault, counts, choices, machine
<1>2. silent /\ Error => page' = P("failed") /\ job' = "none" /\ todo' = todo
  BY Zenon DEF Error, Show
<1>3. CASE ~silent
  BY <1>1, <1>3 DEF StepInit, Show, choices
<1>4. CASE silent /\ etc = "torn"
  BY <1>1, <1>2, <1>4 DEF StepInit, choices
<1>5. CASE silent /\ etc # "torn" /\ InstallPath # NoPath
  BY <1>1, <1>5 DEF StepInit, Show, choices
<1>6. CASE silent /\ etc # "torn" /\ InstallPath = NoPath
  BY <1>1, <1>6 DEF StepInit, Do
<1>7. QED
  BY <1>3, <1>4, <1>5, <1>6

LEMMA ChooseInstallDoes ==
  ASSUME ChooseInstall
  PROVE  /\ page.name = "welcome" /\ job' = "none"
         /\ UNCHANGED <<silent, stale, path, disk, etc, todo>>
         /\ \/ page' \in {page, P("failed"), P("already")}
            \/ page' = P("path") /\ InstallPath = NoPath
  BY ErrorShows DEF ChooseInstall, CheckAlready, At, Show, Do, Fault, AFault, NoFault,
     counts, choices, machine

LEMMA ChoosePathDoes ==
  ASSUME ChoosePath
  PROVE  /\ page.name = "path" /\ page' = P("confirm") /\ job' = "none" /\ path' \in Path
         /\ UNCHANGED <<silent, stale, disk, etc, todo>>
  BY DEF ChoosePath, At, Show, Do, Fault, AFault, NoFault, counts, choices, machine

LEMMA BackToWelcomeDoes ==
  ASSUME BackToWelcome
  PROVE  /\ page.name = "path" /\ page' = P("welcome") /\ job' = "none"
         /\ UNCHANGED <<silent, stale, path, disk, etc, todo>>
  BY DEF BackToWelcome, At, Show, Do, Fault, AFault, NoFault, counts, choices, machine

LEMMA BackToPathDoes ==
  ASSUME BackToPath
  PROVE  /\ page.name = "confirm" /\ job' = "none"
         /\ UNCHANGED <<silent, stale, path, disk, etc, todo>>
         /\ \/ page' \in {page, P("failed"), P("already")}
            \/ page' = P("path") /\ InstallPath = NoPath
  BY ErrorShows DEF BackToPath, CheckAlready, At, Show, Do, Fault, AFault, NoFault, counts,
     choices, machine

LEMMA ConfirmInstallDoes ==
  ASSUME ConfirmInstall
  PROVE  /\ page.name = "confirm" /\ page' = page /\ job' = "makedir"
         /\ UNCHANGED <<silent, stale, path, disk, etc, todo>>
  BY DEF ConfirmInstall, Begin, At, Show, Do, Fault, AFault, NoFault, counts, choices,
     machine

LEMMA RetryDoes ==
  ASSUME Retry
  PROVE  /\ page.name = "retry"
         /\ UNCHANGED <<silent, stale, path, disk, etc>>
         /\ \/ page' = page /\ job' = "download" /\ todo' = Pack
            \/ page' \in {TypePage("install"), P("confirm")} /\ job' = "none" /\ todo' = todo
  BY DEF Retry, Begin, At, Show, Do, Fault, AFault, NoFault, counts, choices, machine

LEMMA MakeDirectoryDoes ==
  ASSUME MakeDirectory
  PROVE  /\ job = "makedir" /\ page' = page /\ job' = "remove"
         /\ UNCHANGED <<silent, stale, path, disk, etc, todo>>
  BY DEF MakeDirectory, StopDelete, At, Show, Do, Fault, AFault, NoFault, counts, choices,
     machine

LEMMA RemoveDoes ==
  ASSUME RemoveFormer
  PROVE  /\ job = "remove"
         /\ UNCHANGED <<silent, stale, path, etc>>
         /\ \/ /\ disk' = [disk EXCEPT ![path] = {"dir"}]
               /\ page' = page /\ job' = "download" /\ todo' = Pack
            \/ /\ \E left \in SUBSET disk[path] : disk' = [disk EXCEPT ![path] = left \cup {"dir"}]
               /\ todo' = todo /\ page' \in {page, P("failed")} /\ job' = "none"
  BY ErrorShows DEF RemoveFormer, At, Show, Do, Fault, AFault, NoFault, counts, choices, machine

LEMMA DownloadDoes ==
  ASSUME Download
  PROVE  /\ job = "download"
         /\ UNCHANGED <<silent, stale, path, etc, todo>>
         /\ \/ /\ todo # {} /\ disk' = [disk EXCEPT ![path] = @ \ {NextPack}]
               /\ page' = page /\ job' = "unzip"
            \/ disk' = disk /\ page' = P("failed") /\ job' = "none"
            \/ disk' = disk /\ page' = page /\ job' = "none"
            \/ disk' = disk /\ page' = Keyed("retry", "retryDownload") /\ job' = "none" /\ ~silent
  BY ErrorShows DEF Download, At, Show, Do, Fault, AFault, NoFault, counts, choices, machine

LEMMA UnzipDoes ==
  ASSUME Unzip
  PROVE  /\ job = "unzip"
         /\ UNCHANGED <<silent, stale, path, etc>>
         /\ \/ /\ disk' = [disk EXCEPT ![path] = @ \cup {NextPack}] /\ todo' = todo \ {NextPack}
               /\ page' = page /\ job' = "download"
            \/ disk' = disk /\ todo' = todo /\ page' = P("failed") /\ job' = "none"
            \/ disk' = disk /\ todo' = todo /\ page' = page /\ job' = "none"
            \/ /\ disk' = disk /\ todo' = todo /\ page' = Keyed("retry", "retryDownload")
               /\ job' = "none" /\ ~silent
  BY ErrorShows DEF Unzip, At, Show, Do, Fault, AFault, NoFault, counts, choices, machine

LEMMA CopyRuntimeDoes ==
  ASSUME CopyRuntime
  PROVE  /\ job = "download" /\ todo = {}
         /\ UNCHANGED <<silent, stale, path, etc, todo>>
         /\ \/ /\ disk' = [disk EXCEPT ![path] = (@ \ {}) \cup {"runtime"}]
               /\ page' = page /\ job' = "native"
            \/ /\ disk' = [disk EXCEPT ![path] = @ \ {"runtime"}]
               /\ page' \in {page, P("failed")} /\ job' = "none"
  BY ErrorShows DEF CopyRuntime, Fill, Fails, At, Show, Do, Fault, AFault, NoFault, counts,
     choices, machine

LEMMA CopyNativeDoes ==
  ASSUME CopyNative
  PROVE  /\ job = "native"
         /\ UNCHANGED <<silent, stale, path, etc, todo>>
         /\ \/ /\ disk' = [disk EXCEPT ![path] = (@ \ {"prepared"}) \cup {"native"}]
               /\ page' = page /\ job' = "prepare"
            \/ /\ disk' = [disk EXCEPT ![path] = @ \ {"native", "prepared"}]
               /\ page' \in {page, P("failed")} /\ job' = "none"
  BY ErrorShows DEF CopyNative, Fill, Fails, At, Show, Do, Fault, AFault, NoFault, counts,
     choices, machine

LEMMA PrepareFileDoes ==
  ASSUME PrepareFile
  PROVE  /\ job = "prepare"
         /\ UNCHANGED <<silent, stale, path, etc, todo>>
         /\ \/ /\ disk' = [disk EXCEPT ![path] = (@ \ {}) \cup {"prepared"}]
               /\ page' = page /\ job' = "dirty"
            \/ /\ disk' = [disk EXCEPT ![path] = @ \ {"prepared"}]
               /\ page' \in {page, P("failed")} /\ job' = "none"
  BY ErrorShows DEF PrepareFile, Fill, Fails, At, Show, Do, Fault, AFault, NoFault, counts,
     choices, machine

LEMMA InstallServiceDoes ==
  ASSUME InstallService
  PROVE  /\ UNCHANGED <<silent, stale, path, disk, etc, todo>>
         /\ job \in {"dirty", "service", "start"}
         /\ \/ page' = page /\ job' \in {"service", "start", "shortcuts"}
            \/ page' \in {page, P("failed")} /\ job' = "none"
  BY ErrorShows DEF InstallService, StopDelete, At, Show, Do, Fault, AFault, NoFault,
     counts, choices, machine

LEMMA InstallShortcutsDoes ==
  ASSUME InstallShortcuts
  PROVE  /\ job = "shortcuts"
         /\ UNCHANGED <<silent, path, disk, todo>>
         /\ stale' = FALSE \/ stale' = stale
         /\ \/ etc' = path /\ silent /\ page' = page /\ job' = "request"
            \/ etc' = path /\ ~silent /\ page' = First("mode", TRUE) /\ job' = "none"
            \/ etc' = NoPath /\ page' \in {page, P("failed")} /\ job' = "none"
            \/ /\ etc' = etc /\ stale' = stale
               /\ page' \in {page, P("failed")} /\ job' = "none"
  BY ErrorShows DEF InstallShortcuts, At, Show, Do, Fault, AFault, NoFault, counts, choices,
     machine

LEMMA ChooseModeDoes ==
  ASSUME ChooseMode
  PROVE  /\ page.name = "mode" /\ page' = First("config", page.first) /\ job' = "none"
         /\ UNCHANGED <<silent, stale, path, disk, etc, todo>>
  BY DEF ChooseMode, At, Show, Do, Fault, AFault, NoFault, counts, choices, machine

LEMMA ConfigDoes ==
  ASSUME Config
  PROVE  /\ page.name = "config"
         /\ UNCHANGED <<silent, stale, path, disk, etc, todo>>
         /\ \/ page' = First("mode", page.first) /\ job' = "none"
            \/ page' = page /\ job' = "request"
  BY DEF Config, At, Show, Do, Fault, AFault, NoFault, counts, choices, machine

LEMMA InstallRequestDoes ==
  ASSUME InstallRequest
  PROVE  /\ job = "request" /\ job' = "none"
         /\ UNCHANGED <<silent, stale, path, disk, etc, todo>>
         /\ \/ page' \in {page, P("failed"), P("installed")}
            \/ ~silent /\ page' \in {P("exception"), P("again"), P("connError")}
  BY ErrorShows DEF InstallRequest, At, Show, Do, Fault, AFault, NoFault, counts, choices,
     machine

LEMMA AgainDoes ==
  ASSUME Again
  PROVE  /\ page.name \in {"again", "connError", "exception"}
         /\ UNCHANGED <<silent, stale, path, disk, etc, todo>>
         /\ \/ page' = First("config", FALSE) /\ job' = "none"
            \/ page' = P("later") /\ job' = "none"
            \/ page' = TypePage("configure") /\ job' = "none"
            \/ page' = page /\ job' = "request"
  BY DEF Again, ConfigPage, At, Show, Do, Fault, AFault, NoFault, counts, choices, machine

LEMMA ProxyTypeDoes ==
  ASSUME ProxyType
  PROVE  /\ page.name = "proxyType"
         /\ UNCHANGED <<silent, stale, path, disk, etc>>
         /\ \/ /\ page.key = "install" /\ page' = [page EXCEPT !.key = "retryDownloadProxy"]
               /\ job' = "download" /\ todo' = Pack
            \/ page' = page /\ job' = "request" /\ todo' = todo
            \/ page' \in {page, P("failed")} /\ job' = "none" /\ todo' = todo
            \/ page' = Keyed("proxyInfo", page.key) /\ job' = "none" /\ todo' = todo
            \/ page.back = "confirm" /\ page' = P("confirm") /\ job' = "none" /\ todo' = todo
            \/ page' = First("config", FALSE) /\ job' = "none" /\ todo' = todo
  BY ErrorShows DEF ProxyType, ProxySet, Begin, ConfigPage, At, Show, Do, Fault, AFault,
     NoFault, counts, choices, machine

LEMMA ProxyInfoDoes ==
  ASSUME ProxyInfo
  PROVE  /\ page.name = "proxyInfo"
         /\ UNCHANGED <<silent, stale, path, disk, etc>>
         /\ \/ /\ page.key = "install" /\ page' = [page EXCEPT !.key = "retryDownloadProxy"]
               /\ job' = "download" /\ todo' = Pack
            \/ page' = page /\ job' = "request" /\ todo' = todo
            \/ page' \in {page, P("failed")} /\ job' = "none" /\ todo' = todo
            \/ page' = TypePage(page.key) /\ job' = "none" /\ todo' = todo
  BY ErrorShows DEF ProxyInfo, ProxySet, Begin, At, Show, Do, Fault, AFault, NoFault,
     counts, choices, machine

LEMMA UninstallInitDoes ==
  ASSUME UninstallInit
  PROVE  /\ job = "init" /\ page.name = "uninstall"
         /\ UNCHANGED <<silent, stale, disk, etc, todo>>
         /\ \/ path' = path /\ page' = P("notInstalled") /\ job' = "none"
            \/ path' \in Path /\ page' = page /\ job' = "unservice"
            \/ path' \in Path /\ ~silent /\ page' = P("confirmUninstall") /\ job' = "none"
  BY WhatIsThere DEF UninstallInit, At, Show, Do, Fault, AFault, NoFault, counts, choices,
     machine

LEMMA ConfirmUninstallDoes ==
  ASSUME ConfirmUninstall
  PROVE  /\ page.name = "confirmUninstall" /\ page' = page /\ job' = "unservice"
         /\ UNCHANGED <<silent, stale, path, disk, etc, todo>>
  BY DEF ConfirmUninstall, At, Show, Do, Fault, AFault, NoFault, counts, choices, machine

LEMMA UninstallServiceDoes ==
  ASSUME UninstallService
  PROVE  /\ job = "unservice" /\ page' = page /\ job' = "unshortcuts"
         /\ UNCHANGED <<silent, stale, path, disk, etc, todo>>
  BY DEF UninstallService, StopDelete, At, Show, Do, Fault, AFault, NoFault, counts,
     choices, machine

LEMMA UninstallShortcutsDoes ==
  ASSUME UninstallShortcuts
  PROVE  /\ job = "unshortcuts" /\ page' = page /\ job' = "unmark"
         /\ UNCHANGED <<silent, path, disk, todo>>
         /\ \/ etc' = NoPath /\ stale' = FALSE
            \/ etc' = etc /\ stale' = TRUE
  BY DEF UninstallShortcuts, At, Show, Do, Fault, AFault, NoFault, counts, choices, machine

LEMMA UninstalledDoes ==
  ASSUME Uninstalled
  PROVE  /\ job = "unmark" /\ job' = "none"
         /\ UNCHANGED <<silent, stale, path, etc, todo>>
         /\ \/ disk' = [disk EXCEPT ![path] = {}] /\ page' = P("uninstalled")
            \/ disk' = disk /\ page' \in {page, P("failed")}
  BY ErrorShows DEF Uninstalled, At, Show, Do, Fault, AFault, NoFault, counts, choices,
     machine

\* The pages.
LEMMA PageStep ==
  ASSUME InstallInv, [InstallNext]_inVars
  PROVE  PageTypeOK'
<1>1. ASSUME NEW name \in {"install", "uninstall"}, NEW quiet \in BOOLEAN, Start(name, quiet)
     PROVE  PageTypeOK'
  BY <1>1, StartDoes, PagesShown DEF InstallInv, InstallTypeOK, PageTypeOK, Names
<1>2. ASSUME Gone PROVE PageTypeOK'
  BY <1>2, GoneDoes, PagesShown DEF InstallInv, InstallTypeOK, PageTypeOK, Names
<1>3. ASSUME StepInit PROVE PageTypeOK'
  BY <1>3, StepInitDoes, PagesShown DEF InstallInv, InstallTypeOK, PageTypeOK, Names
<1>4. ASSUME ChooseInstall PROVE PageTypeOK'
  BY <1>4, ChooseInstallDoes, PagesShown DEF InstallInv, InstallTypeOK, PageTypeOK, Names
<1>5. ASSUME ChoosePath PROVE PageTypeOK'
  BY <1>5, ChoosePathDoes, PagesShown DEF InstallInv, InstallTypeOK, PageTypeOK, Names
<1>6. ASSUME BackToWelcome PROVE PageTypeOK'
  BY <1>6, BackToWelcomeDoes, PagesShown DEF InstallInv, InstallTypeOK, PageTypeOK, Names
<1>7. ASSUME BackToPath PROVE PageTypeOK'
  BY <1>7, BackToPathDoes, PagesShown DEF InstallInv, InstallTypeOK, PageTypeOK, Names
<1>8. ASSUME ConfirmInstall PROVE PageTypeOK'
  BY <1>8, ConfirmInstallDoes DEF InstallInv, InstallTypeOK, PageTypeOK
<1>9. ASSUME Retry PROVE PageTypeOK'
  BY <1>9, RetryDoes, PagesShown, PagesKeyed DEF InstallInv, InstallTypeOK, PageTypeOK,
     Names, Keys
<1>10. ASSUME MakeDirectory PROVE PageTypeOK'
  BY <1>10, MakeDirectoryDoes DEF InstallInv, InstallTypeOK, PageTypeOK
<1>11. ASSUME RemoveFormer PROVE PageTypeOK'
  BY <1>11, RemoveDoes, PagesShown DEF InstallInv, InstallTypeOK, PageTypeOK, Names
<1>12. ASSUME Download PROVE PageTypeOK'
  BY <1>12, DownloadDoes, PagesShown, PagesKeyed DEF InstallInv, InstallTypeOK, PageTypeOK,
     Names, Keys
<1>13. ASSUME Unzip PROVE PageTypeOK'
  BY <1>13, UnzipDoes, PagesShown, PagesKeyed DEF InstallInv, InstallTypeOK, PageTypeOK,
     Names, Keys
<1>14. ASSUME CopyRuntime PROVE PageTypeOK'
  BY <1>14, CopyRuntimeDoes, PagesShown DEF InstallInv, InstallTypeOK, PageTypeOK, Names
<1>15. ASSUME CopyNative PROVE PageTypeOK'
  BY <1>15, CopyNativeDoes, PagesShown DEF InstallInv, InstallTypeOK, PageTypeOK, Names
<1>16. ASSUME PrepareFile PROVE PageTypeOK'
  BY <1>16, PrepareFileDoes, PagesShown DEF InstallInv, InstallTypeOK, PageTypeOK, Names
<1>17. ASSUME InstallService PROVE PageTypeOK'
  BY <1>17, InstallServiceDoes, PagesShown DEF InstallInv, InstallTypeOK, PageTypeOK, Names
<1>18. ASSUME InstallShortcuts PROVE PageTypeOK'
  BY <1>18, InstallShortcutsDoes, PagesShown DEF InstallInv, InstallTypeOK, PageTypeOK,
     Names
<1>19. ASSUME ChooseMode PROVE PageTypeOK'
  BY <1>19, ChooseModeDoes, PagesKept DEF InstallInv, InstallTypeOK, PageTypeOK, Names
<1>20. ASSUME Config PROVE PageTypeOK'
  BY <1>20, ConfigDoes, PagesKept DEF InstallInv, InstallTypeOK, PageTypeOK, Names
<1>21. ASSUME InstallRequest PROVE PageTypeOK'
  BY <1>21, InstallRequestDoes, PagesShown DEF InstallInv, InstallTypeOK, PageTypeOK, Names
<1>22. ASSUME Again PROVE PageTypeOK'
  BY <1>22, AgainDoes, PagesShown, PagesKeyed DEF InstallInv, InstallTypeOK, PageTypeOK,
     Names, Keys
<1>23. ASSUME ProxyType PROVE PageTypeOK'
  <2>1. page.name = "proxyType" /\ UNCHANGED <<silent, stale, path, disk, etc>>
    BY <1>23, ProxyTypeDoes
  <2>2. CASE /\ page.key = "install"
             /\ page' = [page EXCEPT !.key = "retryDownloadProxy"]
             /\ job' = "download"
             /\ todo' = Pack
    BY <2>1, <2>2, PagesKeyed DEF InstallInv, InstallTypeOK, PageTypeOK, Keys
  <2>3. CASE page' = page /\ job' = "request" /\ todo' = todo
    BY <2>1, <2>3 DEF InstallInv, InstallTypeOK, PageTypeOK
  <2>4. CASE page' \in {page, P("failed")} /\ job' = "none" /\ todo' = todo
    BY <2>1, <2>4, PagesShown DEF InstallInv, InstallTypeOK, PageTypeOK, Names
  <2>5. CASE page' = Keyed("proxyInfo", page.key) /\ job' = "none" /\ todo' = todo
    BY <2>1, <2>5, PagesKept DEF InstallInv, InstallTypeOK, PageTypeOK, Names
  <2>6. CASE page.back = "confirm" /\ page' = P("confirm") /\ job' = "none" /\ todo' = todo
    BY <2>1, <2>6, PagesShown DEF InstallInv, InstallTypeOK, PageTypeOK, Names
  <2>7. CASE page' = First("config", FALSE) /\ job' = "none" /\ todo' = todo
    BY <2>1, <2>7, PagesShown DEF InstallInv, InstallTypeOK, PageTypeOK, Names
  <2> QED
    BY <1>23, ProxyTypeDoes, <2>2, <2>3, <2>4, <2>5, <2>6, <2>7
<1>24. ASSUME ProxyInfo PROVE
       PageTypeOK'
  <2>1. page.name = "proxyInfo" /\ UNCHANGED <<silent, stale, path, disk, etc>>
    BY <1>24, ProxyInfoDoes
  <2>2. CASE /\ page.key = "install"
             /\ page' = [page EXCEPT !.key = "retryDownloadProxy"]
             /\ job' = "download"
             /\ todo' = Pack
    BY <2>1, <2>2, PagesKeyed DEF InstallInv, InstallTypeOK, PageTypeOK, Keys
  <2>3. CASE page' = page /\ job' = "request" /\ todo' = todo
    BY <2>1, <2>3 DEF InstallInv, InstallTypeOK, PageTypeOK
  <2>4. CASE page' \in {page, P("failed")} /\ job' = "none" /\ todo' = todo
    BY <2>1, <2>4, PagesShown DEF InstallInv, InstallTypeOK, PageTypeOK, Names
  <2>5. CASE page' = TypePage(page.key) /\ job' = "none" /\ todo' = todo
    BY <2>1, <2>5, PagesKept DEF InstallInv, InstallTypeOK, PageTypeOK, Names
  <2> QED
    BY <1>24, ProxyInfoDoes, <2>2, <2>3, <2>4, <2>5
<1>25. ASSUME UninstallInit PROVE
       PageTypeOK'
  BY <1>25, UninstallInitDoes, PagesShown DEF InstallInv, InstallTypeOK, PageTypeOK, Names
<1>26. ASSUME ConfirmUninstall PROVE PageTypeOK'
  BY <1>26, ConfirmUninstallDoes DEF InstallInv, InstallTypeOK, PageTypeOK
<1>27. ASSUME UninstallService PROVE PageTypeOK'
  BY <1>27, UninstallServiceDoes DEF InstallInv, InstallTypeOK, PageTypeOK
<1>28. ASSUME UninstallShortcuts PROVE PageTypeOK'
  BY <1>28, UninstallShortcutsDoes DEF InstallInv, InstallTypeOK, PageTypeOK
<1>29. ASSUME Uninstalled PROVE PageTypeOK'
  BY <1>29, UninstalledDoes, PagesShown DEF InstallInv, InstallTypeOK, PageTypeOK, Names
<1>30. ASSUME UNCHANGED inVars PROVE PageTypeOK'
  BY <1>30 DEF inVars, counts, choices, machine, InstallInv, InstallTypeOK, PageTypeOK
<1>31. QED
  BY <1>1, <1>2, <1>3, <1>4, <1>5, <1>6, <1>7, <1>8, <1>9, <1>10, <1>11, <1>12, <1>13,
     <1>14, <1>15, <1>16, <1>17, <1>18, <1>19, <1>20, <1>21, <1>22, <1>23, <1>24, <1>25,
     <1>26, <1>27, <1>28, <1>29, <1>30 DEF InstallNext

\* The types.
LEMMA TypeStep ==
  ASSUME InstallInv, [InstallNext]_inVars
  PROVE  InstallTypeOK'
<1>1. ASSUME NEW name \in {"install", "uninstall"}, NEW quiet \in BOOLEAN, Start(name, quiet)
     PROVE  InstallTypeOK'
  BY <1>1, StartDoes, PageStep, NextIs, PathAssumption DEF InstallInv, InstallTypeOK,
     PathChosen, Filling, Removing, Whole, P
<1>2. ASSUME Gone PROVE InstallTypeOK'
  BY <1>2, GoneDoes, PageStep, NextIs, PathAssumption DEF InstallInv, InstallTypeOK,
     PathChosen, Filling, Removing, Whole, P
<1>3. ASSUME StepInit PROVE InstallTypeOK'
  BY <1>3, StepInitDoes, PageStep, NextIs, PathAssumption DEF InstallInv, InstallTypeOK,
     PathChosen, Filling, Removing, Whole, P
<1>4. ASSUME ChooseInstall PROVE InstallTypeOK'
  BY <1>4, ChooseInstallDoes, PageStep, NextIs, PathAssumption DEF InstallInv,
     InstallTypeOK, PathChosen, Filling, Removing, Whole, P
<1>5. ASSUME ChoosePath PROVE InstallTypeOK'
  BY <1>5, ChoosePathDoes, PageStep, NextIs, PathAssumption DEF InstallInv, InstallTypeOK,
     PathChosen, Filling, Removing, Whole, P
<1>6. ASSUME BackToWelcome PROVE InstallTypeOK'
  BY <1>6, BackToWelcomeDoes, PageStep, NextIs, PathAssumption DEF InstallInv,
     InstallTypeOK, PathChosen, Filling, Removing, Whole, P
<1>7. ASSUME BackToPath PROVE InstallTypeOK'
  BY <1>7, BackToPathDoes, PageStep, NextIs, PathAssumption DEF InstallInv, InstallTypeOK,
     PathChosen, Filling, Removing, Whole, P
<1>8. ASSUME ConfirmInstall PROVE InstallTypeOK'
  BY <1>8, ConfirmInstallDoes, PageStep, NextIs, PathAssumption DEF InstallInv,
     InstallTypeOK, PathChosen, Filling, Removing, Whole
<1>9. ASSUME Retry PROVE InstallTypeOK'
  BY <1>9, RetryDoes, PageStep, NextIs, PathAssumption DEF InstallInv, InstallTypeOK,
     PathChosen, Filling, Removing, Whole, P
<1>10. ASSUME MakeDirectory PROVE InstallTypeOK'
  BY <1>10, MakeDirectoryDoes, PageStep, NextIs, PathAssumption DEF InstallInv,
     InstallTypeOK, PathChosen, Filling, Removing, Whole
<1>11. ASSUME RemoveFormer PROVE InstallTypeOK'
  BY <1>11, RemoveDoes, PageStep, NextIs, PathAssumption DEF InstallInv, InstallTypeOK,
     PathChosen, Filling, Removing, Whole, P
<1>12. ASSUME Download PROVE InstallTypeOK'
  BY <1>12, DownloadDoes, PageStep, NextIs, PathAssumption DEF InstallInv, InstallTypeOK,
     PathChosen, Filling, Removing, Whole, P, Keyed
<1>13. ASSUME Unzip PROVE InstallTypeOK'
  <2>1. job = "unzip" /\ UNCHANGED <<silent, stale, path, etc>>
    BY <1>13, UnzipDoes
  <2>2. CASE /\ disk' = [disk EXCEPT ![path] = disk[path] \cup {NextPack}]
             /\ todo' = todo \ {NextPack}
             /\ page' = page
             /\ job' = "download"
    BY <2>1, <2>2, PageStep, NextIs DEF InstallInv, InstallTypeOK, PathChosen, Filling,
       Removing, Whole, Built
  <2>3. CASE disk' = disk /\ todo' = todo /\ page' = P("failed") /\ job' = "none"
    BY <2>1, <2>3, PageStep, NextIs DEF InstallInv, InstallTypeOK, PathChosen, Filling,
       Removing, Whole, Built
  <2>4. CASE disk' = disk /\ todo' = todo /\ page' = page /\ job' = "none"
    BY <2>1, <2>4, PageStep, NextIs DEF InstallInv, InstallTypeOK, PathChosen, Filling,
       Removing, Whole, Built
  <2>5. CASE /\ disk' = disk
             /\ todo' = todo
             /\ page' = Keyed("retry", "retryDownload")
             /\ job' = "none"
             /\ ~silent
    BY <2>1, <2>5, PageStep, NextIs DEF InstallInv, InstallTypeOK, PathChosen, Filling,
       Removing, Whole, Built
  <2> QED
    BY <1>13, UnzipDoes, <2>2, <2>3, <2>4, <2>5
<1>14. ASSUME CopyRuntime PROVE
       InstallTypeOK'
  BY <1>14, CopyRuntimeDoes, PageStep, NextIs, PathAssumption DEF InstallInv, InstallTypeOK,
     PathChosen, Filling, Removing, Whole, P
<1>15. ASSUME CopyNative PROVE InstallTypeOK'
  BY <1>15, CopyNativeDoes, PageStep, NextIs, PathAssumption DEF InstallInv, InstallTypeOK,
     PathChosen, Filling, Removing, Whole, P
<1>16. ASSUME PrepareFile PROVE InstallTypeOK'
  BY <1>16, PrepareFileDoes, PageStep, NextIs, PathAssumption DEF InstallInv, InstallTypeOK,
     PathChosen, Filling, Removing, Whole, P
<1>17. ASSUME InstallService PROVE InstallTypeOK'
  BY <1>17, InstallServiceDoes, PageStep, NextIs, PathAssumption DEF InstallInv,
     InstallTypeOK, PathChosen, Filling, Removing, Whole, P
<1>18. ASSUME InstallShortcuts PROVE InstallTypeOK'
  BY <1>18, InstallShortcutsDoes, PageStep, NextIs, PathAssumption DEF InstallInv,
     InstallTypeOK, PathChosen, Filling, Removing, Whole, P, First
<1>19. ASSUME ChooseMode PROVE InstallTypeOK'
  BY <1>19, ChooseModeDoes, PageStep, NextIs, PathAssumption DEF InstallInv, InstallTypeOK,
     PathChosen, Filling, Removing, Whole, P, First
<1>20. ASSUME Config PROVE InstallTypeOK'
  BY <1>20, ConfigDoes, PageStep, NextIs, PathAssumption DEF InstallInv, InstallTypeOK,
     PathChosen, Filling, Removing, Whole, P, First
<1>21. ASSUME InstallRequest PROVE InstallTypeOK'
  BY <1>21, InstallRequestDoes, PageStep, NextIs, PathAssumption DEF InstallInv,
     InstallTypeOK, PathChosen, Filling, Removing, Whole, P
<1>22. ASSUME Again PROVE InstallTypeOK'
  BY <1>22, AgainDoes, PageStep, NextIs, PathAssumption DEF InstallInv, InstallTypeOK,
     PathChosen, Filling, Removing, Whole, P, First
<1>23. ASSUME ProxyType PROVE InstallTypeOK'
  BY <1>23, ProxyTypeDoes, PageStep, NextIs, PathAssumption DEF InstallInv, InstallTypeOK,
     PathChosen, Filling, Removing, Whole, P, First, Keyed
<1>24. ASSUME ProxyInfo PROVE InstallTypeOK'
  BY <1>24, ProxyInfoDoes, PageStep, NextIs, PathAssumption DEF InstallInv, InstallTypeOK,
     PathChosen, Filling, Removing, Whole, P
<1>25. ASSUME UninstallInit PROVE InstallTypeOK'
  BY <1>25, UninstallInitDoes, PageStep, NextIs, PathAssumption DEF InstallInv,
     InstallTypeOK, PathChosen, Filling, Removing, Whole, P
<1>26. ASSUME ConfirmUninstall PROVE InstallTypeOK'
  BY <1>26, ConfirmUninstallDoes, PageStep, NextIs, PathAssumption DEF InstallInv,
     InstallTypeOK, PathChosen, Filling, Removing, Whole
<1>27. ASSUME UninstallService PROVE InstallTypeOK'
  BY <1>27, UninstallServiceDoes, PageStep, NextIs, PathAssumption DEF InstallInv,
     InstallTypeOK, PathChosen, Filling, Removing, Whole
<1>28. ASSUME UninstallShortcuts PROVE InstallTypeOK'
  BY <1>28, UninstallShortcutsDoes, PageStep, NextIs, PathAssumption DEF InstallInv,
     InstallTypeOK, PathChosen, Filling, Removing, Whole
<1>29. ASSUME Uninstalled PROVE InstallTypeOK'
  BY <1>29, UninstalledDoes, PageStep, NextIs, PathAssumption DEF InstallInv, InstallTypeOK,
     PathChosen, Filling, Removing, Whole, P
<1>30. ASSUME UNCHANGED inVars PROVE InstallTypeOK'
  BY <1>30, PageStep DEF InstallInv, InstallTypeOK, inVars, counts, choices, machine
<1>31. QED
  BY <1>1, <1>2, <1>3, <1>4, <1>5, <1>6, <1>7, <1>8, <1>9, <1>10, <1>11, <1>12, <1>13,
     <1>14, <1>15, <1>16, <1>17, <1>18, <1>19, <1>20, <1>21, <1>22, <1>23, <1>24, <1>25,
     <1>26, <1>27, <1>28, <1>29, <1>30 DEF InstallNext

\* What is registered stays whole.
LEMMA RegisteredStep ==
  ASSUME InstallInv, [InstallNext]_inVars
  PROVE  RegisteredWhole'
<1>1. ASSUME NEW name \in {"install", "uninstall"}, NEW quiet \in BOOLEAN, Start(name, quiet)
     PROVE  RegisteredWhole'
  BY <1>1, StartDoes, PathAssumption DEF InstallInv, InstallTypeOK, RegisteredWhole,
     NotRegistered, Built, Filling, P
<1>2. ASSUME Gone PROVE RegisteredWhole'
  BY <1>2, GoneDoes, PathAssumption DEF InstallInv, InstallTypeOK, RegisteredWhole,
     NotRegistered, Built, Filling, P
<1>3. ASSUME StepInit PROVE RegisteredWhole'
  BY <1>3, StepInitDoes, PathAssumption DEF InstallInv, InstallTypeOK, RegisteredWhole,
     NotRegistered, Built, Filling, P
<1>4. ASSUME ChooseInstall PROVE RegisteredWhole'
  BY <1>4, ChooseInstallDoes, PathAssumption DEF InstallInv, InstallTypeOK, RegisteredWhole,
     NotRegistered, Built, Filling, P
<1>5. ASSUME ChoosePath PROVE RegisteredWhole'
  BY <1>5, ChoosePathDoes, PathAssumption DEF InstallInv, InstallTypeOK, RegisteredWhole,
     NotRegistered, Built, Filling, P
<1>6. ASSUME BackToWelcome PROVE RegisteredWhole'
  BY <1>6, BackToWelcomeDoes, PathAssumption DEF InstallInv, InstallTypeOK, RegisteredWhole,
     NotRegistered, Built, Filling, P
<1>7. ASSUME BackToPath PROVE RegisteredWhole'
  BY <1>7, BackToPathDoes, PathAssumption DEF InstallInv, InstallTypeOK, RegisteredWhole,
     NotRegistered, Built, Filling, P
<1>8. ASSUME ConfirmInstall PROVE RegisteredWhole'
  BY <1>8, ConfirmInstallDoes, PathAssumption DEF InstallInv, InstallTypeOK,
     RegisteredWhole, NotRegistered, Built, Filling
<1>9. ASSUME Retry PROVE RegisteredWhole'
  BY <1>9, RetryDoes, PathAssumption DEF InstallInv, InstallTypeOK, RegisteredWhole,
     NotRegistered, Built, Filling, P
<1>10. ASSUME MakeDirectory PROVE RegisteredWhole'
  BY <1>10, MakeDirectoryDoes, PathAssumption DEF InstallInv, InstallTypeOK,
     RegisteredWhole, NotRegistered, Built, Filling
<1>11. ASSUME RemoveFormer PROVE RegisteredWhole'
  BY <1>11, RemoveDoes, PathAssumption DEF InstallInv, InstallTypeOK, RegisteredWhole,
     NotRegistered, Built, Filling, P
<1>12. ASSUME Download PROVE RegisteredWhole'
  BY <1>12, DownloadDoes, PathAssumption DEF InstallInv, InstallTypeOK, RegisteredWhole,
     NotRegistered, Built, Filling, P, Keyed
<1>13. ASSUME Unzip PROVE RegisteredWhole'
  BY <1>13, UnzipDoes, PathAssumption DEF InstallInv, InstallTypeOK, RegisteredWhole,
     NotRegistered, Built, Filling, P, Keyed
<1>14. ASSUME CopyRuntime PROVE RegisteredWhole'
  BY <1>14, CopyRuntimeDoes, PathAssumption DEF InstallInv, InstallTypeOK, RegisteredWhole,
     NotRegistered, Built, Filling, P
<1>15. ASSUME CopyNative PROVE RegisteredWhole'
  BY <1>15, CopyNativeDoes, PathAssumption DEF InstallInv, InstallTypeOK, RegisteredWhole,
     NotRegistered, Built, Filling, P
<1>16. ASSUME PrepareFile PROVE RegisteredWhole'
  BY <1>16, PrepareFileDoes, PathAssumption DEF InstallInv, InstallTypeOK, RegisteredWhole,
     NotRegistered, Built, Filling, P
<1>17. ASSUME InstallService PROVE RegisteredWhole'
  BY <1>17, InstallServiceDoes, PathAssumption DEF InstallInv, InstallTypeOK,
     RegisteredWhole, NotRegistered, Built, Filling, P
<1>18. ASSUME InstallShortcuts PROVE RegisteredWhole'
  BY <1>18, InstallShortcutsDoes, PathAssumption DEF InstallInv, InstallTypeOK,
     RegisteredWhole, NotRegistered, Built, Filling, P, First
<1>19. ASSUME ChooseMode PROVE RegisteredWhole'
  BY <1>19, ChooseModeDoes, PathAssumption DEF InstallInv, InstallTypeOK, RegisteredWhole,
     NotRegistered, Built, Filling, P, First
<1>20. ASSUME Config PROVE RegisteredWhole'
  BY <1>20, ConfigDoes, PathAssumption DEF InstallInv, InstallTypeOK, RegisteredWhole,
     NotRegistered, Built, Filling, P, First
<1>21. ASSUME InstallRequest PROVE RegisteredWhole'
  BY <1>21, InstallRequestDoes, PathAssumption DEF InstallInv, InstallTypeOK,
     RegisteredWhole, NotRegistered, Built, Filling, P
<1>22. ASSUME Again PROVE RegisteredWhole'
  BY <1>22, AgainDoes, PathAssumption DEF InstallInv, InstallTypeOK, RegisteredWhole,
     NotRegistered, Built, Filling, P, First
<1>23. ASSUME ProxyType PROVE RegisteredWhole'
  BY <1>23, ProxyTypeDoes, PathAssumption DEF InstallInv, InstallTypeOK, RegisteredWhole,
     NotRegistered, Built, Filling, P, First, Keyed
<1>24. ASSUME ProxyInfo PROVE RegisteredWhole'
  BY <1>24, ProxyInfoDoes, PathAssumption DEF InstallInv, InstallTypeOK, RegisteredWhole,
     NotRegistered, Built, Filling, P
<1>25. ASSUME UninstallInit PROVE RegisteredWhole'
  BY <1>25, UninstallInitDoes, PathAssumption DEF InstallInv, InstallTypeOK,
     RegisteredWhole, NotRegistered, Built, Filling, P
<1>26. ASSUME ConfirmUninstall PROVE RegisteredWhole'
  BY <1>26, ConfirmUninstallDoes, PathAssumption DEF InstallInv, InstallTypeOK,
     RegisteredWhole, NotRegistered, Built, Filling
<1>27. ASSUME UninstallService PROVE RegisteredWhole'
  BY <1>27, UninstallServiceDoes, PathAssumption DEF InstallInv, InstallTypeOK,
     RegisteredWhole, NotRegistered, Built, Filling
<1>28. ASSUME UninstallShortcuts PROVE RegisteredWhole'
  BY <1>28, UninstallShortcutsDoes, PathAssumption DEF InstallInv, InstallTypeOK,
     RegisteredWhole, NotRegistered, Built, Filling
<1>29. ASSUME Uninstalled PROVE RegisteredWhole'
  BY <1>29, UninstalledDoes, PathAssumption DEF InstallInv, InstallTypeOK, RegisteredWhole,
     NotRegistered, Built, Filling, P
<1>30. ASSUME UNCHANGED inVars PROVE RegisteredWhole'
  BY <1>30 DEF inVars, counts, choices, machine, InstallInv, InstallTypeOK, RegisteredWhole,
     NotRegistered, Built, Filling
<1>31. QED
  BY <1>1, <1>2, <1>3, <1>4, <1>5, <1>6, <1>7, <1>8, <1>9, <1>10, <1>11, <1>12, <1>13,
     <1>14, <1>15, <1>16, <1>17, <1>18, <1>19, <1>20, <1>21, <1>22, <1>23, <1>24, <1>25,
     <1>26, <1>27, <1>28, <1>29, <1>30 DEF InstallNext

\* Where nothing is registered.
LEMMA NotRegisteredStep ==
  ASSUME InstallInv, [InstallNext]_inVars
  PROVE  NotRegistered'
<1>1. ASSUME NEW name \in {"install", "uninstall"}, NEW quiet \in BOOLEAN, Start(name, quiet)
     PROVE  NotRegistered'
  BY <1>1, StartDoes, TypePageIs, WhatIsThere, PathAssumption DEF InstallInv, InstallTypeOK,
     NotRegistered, Filling, Removing, Offered, PagesApart, P
<1>2. ASSUME Gone PROVE NotRegistered'
  BY <1>2, GoneDoes, TypePageIs, WhatIsThere, PathAssumption DEF InstallInv, InstallTypeOK,
     NotRegistered, Filling, Removing, Offered, PagesApart, P
<1>3. ASSUME StepInit PROVE NotRegistered'
  BY <1>3, StepInitDoes, TypePageIs, WhatIsThere, PathAssumption DEF InstallInv,
     InstallTypeOK, NotRegistered, Filling, Removing, Offered, PagesApart, P
<1>4. ASSUME ChooseInstall PROVE NotRegistered'
  BY <1>4, ChooseInstallDoes, TypePageIs, WhatIsThere, PathAssumption DEF InstallInv,
     InstallTypeOK, NotRegistered, Filling, Removing, Offered, PagesApart, P
<1>5. ASSUME ChoosePath PROVE NotRegistered'
  BY <1>5, ChoosePathDoes, TypePageIs, WhatIsThere, PathAssumption DEF InstallInv,
     InstallTypeOK, NotRegistered, Filling, Removing, Offered, PagesApart, P
<1>6. ASSUME BackToWelcome PROVE NotRegistered'
  BY <1>6, BackToWelcomeDoes, TypePageIs, WhatIsThere, PathAssumption DEF InstallInv,
     InstallTypeOK, NotRegistered, Filling, Removing, Offered, PagesApart, P
<1>7. ASSUME BackToPath PROVE NotRegistered'
  BY <1>7, BackToPathDoes, TypePageIs, WhatIsThere, PathAssumption DEF InstallInv,
     InstallTypeOK, NotRegistered, Filling, Removing, Offered, PagesApart, P
<1>8. ASSUME ConfirmInstall PROVE NotRegistered'
  BY <1>8, ConfirmInstallDoes, TypePageIs, WhatIsThere, PathAssumption DEF InstallInv,
     InstallTypeOK, NotRegistered, Filling, Removing, Offered, PagesApart
<1>9. ASSUME Retry PROVE NotRegistered'
  BY <1>9, RetryDoes, TypePageIs, WhatIsThere, PathAssumption DEF InstallInv, InstallTypeOK,
     NotRegistered, Filling, Removing, Offered, PagesApart, P
<1>10. ASSUME MakeDirectory PROVE NotRegistered'
  BY <1>10, MakeDirectoryDoes, TypePageIs, WhatIsThere, PathAssumption DEF InstallInv,
     InstallTypeOK, NotRegistered, Filling, Removing, Offered, PagesApart
<1>11. ASSUME RemoveFormer PROVE NotRegistered'
  BY <1>11, RemoveDoes, TypePageIs, WhatIsThere, PathAssumption DEF InstallInv,
     InstallTypeOK, NotRegistered, Filling, Removing, Offered, PagesApart, P
<1>12. ASSUME Download PROVE NotRegistered'
  BY <1>12, DownloadDoes, TypePageIs, WhatIsThere, PathAssumption DEF InstallInv,
     InstallTypeOK, NotRegistered, Filling, Removing, Offered, PagesApart, P, Keyed
<1>13. ASSUME Unzip PROVE NotRegistered'
  BY <1>13, UnzipDoes, TypePageIs, WhatIsThere, PathAssumption DEF InstallInv,
     InstallTypeOK, NotRegistered, Filling, Removing, Offered, PagesApart, P, Keyed
<1>14. ASSUME CopyRuntime PROVE NotRegistered'
  BY <1>14, CopyRuntimeDoes, TypePageIs, WhatIsThere, PathAssumption DEF InstallInv,
     InstallTypeOK, NotRegistered, Filling, Removing, Offered, PagesApart, P
<1>15. ASSUME CopyNative PROVE NotRegistered'
  BY <1>15, CopyNativeDoes, TypePageIs, WhatIsThere, PathAssumption DEF InstallInv,
     InstallTypeOK, NotRegistered, Filling, Removing, Offered, PagesApart, P
<1>16. ASSUME PrepareFile PROVE NotRegistered'
  BY <1>16, PrepareFileDoes, TypePageIs, WhatIsThere, PathAssumption DEF InstallInv,
     InstallTypeOK, NotRegistered, Filling, Removing, Offered, PagesApart, P
<1>17. ASSUME InstallService PROVE NotRegistered'
  BY <1>17, InstallServiceDoes, TypePageIs, WhatIsThere, PathAssumption DEF InstallInv,
     InstallTypeOK, NotRegistered, Filling, Removing, Offered, PagesApart, P
<1>18. ASSUME InstallShortcuts PROVE NotRegistered'
  BY <1>18, InstallShortcutsDoes, TypePageIs, WhatIsThere, PathAssumption DEF InstallInv,
     InstallTypeOK, NotRegistered, Filling, Removing, Offered, PagesApart, P, First
<1>19. ASSUME ChooseMode PROVE NotRegistered'
  BY <1>19, ChooseModeDoes, TypePageIs, WhatIsThere, PathAssumption DEF InstallInv,
     InstallTypeOK, NotRegistered, Filling, Removing, Offered, PagesApart, P, First
<1>20. ASSUME Config PROVE NotRegistered'
  BY <1>20, ConfigDoes, TypePageIs, WhatIsThere, PathAssumption DEF InstallInv,
     InstallTypeOK, NotRegistered, Filling, Removing, Offered, PagesApart, P, First
<1>21. ASSUME InstallRequest PROVE NotRegistered'
  BY <1>21, InstallRequestDoes, TypePageIs, WhatIsThere, PathAssumption DEF InstallInv,
     InstallTypeOK, NotRegistered, Filling, Removing, Offered, PagesApart, P
<1>22. ASSUME Again PROVE NotRegistered'
  BY <1>22, AgainDoes, TypePageIs, WhatIsThere, PathAssumption DEF InstallInv,
     InstallTypeOK, NotRegistered, Filling, Removing, Offered, PagesApart, P, First
<1>23. ASSUME ProxyType PROVE NotRegistered'
  BY <1>23, ProxyTypeDoes, TypePageIs, WhatIsThere, PathAssumption DEF InstallInv,
     InstallTypeOK, NotRegistered, Filling, Removing, Offered, PagesApart, P, First, Keyed
<1>24. ASSUME ProxyInfo PROVE NotRegistered'
  BY <1>24, ProxyInfoDoes, TypePageIs, WhatIsThere, PathAssumption DEF InstallInv,
     InstallTypeOK, NotRegistered, Filling, Removing, Offered, PagesApart, P
<1>25. ASSUME UninstallInit PROVE NotRegistered'
  BY <1>25, UninstallInitDoes, TypePageIs, WhatIsThere, PathAssumption DEF InstallInv,
     InstallTypeOK, NotRegistered, Filling, Removing, Offered, PagesApart, P
<1>26. ASSUME ConfirmUninstall PROVE NotRegistered'
  BY <1>26, ConfirmUninstallDoes, TypePageIs, WhatIsThere, PathAssumption DEF InstallInv,
     InstallTypeOK, NotRegistered, Filling, Removing, Offered, PagesApart
<1>27. ASSUME UninstallService PROVE NotRegistered'
  BY <1>27, UninstallServiceDoes, TypePageIs, WhatIsThere, PathAssumption DEF InstallInv,
     InstallTypeOK, NotRegistered, Filling, Removing, Offered, PagesApart
<1>28. ASSUME UninstallShortcuts PROVE NotRegistered'
  BY <1>28, UninstallShortcutsDoes, TypePageIs, WhatIsThere, PathAssumption DEF InstallInv,
     InstallTypeOK, NotRegistered, Filling, Removing, Offered, PagesApart
<1>29. ASSUME Uninstalled PROVE NotRegistered'
  BY <1>29, UninstalledDoes, TypePageIs, WhatIsThere, PathAssumption DEF InstallInv,
     InstallTypeOK, NotRegistered, Filling, Removing, Offered, PagesApart, P
<1>30. ASSUME UNCHANGED inVars PROVE NotRegistered'
  BY <1>30 DEF inVars, counts, choices, machine, InstallInv, InstallTypeOK, NotRegistered,
     Filling, Removing, Offered, PagesApart
<1>31. QED
  BY <1>1, <1>2, <1>3, <1>4, <1>5, <1>6, <1>7, <1>8, <1>9, <1>10, <1>11, <1>12, <1>13,
     <1>14, <1>15, <1>16, <1>17, <1>18, <1>19, <1>20, <1>21, <1>22, <1>23, <1>24, <1>25,
     <1>26, <1>27, <1>28, <1>29, <1>30 DEF InstallNext

\* The directory was chosen.
LEMMA PathStep ==
  ASSUME InstallInv, [InstallNext]_inVars
  PROVE  PathChosen'
<1>1. ASSUME NEW name \in {"install", "uninstall"}, NEW quiet \in BOOLEAN, Start(name, quiet)
     PROVE  PathChosen'
  BY <1>1, StartDoes, TypePageIs DEF InstallInv, InstallTypeOK, PathChosen, Filling,
     Removing, Offered, PagesApart, P
<1>2. ASSUME Gone PROVE PathChosen'
  BY <1>2, GoneDoes, TypePageIs DEF InstallInv, InstallTypeOK, PathChosen, Filling,
     Removing, Offered, PagesApart, P
<1>3. ASSUME StepInit PROVE PathChosen'
  BY <1>3, StepInitDoes, TypePageIs DEF InstallInv, InstallTypeOK, PathChosen, Filling,
     Removing, Offered, PagesApart, P
<1>4. ASSUME ChooseInstall PROVE PathChosen'
  BY <1>4, ChooseInstallDoes, TypePageIs DEF InstallInv, InstallTypeOK, PathChosen, Filling,
     Removing, Offered, PagesApart, P
<1>5. ASSUME ChoosePath PROVE PathChosen'
  BY <1>5, ChoosePathDoes, TypePageIs DEF InstallInv, InstallTypeOK, PathChosen, Filling,
     Removing, Offered, PagesApart, P
<1>6. ASSUME BackToWelcome PROVE PathChosen'
  BY <1>6, BackToWelcomeDoes, TypePageIs DEF InstallInv, InstallTypeOK, PathChosen, Filling,
     Removing, Offered, PagesApart, P
<1>7. ASSUME BackToPath PROVE PathChosen'
  BY <1>7, BackToPathDoes, TypePageIs DEF InstallInv, InstallTypeOK, PathChosen, Filling,
     Removing, Offered, PagesApart, P
<1>8. ASSUME ConfirmInstall PROVE PathChosen'
  BY <1>8, ConfirmInstallDoes, TypePageIs DEF InstallInv, InstallTypeOK, PathChosen,
     Filling, Removing, Offered, PagesApart
<1>9. ASSUME Retry PROVE PathChosen'
  BY <1>9, RetryDoes, TypePageIs DEF InstallInv, InstallTypeOK, PathChosen, Filling,
     Removing, Offered, PagesApart, P
<1>10. ASSUME MakeDirectory PROVE PathChosen'
  BY <1>10, MakeDirectoryDoes, TypePageIs DEF InstallInv, InstallTypeOK, PathChosen,
     Filling, Removing, Offered, PagesApart
<1>11. ASSUME RemoveFormer PROVE PathChosen'
  BY <1>11, RemoveDoes, TypePageIs DEF InstallInv, InstallTypeOK, PathChosen, Filling,
     Removing, Offered, PagesApart, P
<1>12. ASSUME Download PROVE PathChosen'
  BY <1>12, DownloadDoes, TypePageIs DEF InstallInv, InstallTypeOK, PathChosen, Filling,
     Removing, Offered, PagesApart, P, Keyed
<1>13. ASSUME Unzip PROVE PathChosen'
  BY <1>13, UnzipDoes, TypePageIs DEF InstallInv, InstallTypeOK, PathChosen, Filling,
     Removing, Offered, PagesApart, P, Keyed
<1>14. ASSUME CopyRuntime PROVE PathChosen'
  BY <1>14, CopyRuntimeDoes, TypePageIs DEF InstallInv, InstallTypeOK, PathChosen, Filling,
     Removing, Offered, PagesApart, P
<1>15. ASSUME CopyNative PROVE PathChosen'
  BY <1>15, CopyNativeDoes, TypePageIs DEF InstallInv, InstallTypeOK, PathChosen, Filling,
     Removing, Offered, PagesApart, P
<1>16. ASSUME PrepareFile PROVE PathChosen'
  BY <1>16, PrepareFileDoes, TypePageIs DEF InstallInv, InstallTypeOK, PathChosen, Filling,
     Removing, Offered, PagesApart, P
<1>17. ASSUME InstallService PROVE PathChosen'
  BY <1>17, InstallServiceDoes, TypePageIs DEF InstallInv, InstallTypeOK, PathChosen,
     Filling, Removing, Offered, PagesApart, P
<1>18. ASSUME InstallShortcuts PROVE PathChosen'
  BY <1>18, InstallShortcutsDoes, TypePageIs DEF InstallInv, InstallTypeOK, PathChosen,
     Filling, Removing, Offered, PagesApart, P, First
<1>19. ASSUME ChooseMode PROVE PathChosen'
  BY <1>19, ChooseModeDoes, TypePageIs DEF InstallInv, InstallTypeOK, PathChosen, Filling,
     Removing, Offered, PagesApart, P, First
<1>20. ASSUME Config PROVE PathChosen'
  BY <1>20, ConfigDoes, TypePageIs DEF InstallInv, InstallTypeOK, PathChosen, Filling,
     Removing, Offered, PagesApart, P, First
<1>21. ASSUME InstallRequest PROVE PathChosen'
  BY <1>21, InstallRequestDoes, TypePageIs DEF InstallInv, InstallTypeOK, PathChosen,
     Filling, Removing, Offered, PagesApart, P
<1>22. ASSUME Again PROVE PathChosen'
  BY <1>22, AgainDoes, TypePageIs DEF InstallInv, InstallTypeOK, PathChosen, Filling,
     Removing, Offered, PagesApart, P, First
<1>23. ASSUME ProxyType PROVE PathChosen'
  BY <1>23, ProxyTypeDoes, TypePageIs DEF InstallInv, InstallTypeOK, PathChosen, Filling,
     Removing, Offered, PagesApart, P, First, Keyed
<1>24. ASSUME ProxyInfo PROVE PathChosen'
  BY <1>24, ProxyInfoDoes, TypePageIs DEF InstallInv, InstallTypeOK, PathChosen, Filling,
     Removing, Offered, PagesApart, P
<1>25. ASSUME UninstallInit PROVE PathChosen'
  BY <1>25, UninstallInitDoes, TypePageIs DEF InstallInv, InstallTypeOK, PathChosen,
     Filling, Removing, Offered, PagesApart, P
<1>26. ASSUME ConfirmUninstall PROVE PathChosen'
  BY <1>26, ConfirmUninstallDoes, TypePageIs DEF InstallInv, InstallTypeOK, PathChosen,
     Filling, Removing, Offered, PagesApart
<1>27. ASSUME UninstallService PROVE PathChosen'
  BY <1>27, UninstallServiceDoes, TypePageIs DEF InstallInv, InstallTypeOK, PathChosen,
     Filling, Removing, Offered, PagesApart
<1>28. ASSUME UninstallShortcuts PROVE PathChosen'
  BY <1>28, UninstallShortcutsDoes, TypePageIs DEF InstallInv, InstallTypeOK, PathChosen,
     Filling, Removing, Offered, PagesApart
<1>29. ASSUME Uninstalled PROVE PathChosen'
  BY <1>29, UninstalledDoes, TypePageIs DEF InstallInv, InstallTypeOK, PathChosen, Filling,
     Removing, Offered, PagesApart, P
<1>30. ASSUME UNCHANGED inVars PROVE PathChosen'
  BY <1>30 DEF inVars, counts, choices, machine, InstallInv, InstallTypeOK, PathChosen,
     Filling, Removing, Offered, PagesApart
<1>31. QED
  BY <1>1, <1>2, <1>3, <1>4, <1>5, <1>6, <1>7, <1>8, <1>9, <1>10, <1>11, <1>12, <1>13,
     <1>14, <1>15, <1>16, <1>17, <1>18, <1>19, <1>20, <1>21, <1>22, <1>23, <1>24, <1>25,
     <1>26, <1>27, <1>28, <1>29, <1>30 DEF InstallNext

\* What is in it.
LEMMA BuiltStep ==
  ASSUME InstallInv, [InstallNext]_inVars
  PROVE  Built'
<1>1. ASSUME NEW name \in {"install", "uninstall"}, NEW quiet \in BOOLEAN, Start(name, quiet)
     PROVE  Built'
  BY <1>1, StartDoes, TypePageIs, NextIs, PathAssumption DEF InstallInv, InstallTypeOK,
     Built, PathChosen, Whole, Filling, Removing, Offered, PagesApart, P
<1>2. ASSUME Gone PROVE Built'
  BY <1>2, GoneDoes, TypePageIs, NextIs, PathAssumption DEF InstallInv, InstallTypeOK,
     Built, PathChosen, Whole, Filling, Removing, Offered, PagesApart, P
<1>3. ASSUME StepInit PROVE Built'
  BY <1>3, StepInitDoes, TypePageIs, NextIs, PathAssumption DEF InstallInv, InstallTypeOK,
     Built, PathChosen, Whole, Filling, Removing, Offered, PagesApart, P
<1>4. ASSUME ChooseInstall PROVE Built'
  BY <1>4, ChooseInstallDoes, TypePageIs, NextIs, PathAssumption DEF InstallInv,
     InstallTypeOK, Built, PathChosen, Whole, Filling, Removing, Offered, PagesApart, P
<1>5. ASSUME ChoosePath PROVE Built'
  BY <1>5, ChoosePathDoes, TypePageIs, NextIs, PathAssumption DEF InstallInv, InstallTypeOK,
     Built, PathChosen, Whole, Filling, Removing, Offered, PagesApart, P
<1>6. ASSUME BackToWelcome PROVE Built'
  BY <1>6, BackToWelcomeDoes, TypePageIs, NextIs, PathAssumption DEF InstallInv,
     InstallTypeOK, Built, PathChosen, Whole, Filling, Removing, Offered, PagesApart, P
<1>7. ASSUME BackToPath PROVE Built'
  BY <1>7, BackToPathDoes, TypePageIs, NextIs, PathAssumption DEF InstallInv, InstallTypeOK,
     Built, PathChosen, Whole, Filling, Removing, Offered, PagesApart, P
<1>8. ASSUME ConfirmInstall PROVE Built'
  BY <1>8, ConfirmInstallDoes, TypePageIs, NextIs, PathAssumption DEF InstallInv,
     InstallTypeOK, Built, PathChosen, Whole, Filling, Removing, Offered, PagesApart
<1>9. ASSUME Retry PROVE Built'
  BY <1>9, RetryDoes, TypePageIs, NextIs, PathAssumption DEF InstallInv, InstallTypeOK,
     Built, PathChosen, Whole, Filling, Removing, Offered, PagesApart, P
<1>10. ASSUME MakeDirectory PROVE Built'
  BY <1>10, MakeDirectoryDoes, TypePageIs, NextIs, PathAssumption DEF InstallInv,
     InstallTypeOK, Built, PathChosen, Whole, Filling, Removing, Offered, PagesApart
<1>11. ASSUME RemoveFormer PROVE Built'
  BY <1>11, RemoveDoes, TypePageIs, NextIs, PathAssumption DEF InstallInv, InstallTypeOK,
     Built, PathChosen, Whole, Filling, Removing, Offered, PagesApart, P
<1>12. ASSUME Download PROVE Built'
  BY <1>12, DownloadDoes, TypePageIs, NextIs, PathAssumption DEF InstallInv, InstallTypeOK,
     Built, PathChosen, Whole, Filling, Removing, Offered, PagesApart, P, Keyed
<1>13. ASSUME Unzip PROVE Built'
  BY <1>13, UnzipDoes, TypePageIs, NextIs, PathAssumption DEF InstallInv, InstallTypeOK,
     Built, PathChosen, Whole, Filling, Removing, Offered, PagesApart, P, Keyed
<1>14. ASSUME CopyRuntime PROVE Built'
  BY <1>14, CopyRuntimeDoes, TypePageIs, NextIs, PathAssumption DEF InstallInv,
     InstallTypeOK, Built, PathChosen, Whole, Filling, Removing, Offered, PagesApart, P
<1>15. ASSUME CopyNative PROVE Built'
  BY <1>15, CopyNativeDoes, TypePageIs, NextIs, PathAssumption DEF InstallInv,
     InstallTypeOK, Built, PathChosen, Whole, Filling, Removing, Offered, PagesApart, P
<1>16. ASSUME PrepareFile PROVE Built'
  BY <1>16, PrepareFileDoes, TypePageIs, NextIs, PathAssumption DEF InstallInv,
     InstallTypeOK, Built, PathChosen, Whole, Filling, Removing, Offered, PagesApart, P
<1>17. ASSUME InstallService PROVE Built'
  BY <1>17, InstallServiceDoes, TypePageIs, NextIs, PathAssumption DEF InstallInv,
     InstallTypeOK, Built, PathChosen, Whole, Filling, Removing, Offered, PagesApart, P
<1>18. ASSUME InstallShortcuts PROVE Built'
  BY <1>18, InstallShortcutsDoes, TypePageIs, NextIs, PathAssumption DEF InstallInv,
     InstallTypeOK, Built, PathChosen, Whole, Filling, Removing, Offered, PagesApart, P,
     First
<1>19. ASSUME ChooseMode PROVE Built'
  BY <1>19, ChooseModeDoes, TypePageIs, NextIs, PathAssumption DEF InstallInv,
     InstallTypeOK, Built, PathChosen, Whole, Filling, Removing, Offered, PagesApart, P,
     First
<1>20. ASSUME Config PROVE Built'
  BY <1>20, ConfigDoes, TypePageIs, NextIs, PathAssumption DEF InstallInv, InstallTypeOK,
     Built, PathChosen, Whole, Filling, Removing, Offered, PagesApart, P, First
<1>21. ASSUME InstallRequest PROVE Built'
  BY <1>21, InstallRequestDoes, TypePageIs, NextIs, PathAssumption DEF InstallInv,
     InstallTypeOK, Built, PathChosen, Whole, Filling, Removing, Offered, PagesApart, P
<1>22. ASSUME Again PROVE Built'
  BY <1>22, AgainDoes, TypePageIs, NextIs, PathAssumption DEF InstallInv, InstallTypeOK,
     Built, PathChosen, Whole, Filling, Removing, Offered, PagesApart, P, First
<1>23. ASSUME ProxyType PROVE Built'
  BY <1>23, ProxyTypeDoes, TypePageIs, NextIs, PathAssumption DEF InstallInv, InstallTypeOK,
     Built, PathChosen, Whole, Filling, Removing, Offered, PagesApart, P, First, Keyed
<1>24. ASSUME ProxyInfo PROVE Built'
  BY <1>24, ProxyInfoDoes, TypePageIs, NextIs, PathAssumption DEF InstallInv, InstallTypeOK,
     Built, PathChosen, Whole, Filling, Removing, Offered, PagesApart, P
<1>25. ASSUME UninstallInit PROVE Built'
  BY <1>25, UninstallInitDoes, TypePageIs, NextIs, PathAssumption DEF InstallInv,
     InstallTypeOK, Built, PathChosen, Whole, Filling, Removing, Offered, PagesApart, P
<1>26. ASSUME ConfirmUninstall PROVE Built'
  BY <1>26, ConfirmUninstallDoes, TypePageIs, NextIs, PathAssumption DEF InstallInv,
     InstallTypeOK, Built, PathChosen, Whole, Filling, Removing, Offered, PagesApart
<1>27. ASSUME UninstallService PROVE Built'
  BY <1>27, UninstallServiceDoes, TypePageIs, NextIs, PathAssumption DEF InstallInv,
     InstallTypeOK, Built, PathChosen, Whole, Filling, Removing, Offered, PagesApart
<1>28. ASSUME UninstallShortcuts PROVE Built'
  BY <1>28, UninstallShortcutsDoes, TypePageIs, NextIs, PathAssumption DEF InstallInv,
     InstallTypeOK, Built, PathChosen, Whole, Filling, Removing, Offered, PagesApart
<1>29. ASSUME Uninstalled PROVE Built'
  BY <1>29, UninstalledDoes, TypePageIs, NextIs, PathAssumption DEF InstallInv,
     InstallTypeOK, Built, PathChosen, Whole, Filling, Removing, Offered, PagesApart, P
<1>30. ASSUME UNCHANGED inVars PROVE Built'
  BY <1>30 DEF inVars, counts, choices, machine, InstallInv, InstallTypeOK, Built,
     PathChosen, Whole, Filling, Removing, Offered, PagesApart
<1>31. QED
  BY <1>1, <1>2, <1>3, <1>4, <1>5, <1>6, <1>7, <1>8, <1>9, <1>10, <1>11, <1>12, <1>13,
     <1>14, <1>15, <1>16, <1>17, <1>18, <1>19, <1>20, <1>21, <1>22, <1>23, <1>24, <1>25,
     <1>26, <1>27, <1>28, <1>29, <1>30 DEF InstallNext

\* The pages of each.
LEMMA ApartStep ==
  ASSUME InstallInv, [InstallNext]_inVars
  PROVE  PagesApart'
<1>1. ASSUME NEW name \in {"install", "uninstall"}, NEW quiet \in BOOLEAN, Start(name, quiet)
     PROVE  PagesApart'
  BY <1>1, StartDoes, TypePageIs DEF InstallInv, InstallTypeOK, PagesApart, Removing,
     Offered, P
<1>2. ASSUME Gone PROVE PagesApart'
  BY <1>2, GoneDoes, TypePageIs DEF InstallInv, InstallTypeOK, PagesApart, Removing,
     Offered, P
<1>3. ASSUME StepInit PROVE PagesApart'
  BY <1>3, StepInitDoes, TypePageIs DEF InstallInv, InstallTypeOK, PagesApart, Removing,
     Offered, P
<1>4. ASSUME ChooseInstall PROVE PagesApart'
  BY <1>4, ChooseInstallDoes, TypePageIs DEF InstallInv, InstallTypeOK, PagesApart,
     Removing, Offered, P
<1>5. ASSUME ChoosePath PROVE PagesApart'
  BY <1>5, ChoosePathDoes, TypePageIs DEF InstallInv, InstallTypeOK, PagesApart, Removing,
     Offered, P
<1>6. ASSUME BackToWelcome PROVE PagesApart'
  BY <1>6, BackToWelcomeDoes, TypePageIs DEF InstallInv, InstallTypeOK, PagesApart,
     Removing, Offered, P
<1>7. ASSUME BackToPath PROVE PagesApart'
  BY <1>7, BackToPathDoes, TypePageIs DEF InstallInv, InstallTypeOK, PagesApart, Removing,
     Offered, P
<1>8. ASSUME ConfirmInstall PROVE PagesApart'
  BY <1>8, ConfirmInstallDoes, TypePageIs DEF InstallInv, InstallTypeOK, PagesApart,
     Removing, Offered
<1>9. ASSUME Retry PROVE PagesApart'
  BY <1>9, RetryDoes, TypePageIs DEF InstallInv, InstallTypeOK, PagesApart, Removing,
     Offered, P
<1>10. ASSUME MakeDirectory PROVE PagesApart'
  BY <1>10, MakeDirectoryDoes, TypePageIs DEF InstallInv, InstallTypeOK, PagesApart,
     Removing, Offered
<1>11. ASSUME RemoveFormer PROVE PagesApart'
  BY <1>11, RemoveDoes, TypePageIs DEF InstallInv, InstallTypeOK, PagesApart, Removing,
     Offered, P
<1>12. ASSUME Download PROVE PagesApart'
  BY <1>12, DownloadDoes, TypePageIs DEF InstallInv, InstallTypeOK, PagesApart, Removing,
     Offered, P, Keyed
<1>13. ASSUME Unzip PROVE PagesApart'
  BY <1>13, UnzipDoes, TypePageIs DEF InstallInv, InstallTypeOK, PagesApart, Removing,
     Offered, P, Keyed
<1>14. ASSUME CopyRuntime PROVE PagesApart'
  BY <1>14, CopyRuntimeDoes, TypePageIs DEF InstallInv, InstallTypeOK, PagesApart, Removing,
     Offered, P
<1>15. ASSUME CopyNative PROVE PagesApart'
  BY <1>15, CopyNativeDoes, TypePageIs DEF InstallInv, InstallTypeOK, PagesApart, Removing,
     Offered, P
<1>16. ASSUME PrepareFile PROVE PagesApart'
  BY <1>16, PrepareFileDoes, TypePageIs DEF InstallInv, InstallTypeOK, PagesApart, Removing,
     Offered, P
<1>17. ASSUME InstallService PROVE PagesApart'
  BY <1>17, InstallServiceDoes, TypePageIs DEF InstallInv, InstallTypeOK, PagesApart,
     Removing, Offered, P
<1>18. ASSUME InstallShortcuts PROVE PagesApart'
  BY <1>18, InstallShortcutsDoes, TypePageIs DEF InstallInv, InstallTypeOK, PagesApart,
     Removing, Offered, P, First
<1>19. ASSUME ChooseMode PROVE PagesApart'
  BY <1>19, ChooseModeDoes, TypePageIs DEF InstallInv, InstallTypeOK, PagesApart, Removing,
     Offered, P, First
<1>20. ASSUME Config PROVE PagesApart'
  BY <1>20, ConfigDoes, TypePageIs DEF InstallInv, InstallTypeOK, PagesApart, Removing,
     Offered, P, First
<1>21. ASSUME InstallRequest PROVE PagesApart'
  BY <1>21, InstallRequestDoes, TypePageIs DEF InstallInv, InstallTypeOK, PagesApart,
     Removing, Offered, P
<1>22. ASSUME Again PROVE PagesApart'
  <2>1. /\ page.name \in {"again", "connError", "exception"}
        /\ UNCHANGED <<silent, stale, path, disk, etc, todo>>
    BY <1>22, AgainDoes
  <2>2. CASE page' = First("config", FALSE) /\ job' = "none"
    BY <2>1, <2>2, TypePageIs DEF InstallInv, PagesApart, Removing, Offered, P, First, Keyed
  <2>3. CASE page' = P("later") /\ job' = "none"
    BY <2>1, <2>3, TypePageIs DEF InstallInv, PagesApart, Removing, Offered, P, First, Keyed
  <2>4. CASE page' = TypePage("configure") /\ job' = "none"
    BY <2>1, <2>4, TypePageIs DEF InstallInv, PagesApart, Removing, Offered, P, First, Keyed
  <2>5. CASE page' = page /\ job' = "request"
    BY <2>1, <2>5, TypePageIs DEF InstallInv, PagesApart, Removing, Offered, P, First, Keyed
  <2> QED
    BY <1>22, AgainDoes, <2>2, <2>3, <2>4, <2>5
<1>23. ASSUME ProxyType PROVE PagesApart'
  <2>1. page.name = "proxyType" /\ UNCHANGED <<silent, stale, path, disk, etc>>
    BY <1>23, ProxyTypeDoes
  <2>2. CASE /\ page.key = "install"
             /\ page' = [page EXCEPT !.key = "retryDownloadProxy"]
             /\ job' = "download"
             /\ todo' = Pack
    BY <2>1, <2>2, TypePageIs DEF InstallInv, PagesApart, Removing, Offered, P, First, Keyed
  <2>3. CASE page' = page /\ job' = "request" /\ todo' = todo
    BY <2>1, <2>3, TypePageIs DEF InstallInv, PagesApart, Removing, Offered, P, First, Keyed
  <2>4. CASE page' \in {page, P("failed")} /\ job' = "none" /\ todo' = todo
    BY <2>1, <2>4, TypePageIs DEF InstallInv, PagesApart, Removing, Offered, P, First, Keyed
  <2>5. CASE page' = Keyed("proxyInfo", page.key) /\ job' = "none" /\ todo' = todo
    BY <2>1, <2>5, TypePageIs DEF InstallInv, PagesApart, Removing, Offered, P, First, Keyed
  <2>6. CASE page.back = "confirm" /\ page' = P("confirm") /\ job' = "none" /\ todo' = todo
    BY <2>1, <2>6, TypePageIs DEF InstallInv, PagesApart, Removing, Offered, P, First, Keyed
  <2>7. CASE page' = First("config", FALSE) /\ job' = "none" /\ todo' = todo
    BY <2>1, <2>7, TypePageIs DEF InstallInv, PagesApart, Removing, Offered, P, First, Keyed
  <2> QED
    BY <1>23, ProxyTypeDoes, <2>2, <2>3, <2>4, <2>5, <2>6, <2>7
<1>24. ASSUME ProxyInfo PROVE
       PagesApart'
  <2>1. page.name = "proxyInfo" /\ UNCHANGED <<silent, stale, path, disk, etc>>
    BY <1>24, ProxyInfoDoes
  <2>2. CASE /\ page.key = "install"
             /\ page' = [page EXCEPT !.key = "retryDownloadProxy"]
             /\ job' = "download"
             /\ todo' = Pack
    BY <2>1, <2>2, TypePageIs DEF InstallInv, PagesApart, Removing, Offered, P, First, Keyed
  <2>3. CASE page' = page /\ job' = "request" /\ todo' = todo
    BY <2>1, <2>3, TypePageIs DEF InstallInv, PagesApart, Removing, Offered, P, First, Keyed
  <2>4. CASE page' \in {page, P("failed")} /\ job' = "none" /\ todo' = todo
    BY <2>1, <2>4, TypePageIs DEF InstallInv, PagesApart, Removing, Offered, P, First, Keyed
  <2>5. CASE page' = TypePage(page.key) /\ job' = "none" /\ todo' = todo
    BY <2>1, <2>5, TypePageIs DEF InstallInv, PagesApart, Removing, Offered, P, First, Keyed
  <2> QED
    BY <1>24, ProxyInfoDoes, <2>2, <2>3, <2>4, <2>5
<1>25. ASSUME UninstallInit PROVE
       PagesApart'
  BY <1>25, UninstallInitDoes, TypePageIs DEF InstallInv, InstallTypeOK, PagesApart,
     Removing, Offered, P
<1>26. ASSUME ConfirmUninstall PROVE PagesApart'
  BY <1>26, ConfirmUninstallDoes, TypePageIs DEF InstallInv, InstallTypeOK, PagesApart,
     Removing, Offered
<1>27. ASSUME UninstallService PROVE PagesApart'
  BY <1>27, UninstallServiceDoes, TypePageIs DEF InstallInv, InstallTypeOK, PagesApart,
     Removing, Offered
<1>28. ASSUME UninstallShortcuts PROVE PagesApart'
  BY <1>28, UninstallShortcutsDoes, TypePageIs DEF InstallInv, InstallTypeOK, PagesApart,
     Removing, Offered
<1>29. ASSUME Uninstalled PROVE PagesApart'
  BY <1>29, UninstalledDoes, TypePageIs DEF InstallInv, InstallTypeOK, PagesApart, Removing,
     Offered, P
<1>30. ASSUME UNCHANGED inVars PROVE PagesApart'
  BY <1>30 DEF inVars, counts, choices, machine, InstallInv, InstallTypeOK, PagesApart,
     Removing, Offered
<1>31. QED
  BY <1>1, <1>2, <1>3, <1>4, <1>5, <1>6, <1>7, <1>8, <1>9, <1>10, <1>11, <1>12, <1>13,
     <1>14, <1>15, <1>16, <1>17, <1>18, <1>19, <1>20, <1>21, <1>22, <1>23, <1>24, <1>25,
     <1>26, <1>27, <1>28, <1>29, <1>30 DEF InstallNext

LEMMA InitInstall == InstallInit => InstallInv
<1> SUFFICES ASSUME InstallInit PROVE InstallInv
  OBVIOUS
<1>1. page = P("off") /\ job = "none" /\ todo = {} /\ path = NoPath /\ etc = NoPath
  BY DEF InstallInit, Off
<1>2. silent = FALSE /\ stale = FALSE /\ disk = [p \in Path |-> {}]
  BY DEF InstallInit
<1>3. PageTypeOK
  BY <1>1, PagesShown DEF PageTypeOK, Names
<1>4. InstallTypeOK
  BY <1>1, <1>2, <1>3 DEF InstallTypeOK
<1>5. NotRegistered /\ PathChosen /\ Built /\ PagesApart
  BY <1>1, <1>2 DEF NotRegistered, PathChosen, Built, PagesApart, Filling, Removing,
     Offered, P
<1>6. RegisteredWhole
  BY <1>1, PathAssumption DEF RegisteredWhole
<1>7. QED
  BY <1>4, <1>5, <1>6 DEF InstallInv

LEMMA StepInstall == InstallInv /\ [InstallNext]_inVars => InstallInv'
  BY TypeStep, RegisteredStep, NotRegisteredStep, PathStep, BuiltStep, ApartStep DEF
     InstallInv

\* What is registered is whole, in any number of runs, failures and kills: a run writes
\* only in a directory that is not registered, and registers one it has filled.
THEOREM RegisteredIsWhole == InstallSpec => []RegisteredWhole
<1>1. InstallInv => RegisteredWhole
  BY DEF InstallInv
<1>2. QED
  BY InitInstall, StepInstall, <1>1, PTL DEF InstallSpec
==============================================================================
