----------------------------- MODULE MCPrograms -----------------------------
(* The programs beside the agent's core; part says which of them runs.  Those *)
(* of ui/ (UISpec): the installer, the run without installation, the pages of *)
(* the configuration, the window of the monitor, the text box and the         *)
(* keyboard focus.  The apps and the programs for Haiku (AppsSpec): the       *)
(* shells, the file requests, the inputs and the clipboard of the desktop     *)
(* app, the add-on of the input server, and the service with its replicant.   *)
EXTENDS TextBox, Shell, Installer, Focus, Files

CONSTANTS a1, a2, t1, t2, NoOne

VARIABLES
  part,
  step, alive, byClient, closeEnd, shown, stopPath, startFile, pidFile, updateDir,
  agent, follows, current, aTold, connected, notFound, slow,
  cPage, cButtons, waiting, dialog, closing, cThread,
  online, waits, tTold, moved, enabled, client, status, stopFile, checking, cur, skip, popup,
  windows, terms, tActive, ended, tAsked,
  hButtons, hTold, hTodo, from, to, mods, key, held, press, hLost,
  hStatus, supfile, wanted, sup, agents, ending, control, view, configured, orphans, deaths,
  boots,
  layout, made, typed, toChild, list, late, lateTo, turn, batch, granted, done, missed, landed,
  acts, board, by, fresh, mark, toMain, latest, getting, ack, serving, tokens, toClient, asking,
  joined, giving

fly == <<step, alive, byClient, closeEnd, shown, stopPath, startFile, pidFile, updateDir,
         agent, follows, current, aTold, connected, notFound, slow>>
conf == <<cPage, cButtons, waiting, dialog, closing, cThread>>
tray == <<online, waits, tTold, moved, enabled, client, status, stopFile, checking, cur, skip,
          popup, windows, terms, tActive, ended, tAsked>>
input == <<hButtons, hTold, hTodo, from, to, mods, key, held, press, hLost>>
haiku == <<hStatus, supfile, wanted, sup, agents, ending, control, view, configured, orphans,
           deaths, boots>>
desktop == <<layout, made, typed, toChild, list, late, lateTo, turn, batch, granted, done, missed,
             landed, acts, board, by, fresh, mark, toMain, latest, getting, ack, serving, tokens,
             toClient, asking, joined, giving>>

F == INSTANCE OnFly WITH Agent <- {a1, a2}, RunCode <- TRUE, MaxSlow <- 1,
                         stopFile <- stopPath, told <- aTold
C == INSTANCE Configure WITH Thread <- {t1, t2}, page <- cPage, buttons <- cButtons,
                             thread <- cThread
T == INSTANCE Tray WITH Session <- {1}, Systray <- FALSE, None <- NoOne, asked <- tAsked,
                        told <- tTold, active <- tActive

\* Two directories: one with a directory of two files, and in the other nothing, a
\* file or a directory of the same name.
Tree == (<<"x">> :> Dir) @@ (<<"y">> :> Dir) @@ (<<"x", "x">> :> Dir)
        @@ (<<"x", "x", "x">> :> "c1") @@ (<<"x", "x", "y">> :> "c2")
MCTrees == {Tree @@ more : more \in {<<"x", "y">> :> "c3", <<"y", "x">> :> "c4",
                                     (<<"y", "x">> :> Dir) @@ (<<"y", "x", "y">> :> "c5")}}
MCPermissions == [A |-> [base |-> <<"x">>, edit |-> TRUE, upload |-> FALSE],
                  B |-> [base |-> <<"y">>, edit |-> TRUE, upload |-> TRUE]]

HI == INSTANCE HaikuInput WITH Buttons <- {1, 2}, Modifiers <- {"ctrl", "shift"},
                                MapModifiers <- {{}, {"shift"}}, buttons <- hButtons,
                                told <- hTold, todo <- hTodo, lost <- hLost
H == INSTANCE HaikuService WITH Pids <- {1, 2}, MaxDeaths <- 1, MaxBoots <- 1,
                               status <- hStatus, None <- NoOne
\* The second monitor is at the left of the first; a text is of two pieces.
D == INSTANCE Inputs WITH Layouts <- {<<[x |-> 0, width |-> 1], [x |-> -1, width |-> 1]>>},
                          Texts <- {1, 2}, Pieces <- <<2, 2>>, MaxActs <- 3, clip <- board,
                          None <- NoOne

uiVars == <<inVars, fly, conf, tray, textVars, windowVars>>
appVars == <<shellVars, filesVars, input, haiku, desktop>>

MCInit(parts) ==
  /\ part \in parts
  /\ InstallInit /\ F!Init /\ C!Init /\ T!Init /\ TextInit /\ FocusInit
  /\ ShellsInit /\ FilesInit /\ HI!Init /\ H!Init /\ D!Init
  /\ part # "files" => tree = Tree @@ (<<"x", "y">> :> "c3")
  /\ part # "haiku" => ~configured

MCNext ==
  /\ UNCHANGED part
  /\ \/ part = "installer" /\ InstallNext /\ UNCHANGED <<fly, conf, tray, textVars, windowVars, appVars>>
     \/ part = "onfly" /\ F!Next /\ UNCHANGED <<inVars, conf, tray, textVars, windowVars, appVars>>
     \/ part = "configure" /\ C!Next /\ UNCHANGED <<inVars, fly, tray, textVars, windowVars, appVars>>
     \/ part = "tray" /\ T!Next /\ UNCHANGED <<inVars, fly, conf, textVars, windowVars, appVars>>
     \/ part = "textbox" /\ TextNext /\ UNCHANGED <<inVars, fly, conf, tray, windowVars, appVars>>
     \/ part = "focus" /\ FocusNext /\ UNCHANGED <<inVars, fly, conf, tray, textVars, appVars>>
     \/ part = "shells" /\ ShellsNext /\ UNCHANGED <<uiVars, filesVars, input, haiku, desktop>>
     \/ part = "files" /\ FilesNext /\ UNCHANGED <<uiVars, shellVars, input, haiku, desktop>>
     \/ part = "input" /\ HI!Next /\ UNCHANGED <<uiVars, shellVars, filesVars, haiku, desktop>>
     \/ part = "haiku" /\ H!Next /\ UNCHANGED <<uiVars, shellVars, filesVars, input, desktop>>
     \/ part = "desktop" /\ D!Next /\ UNCHANGED <<uiVars, shellVars, filesVars, input, haiku>>

\* No fair action of a part is enabled in its initial states.
UISpec ==
  /\ MCInit({"installer", "onfly", "configure", "tray", "textbox", "focus"})
  /\ [][MCNext]_<<part, uiVars, appVars>> /\ F!Fairness /\ C!Fairness /\ T!Fairness
AppsSpec ==
  /\ MCInit({"shells", "files", "input", "haiku", "desktop"})
  /\ [][MCNext]_<<part, uiVars, appVars>> /\ H!Fairness

\* The shells alone.
ShellSpec == MCInit({"shells"}) /\ [][MCNext]_<<part, uiVars, appVars>>

\* No agent outlives a run without installation; and the windows come back: that of the
\* configuration with a page that can be used, that of the monitor shows a session that
\* waits, and monitor.stop ends its loop.
WindowsAnswer == F!OnFlyEnds /\ C!PageReturns /\ T!WaitingShown /\ T!StopEnds

\* Inputs are handled in order where they point, and texts of a clipboard whole; never two
\* buttons of a transition at once, and nothing stays pressed.
InputsWhole ==
  D!InputsLand /\ D!ClipboardWhole /\ HI!NeverBoth /\ HI!NothingStuck

\* The state of the service's file and the light of the Deskbar are the agent's.
LightFollows == []H!StoppedMeansStopped /\ H!LightFollows
=============================================================================
