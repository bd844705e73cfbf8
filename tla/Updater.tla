------------------------------- MODULE Updater -------------------------------
(***************************************************************************)
(* How the agent replaces its own files.  The running agent downloads what  *)
(* a release changed into updateTMP, renames that to update and leaves; the *)
(* service (os_linux/dwagsvc, dwagupd) finds update and runs updater.py,    *)
(* which moves each file in and the one it replaces to updateOLD; then the  *)
(* agent starts again.  The machine may stop between any two moves, and a   *)
(* move may fail.                                                           *)
(*                                                                          *)
(* A file is known by the release it is from.  A package stands for the     *)
(* files of one zip, versions.json for what the agent knows it has of each  *)
(* package, distr.json for the release it takes itself for.                 *)
(***************************************************************************)
EXTENDS Integers

CONSTANTS
  Packages,    \* the zips a release is made of
  Changed,     \* Changed[r]: the packages release r, from 1 on, changed
  MaxCrashes,  \* bound: how often the machine stops
  MaxFaults    \* bound: how many moves, removals and writes fail

Distributions == DOMAIN Changed

Versions == "versions.json"
Distr == "distr.json"
Files == Packages \cup {Versions, Distr}

Absent == -1
NoFile == "none"

ASSUME UpdaterAssumption ==
  /\ Distributions \subseteq Nat \ {0}
  /\ \A r \in Distributions : Changed[r] \subseteq Packages
  /\ Packages \cap {Versions, Distr, NoFile} = {}
  /\ MaxCrashes \in Nat /\ MaxFaults \in Nat

(* The release package p of release r is from. *)
From(r, p) ==
  LET S == {q \in Distributions : q <= r /\ p \in Changed[q]}
  IN IF S = {} THEN 0 ELSE CHOOSE q \in S : \A t \in S : t <= q

VARIABLES
  installed,   \* the agent's own files
  staged,      \* the files in update
  old,         \* the files in updateOLD
  update,      \* update exists
  updateOLD,   \* updateOLD exists
  status,      \* updater.status
  distrUpdate, \* distr_update of the configuration; 0 is None
  latest,      \* external: the latest release on the server
  target,      \* the release being downloaded; 0 is none
  tmp,         \* the packages in updateTMP
  pc,          \* who runs, and where it is
  hand,        \* the file between its two moves
  crashes, faults,
  hurt         \* history: stopped, or failed to undo, with files displaced

dirs == <<installed, staged, old, update, updateOLD>>
agentVars == <<distrUpdate, latest, target, tmp>>
faultVars == <<crashes, faults, hurt>>
updateVars == <<dirs, status, agentVars, pc, hand, faultVars>>

Places ==
  {"off", "begin", "restore", "apply", "clean", "rollback", "ended", "start", "agent"}
Status == {"none", "INPROGRESS", "OK", "FAILED", "ERROR"}
Copies == [Files -> Distributions \cup {0, Absent}]

DataOK ==
  /\ installed \in Copies /\ staged \in Copies /\ old \in Copies
  /\ status \in Status /\ pc \in Places /\ hand \in Files \cup {NoFile}
  /\ distrUpdate \in Distributions \cup {0} /\ latest \in Distributions \cup {0}
  /\ target \in Distributions \cup {0} /\ tmp \subseteq Packages
  /\ crashes \in 0..MaxCrashes /\ faults \in 0..MaxFaults
UpdaterTypeOK ==
  DataOK /\ update \in BOOLEAN /\ updateOLD \in BOOLEAN /\ hurt \in BOOLEAN

NoFiles == [f \in Files |-> Absent]

UpdaterInit ==
  /\ installed = [f \in Files |-> 0] /\ staged = NoFiles /\ old = NoFiles
  /\ update = FALSE /\ updateOLD = FALSE /\ status = "none"
  /\ distrUpdate = 0 /\ latest = 0 /\ target = 0 /\ tmp = {}
  /\ pc = "off" /\ hand = NoFile
  /\ crashes = 0 /\ faults = 0 /\ hurt = FALSE

Goes(place) == pc' = place
-----------------------------------------------------------------------------
(* The service and the agent. *)

(* check_update: with no update the agent is started, else the updater,     *)
(* the status of its last run removed.                                      *)
Launch ==
  /\ pc = "off"
  /\ IF update THEN Goes("begin") /\ status' = "none" ELSE Goes("start") /\ UNCHANGED status
  /\ UNCHANGED <<dirs, agentVars, hand, faultVars>>

(* start() up to _finalize_distr_update: with an update left, or after an   *)
(* error of the updater, the agent waits and leaves.                        *)
Start ==
  /\ pc = "start" /\ target' = 0
  /\ \/ /\ update /\ Goes("off") /\ UNCHANGED <<distrUpdate, status>>
     \/ /\ ~update /\ status = "ERROR"
        /\ Goes("off") /\ distrUpdate' = 0 /\ UNCHANGED status
     \/ /\ ~update /\ status # "ERROR"
        /\ Goes("agent") /\ distrUpdate' = 0 /\ status' = "none"
  /\ UNCHANGED <<dirs, latest, tmp, hand, faultVars>>

(* External: the server has a new release.                                  *)
Release ==
  /\ \E r \in Distributions : r > latest /\ latest' = r
  /\ UNCHANGED <<dirs, status, distrUpdate, target, tmp, pc, hand, faultVars>>

(* The server says which release it has, and _set_distr_update keeps it. *)
SetDistrUpdate ==
  /\ pc = "agent" /\ latest > 0
  /\ distrUpdate' = IF distrUpdate = 0 THEN
                      IF installed[Distr] \in 0..(latest - 1) THEN latest ELSE 0
                    ELSE IF latest > distrUpdate THEN latest ELSE distrUpdate
  /\ UNCHANGED <<dirs, status, latest, target, tmp, pc, hand, faultVars>>

(* _check_and_update_distr: the release to get is the latest there is.      *)
CheckDistr ==
  /\ pc = "agent" /\ target = 0 /\ latest # 0
  /\ distrUpdate # 0 \/ installed[Distr] = Absent
  /\ tmp' = {}
  /\ IF distrUpdate > installed[Distr]
     THEN target' = latest /\ UNCHANGED distrUpdate
     ELSE distrUpdate' = 0 /\ UNCHANGED target
  /\ UNCHANGED <<dirs, status, latest, pc, hand, faultVars>>

Outdated(p) ==
  installed[Versions] = Absent \/ From(target, p) # From(installed[Versions], p)

(* _check_and_update_distr_file. *)
Download(p) ==
  /\ pc = "agent" /\ target # 0 /\ p \notin tmp /\ Outdated(p)
  /\ tmp' = tmp \cup {p}
  /\ UNCHANGED <<dirs, status, distrUpdate, latest, target, pc, hand, faultVars>>

(* Only the check at the beginning keeps distr_update. *)
DownloadFails ==
  /\ pc = "agent" /\ target # 0
  /\ target' = 0 /\ distrUpdate' \in {0, distrUpdate}
  /\ UNCHANGED <<dirs, status, latest, tmp, pc, hand, faultVars>>

Downloaded == pc = "agent" /\ target # 0 /\ \A p \in Packages : Outdated(p) => p \in tmp

(* updateTMP, with the new versions.json and distr.json, becomes update, and *)
(* the agent leaves.                                                        *)
Publish ==
  /\ Downloaded /\ tmp # {}
  /\ staged' = [f \in Files |-> IF f \in Packages THEN
                                  IF f \in tmp THEN From(target, f) ELSE Absent
                                ELSE target]
  /\ update' = TRUE /\ target' = 0 /\ tmp' = {} /\ Goes("off")
  /\ UNCHANGED <<installed, old, updateOLD, status, distrUpdate, latest, hand, faultVars>>

(* None of the files is new: distr.json alone is written. *)
NothingNew ==
  /\ Downloaded /\ tmp = {}
  /\ installed' = [installed EXCEPT ![Distr] = target]
  /\ distrUpdate' = 0 /\ target' = 0
  /\ UNCHANGED <<staged, old, update, updateOLD, status, latest, tmp, pc, hand, faultVars>>

-----------------------------------------------------------------------------
(* updater.py *)

WriteStatus ==
  /\ pc = "begin" /\ status' = "INPROGRESS" /\ Goes("restore")
  /\ UNCHANGED <<dirs, agentVars, hand, faultVars>>

(* restore_dir: what is in updateOLD goes back, in place of what is there.  *)
Restoring == pc \in {"restore", "rollback"} /\ updateOLD

RemoveNew(f) ==
  /\ Restoring /\ hand = NoFile /\ old[f] # Absent /\ installed[f] # Absent
  /\ installed' = [installed EXCEPT ![f] = Absent] /\ hand' = f
  /\ UNCHANGED <<staged, old, update, updateOLD, status, agentVars, pc, faultVars>>

MoveBack(f) ==
  /\ Restoring /\ old[f] # Absent
  /\ hand = f \/ (hand = NoFile /\ installed[f] = Absent)
  /\ installed' = [installed EXCEPT ![f] = old[f]]
  /\ old' = [old EXCEPT ![f] = Absent] /\ hand' = NoFile
  /\ UNCHANGED <<staged, update, updateOLD, status, agentVars, pc, faultVars>>

(* Everything is back: rmtree("updateOLD"). *)
RemoveOLD ==
  /\ Restoring /\ old = NoFiles
  /\ updateOLD' = FALSE
  /\ UNCHANGED <<installed, staged, old, update, status, agentVars, pc, hand, faultVars>>

(* Nothing is to be restored any more: update_dir begins with updateOLD.    *)
Restored ==
  /\ pc = "restore" /\ ~updateOLD
  /\ IF update THEN Goes("apply") /\ updateOLD' = TRUE /\ UNCHANGED status
     ELSE status' = "OK" /\ Goes("ended") /\ UNCHANGED updateOLD
  /\ UNCHANGED <<installed, staged, old, update, agentVars, hand, faultVars>>

(* Mutant of SetAside: the file that is there is removed. *)
SetAsideRemoving(f) ==
  /\ pc = "apply" /\ hand = NoFile /\ staged[f] # Absent /\ installed[f] # Absent
  /\ installed' = [installed EXCEPT ![f] = Absent] /\ hand' = f
  /\ UNCHANGED <<staged, old, update, updateOLD, status, agentVars, pc, faultVars>>

(* update_dir: a file that is there goes to updateOLD, the new one comes in. *)
SetAside(f) ==
  /\ pc = "apply" /\ hand = NoFile /\ staged[f] # Absent /\ installed[f] # Absent
  /\ old' = [old EXCEPT ![f] = installed[f]]
  /\ installed' = [installed EXCEPT ![f] = Absent] /\ hand' = f
  /\ UNCHANGED <<staged, update, updateOLD, status, agentVars, pc, faultVars>>

MoveIn(f) ==
  /\ pc = "apply" /\ staged[f] # Absent
  /\ hand = f \/ (hand = NoFile /\ installed[f] = Absent)
  /\ installed' = [installed EXCEPT ![f] = staged[f]]
  /\ staged' = [staged EXCEPT ![f] = Absent] /\ hand' = NoFile
  /\ UNCHANGED <<old, update, updateOLD, status, agentVars, pc, faultVars>>

(* rmtree("update"), in which only directories are left. *)
Applied ==
  /\ pc = "apply" /\ staged = NoFiles
  /\ update' = FALSE /\ Goes("clean")
  /\ UNCHANGED <<installed, staged, old, updateOLD, status, agentVars, hand, faultVars>>

(* rmtree("updateOLD"), a file at a time. *)
DeleteOld(f) ==
  /\ pc = "clean" /\ old[f] # Absent
  /\ old' = [old EXCEPT ![f] = Absent]
  /\ UNCHANGED <<installed, staged, update, updateOLD, status, agentVars, pc, hand, faultVars>>

Cleaned ==
  /\ pc = "clean" /\ old = NoFiles
  /\ updateOLD' = FALSE /\ status' = "OK" /\ Goes("rollback")
  /\ UNCHANGED <<installed, staged, old, update, agentVars, hand, faultVars>>

(* finally: with updateOLD gone, what is left of update goes, a file at a   *)
(* time.                                                                    *)
DropStaged(f) ==
  /\ pc = "rollback" /\ ~updateOLD /\ staged[f] # Absent
  /\ staged' = [staged EXCEPT ![f] = Absent]
  /\ UNCHANGED <<installed, old, update, updateOLD, status, agentVars, pc, hand, faultVars>>

Finished ==
  /\ pc = "rollback" /\ ~updateOLD /\ staged = NoFiles
  /\ update' = FALSE /\ Goes("ended")
  /\ UNCHANGED <<installed, staged, old, updateOLD, status, agentVars, hand, faultVars>>

(* check_update after the updater: the agent is started; without a status   *)
(* the updater did not run, update is removed and the service begins again. *)
Ended ==
  /\ pc = "ended"
  /\ \/ status # "none" /\ Goes("start") /\ UNCHANGED <<update, staged>>
     \/ status = "none" /\ Goes("off") /\ update' = FALSE /\ staged' = NoFiles
  /\ UNCHANGED <<installed, old, updateOLD, status, agentVars, hand, faultVars>>

-----------------------------------------------------------------------------
(* What fails. *)

Fails == faults < MaxFaults /\ faults' = faults + 1

(* The status cannot be written: nothing is done. *)
StatusFails ==
  /\ pc = "begin" /\ Fails /\ Goes("ended")
  /\ UNCHANGED <<dirs, status, agentVars, hand, crashes, hurt>>

(* _check_and_restore at the beginning fails. *)
RestoreFails ==
  /\ pc = "restore" /\ updateOLD /\ Fails
  /\ status' = "ERROR" /\ Goes("ended") /\ hand' = NoFile /\ hurt' = TRUE
  /\ UNCHANGED <<dirs, agentVars, crashes>>

(* update_dir or a rmtree after it fails. *)
ApplyFails ==
  /\ pc \in {"apply", "clean"} /\ Fails
  /\ status' = "FAILED" /\ Goes("rollback") /\ hand' = NoFile
  /\ hurt' = (hurt \/ pc = "clean")
  /\ UNCHANGED <<dirs, agentVars, crashes>>

(* What is to be undone, or removed, at the end cannot be. *)
RollbackFails ==
  /\ pc = "rollback" /\ (updateOLD \/ update)
  /\ Fails /\ hurt' = TRUE
  /\ status' = IF updateOLD THEN "ERROR" ELSE status
  /\ Goes("ended") /\ hand' = NoFile
  /\ UNCHANGED <<dirs, agentVars, crashes>>

(* The machine stops, or the process is killed. *)
Crash ==
  /\ pc # "off" /\ crashes < MaxCrashes
  /\ crashes' = crashes + 1
  /\ Goes("off") /\ hand' = NoFile /\ target' = 0
  /\ hurt' = (hurt \/ updateOLD \/ pc = "rollback")
  /\ UNCHANGED <<dirs, status, distrUpdate, latest, tmp, faults>>

-----------------------------------------------------------------------------
Update ==
  \/ Launch \/ Start
  \/ WriteStatus \/ RemoveOLD \/ Restored \/ Applied \/ Cleaned \/ Finished \/ Ended
  \/ \E f \in Files : \/ RemoveNew(f) \/ MoveBack(f) \/ SetAside(f) \/ MoveIn(f)
                      \/ DeleteOld(f) \/ DropStaged(f)

Agent ==
  \/ Release \/ SetDistrUpdate \/ CheckDistr \/ DownloadFails \/ Publish \/ NothingNew
  \/ \E p \in Packages : Download(p)

Failure == StatusFails \/ RestoreFails \/ ApplyFails \/ RollbackFails \/ Crash

UpdaterNext == Update \/ Agent \/ Failure

(* Fairness: the service starts what is to be started, and updater.py goes  *)
(* on while nothing stops it.                                               *)
UpdaterSpec == UpdaterInit /\ [][UpdaterNext]_updateVars /\ WF_updateVars(Update)
-----------------------------------------------------------------------------
(* Properties. *)

(* Every file is somewhere: at no moment would a stop, or a failure, lose   *)
(* the only copy of one.                                                    *)
NothingLost ==
  \A f \in Files : installed[f] # Absent \/ old[f] # Absent \/ staged[f] # Absent

(* The agent runs with all of its files if the machine stops, wherever that *)
(* is, or if moves fail, but not when it stops while a failure is undone,   *)
(* nor when a third failure is that of the status.                          *)
RunsComplete ==
  pc = "agent" /\ (faults = 0 \/ (crashes = 0 /\ faults <= 2))
    => \A f \in Files : installed[f] # Absent

(* Files are one release: each package is from it, and is what versions.json *)
(* says.                                                                    *)
WholeIn(place) ==
  \E r \in Distributions \cup {0} :
    /\ place[Distr] = r
    /\ \A p \in Packages :
         /\ place[p] = From(r, p)
         /\ From(place[Versions], p) = From(r, p)
Whole == WholeIn(installed)

(* The agent runs as one release, also after an update that failed half-way *)
(* was undone and others followed, if nothing stopped the updater with      *)
(* files displaced or kept it from undoing or cleaning up.                  *)
RunsWhole == pc = "agent" /\ ~hurt => Whole

(* An update loses no file, and the agent that runs is complete and of one  *)
(* release, each under the conditions above.                                *)
AgentWhole == NothingLost /\ RunsComplete /\ RunsWhole

(* An update that ends with OK is complete, as _finalize_distr_update has   *)
(* it.                                                                      *)
OkMeansUpdated == status = "OK" => Whole
==============================================================================
