------------------------------- MODULE JsonFile -------------------------------
(***************************************************************************)
(* read_json_file and write_json_file (core/agent.py): a file the agent     *)
(* rewrites in place and its copy .bk, which tells a write that was cut     *)
(* off.  config.json and the files of versions are kept this way, each by   *)
(* one writer at a time.                                                    *)
(*                                                                          *)
(* The process may stop between any two steps; copying and writing are two  *)
(* steps each, with the file Partial between them.  The disk may also       *)
(* refuse what is written to the file, never the copy of it.                *)
(***************************************************************************)
CONSTANTS
  Value,     \* what the file may say
  Absent,    \* there is no such file
  Partial    \* a file that is not JSON

ASSUME ValueAssumption ==
  Absent \notin Value /\ Partial \notin Value /\ Absent # Partial

VARIABLES
  nm, bk,    \* the file and its copy
  pc,        \* where the one who reads or writes is
  new,       \* what is being written
  last       \* history: what the file may be expected to say

fileVars == <<nm, bk, pc, new, last>>

ReadStates == {"started", "rremove", "rcopy", "rcopying", "rclean"}
WriteStates == {"copy", "copying", "open", "write", "wclean"}

FileTypeOK ==
  /\ nm \in Value \cup {Absent, Partial} /\ bk \in Value \cup {Absent, Partial}
  /\ pc \in ReadStates \cup WriteStates \cup {"idle"}
  /\ new \in Value /\ last \in SUBSET Value

\* the file as the installer leaves it
FileInit == /\ nm \in Value /\ bk = Absent /\ new = nm /\ last = {nm}
        /\ pc = "started"

-----------------------------------------------------------------------------
Steps(p, q) == pc = p /\ pc' = q

\* mutant: the file is copied when there is a copy of it too
CopyAlways ==
  /\ Steps("copy", IF nm # Absent THEN "copying" ELSE "open")
  /\ bk' = IF nm # Absent THEN Partial ELSE bk
  /\ UNCHANGED <<nm, new, last>>

Write(v) ==
  /\ Steps("idle", "copy")
  /\ new' = v
  /\ last' = last \cup {v}
  /\ UNCHANGED <<nm, bk>>

Copy ==
  /\ Steps("copy", IF nm # Absent /\ bk = Absent THEN "copying" ELSE "open")
  /\ bk' = IF nm # Absent /\ bk = Absent THEN Partial ELSE bk
  /\ UNCHANGED <<nm, new, last>>

Copied == Steps("copying", "open") /\ bk' = nm /\ UNCHANGED <<nm, new, last>>

OpenFile == Steps("open", "write") /\ nm' = Partial /\ UNCHANGED <<bk, new, last>>

Written == Steps("write", "wclean") /\ nm' = new /\ UNCHANGED <<bk, new, last>>

\* an exception, with the copy left
WriteRefused == Steps("write", "idle") /\ UNCHANGED <<nm, bk, new, last>>

WriteEnds ==
  /\ Steps("wclean", "idle")
  /\ bk' = Absent
  /\ last' = {new}
  /\ UNCHANGED <<nm, new>>

-----------------------------------------------------------------------------
ReadBegins ==
  /\ Steps("started", IF nm \in Value THEN "rclean" ELSE "rremove")
  /\ nm \in Value \/ bk \in Value
  /\ UNCHANGED <<nm, bk, new, last>>

Remove == Steps("rremove", "rcopy") /\ nm' = Absent /\ UNCHANGED <<bk, new, last>>

CopyBack == Steps("rcopy", "rcopying") /\ nm' = Partial /\ UNCHANGED <<bk, new, last>>

CopiedBack == Steps("rcopying", "rclean") /\ nm' = bk /\ UNCHANGED <<bk, new, last>>

ReadEnds ==
  /\ Steps("rclean", "idle")
  /\ bk' = Absent
  /\ last' = {nm}
  /\ UNCHANGED <<nm, new>>

\* the process stops, and another reads the file when it starts
Restart == pc' = "started" /\ UNCHANGED <<nm, bk, new, last>>

FileNext ==
  \/ \E v \in Value : Write(v)
  \/ Copy \/ Copied \/ OpenFile \/ Written \/ WriteRefused \/ WriteEnds
  \/ ReadBegins \/ Remove \/ CopyBack \/ CopiedBack \/ ReadEnds
  \/ Restart

FileSpec == FileInit /\ [][FileNext]_fileVars

-----------------------------------------------------------------------------
\* What a read gives: the file, or else its copy.
Content == IF nm \in Value THEN nm ELSE bk

\* Wherever the process stops, the next one reads what the last write that ended
\* wrote, or what a write it cut off was writing: never a file it cannot parse.
SurvivesCrash == Content \in last
=============================================================================
