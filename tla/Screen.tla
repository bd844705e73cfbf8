------------------------------- MODULE Screen -------------------------------
(* The picture of the screen on its way to a client: the thread that drives  *)
(* the capture library and writes each monitor's image in a shared memory    *)
(* (ProcessCaptureScreen, app_desktop/capture.py), the encoder that reads it *)
(* there, one request ENCODE at a time (app_desktop/encoder.py), and the     *)
(* session that asks for the monitor the client wants (desktop.py).          *)
(*                                                                           *)
(* A memory holds, for each monitor, the state of its capture ("K", or "P"   *)
(* without permission, or "E" after an error), the number of the image and   *)
(* the image.  The encoding library keeps the last image it encoded of each  *)
(* monitor and sends what differs.  An image is the number of the change of  *)
(* the screen it shows.                                                      *)
EXTENDS Integers, Sequences, FiniteSets

CONSTANTS
  Monitors,      \* how many monitors
  MaxEvents      \* bound: changes of the screen, of the monitors, of the permission to
                 \* capture and of the monitor the client asks for, and images the library
                 \* fails to give

Mon == 1..Monitors
All == 0         \* every monitor in one picture (MULTIMONITOR)
Nothing == -1    \* no monitor, no image
Wrong == -2      \* differences applied to another image than theirs

ASSUME ScreenAssumption == Monitors \in Nat \ {0}

VARIABLES
  displayed,     \* what each monitor shows
  permitted,     \* the user lets the screen be captured
  events,
  memory,        \* the memory the agent shows: its number, 0 when none yet
  turn,          \* the monitor the capture is at, 0 between two rounds
  capturing,     \* _capture_allowed
  force,         \* forceChanges
  taken,         \* the image of each monitor the library gave last
  capid,         \* the capture's number of the last image of each monitor
  slots,         \* what the memory holds for each monitor
  wanted,        \* _monitor of the session: what the client asked for
  skip,          \* _process_encoder_event, _skipevent of the encoder
  due,           \* _frame_intervall_event
  asked,         \* the request ENCODE not served, <<>> or one of them
  encoder,       \* "idle", "begun", "wait", "served" or "dead"
  has,           \* the memory the encoder was given (SET_MONITORS)
  cur,           \* _curmon
  curid,         \* curcapid of each monitor
  curst,         \* curcapst of each monitor, and "st" of the view of all
  base,          \* the last image the library encoded of each monitor
  out,           \* what the encoder sent and the client has not shown
  view,          \* the monitor of the client's picture
  picture,       \* the client's picture, by monitor
  locked         \* the client was told that the screen is locked

sourceVars == <<displayed, permitted, events>>
grabVars == <<turn, capturing, force, taken, capid>>
sessionVars == <<wanted, due, asked>>
encVars == <<has, cur, curid, curst, base>>
clientVars == <<view, picture, locked>>
scrVars == <<sourceVars, memory, grabVars, slots, sessionVars, skip, encoder, encVars,
             out, clientVars>>

Empty == [m \in Mon |-> [st |-> "-", id |-> 0, image |-> Nothing]]
Blank == [m \in Mon |-> Nothing]

ScrInit ==
  /\ displayed = [m \in Mon |-> 0] /\ permitted = TRUE /\ events = 0
  /\ memory = 0 /\ slots = Empty
  /\ turn = 0 /\ capturing = TRUE /\ force = FALSE
  /\ taken = Blank /\ capid = [m \in Mon |-> 0]
  /\ wanted = 1 /\ skip = FALSE /\ due = TRUE /\ asked = <<>>
  /\ encoder = "idle" /\ has = 0 /\ cur = Nothing /\ base = Blank
  /\ curid = [m \in Mon |-> 0] /\ curst = [m \in Mon \union {All} |-> "K"]
  /\ out = <<>> /\ view = Nothing /\ picture = Blank /\ locked = FALSE

-----------------------------------------------------------------------------
(* The screen and its user                                                   *)

Event == events < MaxEvents /\ events' = events + 1

ScreenChanges ==
  /\ memory > 0 /\ Event
  /\ \E m \in Mon : displayed' = [displayed EXCEPT ![m] = @ + 1]
  /\ UNCHANGED <<permitted, memory, grabVars, slots, sessionVars,
                 skip, encoder, encVars, out, clientVars>>

PermissionChanges ==
  /\ memory > 0 /\ Event
  /\ permitted' = ~permitted
  /\ UNCHANGED <<displayed, memory, grabVars, slots, sessionVars, skip, encoder,
                 encVars, out, clientVars>>

\* The monitors are found, or found changed: the former memory is given up and
\* the capture starts again on another (_send_monitors_changed,
\* _close_memmap, init_capture, _lib_init_monitors).
MonitorsFound ==
  /\ turn = 0 /\ capturing /\ (IF memory = 0 THEN UNCHANGED events ELSE Event)
  /\ memory' = memory + 1 /\ slots' = Empty
  /\ taken' = Blank /\ capid' = [m \in Mon |-> 0]
  /\ UNCHANGED <<displayed, permitted, turn, capturing, force, sessionVars, skip, encoder, encVars,
                 out, clientVars>>

-----------------------------------------------------------------------------
(* The capture                                                               *)

\* DWAScreenCaptureIsChanged.  When the permission comes back the library's
\* sessions are opened again and the images of this round are forced.
BeginRound ==
  /\ turn = 0 /\ memory > 0
  /\ turn' = 1 /\ capturing' = permitted /\ force' = (permitted /\ ~capturing)
  /\ taken' = IF permitted /\ ~capturing THEN Blank ELSE taken
  /\ UNCHANGED <<sourceVars, memory, capid, slots, sessionVars, skip, encoder, encVars,
                 out, clientVars>>

\* _lib_get_image_monitors, for one monitor: what the library gives is written
\* in the memory, with a new number, when something changed.  An error is noted
\* over the image: the library keeps its last one, and the mark stays until the
\* screen changes.  One that comes a second or more after the first ends the
\* capture, and the next begins on another memory.
GetImage ==
  /\ turn \in Mon
  /\ turn' = IF turn = Monitors THEN 0 ELSE turn + 1
  /\ \/ /\ capturing /\ (taken[turn] # displayed[turn] \/ force)
        /\ taken' = [taken EXCEPT ![turn] = displayed[turn]]
        /\ capid' = [capid EXCEPT ![turn] = @ + 1]
        /\ slots' = [slots EXCEPT ![turn] =
                       [st |-> "K", id |-> capid[turn] + 1, image |-> displayed[turn]]]
        /\ UNCHANGED events
     \/ /\ capturing /\ taken[turn] = displayed[turn] /\ ~force
        /\ UNCHANGED <<taken, capid, slots, events>>
     \/ /\ capturing /\ Event
        /\ slots' = [slots EXCEPT ![turn].st = "E"]
        /\ UNCHANGED <<taken, capid>>
     \/ /\ ~capturing
        /\ slots' = [slots EXCEPT ![turn].st = "P"]
        /\ UNCHANGED <<taken, capid, events>>
  /\ UNCHANGED <<displayed, permitted, memory, capturing, force, sessionVars, skip,
                 encoder, encVars, out, clientVars>>

-----------------------------------------------------------------------------
(* The session                                                               *)

\* The client asks for another monitor: the request under way is cut short.
Switch ==
  /\ memory > 0 /\ Event
  /\ \E m \in Mon \union {All} : m # wanted /\ wanted' = m
  /\ skip' = TRUE
  /\ UNCHANGED <<displayed, permitted, memory, grabVars, slots, due, asked, encoder, encVars, out,
                 clientVars>>

\* SET_MONITORS, if the memory is another one, and ENCODE.
Ask ==
  /\ memory > 0 /\ due /\ encoder # "dead"
  /\ due' = FALSE /\ asked' = <<[monitor |-> wanted, memory |-> memory]>>
  /\ UNCHANGED <<sourceVars, memory, grabVars, slots, wanted, skip, encoder,
                 encVars, out, clientVars>>

\* The reader passes what the encoder sent; the client shows it.  A resolution
\* begins a new picture.  FRAME_NEXT is kept by the reader, which makes the
\* next request due when the client is not too late.
Show ==
  /\ out # <<>> /\ out' = Tail(out)
  /\ LET t == Head(out) IN
     \/ /\ t.token = "resolution"
        /\ view' = t.monitor /\ picture' = Blank /\ locked' = FALSE /\ UNCHANGED due
     \/ /\ t.token = "frame"
        /\ picture' = [picture EXCEPT ![t.monitor] =
                         IF t.base = @ THEN t.image ELSE Wrong]
        /\ UNCHANGED <<view, locked, due>>
     \/ /\ t.token \in {"locked", "unlocked"}
        /\ locked' = (t.token = "locked") /\ UNCHANGED <<view, picture, due>>
     \/ /\ t.token = "next"
        /\ due' = TRUE /\ UNCHANGED <<view, picture, locked>>
  /\ UNCHANGED <<sourceVars, memory, grabVars, slots, wanted, asked, skip,
                 encoder, encVars>>

-----------------------------------------------------------------------------
(* The encoder                                                               *)

Viewed(v) == IF v = All THEN Mon ELSE {v}

\* mutant: another view of all the monitors keeps what was encoded before
ViewChangedKept(v, b) ==
  /\ base' = IF v = All THEN b ELSE [m \in Mon |-> IF m = v THEN Nothing ELSE b[m]]
  /\ curid' = [m \in Mon |-> IF m \in Viewed(v) THEN 0 ELSE curid[m]]
  /\ curst' = [m \in Mon \union {All} |-> IF m \in Viewed(v) \union {v} THEN "K" ELSE curst[m]]

\* _multimon_changed and _singlemon_changed: the encoding of the monitors of
\* the view begins again.
ViewChanged(v, b) ==
  /\ base' = [m \in Mon |-> IF m \in Viewed(v) THEN Nothing ELSE b[m]]
  /\ curid' = [m \in Mon |-> IF m \in Viewed(v) THEN 0 ELSE curid[m]]
  /\ curst' = [m \in Mon \union {All} |-> IF m \in Viewed(v) \union {v} THEN "K" ELSE curst[m]]

\* _set_monitors, before the request when the memory is another one: the
\* encoding of every monitor begins again.
Encoded(r) == IF r.memory # has THEN Blank ELSE base

\* A request is read.
Begin ==
  /\ encoder = "idle" /\ asked # <<>>
  /\ encoder' = "begun" /\ asked' = <<>>
  /\ LET r == Head(asked) IN
     /\ has' = r.memory /\ cur' = r.monitor
     /\ IF r.memory # has \/ r.monitor # cur
          THEN /\ ViewChanged(r.monitor, Encoded(r))
               /\ out' = Append(out, [token |-> "resolution", monitor |-> r.monitor])
          ELSE UNCHANGED <<base, curid, curst, out>>
  /\ UNCHANGED <<sourceVars, memory, grabVars, slots, wanted, due, skip,
                 clientVars>>

\* The difference of a monitor's image to the last one encoded.
Frame(m) == [token |-> "frame", monitor |-> m, image |-> slots[m].image, base |-> base[m]]

\* Monitors in their order.
Ordered(ms) ==
  UNION {{o \in [1..n -> ms] :
            /\ \A i, j \in 1..n : i < j => o[i] < o[j]
            /\ \A m \in ms : \E i \in 1..n : o[i] = m} : n \in 0..Monitors}

\* What the library gives for images: nothing when there is no difference.
Frames(ms) ==
  {[i \in DOMAIN o |-> Frame(o[i])] :
     o \in Ordered({m \in ms : slots[m].image # base[m]})}

Token(t) == <<[token |-> t, monitor |-> cur]>>

\* The memory is not the one the agent stands by any more: its byte is "C".
GivenUpSeen ==
  /\ encoder \in {"begun", "wait"} /\ ~skip /\ has # memory
  /\ encoder' = "served"
  /\ UNCHANGED <<sourceVars, memory, grabVars, slots, sessionVars, skip, encVars, out,
                 clientVars>>

\* The client asked for another monitor while this one was waited for.
Skipped ==
  /\ encoder = "wait" \/ (encoder = "begun" /\ cur # All)
  /\ skip /\ encoder' = "served"
  /\ UNCHANGED <<sourceVars, memory, grabVars, slots, sessionVars, skip, encVars, out,
                 clientVars>>

\* It asked before all the monitors were looked at once: there is no list of
\* images, len(None) raises and the encoder ends.
SkippedFirst ==
  /\ encoder = "begun" /\ cur = All /\ skip
  /\ encoder' = "dead" /\ asked' = <<>>
  /\ UNCHANGED <<sourceVars, memory, grabVars, slots, wanted, due, skip,
                 encVars, out, clientVars>>

Looks == encoder \in {"begun", "wait"} /\ ~skip /\ has = memory

\* _singlemon_encode.
Single ==
  /\ Looks /\ cur # All
  /\ LET c == slots[cur]
         new == c.st = "K" /\ c.id # curid[cur] IN
     /\ encoder' = IF new THEN "served" ELSE "wait"
     /\ curst' = IF c.st \in {"K", "P"} THEN [curst EXCEPT ![cur] = c.st] ELSE curst
     /\ curid' = IF new THEN [curid EXCEPT ![cur] = c.id] ELSE curid
     /\ base' = IF new THEN [base EXCEPT ![cur] = c.image] ELSE base
     /\ \E frames \in Frames(IF new THEN {cur} ELSE {}) :
          out' = out \o (IF c.st = "K" /\ curst[cur] = "P" THEN Token("unlocked")
                         ELSE IF c.st = "P" /\ curst[cur] # "P" THEN Token("locked") ELSE <<>>)
                     \o frames
  /\ UNCHANGED <<sourceVars, memory, grabVars, slots, sessionVars, skip, has, cur,
                 clientVars>>

\* _multimon_encode: the monitors are looked at up to the first without
\* permission.  The state of the view begins with a text and is compared with
\* bytes: an end of the lock is noted and never told.
Multi ==
  /\ Looks /\ cur = All
  /\ LET seen == {m \in Mon : \A k \in 1..m : slots[k].st # "P"}
         new == {m \in seen : slots[m].st = "K" /\ slots[m].id # curid[m]}
         st == IF seen = Mon THEN "K" ELSE "P" IN
     /\ encoder' = IF new # {} THEN "served" ELSE "wait"
     /\ curst' = [curst EXCEPT ![All] = st]
     /\ curid' = [m \in Mon |-> IF m \in new THEN slots[m].id ELSE curid[m]]
     /\ base' = [m \in Mon |-> IF m \in new THEN slots[m].image ELSE base[m]]
     /\ \E frames \in Frames(new) :
          out' = out \o (IF st = "P" /\ curst[All] # "P" THEN Token("locked") ELSE <<>>)
                     \o frames
  /\ UNCHANGED <<sourceVars, memory, grabVars, slots, sessionVars, skip, has, cur,
                 clientVars>>

\* The end of the request: the event is cleared, then the end is said.
Served ==
  /\ encoder = "served"
  /\ encoder' = "idle" /\ skip' = FALSE
  /\ out' = Append(out, [token |-> "next", monitor |-> cur])
  /\ UNCHANGED <<sourceVars, memory, grabVars, slots, sessionVars, encVars, clientVars>>

-----------------------------------------------------------------------------
Encodes == Begin \/ GivenUpSeen \/ Skipped \/ SkippedFirst \/ Single \/ Multi \/ Served

ScrNext ==
  \/ ScreenChanges \/ PermissionChanges \/ MonitorsFound \/ BeginRound \/ GetImage
  \/ Switch \/ Ask \/ Show
  \/ Begin \/ GivenUpSeen \/ Skipped \/ SkippedFirst \/ Single \/ Multi \/ Served

\* The threads of the capture, of the session and of the encoder go on, and
\* the client shows what it is sent.
ScrFairness == /\ WF_scrVars(BeginRound) /\ WF_scrVars(GetImage)
               /\ WF_scrVars(Ask) /\ WF_scrVars(Show) /\ WF_scrVars(Encodes)

ScrSpec == ScrInit /\ [][ScrNext]_scrVars /\ ScrFairness

-----------------------------------------------------------------------------
\* What the client applies are differences to the picture it has: it never
\* mixes two images, whatever it asked for while one was on its way.
PictureWhole == \A m \in Mon : picture[m] # Wrong

\* The last that was taken of the monitor is marked as failed: its image is in
\* the memory, and the encoder passes over it (capture.py:369, encoder.py:407).
Marked(m) == slots[m].st = "E" /\ slots[m].image = displayed[m]

\* When the screen is at rest the client comes to show the monitor it asked
\* for, as it is, and no lock but the one there is: unless the encoder died,
\* (the lock) all the monitors are shown, or the last image was marked as failed
\* before the encoder read it, which nothing repairs before the screen changes.
PictureFollows ==
  <>[](\/ encoder = "dead" \/ memory = 0
       \/ /\ view = wanted
          /\ view # All => (locked <=> ~permitted) \/ Marked(view)
          /\ permitted => \A m \in Viewed(view) : picture[m] = displayed[m] \/ Marked(m))
=============================================================================
