------------------------------- MODULE HaikuInput -------------------------------
(***************************************************************************)
(* The input-server add-on of Haiku (os_haiku_input): requests of the      *)
(* desktop app become the mouse, modifier and key events of a device.  A   *)
(* request is a list of events put one by one into the server's queue;     *)
(* the first that cannot be put ends the request, except that modifiers    *)
(* told down are always told up again.                                     *)
(*                                                                         *)
(* External: the server, which knows the buttons, modifiers and keys that  *)
(* the events told it, and the keyboard of the machine, used between the   *)
(* requests.                                                               *)
(***************************************************************************)
EXTENDS Naturals, Sequences, SequencesExt

CONSTANTS Buttons,      \* the masks: 1 the primary button, 2 the secondary, 4 the third
          Modifiers,    \* ctrl, shift, command, option
          MapModifiers  \* the modifiers of the keymap's tables

Primary == 1

VARIABLES buttons,      \* fButtons
          told,         \* the buttons of the last mouse event in the queue
          todo,         \* the mouse events the request has still to put
          from, to,     \* the buttons before the transition and asked for
          mods, key,    \* the modifiers, and whether a key is down, for the server
          held,         \* the modifiers held on the machine's keyboard
          press,        \* the key request: [stage, before, active, named]
          lost          \* the release events that could not be put

vars == <<buttons, told, todo, from, to, mods, key, held, press, lost>>
mouse == <<buttons, told, todo, from, to>>
keyboard == <<mods, key, held, press>>

NoPress == [stage |-> "idle", before |-> {}, active |-> {}, named |-> FALSE]

Init ==
    /\ buttons = {} /\ told = {} /\ todo = <<>> /\ from = {} /\ to = {}
    /\ mods = {} /\ key = FALSE /\ held = {} /\ press = NoPress /\ lost = {}

Ready == todo = <<>> /\ press.stage = "idle"

-----------------------------------------------------------------------------
\* The events of a transition, each with the buttons it shows: what is let go is
\* released first, in the order of the masks, then the new ones are pressed.
InOrder(S) == SetToSortSeq(S, <)
Releases(b, g) == LET r == InOrder(b \ g) IN [i \in 1..Len(r) |-> b \ {r[j] : j \in 1..i}]
Presses(b, g) == LET p == InOrder(g \ b) IN [i \in 1..Len(p) |-> (b \cap g) \cup {p[j] : j \in 1..i}]

SetButtons(b, g) == Releases(b, g) \o Presses(b, g)

Click(b, count) ==
    SetButtons(b, {}) \o FlattenSeq([i \in 1..count |-> SetButtons({}, {Primary}) \o SetButtons({Primary}, {})])

\* _HandleMouse: 64 a click, 128 a double click, else the three buttons.
HandleMouse ==
    /\ Ready
    /\ \/ \E n \in {1, 2} : todo' = Click(buttons, n) /\ to' = {Primary}
       \/ \E g \in SUBSET Buttons : g # buttons /\ todo' = SetButtons(buttons, g) /\ to' = g
    /\ from' = buttons
    /\ UNCHANGED <<buttons, told, keyboard, lost>>

\* _EnqueueMouse: fButtons has changed already when the event is put.
EnqueueMouse ==
    /\ todo # <<>> /\ buttons' = Head(todo)
    /\ \/ told' = Head(todo) /\ todo' = Tail(todo) /\ UNCHANGED lost
       \/ /\ told' = told /\ todo' = <<>>
          /\ lost' = lost \cup (IF Head(todo) \subseteq buttons THEN {"button"} ELSE {})
    /\ UNCHANGED <<from, to, keyboard>>

-----------------------------------------------------------------------------
\* _PrepareModifiers, _AddModifierMask and _FindMappedKey: those of the server's
\* state, of the request, and of the table where the character is found.
HandleKeyboard ==
    /\ Ready
    /\ \E asked \in SUBSET Modifiers, table \in MapModifiers :
          press' = [stage |-> "begin", before |-> mods, active |-> mods \cup asked \cup table, named |-> FALSE]
    /\ UNCHANGED <<mouse, mods, key, held, lost>>

\* _PulseModifier: the key is itself a modifier.
PulseModifier ==
    /\ Ready
    /\ \E m \in Modifiers : press' = [stage |-> "begin", before |-> mods, active |-> mods \cup {m}, named |-> TRUE]
    /\ UNCHANGED <<mouse, mods, key, held, lost>>

\* _BeginModifiers: nothing is told when nothing changes; a request whose first
\* event cannot be put ends.
BeginModifiers ==
    /\ press.stage = "begin"
    /\ \/ /\ mods' = press.active
          /\ press' = [press EXCEPT !.stage = IF press.named THEN "end" ELSE "down"]
       \/ press.active # press.before /\ press' = NoPress /\ UNCHANGED mods
    /\ UNCHANGED <<mouse, key, held, lost>>

KeyDown ==
    /\ press.stage = "down"
    /\ \/ key' = TRUE /\ press' = [press EXCEPT !.stage = "up"]
       \/ key' = key /\ press' = [press EXCEPT !.stage = "end"]
    /\ UNCHANGED <<mouse, mods, held, lost>>

KeyUp ==
    /\ press.stage = "up"
    /\ press' = [press EXCEPT !.stage = "end"]
    /\ \/ key' = FALSE /\ UNCHANGED lost
       \/ key' = key /\ lost' = lost \cup {"key"}
    /\ UNCHANGED <<mouse, mods, held>>

\* _EndModifiers, by _FinishModifiers whatever became of the key.
FinishModifiers ==
    /\ press.stage = "end" /\ press' = NoPress
    /\ \/ mods' = press.before /\ UNCHANGED lost
       \/ press.active # press.before /\ mods' = mods /\ lost' = lost \cup {"modifier"}
    /\ UNCHANGED <<mouse, key, held>>

-----------------------------------------------------------------------------
\* The machine's own keyboard (external).
HoldOrRelease ==
    /\ Ready
    /\ \E m \in Modifiers :
          IF m \in held THEN held' = held \ {m} /\ mods' = mods \ {m}
                        ELSE held' = held \cup {m} /\ mods' = mods \cup {m}
    /\ UNCHANGED <<mouse, key, press, lost>>

Next ==
    \/ HandleMouse \/ EnqueueMouse \/ HandleKeyboard \/ PulseModifier \/ BeginModifiers
    \/ KeyDown \/ KeyUp \/ FinishModifiers \/ HoldOrRelease

Spec == Init /\ [][Next]_vars

-----------------------------------------------------------------------------
\* A transition never shows a button of the old state together with one that was
\* not in it ("must not briefly report both buttons down", _SetButtons), whatever
\* became of the transitions before it.
NeverBoth == told # from => told \subseteq from \/ told \subseteq to \/ "button" \in lost

\* Between requests the server knows no modifier, key or button that nobody
\* presses, unless the event that would have released it could not be put: the
\* modifiers end what they began also when a key event fails (_FinishModifiers).
NothingStuck ==
    Ready =>
        /\ "modifier" \notin lost => mods = held
        /\ "key" \notin lost => ~key
        /\ "button" \notin lost => told \subseteq buttons
=============================================================================
