------------------------------- MODULE Focus --------------------------------
(* The keyboard focus of the wizard's window (ui/gdi.py): an index into the  *)
(* sequence of its components, which the event loop moves with the mouse,    *)
(* TAB and the activation of the window, while the threads of AsyncInvoke    *)
(* (ui/ui.py) take the page's components out one by one and put others in.   *)
(* TextBox, a component that gets the focus, holds the proofs about it.      *)
EXTENDS Integers, Sequences, FiniteSets

CONSTANT MaxPages    \* bound: the pages shown

VARIABLES
  seq,      \* _focus_sequence: [kind, n]; the page's come after the Base
  idx,      \* _focus_sequence_index, from 1, 0 for None
  lost,     \* _focus_sequence_index_lost
  active, disable,    \* of the window
  buttons,  \* Back, Next and Close are enabled
  told,     \* the components told that they have the focus and not that they lost it
  pressed,  \* the mouse was pressed and not released
  thread,   \* of AsyncInvoke: "idle", "begin", "waitpage", "step", "page", "failed" when
            \* it shows a dialog, "cut" or "dead" when it did not take the page out
  toPut,    \* what is still to be put in the page; <<>> when it has been
  taking,   \* remove_all_components is under way
  dialogs,  \* dialogs shown over the window
  pages

windowVars == <<seq, idx, lost, active, disable, buttons, told, pressed, thread, toPut,
                taking, dialogs, pages>>
focusVars == <<idx, lost, told>>
threadVars == <<seq, buttons, thread, toPut, taking, dialogs, pages>>

Comp(kind, n) == [kind |-> kind, n |-> n]
Base == <<Comp("panel", 0), Comp("panel", 1), Comp("back", 0), Comp("next", 0),
          Comp("close", 0), Comp("panel", 2)>>
\* "ask" is no component: box 1 asks for the focus before the next label is put
Inputs == <<Comp("label", 1), Comp("box", 1), Comp("ask", 1), Comp("label", 2),
            Comp("box", 2)>>
Chooser == <<Comp("label", 1), Comp("radio", 1), Comp("radio", 2)>>
Waiting == <<Comp("label", 1), Comp("bar", 1)>>

FocusInit == /\ seq = Base /\ idx = 0 /\ lost = 0 /\ active = FALSE /\ disable = FALSE
             /\ buttons = TRUE /\ told = {} /\ pressed = FALSE /\ thread = "page"
             /\ toPut = Inputs /\ taking = FALSE /\ dialogs = 0 /\ pages = 0

Focusable(c) == c.kind \in {"box", "radio"} \/ (c.kind \in {"back", "next", "close"} /\ buttons)
\* get_focus_component: none when the index is past the end
Focused == IF idx \in 1..Len(seq) THEN {seq[idx]} ELSE {}

\* _set_focus_component_byindex
\* mutant: the component that had the focus is not told
SetIndexQuiet(i) ==
  IF idx = i THEN UNCHANGED focusVars
  ELSE /\ idx' = i
       /\ told' = told \cup (IF active' /\ i # 0 THEN {seq[i]} ELSE {})
       /\ lost' = IF i # 0 /\ ~active' THEN i ELSE lost
SetIndex(i) ==
  IF idx = i THEN UNCHANGED focusVars
  ELSE /\ idx' = i
       /\ told' = (told \ Focused) \cup
                  (IF active' /\ i \in 1..Len(seq) THEN {seq[i]} ELSE {})
       /\ lost' = IF i # 0 /\ ~active' THEN i ELSE lost

-----------------------------------------------------------------------------
\* The loop of the window.

Accepts == ~disable /\ UNCHANGED <<active, disable, threadVars>>

\* Window.on_mouse: the press focuses the component under it
Press(i) == /\ Accepts /\ i \in 1..Len(seq) /\ Focusable(seq[i]) /\ pressed' = TRUE
            /\ SetIndex(i)
\* A press on nothing that takes the focus.
PressElse == Accepts /\ pressed' = TRUE /\ UNCHANGED focusVars

\* The next component that takes the focus; the wrap leaves out one turn that ends on
\* the index itself, and a window with none to go to does not answer any more.
Order(i) == [k \in 1..(Len(seq) - 1) |-> ((i + k - 1) % Len(seq)) + 1]
NextOf(i) == LET turns == {k \in 1..(Len(seq) - 1) : Focusable(seq[Order(i)[k]])}
             IN IF turns = {} THEN i
                ELSE Order(i)[CHOOSE k \in turns : \A m \in turns : k <= m]
PreviousOf(i) == LET turns == {k \in 1..(Len(seq) - 1) : Focusable(seq[Order(i)[k]])}
                 IN IF turns = {} THEN i
                    ELSE Order(i)[CHOOSE k \in turns : \A m \in turns : k >= m]
Tab(i) == /\ Accepts /\ Focused # {} /\ i \in {NextOf(idx), PreviousOf(idx)}
          /\ SetIndex(i) /\ UNCHANGED pressed

\* _set_activate with next_focus_component
Activate ==
  /\ ~active /\ ~disable /\ active' = TRUE
  /\ IF lost # 0
     THEN /\ idx' = lost /\ lost' = 0
          /\ told' = told \cup (IF lost \in 1..Len(seq) THEN {seq[lost]} ELSE {})
     ELSE IF idx = 0 /\ \E i \in 1..Len(seq) : Focusable(seq[i])
          THEN SetIndex(CHOOSE i \in 1..Len(seq) : /\ Focusable(seq[i])
                          /\ \A k \in 1..(i - 1) : ~Focusable(seq[k]))
          ELSE UNCHANGED focusVars
  /\ UNCHANGED <<disable, pressed, threadVars>>

\* _set_inactivate keeps the index
Inactivate ==
  /\ active /\ active' = FALSE
  /\ idx' = 0 /\ lost' = idx /\ told' = told \ Focused
  /\ UNCHANGED <<disable, pressed, threadVars>>

\* Next: a release over it is enough, wherever the press was
Release ==
  /\ ~disable /\ pressed /\ pressed' = FALSE
  /\ \/ /\ buttons /\ thread = "idle" /\ pages < MaxPages
        /\ thread' = "begin" /\ pages' = pages + 1
        /\ UNCHANGED <<seq, buttons, toPut, taking, dialogs>>
     \/ UNCHANGED threadVars
  /\ UNCHANGED <<focusVars, active, disable>>

\* the last dialog that is answered, and the first, enable the window
Answer == /\ dialogs > 0 /\ dialogs' = dialogs - 1 /\ disable' = FALSE
          /\ UNCHANGED <<focusVars, active, seq, buttons, pressed, thread, toPut, taking,
                         pages>>

-----------------------------------------------------------------------------
\* AsyncInvoke: the page that waits, the step, and the page or the dialog it ends with.
BeginStep == /\ thread = "begin" /\ thread' = "waitpage" /\ buttons' = FALSE
             /\ taking' = TRUE /\ toPut' = Waiting
             /\ UNCHANGED <<seq, focusVars, active, disable, pressed, dialogs, pages>>

Complete ==
  /\ thread = "step"
  /\ \/ /\ \E p \in {Inputs, Chooser} : toPut' = p
        /\ thread' = "page" /\ buttons' = TRUE /\ taking' = TRUE
        /\ UNCHANGED <<disable, dialogs>>
     \/ /\ dialogs' = dialogs + 1 /\ disable' = TRUE /\ thread' = "failed"
        /\ UNCHANGED <<buttons, taking, toPut>>
  /\ UNCHANGED <<seq, focusVars, active, pressed, pages>>

\* a click in the dialog brings the page back
Back == /\ thread = "failed" /\ dialogs = 0
        /\ thread' = "page" /\ buttons' = TRUE /\ taking' = TRUE /\ toPut' = Inputs
        /\ UNCHANGED <<seq, focusVars, active, disable, pressed, dialogs, pages>>

TakenOut(s, i) == [k \in 1..(Len(s) - 1) |-> IF k < i THEN s[k] ELSE s[k + 1]]
PageFirst == Len(Base) + 1

\* remove_all_components: the index stays, and the component is told nothing
Take == /\ taking /\ Len(seq) >= PageFirst /\ Focused # {seq[PageFirst]}
        /\ seq' = TakenOut(seq, PageFirst) /\ told' = told \ {seq[PageFirst]}
        /\ UNCHANGED <<idx, lost, active, disable, buttons, pressed, thread, toPut, taking,
                       dialogs, pages>>
Taken == /\ taking /\ Len(seq) < PageFirst /\ taking' = FALSE
         /\ UNCHANGED <<seq, focusVars, active, disable, buttons, pressed, thread, toPut,
                        dialogs, pages>>

\* to remove the component that has the focus is an error: an argument is missing.
\* In the page that waits it is told, and no click brings a page back.
TakeFails ==
  /\ taking /\ Len(seq) >= PageFirst /\ Focused = {seq[PageFirst]}
  /\ taking' = FALSE /\ toPut' = <<>>
  /\ IF thread = "waitpage"
     THEN thread' = "dead" /\ dialogs' = dialogs + 1 /\ disable' = TRUE
     ELSE thread' = "cut" /\ UNCHANGED <<dialogs, disable>>
  /\ UNCHANGED <<seq, focusVars, active, buttons, pressed, pages>>

\* add_component, and focus
PutNext ==
  /\ ~taking /\ toPut # <<>> /\ Head(toPut).kind # "ask"
  /\ toPut' = Tail(toPut) /\ seq' = Append(seq, Head(toPut))
  /\ UNCHANGED <<focusVars, active, disable, buttons, pressed, thread, taking, dialogs, pages>>
Asks == /\ ~taking /\ toPut # <<>> /\ Head(toPut).kind = "ask"
        /\ toPut' = Tail(toPut)
        /\ UNCHANGED <<seq, active, disable, buttons, pressed, thread, taking, dialogs, pages>>
        /\ SetIndex(Len(seq))

PageBuilt == /\ thread \in {"waitpage", "page"} /\ ~taking /\ toPut = <<>>
             /\ thread' = IF thread = "waitpage" THEN "step" ELSE "idle"
             /\ UNCHANGED <<seq, focusVars, active, disable, buttons, pressed, toPut, taking,
                            dialogs, pages>>

FocusNext == \/ \E i \in 1..Len(seq) : Press(i) \/ Tab(i)
             \/ PressElse \/ Activate \/ Inactivate \/ Release \/ Answer
             \/ BeginStep \/ Complete \/ Back \/ Take \/ Taken \/ TakeFails
             \/ PutNext \/ Asks \/ PageBuilt

FocusSpec == FocusInit /\ [][FocusNext]_windowVars

-----------------------------------------------------------------------------
\* A field that shows the cursor is the one the keys go to, whatever pages were taken
\* away and put in under the index, and only while the window is the active one; the
\* exception is a page that was not taken out whole (remove_all_components raised).
CursorGetsKeys ==
  ~taking /\ thread \notin {"cut", "dead"} => told \subseteq (IF active THEN Focused ELSE {})
=============================================================================
