------------------------------- MODULE TextBox --------------------------------
(* The text box of ui/gdi.py: the keys, the clipboard and the mouse of       *)
(* TextBox, with the focus of its window.  The code keeps a cursor and the   *)
(* two ends of a selection, which Editor describes by the place it started.  *)
(* The theorems about both, TextBox and Focus, stand at its end.             *)
EXTENDS Focus, SequenceTheorems, TLAPS

CONSTANTS Char,        \* the characters
          MaxText,     \* bound: the length of a text
          RightToLeft  \* _window._rtl

ASSUME TextAssumption == MaxText \in Nat \ {0} /\ RightToLeft \in BOOLEAN

VARIABLES
  text, cursor, selStart, selEnd,  \* _text, _cursor_position, _selection_start, _end
  clip,                            \* the clipboard of the system
  hasFocus

textVars == <<text, cursor, selStart, selEnd, clip, hasFocus>>
sel == <<cursor, selStart, selEnd>>

TextInit == /\ text = <<>> /\ cursor = 0 /\ selStart = 0 /\ selEnd = 0 /\ clip = <<>>
        /\ hasFocus = FALSE

Typable == {<<c>> : c \in Char}

Put(p) == cursor' = p /\ selStart' = p /\ selEnd' = p
Select(p, a, b) == cursor' = p /\ selStart' = a /\ selEnd' = b
Without(lo, hi) == SubSeq(text, 1, lo) \o SubSeq(text, hi + 1, Len(text))
Selected == SubSeq(text, selStart + 1, selEnd)

\* _on_keyboard_char, of a key or of what is pasted
Typed(s) ==
  LET lo == IF selStart # selEnd THEN selStart ELSE cursor
      hi == IF selStart # selEnd THEN selEnd ELSE cursor
  IN /\ text' = SubSeq(text, 1, lo) \o s \o SubSeq(text, hi + 1, Len(text))
     /\ Put(lo + Len(s))
     /\ UNCHANGED <<clip, hasFocus>>

Backspace ==
  /\ IF selStart # selEnd THEN text' = Without(selStart, selEnd) /\ Put(selStart)
     ELSE IF cursor > 0 THEN text' = Without(cursor - 1, cursor) /\ Put(cursor - 1)
     ELSE UNCHANGED text /\ Put(cursor)
  /\ UNCHANGED <<clip, hasFocus>>

DeleteKey ==
  /\ IF selStart # selEnd THEN text' = Without(selStart, selEnd) /\ Put(selStart)
     ELSE /\ text' = IF cursor < Len(text) THEN Without(cursor, cursor + 1) ELSE text
          /\ Put(cursor)
  /\ UNCHANGED hasFocus

\* The key that moves towards the start, LEFT or RIGHT.
Backward(shift) ==
  /\ IF cursor > 0
     THEN IF shift /\ cursor = selStart THEN Select(cursor - 1, cursor - 1, selEnd)
          ELSE IF shift /\ cursor = selEnd THEN Select(cursor - 1, selStart, cursor - 1)
          ELSE Put(cursor - 1)
     ELSE IF shift THEN UNCHANGED sel ELSE Put(cursor)
  /\ UNCHANGED <<text, clip, hasFocus>>

Forward(shift) ==
  /\ IF cursor < Len(text)
     THEN IF shift /\ cursor = selEnd THEN Select(cursor + 1, selStart, cursor + 1)
          ELSE IF shift /\ cursor = selStart THEN Select(cursor + 1, cursor + 1, selEnd)
          ELSE Put(cursor + 1)
     ELSE IF shift THEN UNCHANGED sel ELSE Put(cursor)
  /\ UNCHANGED <<text, clip, hasFocus>>

Home(shift) ==
  /\ IF cursor > 0
     THEN IF shift /\ cursor = selStart THEN Select(0, 0, selEnd)
          ELSE IF shift /\ cursor = selEnd THEN Select(0, 0, selStart)
          ELSE Put(0)
     ELSE IF shift THEN UNCHANGED sel ELSE Put(cursor)
  /\ UNCHANGED <<text, clip, hasFocus>>

\* mutant: the selection that grew backwards keeps its far end
EndKeepsStart(shift) ==
  /\ IF cursor < Len(text)
     THEN IF shift /\ cursor = selEnd THEN Select(Len(text), selStart, Len(text))
          ELSE IF shift /\ cursor = selStart THEN Select(Len(text), selStart, Len(text))
          ELSE Put(Len(text))
     ELSE IF shift THEN UNCHANGED sel ELSE Put(cursor)
  /\ UNCHANGED <<text, clip, hasFocus>>
End(shift) ==
  /\ IF cursor < Len(text)
     THEN IF shift /\ cursor = selEnd THEN Select(Len(text), selStart, Len(text))
          ELSE IF shift /\ cursor = selStart THEN Select(Len(text), selEnd, Len(text))
          ELSE Put(Len(text))
     ELSE IF shift THEN UNCHANGED sel ELSE Put(cursor)
  /\ UNCHANGED <<text, clip, hasFocus>>

Key(name, shift) ==
  \/ name = "BACKSPACE" /\ Backspace
  \/ name = "DELETE" /\ DeleteKey /\ UNCHANGED clip
  \/ name = (IF RightToLeft THEN "RIGHT" ELSE "LEFT") /\ Backward(shift)
  \/ name = (IF RightToLeft THEN "LEFT" ELSE "RIGHT") /\ Forward(shift)
  \/ name = "HOME" /\ Home(shift)
  \/ name = "END" /\ End(shift)

\* _on_keyboard_command: a cut of nothing deletes what follows the cursor
Command(name) ==
  \/ name = "COPY" /\ clip' = (IF Selected # <<>> THEN Selected ELSE clip)
     /\ UNCHANGED <<text, sel, hasFocus>>
  \/ name = "CUT" /\ clip' = (IF Selected # <<>> THEN Selected ELSE clip) /\ DeleteKey
  \/ name = "PASTE" /\ clip # <<>> /\ Len(text) + Len(clip) <= MaxText /\ Typed(clip)

\* A keyboard event is for the component that has the focus.
OnKeyboard == /\ hasFocus
              /\ \/ \E s \in Typable : Len(text) < MaxText /\ Typed(s)
                 \/ \E name \in {"BACKSPACE", "DELETE", "LEFT", "RIGHT", "HOME", "END"},
                      shift \in BOOLEAN : Key(name, shift)
                 \/ \E name \in {"COPY", "CUT", "PASTE"} : Command(name)

\* BUTTON_DOWN: Window.on_mouse gives the focus first.
OnMouse == \E p \in 0..Len(text) : Put(p) /\ hasFocus' = TRUE /\ UNCHANGED <<text, clip>>

\* on_focus_get: TAB puts the cursor at the end, the return of the window does not move it.
OnFocusGet(mode) ==
  /\ ~hasFocus /\ hasFocus' = TRUE
  /\ IF mode = "KEYBOARD" THEN Put(Len(text)) ELSE UNCHANGED sel
  /\ UNCHANGED <<text, clip>>

OnFocusLost == /\ hasFocus /\ hasFocus' = FALSE
               /\ Select(cursor, 0, 0)
               /\ UNCHANGED <<text, clip>>

\* set_text, when the page is made
SetText(s) == /\ ~hasFocus /\ text' = s /\ Put(Len(s)) /\ UNCHANGED <<clip, hasFocus>>

TextNext == \/ OnKeyboard \/ OnMouse \/ OnFocusLost
        \/ \E mode \in {"KEYBOARD", "WINDOW", "CODE"} : OnFocusGet(mode)
        \/ \E s \in Typable : SetText(s)

TextSpec == TextInit /\ [][TextNext]_textVars

\* The selection started at the end where the cursor is not.
Anchor == IF selStart = selEnd THEN IF cursor = selStart THEN cursor ELSE -1
          ELSE IF cursor = selStart THEN selEnd ELSE selStart

Edit == INSTANCE Editor WITH content <- text, caret <- cursor, anchor <- Anchor,
                             clipboard <- clip,
                             Clips <- UNION {[1..n -> Char] : n \in 0..MaxText}

\* What is typed, deleted, copied or selected is what the field shows as selected.
IsEditor == Edit!Spec

-----------------------------------------------------------------------------
\* The code's two ends are a selection: the cursor is at one of them.
TextInv ==
  /\ text \in Seq(Char) /\ Len(text) <= MaxText
  /\ clip \in Seq(Char) /\ Len(clip) <= MaxText
  /\ cursor \in 0..Len(text) /\ selStart \in 0..Len(text) /\ selEnd \in 0..Len(text)
  /\ selStart <= selEnd
  /\ selStart # selEnd => cursor \in {selStart, selEnd}

\* s takes the place of the part of t from lo to hi.
Splice(t, lo, s, hi) == SubSeq(t, 1, lo) \o s \o SubSeq(t, hi + 1, Len(t))

LEMMA Spliced ==
  ASSUME NEW t \in Seq(Char), NEW s \in Seq(Char), NEW lo \in 0..Len(t), NEW hi \in lo..Len(t)
  PROVE  /\ SubSeq(t, 1, lo) \in Seq(Char)
         /\ Splice(t, lo, s, hi) \in Seq(Char)
         /\ Len(Splice(t, lo, s, hi)) = lo + Len(s) + (Len(t) - hi)
<1>1. Len(t) \in Nat /\ Len(s) \in Nat /\ \A i \in 1..Len(t) : t[i] \in Char
  BY LenProperties, ElementOfSeq
<1>2. SubSeq(t, 1, lo) \in Seq(Char) /\ Len(SubSeq(t, 1, lo)) = lo
  <2>1. \A i \in 1..lo : t[i] \in Char
    BY <1>1
  <2>2. QED
    BY <1>1, <2>1, SubSeqProperties
<1>3. /\ SubSeq(t, hi + 1, Len(t)) \in Seq(Char)
      /\ Len(SubSeq(t, hi + 1, Len(t))) = Len(t) - hi
  <2>1. \A i \in (hi + 1)..Len(t) : t[i] \in Char
    BY <1>1
  <2>2. QED
    BY <1>1, <2>1, SubSeqProperties
<1>4. SubSeq(t, 1, lo) \o s \in Seq(Char) /\ Len(SubSeq(t, 1, lo) \o s) = lo + Len(s)
  BY <1>1, <1>2, ConcatProperties
<1>5. \A a \in Seq(Char), b \in Seq(Char) :
        a \o b \in Seq(Char) /\ Len(a \o b) = Len(a) + Len(b)
  BY ConcatProperties
<1>6. /\ (SubSeq(t, 1, lo) \o s) \o SubSeq(t, hi + 1, Len(t)) \in Seq(Char)
      /\ Len((SubSeq(t, 1, lo) \o s) \o SubSeq(t, hi + 1, Len(t)))
           = Len(SubSeq(t, 1, lo) \o s) + Len(SubSeq(t, hi + 1, Len(t)))
  BY <1>3, <1>4, <1>5, Zenon
<1>7. QED
  BY <1>1, <1>2, <1>3, <1>4, <1>6 DEF Splice

\* Without puts nothing in that place.
LEMMA WithoutSplices ==
  ASSUME TextInv, NEW lo \in 0..Len(text), NEW hi \in lo..Len(text)
  PROVE  Without(lo, hi) = Splice(text, lo, <<>>, hi)
<1>1. SubSeq(text, 1, lo) \in Seq(Char)
  BY Spliced, EmptySeq DEF TextInv
<1>2. QED
  BY <1>1, ConcatEmptySeq DEF Without, Splice

\* What can be typed or pasted is a text of the abstract field.
LEMMA ClipsContain ==
  ASSUME NEW s \in Seq(Char), Len(s) <= MaxText
  PROVE  s \in UNION {[1..n -> Char] : n \in 0..MaxText}
BY TextAssumption, LenProperties

LEMMA TypableIs == \A s \in Typable : s \in Seq(Char) /\ Len(s) = 1
<1> SUFFICES ASSUME NEW c \in Char PROVE <<c>> \in Seq(Char) /\ Len(<<c>>) = 1
  BY Zenon DEF Typable
<1> QED
  OBVIOUS

LEMMA SelectedIs ==
  ASSUME TextInv
  PROVE  /\ Selected \in Seq(Char) /\ Len(Selected) = selEnd - selStart
         /\ Selected # <<>> <=> selStart # selEnd
<1>1. Len(text) \in Nat /\ \A i \in (selStart + 1)..selEnd : text[i] \in Char
  BY LenProperties, ElementOfSeq DEF TextInv
<1>2. Selected \in Seq(Char) /\ Len(Selected) = selEnd - selStart
  BY <1>1, SubSeqProperties DEF TextInv, Selected
<1>3. QED
  BY <1>2, EmptySeq DEF TextInv

\* The abstract field's ends of the selection.
LEMMA AnchorEnds ==
  ASSUME TextInv
  PROVE  /\ Edit!Lower = IF selStart # selEnd THEN selStart ELSE cursor
         /\ Edit!Upper = IF selStart # selEnd THEN selEnd ELSE cursor
BY LenProperties DEF TextInv, Anchor, Edit!Lower, Edit!Upper, Edit!None

LEMMA InitText == TextInit => TextInv /\ Edit!Init
  BY TextAssumption, EmptySeq DEF TextInit, TextInv, Edit!Init, Anchor

\* What each operation keeps and which step of the field it is, if it is one.
Refines == TextInv' /\ [Edit!Next]_<<text, cursor, Anchor, clip>>

LEMMA TypedRefines ==
  ASSUME TextInv, NEW s \in Seq(Char), Len(s) <= MaxText, Len(text) + Len(s) <= MaxText, Typed(s)
  PROVE  Refines
<1> DEFINE lo == IF selStart # selEnd THEN selStart ELSE cursor
           hi == IF selStart # selEnd THEN selEnd ELSE cursor
<1>1. /\ lo \in 0..Len(text) /\ hi \in lo..Len(text) /\ Len(text) \in Nat /\ Len(s) \in Nat
  BY LenProperties DEF TextInv
<1>2. /\ text' = Splice(text, lo, s, hi)
      /\ cursor' = lo + Len(s) /\ selStart' = lo + Len(s) /\ selEnd' = lo + Len(s)
      /\ clip' = clip
  BY DEF Typed, Put, Splice
<1>3. text' \in Seq(Char) /\ Len(text') = lo + Len(s) + (Len(text) - hi)
  <2> HIDE DEF lo, hi
  <2>1. text \in Seq(Char)
    BY DEF TextInv
  <2>2. QED
    BY <1>1, <1>2, <2>1, Spliced
<1>4. TextInv'
  <2> HIDE DEF lo, hi
  <2>1. Len(text') \in Nat /\ Len(text') <= MaxText /\ lo + Len(s) \in 0..Len(text')
    BY <1>1, <1>3, TextAssumption
  <2>2. QED
    BY <1>2, <1>3, <2>1 DEF TextInv
<1>5. lo = Edit!Lower /\ hi = Edit!Upper /\ Anchor' = lo + Len(s)
  BY <1>2, AnchorEnds DEF Anchor
<1>6. Edit!Type(s)
  BY <1>2, <1>5 DEF Edit!Type, Edit!Replace, Splice
<1>7. QED
  BY <1>4, <1>6, ClipsContain DEF Refines, Edit!Next

\* A movement of the cursor, which may extend the selection.
LEMMA MoveRefines ==
  ASSUME TextInv, TextInv', NEW p \in 0..Len(text), NEW extend \in BOOLEAN,
         UNCHANGED <<text, clip>>, cursor' = p,
         Anchor' = IF extend /\ Anchor # -1 THEN Anchor ELSE p
  PROVE  Refines
<1>1. Edit!Move(p, extend)
  BY DEF Edit!Move, Edit!None
<1>2. QED
  BY <1>1 DEF Refines, Edit!Next

\* The cursor goes somewhere and nothing is selected any more.
LEMMA PutRefines ==
  ASSUME TextInv, NEW p \in 0..Len(text), UNCHANGED <<text, clip>>, Put(p)
  PROVE  Refines
<1>1. TextInv' /\ Anchor' = p /\ cursor' = p
  BY LenProperties DEF TextInv, Put, Anchor
<1>2. QED
  BY <1>1, MoveRefines

\* The part from lo to hi goes, the selection if there is one.
LEMMA WithoutRefines ==
  ASSUME TextInv, NEW lo \in 0..Len(text), NEW hi \in lo..Len(text),
         text' = Without(lo, hi), Put(lo), clip' = clip,
         \/ selStart # selEnd /\ lo = selStart /\ hi = selEnd
         \/ selStart = selEnd /\ lo = cursor - 1 /\ hi = cursor
         \/ selStart = selEnd /\ lo = cursor /\ hi = cursor + 1
  PROVE  Refines
<1>1. text' = Splice(text, lo, <<>>, hi)
  BY WithoutSplices
<1>2. /\ text' \in Seq(Char) /\ Len(text') = lo + (Len(text) - hi)
      /\ Len(text) \in Nat /\ <<>> \in Seq(Char) /\ Len(<<>>) = 0
  <2>1. text \in Seq(Char) /\ <<>> \in Seq(Char) /\ Len(<<>>) = 0
    BY EmptySeq DEF TextInv
  <2>2. Len(text) \in Nat
    BY <2>1, LenProperties
  <2>3. \A s \in Seq(Char) :
          /\ Splice(text, lo, s, hi) \in Seq(Char)
          /\ Len(Splice(text, lo, s, hi)) = lo + Len(s) + (Len(text) - hi)
    BY <2>1, Spliced
  <2>4. /\ Splice(text, lo, <<>>, hi) \in Seq(Char)
        /\ Len(Splice(text, lo, <<>>, hi)) = lo + Len(<<>>) + (Len(text) - hi)
    BY <2>1, <2>3, Zenon
  <2>5. QED
    BY <1>1, <2>1, <2>2, <2>4
<1>3. TextInv' /\ Anchor' = lo /\ cursor' = lo
  <2>1. Len(text') \in Nat /\ Len(text') <= MaxText /\ lo \in 0..Len(text')
    BY <1>2, TextAssumption DEF TextInv
  <2>2. QED
    BY <1>2, <2>1 DEF TextInv, Put, Anchor
<1>4. Edit!Replace(lo, hi, <<>>)
  BY <1>1, <1>2, <1>3 DEF Edit!Replace, Put, Splice
<1>5. CASE selStart # selEnd /\ lo = selStart /\ hi = selEnd
  <2>1. Edit!Lower = lo /\ Edit!Upper = hi
    BY <1>5, AnchorEnds
  <2>2. Edit!Type(<<>>)
    BY <1>4, <2>1 DEF Edit!Type
  <2>3. <<>> \in UNION {[1..n -> Char] : n \in 0..MaxText}
    <3>1. Len(<<>>) <= MaxText
      BY <1>2, TextAssumption
    <3>2. \A s \in Seq(Char) :
            Len(s) <= MaxText => s \in UNION {[1..n -> Char] : n \in 0..MaxText}
      BY ClipsContain
    <3>3. QED
      BY <1>2, <3>1, <3>2, Zenon
  <2>4. QED
    BY <1>3, <2>2, <2>3, Zenon DEF Refines, Edit!Next
<1>6. CASE selStart = selEnd /\ lo = cursor - 1 /\ hi = cursor
  BY <1>2, <1>3, <1>4, <1>6, AnchorEnds DEF Refines, Edit!Next, Edit!DeleteBack, TextInv
<1>7. CASE selStart = selEnd /\ lo = cursor /\ hi = cursor + 1
  BY <1>2, <1>3, <1>4, <1>7, AnchorEnds DEF Refines, Edit!Next, Edit!DeleteNext, TextInv
<1>8. QED
  BY <1>5, <1>6, <1>7

LEMMA DeletesRefine ==
  ASSUME TextInv
  PROVE  /\ Backspace => Refines
         /\ DeleteKey /\ clip' = clip => Refines
<1>0. Len(text) \in Nat
  BY LenProperties DEF TextInv
<1>1. CASE selStart # selEnd
  BY <1>0, <1>1, WithoutRefines DEF TextInv, Backspace, DeleteKey
<1>2. CASE selStart = selEnd
  <2>1. Backspace => Refines
    BY <1>0, <1>2, WithoutRefines, PutRefines DEF TextInv, Backspace
  <2>2. ASSUME DeleteKey, clip' = clip, cursor < Len(text) PROVE Refines
    <3>1. text' = Without(cursor, cursor + 1) /\ Put(cursor)
      BY <1>2, <2>2 DEF DeleteKey
    <3>2. QED
      BY <1>0, <1>2, <2>2, <3>1, WithoutRefines DEF TextInv
  <2>3. ASSUME DeleteKey, clip' = clip, ~(cursor < Len(text)) PROVE Refines
    BY <1>0, <1>2, <2>3, PutRefines DEF TextInv, DeleteKey
  <2>4. QED
    BY <2>1, <2>2, <2>3
<1>3. QED
  BY <1>1, <1>2

\* The keys that move the cursor; with shift the selection keeps its other end.
LEMMA MovesRefine ==
  ASSUME TextInv, NEW shift \in BOOLEAN
  PROVE  /\ Backward(shift) => Refines
         /\ Forward(shift) => Refines
         /\ Home(shift) => Refines
         /\ End(shift) => Refines
<1>1. Len(text) \in Nat
  BY LenProperties DEF TextInv
<1>2. ASSUME UNCHANGED <<text, clip, sel>> PROVE Refines
  BY <1>2 DEF TextInv, Refines, Anchor, sel
<1>3. ASSUME NEW p \in 0..Len(text), NEW e \in 0..Len(text), UNCHANGED <<text, clip>>,
             e = Anchor,
             \/ Select(p, p, e) /\ p <= e
             \/ Select(p, e, p) /\ e <= p
      PROVE  Refines
  <2>1. TextInv'
    BY <1>1, <1>3 DEF TextInv, Select
  <2>2. Anchor = e /\ Anchor' = e /\ cursor' = p
    BY <1>1, <1>3 DEF TextInv, Select, Anchor
  <2>3. Anchor' = IF TRUE /\ Anchor # -1 THEN Anchor ELSE p
    BY <1>3, <2>2
  <2>4. QED
    BY <1>3, <2>1, <2>2, <2>3, MoveRefines
<1>4. Backward(shift) => Refines
  <2> SUFFICES ASSUME Backward(shift) PROVE Refines
    OBVIOUS
  <2>1. CASE cursor > 0 /\ shift /\ cursor = selStart
    <3>1. Select(cursor - 1, cursor - 1, selEnd) /\ UNCHANGED <<text, clip>>
      BY <2>1 DEF Backward
    <3>2. /\ cursor - 1 \in 0..Len(text) /\ selEnd \in 0..Len(text)
          /\ cursor - 1 <= selEnd /\ selEnd = Anchor
      BY <1>1, <2>1 DEF TextInv, Anchor
    <3>3. QED
      BY <1>3, <3>1, <3>2, Zenon
  <2>2. CASE cursor > 0 /\ shift /\ cursor = selEnd /\ ~(cursor = selStart)
    <3>1. Select(cursor - 1, selStart, cursor - 1) /\ UNCHANGED <<text, clip>>
      BY <2>2 DEF Backward
    <3>2. /\ cursor - 1 \in 0..Len(text) /\ selStart \in 0..Len(text)
          /\ selStart <= cursor - 1 /\ selStart = Anchor
      BY <1>1, <2>2 DEF TextInv, Anchor
    <3>3. QED
      BY <1>3, <3>1, <3>2, Zenon
  <2>3. CASE cursor > 0 /\ ~(shift /\ cursor = selStart) /\ ~(shift /\ cursor = selEnd)
    <3>1. Put(cursor - 1) /\ UNCHANGED <<text, clip>>
      BY <2>3 DEF Backward
    <3>2. QED
      BY <1>1, <2>3, <3>1, PutRefines DEF TextInv
  <2>4. CASE ~(cursor > 0)
    <3>1. (UNCHANGED sel \/ Put(cursor)) /\ UNCHANGED <<text, clip>>
      BY <2>4 DEF Backward
    <3>2. QED
      BY <1>2, <3>1, PutRefines DEF TextInv, sel
  <2>5. QED
    BY <2>1, <2>2, <2>3, <2>4
<1>5. Forward(shift) => Refines
  <2> SUFFICES ASSUME Forward(shift) PROVE Refines
    OBVIOUS
  <2>1. CASE cursor < Len(text) /\ shift /\ cursor = selEnd
    <3>1. Select(cursor + 1, selStart, cursor + 1) /\ UNCHANGED <<text, clip>>
      BY <2>1 DEF Forward
    <3>2. /\ cursor + 1 \in 0..Len(text) /\ selStart \in 0..Len(text)
          /\ selStart <= cursor + 1 /\ selStart = Anchor
      BY <1>1, <2>1 DEF TextInv, Anchor
    <3>3. QED
      BY <1>3, <3>1, <3>2, Zenon
  <2>2. CASE cursor < Len(text) /\ shift /\ cursor = selStart /\ ~(cursor = selEnd)
    <3>1. Select(cursor + 1, cursor + 1, selEnd) /\ UNCHANGED <<text, clip>>
      BY <2>2 DEF Forward
    <3>2. /\ cursor + 1 \in 0..Len(text) /\ selEnd \in 0..Len(text)
          /\ cursor + 1 <= selEnd /\ selEnd = Anchor
      BY <1>1, <2>2 DEF TextInv, Anchor
    <3>3. QED
      BY <1>3, <3>1, <3>2, Zenon
  <2>3. CASE cursor < Len(text) /\ ~(shift /\ cursor = selEnd) /\ ~(shift /\ cursor = selStart)
    <3>1. Put(cursor + 1) /\ UNCHANGED <<text, clip>>
      BY <2>3 DEF Forward
    <3>2. QED
      BY <1>1, <2>3, <3>1, PutRefines DEF TextInv
  <2>4. CASE ~(cursor < Len(text))
    <3>1. (UNCHANGED sel \/ Put(cursor)) /\ UNCHANGED <<text, clip>>
      BY <2>4 DEF Forward
    <3>2. QED
      BY <1>2, <3>1, PutRefines DEF TextInv, sel
  <2>5. QED
    BY <2>1, <2>2, <2>3, <2>4
<1>6. Home(shift) => Refines
  <2> SUFFICES ASSUME Home(shift) PROVE Refines
    OBVIOUS
  <2>1. CASE cursor > 0 /\ shift /\ cursor = selStart
    <3>1. Select(0, 0, selEnd) /\ UNCHANGED <<text, clip>>
      BY <2>1 DEF Home
    <3>2. /\ 0 \in 0..Len(text) /\ selEnd \in 0..Len(text)
          /\ 0 <= selEnd /\ selEnd = Anchor
      BY <1>1, <2>1 DEF TextInv, Anchor
    <3>3. QED
      BY <1>3, <3>1, <3>2, Zenon
  <2>2. CASE cursor > 0 /\ shift /\ cursor = selEnd /\ ~(cursor = selStart)
    <3>1. Select(0, 0, selStart) /\ UNCHANGED <<text, clip>>
      BY <2>2 DEF Home
    <3>2. /\ 0 \in 0..Len(text) /\ selStart \in 0..Len(text)
          /\ 0 <= selStart /\ selStart = Anchor
      BY <1>1, <2>2 DEF TextInv, Anchor
    <3>3. QED
      BY <1>3, <3>1, <3>2, Zenon
  <2>3. CASE cursor > 0 /\ ~(shift /\ cursor = selStart) /\ ~(shift /\ cursor = selEnd)
    <3>1. Put(0) /\ UNCHANGED <<text, clip>>
      BY <2>3 DEF Home
    <3>2. QED
      BY <1>1, <2>3, <3>1, PutRefines DEF TextInv
  <2>4. CASE ~(cursor > 0)
    <3>1. (UNCHANGED sel \/ Put(cursor)) /\ UNCHANGED <<text, clip>>
      BY <2>4 DEF Home
    <3>2. QED
      BY <1>2, <3>1, PutRefines DEF TextInv, sel
  <2>5. QED
    BY <2>1, <2>2, <2>3, <2>4
<1>7. End(shift) => Refines
  <2> SUFFICES ASSUME End(shift) PROVE Refines
    OBVIOUS
  <2>1. CASE cursor < Len(text) /\ shift /\ cursor = selEnd
    <3>1. Select(Len(text), selStart, Len(text)) /\ UNCHANGED <<text, clip>>
      BY <2>1 DEF End
    <3>2. /\ Len(text) \in 0..Len(text) /\ selStart \in 0..Len(text)
          /\ selStart <= Len(text) /\ selStart = Anchor
      BY <1>1, <2>1 DEF TextInv, Anchor
    <3>3. QED
      BY <1>3, <3>1, <3>2, Zenon
  <2>2. CASE cursor < Len(text) /\ shift /\ cursor = selStart /\ ~(cursor = selEnd)
    <3>1. Select(Len(text), selEnd, Len(text)) /\ UNCHANGED <<text, clip>>
      BY <2>2 DEF End
    <3>2. /\ Len(text) \in 0..Len(text) /\ selEnd \in 0..Len(text)
          /\ selEnd <= Len(text) /\ selEnd = Anchor
      BY <1>1, <2>2 DEF TextInv, Anchor
    <3>3. QED
      BY <1>3, <3>1, <3>2, Zenon
  <2>3. CASE cursor < Len(text) /\ ~(shift /\ cursor = selEnd) /\ ~(shift /\ cursor = selStart)
    <3>1. Put(Len(text)) /\ UNCHANGED <<text, clip>>
      BY <2>3 DEF End
    <3>2. QED
      BY <1>1, <2>3, <3>1, PutRefines DEF TextInv
  <2>4. CASE ~(cursor < Len(text))
    <3>1. (UNCHANGED sel \/ Put(cursor)) /\ UNCHANGED <<text, clip>>
      BY <2>4 DEF End
    <3>2. QED
      BY <1>2, <3>1, PutRefines DEF TextInv, sel
  <2>5. QED
    BY <2>1, <2>2, <2>3, <2>4
<1>8. QED
  BY <1>4, <1>5, <1>6, <1>7

LEMMA CommandRefines ==
  ASSUME TextInv, NEW name \in {"COPY", "CUT", "PASTE"}, Command(name)
  PROVE  Refines
<1>1. Len(text) \in Nat
  BY LenProperties DEF TextInv
<1>2. CASE name = "PASTE"
  BY <1>1, <1>2, TypedRefines, LenProperties DEF Command, TextInv
<1>3. CASE Selected = <<>>
  <2>1. CASE name = "COPY"
    BY <1>3, <2>1 DEF Command, TextInv, Refines, Anchor, sel
  <2>2. CASE name = "CUT"
    BY <1>3, <2>2, DeletesRefine DEF Command
  <2>3. QED
    BY <1>2, <2>1, <2>2
<1>4. CASE Selected # <<>> /\ name # "PASTE"
  <2>1. /\ clip' = Selected /\ selStart < selEnd /\ Len(Selected) = selEnd - selStart
        /\ Selected \in Seq(Char)
        /\ Edit!Lower = selStart /\ Edit!Upper = selEnd
    BY <1>4, SelectedIs, AnchorEnds DEF Command, TextInv
  <2>2. CASE name = "COPY"
    <3>1. UNCHANGED <<text, cursor, selStart, selEnd, Anchor>>
      BY <2>2 DEF Command, sel, Anchor
    <3>2. TextInv' /\ Edit!Copy
      BY <1>1, <2>1, <3>1, TextAssumption DEF TextInv, Edit!Copy, Selected
    <3>3. QED
      BY <3>2 DEF Refines, Edit!Next
  <2>3. CASE name = "CUT"
    <3>1. text' = Without(selStart, selEnd) /\ Put(selStart)
      BY <2>1, <2>3 DEF Command, DeleteKey, TextInv
    <3>2. Edit!Cut /\ Anchor' = selStart
      BY <2>1, <3>1 DEF Edit!Cut, Without, Put, Anchor, Selected
    <3>3. TextInv'
      <4>1. <<>> \in Seq(Char) /\ Len(<<>>) = 0 /\ text \in Seq(Char)
            /\ selStart \in 0..Len(text) /\ selEnd \in selStart..Len(text)
        BY <2>1, EmptySeq DEF TextInv
      <4>2. \A s \in Seq(Char) :
              /\ Splice(text, selStart, s, selEnd) \in Seq(Char)
              /\ Len(Splice(text, selStart, s, selEnd)) = selStart + Len(s) + (Len(text) - selEnd)
        BY <4>1, Spliced
      <4>3. /\ Splice(text, selStart, <<>>, selEnd) \in Seq(Char)
            /\ Len(Splice(text, selStart, <<>>, selEnd))
                 = selStart + Len(<<>>) + (Len(text) - selEnd)
        BY <4>1, <4>2, Zenon
      <4>4. text' = Splice(text, selStart, <<>>, selEnd)
        BY <3>1, <4>1, WithoutSplices
      <4>5. text' \in Seq(Char) /\ Len(text') = selStart + (Len(text) - selEnd)
        BY <1>1, <4>1, <4>3, <4>4
      <4>6. QED
        BY <1>1, <2>1, <3>1, <4>5, TextAssumption DEF TextInv, Put
    <3>4. QED
      BY <3>2, <3>3 DEF Refines, Edit!Next
  <2>4. QED
    BY <1>4, <2>2, <2>3
<1>5. QED
  BY <1>2, <1>3, <1>4

LEMMA StepText == TextInv /\ [TextNext]_textVars => Refines
<1> SUFFICES ASSUME TextInv, [TextNext]_textVars PROVE Refines
  OBVIOUS
<1>0. Len(text) \in Nat
  BY LenProperties DEF TextInv
<1>1. ASSUME NEW s \in Typable, Len(text) < MaxText, Typed(s) PROVE Refines
  <2>1. Len(s) <= MaxText /\ Len(text) + Len(s) <= MaxText /\ s \in Seq(Char)
    BY <1>0, <1>1, TypableIs, TextAssumption
  <2>2. QED
    BY <1>1, <2>1, TypedRefines
<1>2. ASSUME NEW name \in {"BACKSPACE", "DELETE", "LEFT", "RIGHT", "HOME", "END"},
             NEW shift \in BOOLEAN, Key(name, shift)
      PROVE  Refines
  BY <1>2, DeletesRefine, MovesRefine DEF Key
<1>3. CASE OnKeyboard
  BY <1>1, <1>2, <1>3, CommandRefines DEF OnKeyboard
<1>4. CASE OnMouse
  BY <1>4, PutRefines DEF OnMouse
<1>5. CASE OnFocusLost
  <2>1. TextInv' /\ Edit!Forget
    BY <1>0, <1>5 DEF OnFocusLost, Select, TextInv, Edit!Forget, Edit!None, Anchor
  <2>2. QED
    BY <2>1 DEF Refines, Edit!Next
<1>6. ASSUME NEW mode \in {"KEYBOARD", "WINDOW", "CODE"}, OnFocusGet(mode) PROVE Refines
  <2>1. CASE mode = "KEYBOARD"
    BY <1>0, <1>6, <2>1, PutRefines DEF OnFocusGet
  <2>2. CASE mode # "KEYBOARD"
    BY <1>6, <2>2 DEF OnFocusGet, TextInv, Refines, Anchor, sel
  <2>3. QED
    BY <2>1, <2>2
<1>7. ASSUME NEW s \in Typable, SetText(s) PROVE Refines
  <2>1. s \in Seq(Char) /\ Len(s) = 1
    BY TypableIs
  <2>2. TextInv' /\ Anchor' = Len(s)
    BY <1>7, <2>1, TextAssumption DEF SetText, Put, TextInv, Anchor
  <2>3. Edit!SetText(s)
    BY <1>7, <2>2 DEF SetText, Put, Edit!SetText
  <2>4. s \in UNION {[1..n -> Char] : n \in 0..MaxText}
    <3>1. Len(s) <= MaxText
      BY <2>1, TextAssumption
    <3>2. QED
      BY <2>1, <3>1, ClipsContain
  <2>5. QED
    BY <2>2, <2>3, <2>4 DEF Refines, Edit!Next
<1>8. CASE UNCHANGED textVars
  BY <1>8 DEF textVars, TextInv, Refines, Anchor
<1>9. QED
  BY <1>3, <1>4, <1>5, <1>6, <1>7, <1>8 DEF TextNext

\* Whatever is typed, deleted, cut, pasted or selected with keys and mouse, the
\* two ends the code keeps show a field with one anchor, for every text length.
THEOREM BoxIsEditor == TextSpec => IsEditor
<1>1. TextInv /\ Refines => TextInv' /\ [Edit!Next]_(Edit!vars)
  BY DEF Refines, Edit!vars
<1>2. QED
  BY InitText, StepText, <1>1, PTL DEF TextSpec, IsEditor, Edit!Spec
-----------------------------------------------------------------------------
(* The focus of the window: what the proof about Focus needs.               *)
Kinds == {"panel", "back", "next", "close", "label", "box", "radio", "bar", "ask"}
Component == [kind : Kinds, n : Nat]
FocusTypeOK ==
  /\ seq \in Seq(Component) /\ toPut \in Seq(Component)
  /\ active \in BOOLEAN /\ taking \in BOOLEAN

\* While a page is taken out, what it still has may show a cursor.
Page == {seq[i] : i \in PageFirst..Len(seq)}
CursorInv ==
  thread \notin {"cut", "dead"} =>
    told \subseteq (IF active THEN Focused ELSE {}) \cup (IF taking THEN Page ELSE {})
FocusInv == FocusTypeOK /\ CursorInv

LEMMA Lists ==
  /\ Base \in Seq(Component) /\ Inputs \in Seq(Component) /\ Chooser \in Seq(Component)
  /\ Waiting \in Seq(Component) /\ PageFirst \in Nat \ {0}
<1>1. Base \in Seq(Component)
  BY DEF Base, Comp, Component, Kinds
<1>2. Inputs \in Seq(Component) /\ Chooser \in Seq(Component) /\ Waiting \in Seq(Component)
  BY DEF Inputs, Chooser, Waiting, Comp, Component, Kinds
<1>3. QED
  BY <1>1, <1>2, LenProperties DEF PageFirst

LEMMA InitFocus == FocusInit => FocusInv
  BY Lists DEF FocusInit, FocusInv, FocusTypeOK, CursorInv

\* To move the index tells the component that had it and the one that gets it.
LEMMA SetIndexKeeps ==
  ASSUME FocusInv, NEW i, SetIndex(i), UNCHANGED <<seq, taking, thread>>,
         active' \in BOOLEAN, active' = active \/ (idx = 0 /\ ~active)
  PROVE  CursorInv'
<1>1. Page' = Page
  BY DEF Page
<1>2. CASE idx = i
  BY <1>1, <1>2 DEF SetIndex, focusVars, FocusInv, FocusTypeOK, CursorInv, Focused
<1>3. CASE idx # i
  BY <1>1, <1>3 DEF SetIndex, FocusInv, FocusTypeOK, CursorInv, Focused
<1>4. QED
  BY <1>2, <1>3

LEMMA ActivateKeeps == FocusInv /\ Activate => FocusInv'
<1> SUFFICES ASSUME FocusInv, Activate PROVE FocusInv'
  OBVIOUS
<1>1. /\ ~active /\ active' = TRUE /\ seq' = seq /\ taking' = taking /\ thread' = thread
      /\ toPut' = toPut
  BY DEF Activate, threadVars
<1>2. FocusTypeOK' /\ Page' = Page
  BY <1>1 DEF FocusInv, FocusTypeOK, Page
<1>3. CASE lost # 0
  BY <1>1, <1>2, <1>3 DEF Activate, FocusInv, CursorInv, Focused
<1>4. CASE lost = 0 /\ idx = 0 /\ \E i \in 1..Len(seq) : Focusable(seq[i])
  BY <1>1, <1>2, <1>4, SetIndexKeeps DEF Activate, FocusInv
<1>5. CASE lost = 0 /\ ~(idx = 0 /\ \E i \in 1..Len(seq) : Focusable(seq[i]))
  BY <1>1, <1>2, <1>5 DEF Activate, FocusInv, CursorInv, Focused, focusVars
<1>6. QED
  BY <1>3, <1>4, <1>5

\* The first component of the page goes: those after it move down.
LEMMA TakeKeeps == FocusInv /\ Take => FocusInv'
<1> SUFFICES ASSUME FocusInv, Take PROVE FocusInv'
  OBVIOUS
<1>0. /\ seq \in Seq(Component) /\ Len(seq) \in Nat /\ PageFirst \in Nat \ {0}
      /\ PageFirst <= Len(seq)
  BY Lists, LenProperties DEF FocusInv, FocusTypeOK, Take
<1>1. /\ taking /\ taking' = taking /\ active' = active /\ idx' = idx /\ thread' = thread
      /\ toPut' = toPut /\ told' = told \ {seq[PageFirst]} /\ Focused # {seq[PageFirst]}
  BY DEF Take
<1>2. /\ seq' \in Seq(Component) /\ Len(seq') = Len(seq) - 1
      /\ \A k \in 1..Len(seq') : seq'[k] = IF k < PageFirst THEN seq[k] ELSE seq[k + 1]
  <2>1. seq' = [k \in 1..(Len(seq) - 1) |-> IF k < PageFirst THEN seq[k] ELSE seq[k + 1]]
    BY DEF Take, TakenOut
  <2>2. \A k \in 1..(Len(seq) - 1) : (IF k < PageFirst THEN seq[k] ELSE seq[k + 1]) \in Component
    BY <1>0, ElementOfSeq
  <2>3. QED
    BY <1>0, <2>1, <2>2, SeqDef, IsASeq
<1>3. ASSUME NEW c \in Page, c # seq[PageFirst] PROVE c \in Page'
  <2>1. PICK i \in PageFirst..Len(seq) : c = seq[i]
    BY DEF Page
  <2>2. i - 1 \in PageFirst..Len(seq') /\ seq'[i - 1] = seq[i]
    BY <1>0, <1>2, <1>3, <2>1
  <2>3. QED
    BY <2>1, <2>2 DEF Page
<1>4. ASSUME NEW c \in Focused, c # seq[PageFirst] PROVE c \in Focused' \cup Page'
  <2>1. idx \in 1..Len(seq) /\ c = seq[idx]
    BY DEF Focused
  <2>2. CASE idx < PageFirst
    BY <1>0, <1>1, <1>2, <2>1, <2>2 DEF Focused
  <2>3. CASE idx >= PageFirst
    BY <1>0, <1>3, <1>4, <2>1, <2>3 DEF Page
  <2>4. QED
    BY <1>0, <2>1, <2>2, <2>3
<1>5. CursorInv'
  BY <1>1, <1>3, <1>4 DEF FocusInv, CursorInv
<1>6. QED
  BY <1>1, <1>2, <1>5 DEF FocusInv, FocusTypeOK

LEMMA PutKeeps == FocusInv /\ PutNext => FocusInv'
<1> SUFFICES ASSUME FocusInv, PutNext PROVE FocusInv'
  OBVIOUS
<1>1. /\ ~taking /\ taking' = taking /\ active' = active /\ idx' = idx /\ thread' = thread
      /\ told' = told /\ toPut # <<>> /\ toPut' = Tail(toPut) /\ seq' = Append(seq, Head(toPut))
  BY DEF PutNext, focusVars
<1>2. /\ toPut' \in Seq(Component) /\ seq' \in Seq(Component) /\ Len(seq) \in Nat
      /\ Len(seq') = Len(seq) + 1 /\ \A k \in 1..Len(seq) : seq'[k] = seq[k]
  BY <1>1, HeadTailProperties, AppendProperties, LenProperties DEF FocusInv, FocusTypeOK
<1>3. Focused \subseteq Focused'
  BY <1>1, <1>2 DEF Focused
<1>4. QED
  BY <1>1, <1>2, <1>3 DEF FocusInv, FocusTypeOK, CursorInv

\* The other steps leave the components where they are.
LEMMA StepFocus == FocusInv /\ [FocusNext]_windowVars => FocusInv'
<1> SUFFICES ASSUME FocusInv, [FocusNext]_windowVars PROVE FocusInv'
  OBVIOUS
<1> USE DEF FocusInv, FocusTypeOK
<1>1. ASSUME NEW i, Press(i) PROVE FocusInv'
  BY <1>1, SetIndexKeeps DEF Press, Accepts, threadVars
<1>2. ASSUME NEW i, Tab(i) PROVE FocusInv'
  BY <1>2, SetIndexKeeps DEF Tab, Accepts, threadVars
<1>3. CASE PressElse
  BY <1>3 DEF PressElse, Accepts, threadVars, focusVars, CursorInv, Focused, Page
<1>4. CASE Activate
  BY <1>4, ActivateKeeps
<1>5. CASE Inactivate
  BY <1>5 DEF Inactivate, threadVars, CursorInv, Focused, Page
<1>6. CASE Release
  BY <1>6 DEF Release, threadVars, focusVars, CursorInv, Focused, Page
<1>7. CASE Answer
  BY <1>7 DEF Answer, focusVars, CursorInv, Focused, Page
<1>8. CASE BeginStep
  BY <1>8, Lists DEF BeginStep, focusVars, CursorInv, Focused, Page
<1>9. CASE Complete
  BY <1>9, Lists DEF Complete, focusVars, CursorInv, Focused, Page
<1>10. CASE Back
  BY <1>10, Lists DEF Back, focusVars, CursorInv, Focused, Page
<1>11. CASE Take
  BY <1>11, TakeKeeps
<1>12. CASE Taken
  <2>1. Page = {} /\ Page' = {}
    BY <1>12, Lists, LenProperties DEF Taken, Page
  <2>2. QED
    BY <1>12, <2>1 DEF Taken, focusVars, CursorInv, Focused
<1>13. CASE TakeFails
  BY <1>13, EmptySeq DEF TakeFails, focusVars, CursorInv
<1>14. CASE PutNext
  BY <1>14, PutKeeps
<1>15. CASE Asks
  BY <1>15, SetIndexKeeps, HeadTailProperties DEF Asks
<1>16. CASE PageBuilt
  BY <1>16 DEF PageBuilt, focusVars, CursorInv, Focused, Page
<1>17. CASE UNCHANGED windowVars
  BY <1>17 DEF windowVars, CursorInv, Focused, Page
<1>18. QED
  BY <1>1, <1>2, <1>3, <1>4, <1>5, <1>6, <1>7, <1>8, <1>9, <1>10, <1>11, <1>12, <1>13,
     <1>14, <1>15, <1>16, <1>17 DEF FocusNext

\* Whatever pages are taken out and put in under the index of the focus, and however the
\* mouse, TAB and the activation of the window move it, only the component the keys go
\* to has been told that it has the focus.
THEOREM KeysGoToTheCursor == FocusSpec => []CursorGetsKeys
<1>1. FocusInv => CursorGetsKeys
  BY DEF FocusInv, FocusTypeOK, CursorInv, CursorGetsKeys
<1>2. QED
  BY <1>1, InitFocus, StepFocus, PTL DEF FocusSpec
=============================================================================
