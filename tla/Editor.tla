------------------------------- MODULE Editor --------------------------------
(* What a field of one line promises: a text, a caret and the place the      *)
(* selection started at.  What is typed takes the place of the selection; a  *)
(* movement that extends the selection leaves that place alone.              *)
EXTENDS Integers, Sequences

CONSTANT Clips         \* what can be typed or pasted

VARIABLES content, caret, anchor, clipboard

vars == <<content, caret, anchor, clipboard>>

\* The selection was forgotten, because the field lost the focus.
None == -1

Lower == IF anchor = None \/ caret < anchor THEN caret ELSE anchor
Upper == IF anchor = None \/ anchor < caret THEN caret ELSE anchor

Init == content = <<>> /\ caret = 0 /\ anchor = 0 /\ clipboard = <<>>

\* s takes the place of what is between lo and hi, and the caret follows it.
Replace(lo, hi, s) ==
  /\ content' = SubSeq(content, 1, lo) \o s \o SubSeq(content, hi + 1, Len(content))
  /\ caret' = lo + Len(s) /\ anchor' = lo + Len(s)
  /\ UNCHANGED clipboard

Type(s) == Replace(Lower, Upper, s)

\* The selection goes or, with none, one character before or after the caret.
DeleteBack == IF Lower = Upper /\ caret > 0 THEN Replace(caret - 1, caret, <<>>) ELSE Type(<<>>)
DeleteNext == IF Lower = Upper /\ caret < Len(content) THEN Replace(caret, caret + 1, <<>>)
              ELSE Type(<<>>)

\* A selection that was forgotten starts again where the caret arrives.
Move(p, extend) == /\ caret' = p
                   /\ anchor' = IF extend /\ anchor # None THEN anchor ELSE p
                   /\ UNCHANGED <<content, clipboard>>

Copy == /\ Lower < Upper /\ clipboard' = SubSeq(content, Lower + 1, Upper)
        /\ UNCHANGED <<content, caret, anchor>>
Cut == Lower < Upper /\ clipboard' = SubSeq(content, Lower + 1, Upper)
       /\ content' = SubSeq(content, 1, Lower) \o SubSeq(content, Upper + 1, Len(content))
       /\ caret' = Lower /\ anchor' = Lower
Forget == anchor' \in {caret, None} /\ UNCHANGED <<content, caret, clipboard>>
SetText(s) == content' = s /\ caret' = Len(s) /\ anchor' = Len(s) /\ UNCHANGED clipboard

Next == \/ \E s \in Clips : Type(s) \/ SetText(s)
        \/ DeleteBack \/ DeleteNext \/ Copy \/ Cut \/ Forget
        \/ \E p \in 0..Len(content), extend \in BOOLEAN : Move(p, extend)

Spec == Init /\ [][Next]_vars
=============================================================================
