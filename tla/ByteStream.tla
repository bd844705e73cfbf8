------------------------------ MODULE ByteStream ------------------------------
(***************************************************************************)
(* What a pair of ends of an ipc.Stream promises: each side's bytes get to  *)
(* the other in order, none lost, doubled or changed, and never more of     *)
(* them are under way than the ring of the direction holds.  A side that    *)
(* has closed neither sends nor receives.                                   *)
(***************************************************************************)
EXTENDS Naturals

CONSTANTS Sides, Bound       \* Bound[s]: how many bytes of s may be under way

VARIABLES
  sent,      \* sent[s]: bytes side s has sent
  taken,     \* taken[s]: of these, what the other side has received
  intact,    \* each was the byte that was due
  shut       \* the sides that have closed

Init ==
  /\ sent = [s \in Sides |-> 0] /\ taken = [s \in Sides |-> 0]
  /\ intact = TRUE /\ shut = {}

Send(s) ==
  /\ s \notin shut
  /\ \E n \in 1..Bound[s] :
       /\ sent[s] + n <= taken[s] + Bound[s]
       /\ sent' = [sent EXCEPT ![s] = @ + n]
  /\ UNCHANGED <<taken, intact, shut>>

Receive(s) ==
  /\ \E r \in Sides \ {s} : r \notin shut
  /\ \E n \in 1..Bound[s] :
       /\ taken[s] + n <= sent[s]
       /\ taken' = [taken EXCEPT ![s] = @ + n]
  /\ UNCHANGED <<sent, intact, shut>>

Shut(s) == shut' = shut \cup {s} /\ UNCHANGED <<sent, taken, intact>>

Next == \E s \in Sides : Send(s) \/ Receive(s) \/ Shut(s)

Spec == Init /\ [][Next]_<<sent, taken, intact, shut>>
=============================================================================
