------------------------------ MODULE StreamIPC ------------------------------
(***************************************************************************)
(* core/ipc.StreamIPC: two processes, side 1 that created the stream and    *)
(* side 2 that opened it, and a ring of shared memory for each direction.   *)
(* Ring s is written by side s and read by the other; pw[s] and pr[s] are   *)
(* the two cursors of its record in the header, counted from its start.     *)
(*                                                                          *)
(* Bytes are told apart by their place: the n-th byte side s writes is n.   *)
(* The Condition of the stream is a lock that a thread keeps over the       *)
(* iterations of its loop and gives back when it waits (for a second, so    *)
(* that no notify is needed to go on) and when it returns.                  *)
(*                                                                          *)
(* The header holds the records of the two rings, of 10 bytes each, at 0    *)
(* and at 9, and the rings begin at 18: the record side 2 writes when it    *)
(* opens the stream has its last byte in the first cell of ring 1.          *)
(***************************************************************************)
EXTENDS Integers

CONSTANTS
  Size,        \* Size[s]: cells of ring s (self._size1, self._size2)
  Bytes,       \* bound: how many bytes each side writes in all
  MaxWrite,    \* bound: the most one write takes
  MaxRead,     \* bound: the most one read(numbytes) asks for
  OpenFirst    \* TRUE: side 1 leaves the stream alone until side 2 has opened it

Sides == {1, 2}

ASSUME StreamAssumption ==
  /\ Size \in [Sides -> Nat \ {0}]
  /\ Bytes \in Nat /\ MaxWrite \in Nat /\ MaxRead \in Nat
  /\ OpenFirst \in BOOLEAN

Other(s) == 3 - s

VARIABLES
  pw, pr,      \* the cursors of each ring
  cell,        \* cell[s][i]: the byte in cell i of ring s; 0 is no byte of s
  state,       \* state[s]: the state byte of side s, "C" or "X"
  bclose,      \* bclose[s]: self._bclose of side s
  opened,      \* side 2 has opened the stream
  lock,        \* the thread that holds the Condition
  left,        \* left[s]: bytes the write of side s has still to write
  want,        \* want[s]: bytes the read of side s still wants; 0 is no read
  wrote,       \* history: wrote[s] bytes are written to ring s
  got,         \* history: got[s] bytes are read from ring s
  inorder      \* history: inorder[s]: each byte read from ring s was the one due

ringVars == <<pw, pr, cell>>
closeVars == <<state, bclose>>
historyVars == <<wrote, got, inorder>>
vars == <<ringVars, closeVars, opened, lock, left, want, historyVars>>

AllThere == -1      \* read() without numbytes: whatever there is

Threads == {"write", "read"} \X Sides
Free == <<"none", 0>>

TypeOK ==
  /\ pw \in [Sides -> Nat] /\ pr \in [Sides -> Nat]
  /\ \A s \in Sides : pw[s] < Size[s] /\ pr[s] < Size[s]
  /\ DOMAIN cell = Sides
  /\ \A s \in Sides : cell[s] \in [0..(Size[s] - 1) -> Nat]
  /\ state \in [Sides -> {"C", "X"}] /\ bclose \in [Sides -> BOOLEAN]
  /\ opened \in BOOLEAN /\ lock \in Threads \cup {Free}
  /\ left \in [Sides -> Nat] /\ want \in [Sides -> Nat \cup {AllThere}]
  /\ wrote \in [Sides -> Nat] /\ got \in [Sides -> Nat] /\ inorder \in [Sides -> BOOLEAN]

Init ==
  /\ pw = [s \in Sides |-> 0] /\ pr = [s \in Sides |-> 0]
  /\ cell = [s \in Sides |-> [i \in 0..(Size[s] - 1) |-> 0]]
  /\ state = [s \in Sides |-> "C"] /\ bclose = [s \in Sides |-> FALSE]
  /\ opened = FALSE /\ lock = Free
  /\ left = [s \in Sides |-> 0] /\ want = [s \in Sides |-> 0]
  /\ wrote = [s \in Sides |-> 0] /\ got = [s \in Sides |-> 0] /\ inorder = [s \in Sides |-> TRUE]

(* _open, _initialize(2), which takes no lock. *)
Open ==
  /\ ~opened /\ opened' = TRUE
  /\ pw' = [pw EXCEPT ![2] = 0] /\ pr' = [pr EXCEPT ![2] = 0]
  /\ cell' = [cell EXCEPT ![1][0] = 0]
  /\ UNCHANGED <<closeVars, lock, left, want, historyVars>>

Uses(s) == opened \/ (s = 1 /\ ~OpenFirst)

(* The thread t has the Condition, or takes it. *)
Holds(t) == lock \in {t, Free}
Releases == lock' = Free

-----------------------------------------------------------------------------
(* write *)

StartWrite(s) ==
  /\ Uses(s) /\ ~bclose[s] /\ left[s] = 0
  /\ \E n \in 1..MaxWrite : wrote[s] + n <= Bytes /\ left' = [left EXCEPT ![s] = n]
  /\ UNCHANGED <<ringVars, closeVars, opened, lock, want, historyVars>>

(* Mutant of Space: all the cells may be filled. *)
FullSpace(s) == IF pw[s] >= pr[s] THEN Size[s] - (pw[s] - pr[s]) ELSE pr[s] - pw[s]

(* szspace, szlimit (up to the end of the ring) and szremain (from its      *)
(* start on).                                                               *)
Space(s) ==
  IF pw[s] >= pr[s] THEN Size[s] - (pw[s] - pr[s]) - 1 ELSE pr[s] - pw[s] - 1

(* Mutant of Remain: the reader's cell is counted. *)
RemainAll(s) == IF pw[s] >= pr[s] THEN pr[s] ELSE 0

Remain(s) == IF pw[s] >= pr[s] THEN pr[s] - 1 ELSE 0

(* Mutant of Limit: the cell before the reader's is filled too. *)
LimitFull(s) == IF pw[s] >= pr[s] THEN Size[s] - pw[s] ELSE pr[s] - pw[s]

Limit(s) ==
  IF pw[s] < pr[s] THEN Space(s)
  ELSE IF Remain(s) <= 0 THEN Size[s] - pw[s] - 1 ELSE Size[s] - pw[s]

(* Mutant of Advance: it wraps one cell late. *)
AdvanceLate(s, p, n) == IF p + n > Size[s] THEN 0 ELSE p + n

(* A cursor after n more cells: at the end of the ring it wraps. *)
Advance(s, p, n) == IF p + n = Size[s] THEN 0 ELSE p + n

(* The two pieces one iteration writes. *)
Piece1(s) == IF left[s] <= Limit(s) THEN left[s] ELSE Limit(s)
Piece2(s) ==
  IF left[s] <= Limit(s) \/ Remain(s) <= 0 THEN 0
  ELSE IF left[s] - Limit(s) > Remain(s) THEN Remain(s) ELSE left[s] - Limit(s)

(* Ring s after n bytes are written to it from cell p on, the first of them *)
(* byte number b.                                                           *)
Put(ring, p, n, b) ==
  [i \in DOMAIN ring |-> IF p <= i /\ i < p + n THEN b + (i - p) ELSE ring[i]]

Writing(s) ==
  left[s] > 0 /\ Holds(<<"write", s>>) /\ ~bclose[s] /\ state[Other(s)] # "X"

Write(s) ==
  /\ Writing(s) /\ Space(s) # 0
  /\ LET p1 == Advance(s, pw[s], Piece1(s))
         n == Piece1(s) + Piece2(s)
     IN /\ cell' = [cell EXCEPT ![s] =
             Put(Put(@, pw[s], Piece1(s), wrote[s] + 1),
                 p1, Piece2(s), wrote[s] + Piece1(s) + 1)]
        /\ pw' = [pw EXCEPT ![s] = Advance(s, p1, Piece2(s))]
        /\ left' = [left EXCEPT ![s] = @ - n]
        /\ wrote' = [wrote EXCEPT ![s] = @ + n]
        /\ lock' = IF n = left[s] THEN Free ELSE <<"write", s>>
  /\ UNCHANGED <<pr, closeVars, opened, want, got, inorder>>

WriteWaits(s) ==
  /\ Writing(s) /\ Space(s) = 0 /\ lock # Free
  /\ Releases
  /\ UNCHANGED <<ringVars, closeVars, opened, left, want, historyVars>>

(* Mutant of WriteRaises: the lock is not given back. *)
WriteRaisesKeeps(s) ==
  /\ left[s] > 0 /\ Holds(<<"write", s>>)
  /\ bclose[s] \/ state[Other(s)] = "X"
  /\ bclose' = [bclose EXCEPT ![s] = TRUE]
  /\ state' = [state EXCEPT ![s] = "X"]
  /\ left' = [left EXCEPT ![s] = 0] /\ lock' = <<"write", s>>
  /\ UNCHANGED <<ringVars, opened, want, historyVars>>

(* The side is closed, or sees that the other is and closes: Stream closed. *)
WriteRaises(s) ==
  /\ left[s] > 0 /\ Holds(<<"write", s>>)
  /\ bclose[s] \/ state[Other(s)] = "X"
  /\ bclose' = [bclose EXCEPT ![s] = TRUE]
  /\ state' = [state EXCEPT ![s] = "X"]
  /\ left' = [left EXCEPT ![s] = 0] /\ Releases
  /\ UNCHANGED <<ringVars, opened, want, historyVars>>

-----------------------------------------------------------------------------
(* read: side s reads ring d, the other's.  Nobody reads a stream that side *)
(* 2 has not opened: it would take what side 1 left in the second record    *)
(* for cursors.                                                             *)

StartRead(s) ==
  /\ opened /\ ~bclose[s] /\ want[s] = 0
  /\ \E n \in {AllThere} \cup 1..MaxRead : want' = [want EXCEPT ![s] = n]
  /\ UNCHANGED <<ringVars, closeVars, opened, lock, left, historyVars>>

Reading(s) == want[s] # 0 /\ Holds(<<"read", s>>) /\ ~bclose[s]

(* What can be read in one piece, up to the end of the ring. *)
Ready(d) == IF pw[d] > pr[d] THEN pw[d] - pr[d] ELSE Size[d] - pr[d]

Piece(s) ==
  LET sz == Ready(Other(s)) IN
  IF want[s] # AllThere /\ sz > want[s] THEN want[s] ELSE sz

Read(s) ==
  LET d == Other(s)
      n == Piece(s)
  IN
  /\ Reading(s) /\ pw[d] # pr[d]
  /\ inorder' = [inorder EXCEPT ![d] =
          @ /\ \A k \in 0..(n - 1) : cell[d][pr[d] + k] = got[d] + 1 + k]
  /\ got' = [got EXCEPT ![d] = @ + n]
  /\ pr' = [pr EXCEPT ![d] = Advance(d, pr[d], n)]
  /\ want' = [want EXCEPT ![s] = IF @ = AllThere THEN 0 ELSE @ - n]
  /\ lock' = IF want[s] \in {AllThere, n} THEN Free ELSE <<"read", s>>
  /\ UNCHANGED <<pw, cell, closeVars, opened, left, wrote>>

(* Mutant of ReadWaits: the lock is kept. *)
ReadSpins(s) ==
  /\ Reading(s) /\ lock # Free
  /\ pw[Other(s)] = pr[Other(s)] /\ state[Other(s)] # "X"
  /\ UNCHANGED vars

ReadWaits(s) ==
  /\ Reading(s) /\ lock # Free
  /\ pw[Other(s)] = pr[Other(s)] /\ state[Other(s)] # "X"
  /\ Releases
  /\ UNCHANGED <<ringVars, closeVars, opened, left, want, historyVars>>

(* Mutant of ReadEnds: the other side is looked at before the ring is. *)
ReadEndsEarly(s) ==
  /\ want[s] # 0 /\ Holds(<<"read", s>>)
  /\ bclose[s] \/ state[Other(s)] = "X"
  /\ bclose' = [bclose EXCEPT ![s] = TRUE]
  /\ state' = [state EXCEPT ![s] = "X"]
  /\ want' = [want EXCEPT ![s] = 0] /\ Releases
  /\ UNCHANGED <<ringVars, opened, left, historyVars>>

(* The side is closed, or there is nothing left to read and the other is.   *)
(* What a read(numbytes) has read so far goes.                              *)
ReadEnds(s) ==
  /\ want[s] # 0 /\ Holds(<<"read", s>>)
  /\ bclose[s] \/ (pw[Other(s)] = pr[Other(s)] /\ state[Other(s)] = "X")
  /\ bclose' = [bclose EXCEPT ![s] = TRUE]
  /\ state' = [state EXCEPT ![s] = "X"]
  /\ want' = [want EXCEPT ![s] = 0] /\ Releases
  /\ UNCHANGED <<ringVars, opened, left, historyVars>>

Close(s) ==
  /\ Uses(s) /\ ~bclose[s] /\ lock = Free
  /\ bclose' = [bclose EXCEPT ![s] = TRUE]
  /\ state' = [state EXCEPT ![s] = "X"]
  /\ UNCHANGED <<ringVars, opened, lock, left, want, historyVars>>

-----------------------------------------------------------------------------
WriteLoop(s) == Write(s) \/ WriteWaits(s) \/ WriteRaises(s)
ReadLoop(s) == Read(s) \/ ReadWaits(s) \/ ReadEnds(s)

Next ==
  \/ Open
  \/ \E s \in Sides : \/ StartWrite(s) \/ WriteLoop(s)
                      \/ StartRead(s) \/ ReadLoop(s)
                      \/ Close(s)

(* Fairness: a thread that finds the lock free again and again gets it; the *)
(* users of a stream have a thread that reads it in a loop.                 *)
Fairness ==
  /\ WF_vars(Open)
  /\ \A s \in Sides : SF_vars(WriteLoop(s)) /\ SF_vars(ReadLoop(s)) /\ WF_vars(StartRead(s))

Spec == Init /\ [][Next]_vars /\ Fairness
-----------------------------------------------------------------------------
(* Properties. *)

(* Each side reads the bytes the other wrote, all of them, in their order.  *)
InOrder == \A s \in Sides : inorder[s]

(* A read that makes its side close, because the other side has, has read   *)
(* everything before.                                                       *)
EndMeansAll ==
  [][\A s \in Sides :
       ~bclose[s] /\ bclose'[s] /\ want[s] # 0 /\ want'[s] = 0
         => got[Other(s)] = wrote[Other(s)]]_vars

(* The stream is the byte stream it stands for. *)
Abstract ==
  INSTANCE ByteStream WITH
    Bound <- [s \in Sides |-> Size[s] - 1],
    sent <- wrote, taken <- got, intact <- InOrder,
    shut <- {s \in Sides : bclose[s]}
ImplementsByteStream == Abstract!Spec

(* An iteration of write that writes nothing and does not wait either: it   *)
(* is repeated for ever, and the lock is never given back.                  *)
Spinning(s) ==
  /\ lock = <<"write", s>> /\ Writing(s)
  /\ Space(s) # 0 /\ Piece1(s) + Piece2(s) = 0
Spins == \E s \in Sides : Spinning(s)

(* A write comes to an end, as the test expects. *)
WriteEnds == \A s \in Sides : left[s] > 0 ~> left[s] = 0

(* A write comes to an end unless one of the two spins. *)
WriteEndsOrSpins == \A s \in Sides : left[s] > 0 ~> left[s] = 0 \/ Spins

(* What is written is read, also after its writer closed, unless a write    *)
(* spins or the reading side closes, itself or because it writes and sees   *)
(* the other closed.  (A side writes Bytes bytes at most, so that a reader  *)
(* that keeps up comes to have read them all.)                              *)
BytesArrive ==
  \A s \in Sides :
    got[s] # wrote[s] ~> got[s] = wrote[s] \/ bclose[Other(s)] \/ Spins

(* What side 1 writes before side 2 has opened the stream is what it reads. *)
SentIsRead == inorder[1]
=============================================================================
