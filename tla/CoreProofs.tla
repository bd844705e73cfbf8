------------------------------- MODULE CoreProofs -------------------------------
(***************************************************************************)
(* Proofs about the stream and, after it, the names of shared objects, both *)
(* of core/ipc.py; then about the updater, the pool of tasks, the sessions  *)
(* and the messages, which the pool runs; last the conditions of core/ipc.  *)
(*                                                                          *)
(* The stream is proved right for rings of every size, and whatever its     *)
(* users write and read, as long as side 1 leaves it alone until side 2 has *)
(* opened it.  One ring is treated apart from the rest first: its cursors   *)
(* p and r (of the writer and the reader), its W cells c, and the numbers w *)
(* and g of bytes written to it and read from it.                           *)
(***************************************************************************)
EXTENDS StreamIPC, SharedNames, Updater, Sessions, MessageRecovery, ConditionIPC,
        SequenceTheorems, FiniteSetTheorems, WellFoundedInduction, TLAPS

InUse(W, p, r) == IF p >= r THEN p - r ELSE W - r + p
Ix(W, r, k) == IF r + k < W THEN r + k ELSE r + k - W
Wrap(W, i) == IF i = W THEN 0 ELSE i

RingOK(W, p, r, c, w, g) ==
  /\ w = g + InUse(W, p, r)
  /\ \A k \in 0..(InUse(W, p, r) - 1) : c[Ix(W, r, k)] = g + 1 + k

(* From the reader's cursor on come the next n bytes. *)
Due(r, c, g, n) == \A k \in 0..(n - 1) : c[r + k] = g + 1 + k

(* Each piece an iteration of write puts into its ring, of n cells up to    *)
(* the end at most and no more than are free, keeps the ring.               *)
LEMMA WriteKeepsRing ==
  ASSUME NEW W \in Nat \ {0}, NEW p \in 0..(W - 1), NEW r \in 0..(W - 1),
         NEW c \in [0..(W - 1) -> Nat], NEW w \in Nat, NEW g \in Nat,
         NEW n \in Nat,
         RingOK(W, p, r, c, w, g),
         InUse(W, p, r) + n <= W - 1, p + n <= W
  PROVE  /\ Wrap(W, p + n) \in 0..(W - 1)
         /\ Put(c, p, n, w + 1) \in [0..(W - 1) -> Nat]
         /\ InUse(W, Wrap(W, p + n), r) = InUse(W, p, r) + n
         /\ RingOK(W, Wrap(W, p + n), r, Put(c, p, n, w + 1), w + n, g)
<1>u. InUse(W, p, r) \in 0..(W - 1)
  BY DEF InUse
<1>1. PICK u \in 0..(W - 1) : u = InUse(W, p, r)
  BY <1>u
<1>q. Wrap(W, p + n) \in 0..(W - 1)
  BY DEF Wrap
<1>2. PICK q \in 0..(W - 1) : q = Wrap(W, p + n)
  BY <1>q
<1>3. PICK d \in [0..(W - 1) -> Nat] :
        /\ d = Put(c, p, n, w + 1)
        /\ \A i \in 0..(W - 1) :
             d[i] = IF p <= i /\ i < p + n THEN w + 1 + (i - p) ELSE c[i]
  <2>1. DOMAIN c = 0..(W - 1)
    OBVIOUS
  <2>2. ASSUME NEW i \in 0..(W - 1)
        PROVE  (IF p <= i /\ i < p + n THEN w + 1 + (i - p) ELSE c[i]) \in Nat
    OBVIOUS
  <2>3. /\ Put(c, p, n, w + 1) \in [0..(W - 1) -> Nat]
        /\ \A i \in 0..(W - 1) :
             Put(c, p, n, w + 1)[i]
               = IF p <= i /\ i < p + n THEN w + 1 + (i - p) ELSE c[i]
    BY <2>1, <2>2 DEF Put
  <2> QED BY <2>3
<1>4. InUse(W, q, r) = u + n
  BY <1>1, <1>2 DEF InUse, Wrap
<1>5. w = g + u
  BY <1>1 DEF RingOK
<1>6. ASSUME NEW k \in 0..(u + n - 1)
      PROVE  d[Ix(W, r, k)] = g + 1 + k
  <2>1. Ix(W, r, k) \in 0..(W - 1)
    <3>1. k \in 0..(W - 1)
      BY <1>1
    <3> QED BY <3>1 DEF Ix
  <2>2. CASE k < u
    <3>1. c[Ix(W, r, k)] = g + 1 + k
      <4>1. u \in Nat /\ k \in Nat /\ k < u
        BY <1>1, <2>2
      <4>2. k \in 0..(InUse(W, p, r) - 1)
        BY <1>1, <4>1
      <4> QED BY <4>2 DEF RingOK
    <3>2. ~(p <= Ix(W, r, k) /\ Ix(W, r, k) < p + n)
      BY <1>1, <2>2 DEF Ix, InUse
    <3> QED BY <1>3, <2>1, <3>1, <3>2
  <2>3. CASE u <= k
    <3>1. PICK j \in 0..(n - 1) : k = u + j
      <4>1. u \in Nat /\ k \in Nat /\ k < u + n
        BY <1>1
      <4>2. k - u \in 0..(n - 1) /\ k = u + (k - u)
        BY <2>3, <4>1
      <4> QED BY <4>2
    <3>2. Ix(W, r, k) = p + j
      BY <1>1, <3>1 DEF Ix, InUse
    <3>3. /\ p + j \in 0..(W - 1) /\ p <= p + j /\ p + j < p + n
          /\ w + 1 + ((p + j) - p) = w + 1 + j
      OBVIOUS
    <3>4. d[p + j] = w + 1 + j
      BY <1>3, <3>3
    <3>5. w + 1 + j = g + 1 + k
      BY <1>5, <3>1
    <3> QED BY <3>2, <3>4, <3>5
  <2> QED BY <2>2, <2>3
<1>7. RingOK(W, q, r, d, w + n, g)
  <2>1. w + n = g + InUse(W, q, r)
    BY <1>4, <1>5
  <2> QED BY <1>4, <1>6, <2>1 DEF RingOK
<1> QED BY <1>1, <1>2, <1>3, <1>4, <1>7

(* What an iteration of read does to its ring: it takes n bytes in one      *)
(* piece, and they are the next ones.                                       *)
LEMMA ReadKeepsRing ==
  ASSUME NEW W \in Nat \ {0}, NEW p \in 0..(W - 1), NEW r \in 0..(W - 1),
         NEW c \in [0..(W - 1) -> Nat], NEW w \in Nat, NEW g \in Nat,
         NEW n \in Nat,
         RingOK(W, p, r, c, w, g),
         (p > r /\ n <= p - r) \/ (p < r /\ n <= W - r)
  PROVE  /\ Wrap(W, r + n) \in 0..(W - 1)
         /\ n <= InUse(W, p, r)
         /\ InUse(W, p, Wrap(W, r + n)) = InUse(W, p, r) - n
         /\ Due(r, c, g, n)
         /\ RingOK(W, p, Wrap(W, r + n), c, w, g + n)
<1>u. InUse(W, p, r) \in 0..(W - 1)
  BY DEF InUse
<1>1. PICK u \in 0..(W - 1) : u = InUse(W, p, r)
  BY <1>u
<1>q. Wrap(W, r + n) \in 0..(W - 1)
  BY DEF Wrap
<1>2. PICK q \in 0..(W - 1) : q = Wrap(W, r + n)
  BY <1>q
<1>3. n <= u /\ InUse(W, p, q) = u - n
  BY <1>1, <1>2 DEF InUse, Wrap
<1>4. w = g + u /\ \A k \in 0..(u - 1) : c[Ix(W, r, k)] = g + 1 + k
  BY <1>1 DEF RingOK
<1>5. ASSUME NEW k \in 0..(n - 1) PROVE c[r + k] = g + 1 + k
  <2>1. Ix(W, r, k) = r + k /\ k \in 0..(u - 1)
    BY <1>1, <1>3 DEF Ix, InUse
  <2> QED BY <1>4, <2>1
<1>6. ASSUME NEW k \in 0..(u - n - 1)
      PROVE  c[Ix(W, q, k)] = (g + n) + 1 + k
  <2>1. k + n \in 0..(u - 1) /\ Ix(W, r, k + n) = Ix(W, q, k)
    BY <1>1, <1>2, <1>3 DEF Ix, Wrap, InUse
  <2>2. c[Ix(W, r, k + n)] = g + 1 + (k + n)
    BY <1>4, <2>1
  <2> QED BY <2>1, <2>2
<1>7. RingOK(W, p, q, c, w, g + n)
  <2>1. w = (g + n) + InUse(W, p, q)
    BY <1>3, <1>4
  <2> QED BY <1>3, <1>6, <2>1 DEF RingOK
<1> QED BY <1>1, <1>2, <1>3, <1>5, <1>7 DEF Due

-----------------------------------------------------------------------------
(* The inductive invariant.  InOrder says nothing of the cells that are     *)
(* still to be read: RingsOK does.  Opening the stream sets the cursors of  *)
(* ring 2 and a cell of ring 1, so nothing may be in use before.            *)
RingsOK ==
  \A s \in Sides : RingOK(Size[s], pw[s], pr[s], cell[s], wrote[s], got[s])

Unused ==
  ~opened => \A s \in Sides :
    pw[s] = 0 /\ pr[s] = 0 /\ left[s] = 0 /\ want[s] = 0 /\ ~bclose[s]

IInv == TypeOK /\ RingsOK /\ InOrder /\ Unused

LEMMA Ring ==
  ASSUME StreamAssumption, TypeOK, RingsOK, NEW s \in Sides
  PROVE  /\ Size[s] \in Nat \ {0}
         /\ pw[s] \in 0..(Size[s] - 1) /\ pr[s] \in 0..(Size[s] - 1)
         /\ cell[s] \in [0..(Size[s] - 1) -> Nat]
         /\ wrote[s] \in Nat /\ got[s] \in Nat
         /\ left[s] \in Nat /\ want[s] \in Nat \cup {AllThere}
         /\ RingOK(Size[s], pw[s], pr[s], cell[s], wrote[s], got[s])
<1>1. Size[s] \in Nat \ {0} /\ pw[s] \in Nat /\ pr[s] \in Nat
  BY DEF StreamAssumption, TypeOK
<1>2. pw[s] < Size[s] /\ pr[s] < Size[s]
  BY DEF TypeOK
<1>3. /\ cell[s] \in [0..(Size[s] - 1) -> Nat]
      /\ wrote[s] \in Nat /\ got[s] \in Nat
      /\ left[s] \in Nat /\ want[s] \in Nat \cup {AllThere}
  BY DEF TypeOK
<1> QED BY <1>1, <1>2, <1>3 DEF RingsOK

(* The two pieces of an iteration of write fit. *)
LEMMA Pieces ==
  ASSUME NEW s, Size[s] \in Nat \ {0},
         pw[s] \in 0..(Size[s] - 1), pr[s] \in 0..(Size[s] - 1), left[s] \in Nat
  PROVE  /\ Piece1(s) \in Nat /\ Piece2(s) \in Nat
         /\ Piece1(s) + Piece2(s) <= left[s]
         /\ pw[s] + Piece1(s) <= Size[s]
         /\ Piece2(s) > 0 => pw[s] + Piece1(s) = Size[s]
         /\ InUse(Size[s], pw[s], pr[s]) + Piece1(s) + Piece2(s) <= Size[s] - 1
<1>1. CASE pw[s] < pr[s]
  BY <1>1 DEF Piece1, Piece2, Limit, Remain, Space, InUse
<1>2. CASE pw[s] >= pr[s] /\ pr[s] <= 1
  BY <1>2 DEF Piece1, Piece2, Limit, Remain, Space, InUse
<1>3. CASE pw[s] >= pr[s] /\ pr[s] > 1
  BY <1>3 DEF Piece1, Piece2, Limit, Remain, Space, InUse
<1> QED BY <1>1, <1>2, <1>3

(* What write does to ring s, and what it leaves of the others. *)
LEMMA WriteStep ==
  ASSUME StreamAssumption, IInv, NEW s \in Sides, Write(s)
  PROVE  /\ pw'[s] \in 0..(Size[s] - 1)
         /\ cell'[s] \in [0..(Size[s] - 1) -> Nat]
         /\ wrote'[s] = wrote[s] + (Piece1(s) + Piece2(s))
         /\ wrote'[s] <= got[s] + (Size[s] - 1)
         /\ left'[s] \in Nat
         /\ RingOK(Size[s], pw'[s], pr[s], cell'[s], wrote'[s], got[s])
<1> DEFINE W == Size[s]
           p1 == Wrap(W, pw[s] + Piece1(s))
           c1 == Put(cell[s], pw[s], Piece1(s), wrote[s] + 1)
<1>1. /\ W \in Nat \ {0} /\ pw[s] \in 0..(W - 1) /\ pr[s] \in 0..(W - 1)
      /\ cell[s] \in [0..(W - 1) -> Nat]
      /\ wrote[s] \in Nat /\ got[s] \in Nat /\ left[s] \in Nat
      /\ RingOK(W, pw[s], pr[s], cell[s], wrote[s], got[s])
  BY Ring DEF IInv
<1>2. /\ Piece1(s) \in Nat /\ Piece2(s) \in Nat
      /\ Piece1(s) + Piece2(s) <= left[s]
      /\ pw[s] + Piece1(s) <= W
      /\ Piece2(s) > 0 => pw[s] + Piece1(s) = W
      /\ InUse(W, pw[s], pr[s]) + Piece1(s) + Piece2(s) <= W - 1
  BY <1>1, Pieces
<1>3. InUse(W, pw[s], pr[s]) \in Nat
  <2>1. \A p, r \in 0..(W - 1) : InUse(W, p, r) \in Nat
    <3>1. W \in Nat \ {0}
      BY <1>1
    <3> HIDE DEF W
    <3>2. QED
      BY <3>1 DEF InUse
  <2>2. QED
    BY <1>1, <2>1
<1>4. /\ p1 \in 0..(W - 1)
      /\ c1 \in [0..(W - 1) -> Nat]
      /\ InUse(W, p1, pr[s]) = InUse(W, pw[s], pr[s]) + Piece1(s)
      /\ RingOK(W, p1, pr[s], c1, wrote[s] + Piece1(s), got[s])
  <2>1. InUse(W, pw[s], pr[s]) + Piece1(s) <= W - 1
    BY <1>1, <1>2, <1>3
  <2> QED BY <1>1, <1>2, <2>1, WriteKeepsRing
<1>5. p1 + Piece2(s) <= W
  <2>1. CASE Piece2(s) = 0
    <3> HIDE DEF p1
    <3> QED BY <1>1, <1>4, <2>1
  <2>2. CASE Piece2(s) > 0
    <3>1. p1 = 0
      BY <1>2, <2>2 DEF Wrap
    <3> HIDE DEF p1
    <3> QED BY <1>1, <1>2, <1>3, <3>1
  <2> QED BY <1>2, <2>1, <2>2
<1>6. wrote[s] + Piece1(s) \in Nat
  BY <1>1, <1>2
<1> DEFINE p2 == Wrap(W, p1 + Piece2(s))
           c2 == Put(c1, p1, Piece2(s), wrote[s] + Piece1(s) + 1)
<1>7. /\ p2 \in 0..(W - 1)
      /\ c2 \in [0..(W - 1) -> Nat]
      /\ InUse(W, p2, pr[s]) = InUse(W, p1, pr[s]) + Piece2(s)
      /\ RingOK(W, p2, pr[s], c2, wrote[s] + Piece1(s) + Piece2(s), got[s])
  <2>1. InUse(W, p1, pr[s]) + Piece2(s) <= W - 1
    BY <1>2, <1>4
  <2> HIDE DEF p1, c1
  <2> QED BY <1>1, <1>2, <1>4, <1>5, <1>6, <2>1, WriteKeepsRing
<1>8. /\ pw'[s] = p2 /\ cell'[s] = c2
      /\ wrote'[s] = wrote[s] + (Piece1(s) + Piece2(s))
      /\ left'[s] = left[s] - (Piece1(s) + Piece2(s))
  BY DEF Write, Advance, Wrap, IInv, TypeOK
<1>9. wrote[s] + (Piece1(s) + Piece2(s)) = wrote[s] + Piece1(s) + Piece2(s)
  BY <1>1, <1>2
<1>10. wrote'[s] <= got[s] + (W - 1) /\ left'[s] \in Nat
  <2>1. wrote[s] = got[s] + InUse(W, pw[s], pr[s])
    BY <1>1 DEF RingOK
  <2>2. wrote'[s] <= got[s] + (W - 1)
    <3>1. wrote'[s] = wrote[s] + (Piece1(s) + Piece2(s))
      BY <1>8
    <3>2. PICK n1 \in Nat, n2 \in Nat, u \in Nat :
            n1 = Piece1(s) /\ n2 = Piece2(s) /\ u = InUse(W, pw[s], pr[s])
      BY <1>2, <1>3
    <3>3. u + n1 + n2 <= W - 1
      BY <1>2, <3>2
    <3>4. wrote'[s] = (got[s] + u) + (n1 + n2)
      BY <2>1, <3>1, <3>2
    <3> QED BY <1>1, <3>3, <3>4
  <2>3. left'[s] \in Nat
    <3>1. PICK n1 \in Nat, n2 \in Nat, l \in Nat :
            n1 = Piece1(s) /\ n2 = Piece2(s) /\ l = left[s]
      BY <1>1, <1>2
    <3>2. n1 + n2 <= l
      BY <1>2, <3>1
    <3>3. left'[s] = l - (n1 + n2)
      BY <1>8, <3>1
    <3> QED BY <3>2, <3>3
  <2> QED BY <2>2, <2>3
<1> QED BY <1>7, <1>8, <1>9, <1>10

(* What the read of side s does to the ring d of the other. *)
LEMMA ReadStep ==
  ASSUME StreamAssumption, IInv, NEW s \in Sides, Read(s),
         NEW d \in Sides, d = Other(s)
  PROVE  /\ pr'[d] \in 0..(Size[d] - 1)
         /\ Piece(s) \in 1..(Size[d] - 1)
         /\ got'[d] = got[d] + Piece(s) /\ got'[d] \in Nat
         /\ got'[d] <= wrote[d]
         /\ Due(pr[d], cell[d], got[d], Piece(s))
         /\ want'[s] \in Nat
         /\ RingOK(Size[d], pw[d], pr'[d], cell[d], wrote[d], got'[d])
<1>1. PICK W \in Nat \ {0} : W = Size[d]
  BY DEF StreamAssumption
<1>2. PICK p \in 0..(W - 1), r \in 0..(W - 1), c \in [0..(W - 1) -> Nat],
           w \in Nat, g \in Nat :
        /\ p = pw[d] /\ r = pr[d] /\ c = cell[d] /\ w = wrote[d] /\ g = got[d]
        /\ RingOK(W, p, r, c, w, g)
  BY <1>1, Ring DEF IInv
<1>3. want[s] \in Nat \cup {AllThere} /\ want[s] # 0 /\ p # r
  BY <1>2 DEF IInv, TypeOK, Read, Reading
<1>4. PICK m \in Nat \ {0} : m = Ready(d) /\ m = (IF p > r THEN p - r ELSE W - r)
  BY <1>1, <1>2 DEF Ready
<1>5. PICK n \in Nat \ {0} :
        n = Piece(s) /\ n <= m /\ (want[s] # AllThere => n <= want[s])
  <2>1. CASE want[s] = AllThere
    <3>1. Piece(s) = m
      BY <1>4, <2>1 DEF Piece
    <3> QED BY <2>1, <3>1
  <2>2. CASE want[s] # AllThere
    <3>1. want[s] \in Nat \ {0}
      BY <1>3, <2>2
    <3>2. Piece(s) = IF m > want[s] THEN want[s] ELSE m
      BY <1>4, <2>2 DEF Piece
    <3> QED BY <3>1, <3>2
  <2> QED BY <2>1, <2>2
<1>6. PICK u \in 0..(W - 1) : u = InUse(W, p, r) /\ w = g + u
  <2>1. InUse(W, p, r) \in 0..(W - 1)
    BY DEF InUse
  <2> QED BY <1>2, <2>1 DEF RingOK
<1>7. /\ Wrap(W, r + n) \in 0..(W - 1)
      /\ n <= u
      /\ Due(r, c, g, n)
      /\ RingOK(W, p, Wrap(W, r + n), c, w, g + n)
  <2>1. (p > r /\ n <= p - r) \/ (p < r /\ n <= W - r)
    BY <1>3, <1>4, <1>5
  <2>2. n \in Nat /\ RingOK(W, p, r, c, w, g)
    BY <1>2
  <2>3. /\ Wrap(W, r + n) \in 0..(W - 1)
        /\ n <= InUse(W, p, r)
        /\ Due(r, c, g, n)
        /\ RingOK(W, p, Wrap(W, r + n), c, w, g + n)
    BY <2>1, <2>2, ReadKeepsRing
  <2> QED BY <1>6, <2>3
<1>8. /\ pr'[d] = Wrap(W, r + n) /\ got'[d] = g + n
      /\ want'[s] = IF want[s] = AllThere THEN 0 ELSE want[s] - n
  BY <1>1, <1>2, <1>5 DEF Read, Advance, Wrap, IInv, TypeOK
<1>9. want'[s] \in Nat
  BY SMTT(30), <1>3, <1>5, <1>8
<1>10. n \in 1..(W - 1) /\ g + n <= w
  BY <1>6, <1>7
<1>11. /\ pr'[d] \in 0..(Size[d] - 1)
       /\ Piece(s) \in 1..(Size[d] - 1)
       /\ got'[d] = got[d] + Piece(s) /\ got'[d] \in Nat
       /\ got'[d] <= wrote[d]
  <2>1. g + n \in Nat
    OBVIOUS
  <2>2. /\ Wrap(W, r + n) \in 0..(Size[d] - 1) /\ n \in 1..(Size[d] - 1)
    BY <1>1, <1>7, <1>10
  <2> QED BY <1>2, <1>5, <1>8, <1>10, <2>1, <2>2
<1>12. Due(pr[d], cell[d], got[d], Piece(s))
  BY <1>2, <1>5, <1>7
<1>13. RingOK(Size[d], pw[d], pr'[d], cell[d], wrote[d], got'[d])
  BY <1>1, <1>2, <1>7, <1>8
<1> QED BY <1>9, <1>11, <1>12, <1>13

-----------------------------------------------------------------------------
(* The invariant is kept by every step. *)

(* By a step that leaves the rings and what has gone through them alone. *)
LEMMA QuietStep ==
  ASSUME IInv, UNCHANGED <<ringVars, historyVars, opened>>,
         state' \in [Sides -> {"C", "X"}], bclose' \in [Sides -> BOOLEAN],
         lock' \in Threads \cup {Free},
         left' \in [Sides -> Nat], want' \in [Sides -> Nat \cup {AllThere}],
         opened \/ UNCHANGED <<bclose, left, want>>
  PROVE  IInv'
<1>1. TypeOK'
  BY DEF IInv, TypeOK, ringVars, historyVars
<1>2. RingsOK'
  BY DEF IInv, RingsOK, RingOK, InUse, Ix, ringVars, historyVars
<1>3. InOrder'
  BY DEF IInv, InOrder, historyVars
<1>4. Unused'
  BY DEF IInv, Unused, ringVars
<1> QED BY <1>1, <1>2, <1>3, <1>4 DEF IInv

LEMMA OthersDiffer ==
  ASSUME NEW s \in Sides PROVE Other(s) \in Sides /\ Other(s) # s
BY DEF Sides, Other

LEMMA OpenKeeps ==
  ASSUME StreamAssumption, IInv, Open PROVE IInv'
<1>1. /\ pw[1] = 0 /\ pr[1] = 0 /\ pw[2] = 0 /\ pr[2] = 0
  BY DEF Open, IInv, Unused, Sides
<1>2. TypeOK'
  <2>1. \A s \in Sides : cell'[s] \in [0..(Size[s] - 1) -> Nat]
    BY DEF Open, IInv, TypeOK, Sides
  <2>2. /\ pw' \in [Sides -> Nat] /\ pr' \in [Sides -> Nat]
        /\ \A s \in Sides : pw'[s] < Size[s] /\ pr'[s] < Size[s]
        /\ DOMAIN cell' = Sides
    BY SMTT(30) DEF Open, IInv, TypeOK, Sides
  <2> QED BY <2>1, <2>2 DEF Open, IInv, TypeOK, closeVars, historyVars
<1>3. RingsOK'
  <2> SUFFICES ASSUME NEW s \in Sides
               PROVE  RingOK(Size[s], pw'[s], pr'[s], cell'[s], wrote[s], got[s])
    BY DEF Open, RingsOK, historyVars
  <2>1. wrote[s] = got[s] + 0
    <3>1. RingOK(Size[s], pw[s], pr[s], cell[s], wrote[s], got[s])
      BY DEF IInv, RingsOK
    <3>2. pw[s] = 0 /\ pr[s] = 0
      BY <1>1 DEF Sides
    <3> QED BY <3>1, <3>2 DEF RingOK, InUse
  <2>2. pw'[s] = 0 /\ pr'[s] = 0
    BY <1>1 DEF Open, IInv, TypeOK, Sides
  <2> QED BY <2>1, <2>2 DEF RingOK, InUse
<1>4. InOrder' /\ Unused'
  BY DEF Open, IInv, InOrder, Unused, historyVars
<1> QED BY <1>2, <1>3, <1>4 DEF IInv

(* An action of side s happens only when the stream is open, if side 1      *)
(* waits for that.                                                          *)
LEMMA UsedWhenOpen ==
  ASSUME IInv, OpenFirst, NEW s \in Sides,
         Uses(s) \/ left[s] > 0 \/ want[s] # 0
  PROVE  opened
BY DEF IInv, TypeOK, Unused, Uses

LEMMA WriteKeeps ==
  ASSUME StreamAssumption, OpenFirst, IInv, NEW s \in Sides, Write(s)
  PROVE  IInv'
<1>1. opened /\ opened'
  BY UsedWhenOpen DEF Write, Writing
<1>2. /\ pw'[s] \in 0..(Size[s] - 1)
      /\ cell'[s] \in [0..(Size[s] - 1) -> Nat]
      /\ wrote'[s] \in Nat /\ left'[s] \in Nat
      /\ RingOK(Size[s], pw'[s], pr[s], cell'[s], wrote'[s], got[s])
  <2>1. wrote[s] \in Nat /\ Piece1(s) \in Nat /\ Piece2(s) \in Nat
    BY Ring, Pieces DEF IInv
  <2>2. wrote[s] + (Piece1(s) + Piece2(s)) \in Nat
    BY <2>1
  <2> QED BY <2>2, WriteStep
<1>3. \A t \in Sides : t # s =>
        pw'[t] = pw[t] /\ cell'[t] = cell[t] /\ wrote'[t] = wrote[t] /\ left'[t] = left[t]
  BY DEF Write, IInv, TypeOK
<1>4. DOMAIN cell' = Sides /\ lock' \in Threads \cup {Free}
  BY DEF Write, IInv, TypeOK, Threads
<1>5. pw' = [pw EXCEPT ![s] = pw'[s]] /\ wrote' = [wrote EXCEPT ![s] = wrote'[s]]
      /\ left' = [left EXCEPT ![s] = left'[s]]
  BY DEF Write, IInv, TypeOK
<1>6. pw' \in [Sides -> Nat] /\ wrote' \in [Sides -> Nat] /\ left' \in [Sides -> Nat]
  <2>1. pw'[s] \in Nat
    BY <1>2, Ring DEF IInv
  <2> QED BY <1>2, <1>5, <2>1 DEF IInv, TypeOK
<1>7. TypeOK'
  <2>1. ASSUME NEW t \in Sides
        PROVE  /\ pw'[t] < Size[t] /\ pr[t] < Size[t]
               /\ cell'[t] \in [0..(Size[t] - 1) -> Nat]
    <3>1. pw'[s] < Size[s]
      BY <1>2, Ring DEF IInv
    <3> QED BY <1>2, <1>3, <3>1 DEF IInv, TypeOK
  <2> QED BY <1>4, <1>6, <2>1 DEF Write, IInv, TypeOK, closeVars
<1>8. RingsOK'
  <2>1. ASSUME NEW t \in Sides
        PROVE  RingOK(Size[t], pw'[t], pr[t], cell'[t], wrote'[t], got[t])
    BY <1>2, <1>3 DEF IInv, RingsOK
  <2> QED BY <2>1 DEF Write, RingsOK
<1>9. InOrder' /\ Unused'
  BY <1>1 DEF Write, IInv, InOrder, Unused
<1> QED BY <1>7, <1>8, <1>9 DEF IInv

LEMMA ReadKeeps ==
  ASSUME StreamAssumption, OpenFirst, IInv, NEW s \in Sides, Read(s)
  PROVE  IInv'
<1>1. opened /\ opened'
  BY UsedWhenOpen DEF Read, Reading
<1>2. PICK d \in Sides : d = Other(s)
  BY OthersDiffer
<1>3. /\ pr'[d] \in 0..(Size[d] - 1)
      /\ got'[d] \in Nat /\ want'[s] \in Nat
      /\ Due(pr[d], cell[d], got[d], Piece(s))
      /\ RingOK(Size[d], pw[d], pr'[d], cell[d], wrote[d], got'[d])
  BY <1>2, ReadStep
<1>4. /\ pr' = [pr EXCEPT ![d] = pr'[d]] /\ got' = [got EXCEPT ![d] = got'[d]]
      /\ want' = [want EXCEPT ![s] = want'[s]]
      /\ inorder' = [inorder EXCEPT ![d] = inorder[d] /\ Due(pr[d], cell[d], got[d], Piece(s))]
  BY <1>2 DEF Read, IInv, TypeOK, Due
<1>5. /\ pr' \in [Sides -> Nat] /\ got' \in [Sides -> Nat]
      /\ want' \in [Sides -> Nat \cup {AllThere}] /\ inorder' \in [Sides -> BOOLEAN]
  <2>1. pr'[d] \in Nat
    BY <1>3, Ring DEF IInv
  <2> QED BY <1>3, <1>4, <2>1 DEF IInv, TypeOK
<1>6. TypeOK'
  <2>1. ASSUME NEW t \in Sides
        PROVE  pw[t] < Size[t] /\ pr'[t] < Size[t]
    <3>1. pr'[d] < Size[d]
      BY SMTT(30), <1>3, Ring DEF IInv
    <3> QED BY <1>4, <3>1 DEF IInv, TypeOK
  <2>2. lock' \in Threads \cup {Free}
    BY DEF Read, Threads
  <2> QED BY <1>5, <2>1, <2>2 DEF Read, IInv, TypeOK, closeVars
<1>7. RingsOK'
  <2>1. ASSUME NEW t \in Sides
        PROVE  RingOK(Size[t], pw[t], pr'[t], cell[t], wrote[t], got'[t])
    BY <1>3, <1>4 DEF IInv, RingsOK, TypeOK
  <2> QED BY <2>1 DEF Read, RingsOK
<1>8. InOrder' /\ Unused'
  BY <1>1, <1>3, <1>4 DEF IInv, InOrder, TypeOK, Unused
<1> QED BY <1>6, <1>7, <1>8 DEF IInv

LEMMA InitHolds ==
  ASSUME StreamAssumption, Init PROVE IInv
<1>1. TypeOK
  <2>1. \A s \in Sides : Size[s] \in Nat \ {0} /\ cell[s] = [i \in 0..(Size[s] - 1) |-> 0]
    BY DEF Init, StreamAssumption
  <2>2. \A s \in Sides : pw[s] < Size[s] /\ pr[s] < Size[s]
    BY <2>1 DEF Init
  <2>3. ASSUME NEW s \in Sides PROVE cell[s] \in [0..(Size[s] - 1) -> Nat]
    <3>1. cell[s] = [i \in 0..(Size[s] - 1) |-> 0]
      BY <2>1
    <3> QED BY <3>1
  <2> QED BY <2>2, <2>3 DEF Init, TypeOK
<1>2. RingsOK
  BY DEF Init, RingsOK, RingOK, InUse
<1>3. InOrder /\ Unused
  BY DEF Init, InOrder, Unused
<1> QED BY <1>1, <1>2, <1>3 DEF IInv

LEMMA StepKeeps ==
  ASSUME StreamAssumption, OpenFirst, IInv, [Next]_vars
  PROVE  IInv'
<1> USE DEF ringVars, closeVars, historyVars
<1>1. CASE UNCHANGED vars
  BY <1>1, QuietStep DEF vars, IInv, TypeOK
<1>2. CASE Open
  BY <1>2, OpenKeeps
<1>3. ASSUME NEW s \in Sides, Write(s) PROVE IInv'
  BY <1>3, WriteKeeps
<1>4. ASSUME NEW s \in Sides, Read(s) PROVE IInv'
  BY <1>4, ReadKeeps
<1>5. ASSUME NEW s \in Sides, StartWrite(s) PROVE IInv'
  <2>1. opened
    BY <1>5, UsedWhenOpen DEF StartWrite
  <2>2. left' \in [Sides -> Nat]
    BY <1>5 DEF StartWrite, IInv, TypeOK
  <2> QED BY <1>5, <2>1, <2>2, QuietStep DEF StartWrite, IInv, TypeOK
<1>6. ASSUME NEW s \in Sides, WriteWaits(s) PROVE IInv'
  BY <1>6, QuietStep DEF WriteWaits, Releases, IInv, TypeOK
<1>7. ASSUME NEW s \in Sides, WriteRaises(s) PROVE IInv'
  <2>1. opened
    BY <1>7, UsedWhenOpen DEF WriteRaises
  <2>2. left' \in [Sides -> Nat]
    BY <1>7 DEF WriteRaises, IInv, TypeOK
  <2> QED BY <1>7, <2>1, <2>2, QuietStep DEF WriteRaises, Releases, IInv, TypeOK
<1>8. ASSUME NEW s \in Sides, StartRead(s) PROVE IInv'
  <2>1. want' \in [Sides -> Nat \cup {AllThere}]
    BY <1>8 DEF StartRead, IInv, TypeOK
  <2> QED BY <1>8, <2>1, QuietStep DEF StartRead, IInv, TypeOK
<1>9. ASSUME NEW s \in Sides, ReadWaits(s) PROVE IInv'
  BY <1>9, QuietStep DEF ReadWaits, Releases, IInv, TypeOK
<1>10. ASSUME NEW s \in Sides, ReadEnds(s) PROVE IInv'
  <2>1. opened
    BY <1>10, UsedWhenOpen DEF ReadEnds
  <2>2. want' \in [Sides -> Nat \cup {AllThere}]
    BY <1>10 DEF ReadEnds, IInv, TypeOK
  <2> QED BY <1>10, <2>1, <2>2, QuietStep DEF ReadEnds, Releases, IInv, TypeOK
<1>11. ASSUME NEW s \in Sides, Close(s) PROVE IInv'
  <2>1. opened
    BY <1>11, UsedWhenOpen DEF Close
  <2> QED BY <1>11, <2>1, QuietStep DEF Close, IInv, TypeOK
<1> QED BY <1>1, <1>2, <1>3, <1>4, <1>5, <1>6, <1>7, <1>8, <1>9, <1>10, <1>11
        DEF Next, WriteLoop, ReadLoop

LEMMA Invariant ==
  ASSUME OpenFirst PROVE Spec => []IInv
<1>1. Init => IInv
  BY StreamAssumption, InitHolds
<1>2. IInv /\ [Next]_vars => IInv'
  BY StreamAssumption, StepKeeps
<1> QED BY <1>1, <1>2, PTL DEF Spec

-----------------------------------------------------------------------------
(* Every variable keeps its range: no cursor leaves its ring.               *)
THEOREM TypeCorrect ==
  ASSUME OpenFirst PROVE Spec => []TypeOK
<1>1. IInv => TypeOK
  BY DEF IInv
<1> QED BY <1>1, Invariant, PTL

(* Whatever the sizes of the rings, of the writes and of the reads, each    *)
(* byte that is read is the next one written.                               *)
THEOREM ReadsInOrder ==
  ASSUME OpenFirst PROVE Spec => []InOrder
<1>1. IInv => InOrder
  BY DEF IInv
<1> QED BY <1>1, Invariant, PTL

(* A reader that takes the stream for ended has read all of it.             *)
THEOREM EndsWhenRead ==
  ASSUME OpenFirst PROVE Spec => EndMeansAll
<1> DEFINE ReadEnd ==
      \A s \in Sides :
        ~bclose[s] /\ bclose'[s] /\ want[s] # 0 /\ want'[s] = 0
          => got[Other(s)] = wrote[Other(s)]
<1>1. ASSUME IInv, [Next]_vars PROVE [ReadEnd]_vars
  <2> SUFFICES ASSUME NEW s \in Sides,
                      ~bclose[s], bclose'[s], want[s] # 0, want'[s] = 0
               PROVE  got[Other(s)] = wrote[Other(s)]
    OBVIOUS
  <2>1. PICK d \in Sides : d = Other(s)
    BY OthersDiffer
  <2>2. ReadEnds(s)
    <3>1. ASSUME NEW t \in Sides, StartRead(t) \/ StartWrite(t) \/ Write(t) \/ WriteWaits(t)
                                  \/ Read(t) \/ ReadWaits(t)
          PROVE  bclose' = bclose
      BY <3>1 DEF StartRead, StartWrite, Write, WriteWaits, Read, ReadWaits, vars, closeVars
    <3>2. ASSUME NEW t \in Sides, WriteRaises(t) \/ Close(t) PROVE want' = want
      BY <3>2 DEF WriteRaises, Close
    <3>3. ASSUME NEW t \in Sides, ReadEnds(t) PROVE t = s
      BY <3>3, <1>1 DEF ReadEnds, IInv, TypeOK
    <3>4. Open \/ UNCHANGED vars => bclose' = bclose
      BY DEF Open, vars, closeVars
    <3> QED BY <1>1, <3>1, <3>2, <3>3, <3>4 DEF Next, WriteLoop, ReadLoop
  <2>3. pw[d] = pr[d]
    BY <2>1, <2>2 DEF ReadEnds
  <2>4. /\ wrote[d] = got[d] + InUse(Size[d], pw[d], pr[d])
        /\ wrote[d] \in Nat /\ got[d] \in Nat /\ pw[d] \in Int
    BY <1>1, StreamAssumption, Ring DEF IInv, RingOK
  <2> QED BY <2>1, <2>3, <2>4 DEF InUse
<1>2. Spec => [][ReadEnd]_vars
  BY <1>1, Invariant, PTL DEF Spec
<1> QED BY <1>2 DEF EndMeansAll

-----------------------------------------------------------------------------
(* The stream is the byte stream it stands for: an iteration of write sends *)
(* (or, when it writes nothing, changes nothing the byte stream knows of),  *)
(* one of read receives, and whatever closes a side shuts it.               *)

abstractVars == <<wrote, got, InOrder, {s \in Sides : bclose[s]}>>

LEMMA SendsBytes ==
  ASSUME StreamAssumption, OpenFirst, IInv, InOrder', NEW s \in Sides, Write(s)
  PROVE  Abstract!Next \/ UNCHANGED abstractVars
<1>1. PICK n \in Nat : n = Piece1(s) + Piece2(s)
  <2>1. Piece1(s) \in Nat /\ Piece2(s) \in Nat
    BY Ring, Pieces DEF IInv
  <2> QED BY <2>1
<1>2. /\ wrote' = [wrote EXCEPT ![s] = wrote[s] + n] /\ wrote[s] \in Nat
      /\ got[s] \in Nat /\ Size[s] \in Nat \ {0}
      /\ UNCHANGED <<got, bclose>> /\ ~bclose[s]
  BY <1>1, Ring DEF Write, Writing, IInv, closeVars
<1>3. wrote[s] + n <= got[s] + (Size[s] - 1)
  BY <1>1, WriteStep
<1>4. wrote[s] >= got[s]
  <2>1. wrote[s] = got[s] + InUse(Size[s], pw[s], pr[s])
        /\ pw[s] \in 0..(Size[s] - 1) /\ pr[s] \in 0..(Size[s] - 1)
    BY Ring DEF IInv, RingOK
  <2> QED BY <1>2, <2>1 DEF InUse
<1>5. UNCHANGED <<InOrder, {t \in Sides : bclose[t]}>>
  BY <1>2 DEF IInv
<1>6. CASE n = 0
  <2>1. wrote' = wrote
    BY <1>2, <1>6 DEF IInv, TypeOK
  <2> QED BY <1>2, <1>5, <2>1 DEF abstractVars
<1>7. CASE n > 0
  <2>1. n \in 1..(Size[s] - 1)
    BY <1>2, <1>3, <1>4, <1>7
  <2>2. Abstract!Send(s)
    BY <1>2, <1>3, <1>5, <2>1 DEF Abstract!Send
  <2> QED BY <2>2 DEF Abstract!Next
<1>8. n = 0 \/ n > 0
  OBVIOUS
<1> QED BY <1>6, <1>7, <1>8

LEMMA ReceivesBytes ==
  ASSUME StreamAssumption, OpenFirst, IInv, InOrder', NEW s \in Sides, Read(s)
  PROVE  Abstract!Next
<1>1. PICK d \in Sides : d = Other(s) /\ s # d
  BY OthersDiffer
<1>2. PICK n \in 1..(Size[d] - 1) : n = Piece(s)
  BY <1>1, ReadStep
<1>3. /\ got' = [got EXCEPT ![d] = got[d] + n]
      /\ UNCHANGED <<wrote, bclose>> /\ ~bclose[s]
  BY <1>1, <1>2 DEF Read, Reading, closeVars
<1>4. got[d] + n <= wrote[d]
  BY <1>1, <1>2, ReadStep
<1>5. UNCHANGED <<InOrder, {t \in Sides : bclose[t]}>>
  BY <1>3 DEF IInv
<1>6. Abstract!Receive(d)
  BY <1>1, <1>2, <1>3, <1>4, <1>5 DEF Abstract!Receive
<1> QED BY <1>6 DEF Abstract!Next

LEMMA ShutsSide ==
  ASSUME IInv, InOrder', NEW s \in Sides, bclose' = [bclose EXCEPT ![s] = TRUE],
         UNCHANGED <<wrote, got>>
  PROVE  Abstract!Next
<1>1. {t \in Sides : bclose'[t]} = {t \in Sides : bclose[t]} \cup {s}
  BY DEF IInv, TypeOK
<1>2. UNCHANGED InOrder
  BY DEF IInv
<1>3. Abstract!Shut(s)
  BY <1>1, <1>2 DEF Abstract!Shut
<1> QED BY <1>3 DEF Abstract!Next

(* Every behaviour of the stream is one of the byte stream.                 *)
THEOREM IsByteStream ==
  ASSUME OpenFirst PROVE Spec => ImplementsByteStream
<1>1. Init => Abstract!Init
  BY DEF Init, InOrder, Abstract!Init
<1>2. ASSUME IInv, IInv', [Next]_vars PROVE [Abstract!Next]_abstractVars
  <2> USE DEF closeVars, historyVars
  <2>1. InOrder /\ InOrder'
    BY <1>2 DEF IInv
  <2>2. ASSUME NEW s \in Sides, Write(s) PROVE [Abstract!Next]_abstractVars
    BY <1>2, <2>1, <2>2, StreamAssumption, SendsBytes
  <2>3. ASSUME NEW s \in Sides, Read(s) PROVE Abstract!Next
    BY <1>2, <2>1, <2>3, StreamAssumption, ReceivesBytes
  <2>4. ASSUME NEW s \in Sides, WriteRaises(s) \/ ReadEnds(s) \/ Close(s)
        PROVE  Abstract!Next
    BY <1>2, <2>1, <2>4, ShutsSide DEF WriteRaises, ReadEnds, Close
  <2>5. ASSUME UNCHANGED <<wrote, got, bclose>> PROVE UNCHANGED abstractVars
    BY <2>1, <2>5 DEF abstractVars
  <2>6. ASSUME NEW s \in Sides,
               StartWrite(s) \/ WriteWaits(s) \/ StartRead(s) \/ ReadWaits(s)
        PROVE  UNCHANGED abstractVars
    BY <2>5, <2>6 DEF StartWrite, WriteWaits, StartRead, ReadWaits
  <2>7. Open \/ UNCHANGED vars => UNCHANGED abstractVars
    BY <2>5 DEF Open, vars
  <2> QED BY <1>2, <2>2, <2>3, <2>4, <2>6, <2>7 DEF Next, WriteLoop, ReadLoop
<1>3. Spec => Abstract!Init /\ [][Abstract!Next]_abstractVars
  BY <1>1, <1>2, Invariant, PTL DEF Spec
<1> QED BY <1>3, PTL DEF ImplementsByteStream, Abstract!Spec, abstractVars

-----------------------------------------------------------------------------
LEMMA SpinStays ==
  ASSUME StreamAssumption, IInv, [Next]_vars, NEW s \in Sides, Spinning(s)
  PROVE  Spinning(s)'
<1> USE DEF Spinning, Writing, Holds
<1>1. lock = <<"write", s>> /\ lock # Free
  BY DEF Free
<1>2. CASE Write(s)
  <2>1. /\ Size[s] \in Nat \ {0} /\ pw[s] \in 0..(Size[s] - 1)
        /\ pr[s] \in 0..(Size[s] - 1) /\ left[s] \in Nat
    BY Ring DEF IInv
  <2>2. Piece1(s) = 0 /\ Piece2(s) = 0
    <3>1. Piece1(s) \in Nat /\ Piece2(s) \in Nat /\ Piece1(s) + Piece2(s) = 0
      BY <2>1, Pieces
    <3> QED BY <3>1
  <2>3. pw'[s] = pw[s] /\ left'[s] = left[s] /\ lock' = <<"write", s>>
    <3>1. Advance(s, pw[s], 0) = pw[s]
      BY <2>1 DEF Advance
    <3>2. /\ pw'[s] = Advance(s, Advance(s, pw[s], Piece1(s)), Piece2(s))
          /\ left'[s] = left[s] - (Piece1(s) + Piece2(s))
          /\ lock' = IF Piece1(s) + Piece2(s) = left[s] THEN Free ELSE <<"write", s>>
      BY <1>2 DEF Write, IInv, TypeOK
    <3> QED BY <2>1, <2>2, <3>1, <3>2
  <2>4. pr' = pr /\ bclose' = bclose /\ state' = state
    BY <1>2 DEF Write, closeVars
  <2>5. /\ Space(s)' = Space(s) /\ Piece1(s)' = Piece1(s) /\ Piece2(s)' = Piece2(s)
    BY <2>3, <2>4 DEF Space, Piece1, Piece2, Limit, Remain
  <2> QED BY <2>3, <2>4, <2>5
<1>3. ASSUME UNCHANGED <<pw, pr, closeVars, lock>>, left'[s] = left[s]
      PROVE  Spinning(s)'
  BY <1>3 DEF Space, Piece1, Piece2, Limit, Remain, closeVars
<1>4. ASSUME NEW t \in Sides, StartWrite(t) PROVE Spinning(s)'
  BY SMTT(30), <1>3, <1>4 DEF StartWrite, ringVars, IInv, TypeOK
<1>5. ASSUME NEW t \in Sides, StartRead(t) PROVE Spinning(s)'
  BY <1>3, <1>5 DEF StartRead, ringVars
<1>6. ASSUME NEW t \in Sides, t # s, WriteLoop(t) PROVE FALSE
  BY <1>1, <1>6 DEF WriteLoop, Write, WriteWaits, WriteRaises
<1>7. ASSUME NEW t \in Sides, ReadLoop(t) \/ Close(t) PROVE FALSE
  BY <1>1, <1>7 DEF ReadLoop, Read, Reading, ReadWaits, ReadEnds, Close
<1>8. ~WriteWaits(s) /\ ~WriteRaises(s)
  BY DEF WriteWaits, WriteRaises
<1>9. CASE Open
  BY <1>9 DEF Open, IInv, TypeOK, Unused
<1>10. CASE UNCHANGED vars
  BY <1>3, <1>10 DEF vars, ringVars
<1> QED
  BY <1>2, <1>4, <1>5, <1>6, <1>7, <1>8, <1>9, <1>10 DEF Next, WriteLoop

(* A write that repeats an iteration in which it writes nothing repeats it  *)
(* for ever: the reader cannot take the lock to make room, nor either side  *)
(* to close.                                                                *)
THEOREM SpinsForEver ==
  ASSUME OpenFirst PROVE Spec => [][\A s \in Sides : Spinning(s) => Spinning(s)']_vars
<1>1. ASSUME IInv, [Next]_vars
      PROVE  [\A s \in Sides : Spinning(s) => Spinning(s)']_vars
  BY <1>1, StreamAssumption, SpinStays
<1> QED BY <1>1, Invariant, PTL DEF Spec
-----------------------------------------------------------------------------
\* The state as the code keeps it: a list names objects of its own process
\* only, and its file never more than the list.
NamesTypeOK ==
  /\ alive \subseteq Pids /\ emptied \subseteq Pids
  /\ names \in [Pids -> SUBSET Objs] /\ rls \in [Pids -> SUBSET Objs]
  /\ life \in [Objs -> Stages]
  /\ kernel \subseteq Objs

ListsOwn == \A p \in Pids :
  /\ \A o \in names[p] : Owner[o] = p
  /\ rls[p] \subseteq names[p]
  /\ p \in alive /\ p \notin emptied => rls[p] = names[p]

\* An object has its name in the list from before it is made until it is given up.
NamedFirst == \A o \in Objs :
  /\ life[o] \in {"naming", "named", "exists"} => o \in names[Owner[o]]
  /\ life[o] \in {"none", "naming", "named"} => o \notin kernel

NamesInv == NamesTypeOK /\ ListsOwn /\ NamedFirst /\ NamesKept

LEMMA InitNames == NamesInit => NamesInv
  BY OwnerAssumption DEF NamesInit, NamesInv, NamesTypeOK, ListsOwn, NamedFirst, NamesKept, Stages, Runs

\* Every step keeps the invariant.
LEMMA StepNames == NamesInv /\ [NamesNext]_namesVars => NamesInv'
<1> SUFFICES ASSUME NamesInv, [NamesNext]_namesVars PROVE NamesInv'
  OBVIOUS
<1> USE OwnerAssumption DEF NamesInv, NamesTypeOK, ListsOwn, NamedFirst, NamesKept, Stages, Runs, To
<1>1. ASSUME NEW o \in Objs, AddName(o) PROVE NamesInv'
  BY <1>1 DEF AddName, Rewrite
<1>2. ASSUME NEW o \in Objs, RemName(o) PROVE NamesInv'
  BY <1>2 DEF RemName, Rewrite
<1>3. ASSUME NEW p \in Pids, WriteNames(p) PROVE NamesInv'
  BY <1>3 DEF WriteNames
<1>4. ASSUME NEW o \in Objs, Create(o) PROVE NamesInv'
  BY <1>4 DEF Create
<1>5. ASSUME NEW o \in Objs, MapFails(o) PROVE NamesInv'
  BY <1>5 DEF MapFails
<1>6. ASSUME NEW o \in Objs, Unlink(o) PROVE NamesInv'
  BY <1>6 DEF Unlink
<1>7. ASSUME NEW p \in Pids, Dies(p) PROVE NamesInv'
  BY <1>7 DEF Dies
<1>8. CASE ClearPath
  BY <1>8 DEF ClearPath
<1>9. CASE UNCHANGED namesVars
  BY <1>9 DEF namesVars
<1>10. QED
  BY <1>1, <1>2, <1>3, <1>4, <1>5, <1>6, <1>7, <1>8, <1>9 DEF NamesNext

\* Wherever a process stops, what exists is named where the next agent finds it, but while
\* that list is rewritten or for what was about to be destroyed; and what a running process
\* uses is not unlinked under it.
THEOREM NamesAreKept == NamesSpec => []NamesKept
<1>1. NamesInv => NamesKept
  BY DEF NamesInv
<1>2. QED
  BY InitNames, StepNames, <1>1, PTL DEF NamesSpec
-----------------------------------------------------------------------------
(* The inductive invariant. *)

(* What is there once the update is applied, and once it is undone.         *)
Done == [f \in Files |-> IF staged[f] # Absent THEN staged[f] ELSE installed[f]]
Undone == [f \in Files |-> IF old[f] # Absent THEN old[f] ELSE installed[f]]
DoneWhole == WholeIn(Done)
UndoneWhole == WholeIn(Undone)

Missing == \E f \in Files : installed[f] = Absent
Idle == pc \in {"off", "begin", "restore", "ended", "start", "agent"}

(* Where the only copy of a file is.                                        *)
LostInv ==
  /\ \A f \in Files : installed[f] # Absent \/ old[f] # Absent
  /\ ~updateOLD => old = NoFiles
  /\ pc \in {"apply", "clean"} => updateOLD
  /\ pc = "apply" => \A f \in Files : installed[f] # Absent \/ staged[f] # Absent
  /\ pc = "clean" => \A f \in Files : installed[f] # Absent
  /\ hand # NoFile =>
       /\ installed[hand] = Absent
       /\ \/ pc = "apply" /\ staged[hand] # Absent
          \/ pc \in {"restore", "rollback"} /\ old[hand] # Absent

(* How many failures it takes to leave files displaced with no updater to   *)
(* put them back.                                                           *)
CompleteInv ==
  /\ pc = "agent" => ~update /\ status = "none"
  /\ pc \in {"begin", "restore", "apply"} => update
  /\ pc = "rollback" => status \in {"OK", "FAILED"}
  /\ pc = "ended" /\ status = "none" => faults >= 1
  /\ faults = 0 /\ Missing => update
  /\ crashes = 0 /\ updateOLD /\ Idle => faults >= 2
  /\ updateOLD /\ pc = "rollback" => faults >= 1
  /\ crashes = 0 /\ updateOLD /\ pc = "ended" /\ status = "none" => faults >= 3
  /\ crashes = 0 /\ faults <= 2 /\ Missing /\ Idle => update \/ status = "ERROR"

(* Until something hurts, what is installed, what the update makes of it    *)
(* and what undoing it gives back are releases.                             *)
WholeInv ==
  /\ Idle => ~updateOLD /\ Whole /\ (update => DoneWhole)
  /\ pc = "apply" => /\ DoneWhole /\ UndoneWhole
                     /\ \A f \in Files : /\ Undone[f] # Absent
                                         /\ old[f] # Absent /\ installed[f] # Absent
                                              => staged[f] = Absent
  /\ pc = "clean" => Whole
  /\ pc = "rollback" => UndoneWhole

UpdaterInv == DataOK /\ LostInv /\ CompleteInv /\ (~hurt => WholeInv)

(* A set of natural numbers has a least element. *)
LEMMA LeastOf ==
  ASSUME NEW T \in SUBSET Nat, T # {}
  PROVE  \E m \in T : \A t \in T : m <= t
<1> DEFINE Less == {ss \in Nat \X Nat : ss[1] < ss[2]}
<1>1. IsWellFoundedOn(Less, Nat)
  BY NatLessThanWellFounded, Zenon DEF OpToRel
<1> HIDE DEF Less
<1>2. \E m \in T : \A t \in T : ~ <<t, m>> \in Less
  BY <1>1, WFMin, Zenon
<1>3. \A m \in T, t \in T : ~ <<t, m>> \in Less => m <= t
  BY DEF Less
<1>4. QED
  BY <1>2, <1>3

(* A package is of some release: the latest that changed it, or the first.  *)
LEMMA FromRelease ==
  ASSUME NEW r \in Distributions, NEW p
  PROVE  From(r, p) \in Distributions \cup {0}
<1> DEFINE S == {q \in Distributions : q <= r /\ p \in Changed[q]}
<1>1. CASE S = {}
  BY <1>1 DEF From
<1>2. CASE S # {}
  <2> DEFINE T == {r - q : q \in S}
  <2>1. T \in SUBSET Nat /\ T # {}
    <3>1. \A q \in S : r - q \in Nat
      BY UpdaterAssumption
    <3>2. QED
      BY <1>2, <3>1, Zenon
  <2>2. PICK m \in T : \A t \in T : m <= t
    <3> HIDE DEF T
    <3> QED
      BY <2>1, LeastOf
  <2>3. PICK q \in S : m = r - q
    BY <2>2
  <2>4. \A t \in S : t <= q
    <3>1. q \in Nat /\ r \in Nat /\ \A t \in S : t \in Nat
      BY UpdaterAssumption
    <3>2. \A t \in S : r - q <= r - t
      BY <2>2, <2>3
    <3> HIDE DEF S
    <3> QED
      BY <3>1, <3>2
  <2>5. (CHOOSE x \in S : \A t \in S : t <= x) \in S
    BY <2>3, <2>4, Zenon
  <2>6. From(r, p) \in S
    BY <1>2, <2>5, Zenon DEF From
  <2>7. QED
    BY <2>6
<1>3. QED
  BY <1>1, <1>2

(* The types. *)
LEMMA DataStep ==
  ASSUME DataOK, [UpdaterNext]_updateVars
  PROVE  DataOK'
<1>1. ASSUME Launch PROVE DataOK'
  BY <1>1, UpdaterAssumption DEF Launch, Goes, DataOK, Places, Status, dirs, agentVars,
         faultVars, Copies, NoFiles
<1>2. ASSUME Start PROVE DataOK'
  BY <1>2, UpdaterAssumption DEF Start, Goes, DataOK, Places, Status, dirs, agentVars,
         faultVars, Copies, NoFiles
<1>3. ASSUME WriteStatus PROVE DataOK'
  BY <1>3, UpdaterAssumption DEF WriteStatus, Goes, DataOK, Places, Status, dirs,
         agentVars, faultVars, Copies, NoFiles
<1>4. ASSUME RemoveOLD PROVE DataOK'
  BY <1>4, UpdaterAssumption DEF RemoveOLD, Restoring, Goes, DataOK, Places, Status,
         dirs, agentVars, faultVars, Copies, NoFiles
<1>5. ASSUME Restored PROVE DataOK'
  BY <1>5, UpdaterAssumption DEF Restored, Goes, DataOK, Places, Status, dirs,
         agentVars, faultVars, Copies, NoFiles
<1>6. ASSUME Applied PROVE DataOK'
  BY <1>6, UpdaterAssumption DEF Applied, Goes, DataOK, Places, Status, dirs,
         agentVars, faultVars, Copies, NoFiles
<1>7. ASSUME Cleaned PROVE DataOK'
  BY <1>7, UpdaterAssumption DEF Cleaned, Goes, DataOK, Places, Status, dirs,
         agentVars, faultVars, Copies, NoFiles
<1>8. ASSUME Finished PROVE DataOK'
  BY <1>8, UpdaterAssumption DEF Finished, Goes, DataOK, Places, Status, dirs,
         agentVars, faultVars, Copies, NoFiles
<1>9. ASSUME Ended PROVE DataOK'
  BY <1>9, UpdaterAssumption DEF Ended, Goes, DataOK, Places, Status, dirs, agentVars,
         faultVars, Copies, NoFiles
<1>10. ASSUME NEW f \in Files, RemoveNew(f) PROVE DataOK'
  <2>1. installed' \in Copies
    BY <1>10 DEF RemoveNew, Restoring, Copies, DataOK, NoFiles
  <2>2. QED
    BY <1>10, <2>1 DEF RemoveNew, Restoring, Goes, DataOK, Places, Status, agentVars,
       faultVars
<1>11. ASSUME NEW f \in Files, MoveBack(f) PROVE DataOK'
  <2>1. installed' \in Copies /\ old' \in Copies
    BY <1>11 DEF MoveBack, Restoring, Copies, DataOK, NoFiles
  <2>2. QED
    BY <1>11, <2>1 DEF MoveBack, Restoring, Goes, DataOK, Places, Status, agentVars,
       faultVars
<1>12. ASSUME NEW f \in Files, SetAside(f) PROVE DataOK'
  <2>1. installed' \in Copies /\ old' \in Copies
    BY <1>12 DEF SetAside, Copies, DataOK, NoFiles
  <2>2. QED
    BY <1>12, <2>1 DEF SetAside, Goes, DataOK, Places, Status, agentVars, faultVars
<1>13. ASSUME NEW f \in Files, MoveIn(f) PROVE DataOK'
  <2>1. installed' \in Copies /\ staged' \in Copies
    BY <1>13 DEF MoveIn, Copies, DataOK, NoFiles
  <2>2. QED
    BY <1>13, <2>1 DEF MoveIn, Goes, DataOK, Places, Status, agentVars, faultVars
<1>14. ASSUME NEW f \in Files, DeleteOld(f) PROVE DataOK'
  <2>1. old' \in Copies
    BY <1>14 DEF DeleteOld, Copies, DataOK, NoFiles
  <2>2. QED
    BY <1>14, <2>1 DEF DeleteOld, Goes, DataOK, Places, Status, agentVars, faultVars
<1>15. ASSUME NEW f \in Files, DropStaged(f) PROVE DataOK'
  <2>1. staged' \in Copies
    BY <1>15 DEF DropStaged, Copies, DataOK, NoFiles
  <2>2. QED
    BY <1>15, <2>1 DEF DropStaged, Goes, DataOK, Places, Status, agentVars, faultVars
<1>16. ASSUME Release PROVE DataOK'
  BY <1>16, UpdaterAssumption DEF Release, Goes, DataOK, Places, Status, dirs,
         agentVars, faultVars, Copies, NoFiles
<1>17. ASSUME SetDistrUpdate PROVE DataOK'
  BY <1>17, UpdaterAssumption DEF SetDistrUpdate, Goes, DataOK, Places, Status, dirs,
         agentVars, faultVars, Copies, NoFiles
<1>18. ASSUME CheckDistr PROVE DataOK'
  BY <1>18, UpdaterAssumption DEF CheckDistr, Goes, DataOK, Places, Status, dirs,
         agentVars, faultVars, Copies, NoFiles
<1>19. ASSUME DownloadFails PROVE DataOK'
  BY <1>19, UpdaterAssumption DEF DownloadFails, Goes, DataOK, Places, Status, dirs,
         agentVars, faultVars, Copies, NoFiles
<1>20. ASSUME Publish PROVE DataOK'
  <2>1. staged' \in Copies
    <3>1. target \in Distributions
      BY <1>20 DEF Publish, Downloaded, DataOK
    <3>2. \A p \in Packages : From(target, p) \in Distributions \cup {0}
      BY <3>1, FromRelease
    <3>3. QED
      BY <1>20, <3>1, <3>2 DEF Publish, Copies
  <2>2. QED
    BY <1>20, <2>1 DEF Publish, Goes, DataOK, Places, faultVars
<1>21. ASSUME NothingNew PROVE DataOK'
  <2>1. installed' \in Copies
    BY <1>21 DEF NothingNew, Downloaded, Copies, DataOK, NoFiles
  <2>2. QED
    BY <1>21, <2>1 DEF NothingNew, Downloaded, Goes, DataOK, Places, Status, agentVars,
       faultVars
<1>22. ASSUME NEW p \in Packages, Download(p) PROVE DataOK'
  BY <1>22, UpdaterAssumption DEF Download, Outdated, Goes, DataOK, Places, Status,
         dirs, agentVars, faultVars, Copies, NoFiles
<1>23. ASSUME StatusFails PROVE DataOK'
  BY <1>23, UpdaterAssumption DEF StatusFails, Fails, Goes, DataOK, Places, Status,
         dirs, agentVars, faultVars, Copies, NoFiles
<1>24. ASSUME RestoreFails PROVE DataOK'
  BY <1>24, UpdaterAssumption DEF RestoreFails, Fails, Goes, DataOK, Places, Status,
         dirs, agentVars, faultVars, Copies, NoFiles
<1>25. ASSUME ApplyFails PROVE DataOK'
  BY <1>25, UpdaterAssumption DEF ApplyFails, Fails, Goes, DataOK, Places, Status,
         dirs, agentVars, faultVars, Copies, NoFiles
<1>26. ASSUME RollbackFails PROVE DataOK'
  BY <1>26, UpdaterAssumption DEF RollbackFails, Fails, Goes, DataOK, Places, Status,
         dirs, agentVars, faultVars, Copies, NoFiles
<1>27. ASSUME Crash PROVE DataOK'
  BY <1>27, UpdaterAssumption DEF Crash, Goes, DataOK, Places, Status, dirs, agentVars,
         faultVars, Copies, NoFiles
<1>28. ASSUME UNCHANGED updateVars PROVE DataOK'
  BY <1>28, UpdaterAssumption DEF updateVars, DataOK, Places, Status, dirs, agentVars,
         faultVars, Copies, NoFiles
<1>29. QED
  BY <1>1, <1>2, <1>3, <1>4, <1>5, <1>6, <1>7, <1>8, <1>9, <1>10, <1>11, <1>12, <1>13,
     <1>14, <1>15, <1>16, <1>17, <1>18, <1>19, <1>20, <1>21, <1>22, <1>23, <1>24,
     <1>25, <1>26, <1>27, <1>28
     DEF UpdaterNext, Update, Agent, Failure

(* Nothing is lost by a step. *)
LEMMA LostStep ==
  ASSUME DataOK, LostInv, [UpdaterNext]_updateVars
  PROVE  LostInv'
<1>1. ASSUME Launch PROVE LostInv'
  BY <1>1, UpdaterAssumption DEF Launch, Goes, LostInv, DataOK, Copies, Places, Files,
         NoFiles, dirs, agentVars, faultVars
<1>2. ASSUME Start PROVE LostInv'
  BY <1>2, UpdaterAssumption DEF Start, Goes, LostInv, DataOK, Copies, Places, Files,
         NoFiles, dirs, agentVars, faultVars
<1>3. ASSUME WriteStatus PROVE LostInv'
  BY <1>3, UpdaterAssumption DEF WriteStatus, Goes, LostInv, DataOK, Copies, Places,
         Files, NoFiles, dirs, agentVars, faultVars
<1>4. ASSUME RemoveOLD PROVE LostInv'
  BY <1>4, UpdaterAssumption DEF RemoveOLD, Restoring, Goes, LostInv, DataOK, Copies,
         Places, Files, NoFiles, dirs, agentVars, faultVars
<1>5. ASSUME Restored PROVE LostInv'
  BY <1>5, UpdaterAssumption DEF Restored, Goes, LostInv, DataOK, Copies, Places,
         Files, NoFiles, dirs, agentVars, faultVars
<1>6. ASSUME Applied PROVE LostInv'
  BY <1>6, UpdaterAssumption DEF Applied, Goes, LostInv, DataOK, Copies, Places, Files,
         NoFiles, dirs, agentVars, faultVars
<1>7. ASSUME Cleaned PROVE LostInv'
  BY <1>7, UpdaterAssumption DEF Cleaned, Goes, LostInv, DataOK, Copies, Places, Files,
         NoFiles, dirs, agentVars, faultVars
<1>8. ASSUME Finished PROVE LostInv'
  BY <1>8, UpdaterAssumption DEF Finished, Goes, LostInv, DataOK, Copies, Places,
         Files, NoFiles, dirs, agentVars, faultVars
<1>9. ASSUME Ended PROVE LostInv'
  BY <1>9, UpdaterAssumption DEF Ended, Goes, LostInv, DataOK, Copies, Places, Files,
         NoFiles, dirs, agentVars, faultVars
<1>10. ASSUME NEW f \in Files, RemoveNew(f) PROVE LostInv'
  BY <1>10, UpdaterAssumption DEF RemoveNew, Restoring, Goes, LostInv, DataOK, Copies,
         Places, Files, NoFiles, dirs, agentVars, faultVars
<1>11. ASSUME NEW f \in Files, MoveBack(f) PROVE LostInv'
  BY <1>11, UpdaterAssumption DEF MoveBack, Restoring, Goes, LostInv, DataOK, Copies,
         Places, Files, NoFiles, dirs, agentVars, faultVars
<1>12. ASSUME NEW f \in Files, SetAside(f) PROVE LostInv'
  BY <1>12, UpdaterAssumption DEF SetAside, Goes, LostInv, DataOK, Copies, Places,
         Files, NoFiles, dirs, agentVars, faultVars
<1>13. ASSUME NEW f \in Files, MoveIn(f) PROVE LostInv'
  BY <1>13, UpdaterAssumption DEF MoveIn, Goes, LostInv, DataOK, Copies, Places, Files,
         NoFiles, dirs, agentVars, faultVars
<1>14. ASSUME NEW f \in Files, DeleteOld(f) PROVE LostInv'
  BY <1>14, UpdaterAssumption DEF DeleteOld, Goes, LostInv, DataOK, Copies, Places,
         Files, NoFiles, dirs, agentVars, faultVars
<1>15. ASSUME NEW f \in Files, DropStaged(f) PROVE LostInv'
  BY <1>15, UpdaterAssumption DEF DropStaged, Goes, LostInv, DataOK, Copies, Places,
         Files, NoFiles, dirs, agentVars, faultVars
<1>16. ASSUME Release PROVE LostInv'
  BY <1>16, UpdaterAssumption DEF Release, Goes, LostInv, DataOK, Copies, Places,
         Files, NoFiles, dirs, agentVars, faultVars
<1>17. ASSUME SetDistrUpdate PROVE LostInv'
  BY <1>17, UpdaterAssumption DEF SetDistrUpdate, Goes, LostInv, DataOK, Copies,
         Places, Files, NoFiles, dirs, agentVars, faultVars
<1>18. ASSUME CheckDistr PROVE LostInv'
  BY <1>18, UpdaterAssumption DEF CheckDistr, Goes, LostInv, DataOK, Copies, Places,
         Files, NoFiles, dirs, agentVars, faultVars
<1>19. ASSUME DownloadFails PROVE LostInv'
  BY <1>19, UpdaterAssumption DEF DownloadFails, Goes, LostInv, DataOK, Copies, Places,
         Files, NoFiles, dirs, agentVars, faultVars
<1>20. ASSUME Publish PROVE LostInv'
  BY <1>20, UpdaterAssumption DEF Publish, Downloaded, Goes, LostInv, DataOK, Copies,
         Places, Files, NoFiles, dirs, agentVars, faultVars
<1>21. ASSUME NothingNew PROVE LostInv'
  <2>1. installed'[Distr] # Absent
    BY <1>21, UpdaterAssumption DEF NothingNew, Downloaded, DataOK, Copies, Files, Absent
  <2>2. QED
    BY <1>21, <2>1 DEF NothingNew, Downloaded, LostInv, DataOK, Copies, Files, faultVars
<1>22. ASSUME NEW p \in Packages, Download(p) PROVE LostInv'
  BY <1>22, UpdaterAssumption DEF Download, Outdated, Goes, LostInv, DataOK, Copies,
         Places, Files, NoFiles, dirs, agentVars, faultVars
<1>23. ASSUME StatusFails PROVE LostInv'
  BY <1>23, UpdaterAssumption DEF StatusFails, Fails, Goes, LostInv, DataOK, Copies,
         Places, Files, NoFiles, dirs, agentVars, faultVars
<1>24. ASSUME RestoreFails PROVE LostInv'
  BY <1>24, UpdaterAssumption DEF RestoreFails, Fails, Goes, LostInv, DataOK, Copies,
         Places, Files, NoFiles, dirs, agentVars, faultVars
<1>25. ASSUME ApplyFails PROVE LostInv'
  BY <1>25, UpdaterAssumption DEF ApplyFails, Fails, Goes, LostInv, DataOK, Copies,
         Places, Files, NoFiles, dirs, agentVars, faultVars
<1>26. ASSUME RollbackFails PROVE LostInv'
  BY <1>26, UpdaterAssumption DEF RollbackFails, Fails, Goes, LostInv, DataOK, Copies,
         Places, Files, NoFiles, dirs, agentVars, faultVars
<1>27. ASSUME Crash PROVE LostInv'
  BY <1>27, UpdaterAssumption DEF Crash, Goes, LostInv, DataOK, Copies, Places, Files,
         NoFiles, dirs, agentVars, faultVars
<1>28. ASSUME UNCHANGED updateVars PROVE LostInv'
  BY <1>28, UpdaterAssumption DEF updateVars, LostInv, DataOK, Copies, Places, Files,
         NoFiles, dirs, agentVars, faultVars
<1>29. QED
  BY <1>1, <1>2, <1>3, <1>4, <1>5, <1>6, <1>7, <1>8, <1>9, <1>10, <1>11, <1>12, <1>13,
     <1>14, <1>15, <1>16, <1>17, <1>18, <1>19, <1>20, <1>21, <1>22, <1>23, <1>24,
     <1>25, <1>26, <1>27, <1>28
     DEF UpdaterNext, Update, Agent, Failure

(* What it takes to start with files missing. *)
LEMMA CompleteStep ==
  ASSUME DataOK, LostInv, CompleteInv, [UpdaterNext]_updateVars
  PROVE  CompleteInv'
<1>1. ASSUME Launch PROVE CompleteInv'
  BY <1>1, UpdaterAssumption DEF Launch, Goes, CompleteInv, LostInv, DataOK, Missing,
         Idle, Places, Status, NoFiles, dirs, agentVars, faultVars
<1>2. ASSUME Start PROVE CompleteInv'
  BY <1>2, UpdaterAssumption DEF Start, Goes, CompleteInv, LostInv, DataOK, Missing,
         Idle, Places, Status, NoFiles, dirs, agentVars, faultVars
<1>3. ASSUME WriteStatus PROVE CompleteInv'
  BY <1>3, UpdaterAssumption DEF WriteStatus, Goes, CompleteInv, LostInv, DataOK,
         Missing, Idle, Places, Status, NoFiles, dirs, agentVars, faultVars
<1>4. ASSUME RemoveOLD PROVE CompleteInv'
  BY <1>4, UpdaterAssumption DEF RemoveOLD, Restoring, Goes, CompleteInv, LostInv,
         DataOK, Missing, Idle, Places, Status, NoFiles, dirs, agentVars, faultVars
<1>5. ASSUME Restored PROVE CompleteInv'
  BY <1>5, UpdaterAssumption DEF Restored, Goes, CompleteInv, LostInv, DataOK, Missing,
         Idle, Places, Status, NoFiles, dirs, agentVars, faultVars
<1>6. ASSUME Applied PROVE CompleteInv'
  BY <1>6, UpdaterAssumption DEF Applied, Goes, CompleteInv, LostInv, DataOK, Missing,
         Idle, Places, Status, NoFiles, dirs, agentVars, faultVars
<1>7. ASSUME Cleaned PROVE CompleteInv'
  BY <1>7, UpdaterAssumption DEF Cleaned, Goes, CompleteInv, LostInv, DataOK, Missing,
         Idle, Places, Status, NoFiles, dirs, agentVars, faultVars
<1>8. ASSUME Finished PROVE CompleteInv'
  BY <1>8, UpdaterAssumption DEF Finished, Goes, CompleteInv, LostInv, DataOK, Missing,
         Idle, Places, Status, NoFiles, dirs, agentVars, faultVars
<1>9. ASSUME Ended PROVE CompleteInv'
  BY <1>9, UpdaterAssumption DEF Ended, Goes, CompleteInv, LostInv, DataOK, Missing,
         Idle, Places, Status, NoFiles, dirs, agentVars, faultVars
<1>10. ASSUME NEW f \in Files, RemoveNew(f) PROVE CompleteInv'
  BY <1>10, UpdaterAssumption DEF RemoveNew, Restoring, Goes, CompleteInv, LostInv,
         DataOK, Missing, Idle, Places, Status, NoFiles, dirs, agentVars, faultVars
<1>11. ASSUME NEW f \in Files, MoveBack(f) PROVE CompleteInv'
  BY <1>11, UpdaterAssumption DEF MoveBack, Restoring, Goes, CompleteInv, LostInv,
         DataOK, Missing, Idle, Places, Status, NoFiles, dirs, agentVars, faultVars
<1>12. ASSUME NEW f \in Files, SetAside(f) PROVE CompleteInv'
  BY <1>12, UpdaterAssumption DEF SetAside, Goes, CompleteInv, LostInv, DataOK,
         Missing, Idle, Places, Status, NoFiles, dirs, agentVars, faultVars
<1>13. ASSUME NEW f \in Files, MoveIn(f) PROVE CompleteInv'
  BY <1>13, UpdaterAssumption DEF MoveIn, Goes, CompleteInv, LostInv, DataOK, Missing,
         Idle, Places, Status, NoFiles, dirs, agentVars, faultVars
<1>14. ASSUME NEW f \in Files, DeleteOld(f) PROVE CompleteInv'
  BY <1>14, UpdaterAssumption DEF DeleteOld, Goes, CompleteInv, LostInv, DataOK,
         Missing, Idle, Places, Status, NoFiles, dirs, agentVars, faultVars
<1>15. ASSUME NEW f \in Files, DropStaged(f) PROVE CompleteInv'
  BY <1>15, UpdaterAssumption DEF DropStaged, Goes, CompleteInv, LostInv, DataOK,
         Missing, Idle, Places, Status, NoFiles, dirs, agentVars, faultVars
<1>16. ASSUME Release PROVE CompleteInv'
  BY <1>16, UpdaterAssumption DEF Release, Goes, CompleteInv, LostInv, DataOK, Missing,
         Idle, Places, Status, NoFiles, dirs, agentVars, faultVars
<1>17. ASSUME SetDistrUpdate PROVE CompleteInv'
  BY <1>17, UpdaterAssumption DEF SetDistrUpdate, Goes, CompleteInv, LostInv, DataOK,
         Missing, Idle, Places, Status, NoFiles, dirs, agentVars, faultVars
<1>18. ASSUME CheckDistr PROVE CompleteInv'
  BY <1>18, UpdaterAssumption DEF CheckDistr, Goes, CompleteInv, LostInv, DataOK,
         Missing, Idle, Places, Status, NoFiles, dirs, agentVars, faultVars
<1>19. ASSUME DownloadFails PROVE CompleteInv'
  BY <1>19, UpdaterAssumption DEF DownloadFails, Goes, CompleteInv, LostInv, DataOK,
         Missing, Idle, Places, Status, NoFiles, dirs, agentVars, faultVars
<1>20. ASSUME Publish PROVE CompleteInv'
  BY <1>20, UpdaterAssumption DEF Publish, Downloaded, Goes, CompleteInv, LostInv,
         DataOK, Missing, Idle, Places, Status, NoFiles, dirs, agentVars, faultVars
<1>21. ASSUME NothingNew PROVE CompleteInv'
  <2>1. target # Absent
    BY <1>21, UpdaterAssumption DEF NothingNew, Downloaded, DataOK, Absent
  <2>2. Missing' => Missing
    BY <1>21, <2>1 DEF NothingNew, Missing, DataOK, Copies, Files
  <2>3. QED
    BY <1>21, <2>2 DEF NothingNew, Downloaded, CompleteInv, Idle, faultVars
<1>22. ASSUME NEW p \in Packages, Download(p) PROVE CompleteInv'
  BY <1>22, UpdaterAssumption DEF Download, Outdated, Goes, CompleteInv, LostInv,
         DataOK, Missing, Idle, Places, Status, NoFiles, dirs, agentVars, faultVars
<1>23. ASSUME StatusFails PROVE CompleteInv'
  BY <1>23, UpdaterAssumption DEF StatusFails, Fails, Goes, CompleteInv, LostInv,
         DataOK, Missing, Idle, Places, Status, NoFiles, dirs, agentVars, faultVars
<1>24. ASSUME RestoreFails PROVE CompleteInv'
  BY <1>24, UpdaterAssumption DEF RestoreFails, Fails, Goes, CompleteInv, LostInv,
         DataOK, Missing, Idle, Places, Status, NoFiles, dirs, agentVars, faultVars
<1>25. ASSUME ApplyFails PROVE CompleteInv'
  BY <1>25, UpdaterAssumption DEF ApplyFails, Fails, Goes, CompleteInv, LostInv,
         DataOK, Missing, Idle, Places, Status, NoFiles, dirs, agentVars, faultVars
<1>26. ASSUME RollbackFails PROVE CompleteInv'
  BY <1>26, UpdaterAssumption DEF RollbackFails, Fails, Goes, CompleteInv, LostInv,
         DataOK, Missing, Idle, Places, Status, NoFiles, dirs, agentVars, faultVars
<1>27. ASSUME Crash PROVE CompleteInv'
  BY <1>27, UpdaterAssumption DEF Crash, Goes, CompleteInv, LostInv, DataOK, Missing,
         Idle, Places, Status, NoFiles, dirs, agentVars, faultVars
<1>28. ASSUME UNCHANGED updateVars PROVE CompleteInv'
  BY <1>28, UpdaterAssumption DEF updateVars, CompleteInv, LostInv, DataOK, Missing,
         Idle, Places, Status, NoFiles, dirs, agentVars, faultVars
<1>29. QED
  BY <1>1, <1>2, <1>3, <1>4, <1>5, <1>6, <1>7, <1>8, <1>9, <1>10, <1>11, <1>12, <1>13,
     <1>14, <1>15, <1>16, <1>17, <1>18, <1>19, <1>20, <1>21, <1>22, <1>23, <1>24,
     <1>25, <1>26, <1>27, <1>28
     DEF UpdaterNext, Update, Agent, Failure

(* What is a release, and where it goes. *)
LEMMA WholePrimed ==
  /\ Whole' <=> WholeIn(installed')
  /\ DoneWhole' <=> WholeIn(Done')
  /\ UndoneWhole' <=> WholeIn(Undone')
BY DEF Whole, DoneWhole, UndoneWhole, WholeIn

LEMMA WholeKept ==
  /\ installed' = installed /\ Whole => Whole'
  /\ Done' = Done /\ DoneWhole => DoneWhole'
  /\ Undone' = Undone /\ UndoneWhole => UndoneWhole'
  /\ installed' = Done /\ DoneWhole => Whole'
  /\ installed' = Undone /\ UndoneWhole => Whole'
  /\ Undone' = installed /\ Whole => UndoneWhole'
<1>1. ASSUME NEW d, NEW e, d = e, WholeIn(e) PROVE WholeIn(d)
  BY <1>1
<1>2. QED
  BY <1>1, WholePrimed, Zenon DEF Whole, DoneWhole, UndoneWhole

LEMMA SamePlaces ==
  /\ UNCHANGED <<installed, staged>> => Done' = Done
  /\ UNCHANGED <<installed, old>> => Undone' = Undone
BY DEF Done, Undone

LEMMA EmptyPlaces ==
  ASSUME DataOK
  PROVE  /\ staged = NoFiles => Done = installed
         /\ old = NoFiles => Undone = installed
BY DEF DataOK, Copies, Done, Undone, NoFiles, Files

(* A package that is not outdated is that of the release downloaded.        *)
LEMMA UpToDate ==
  ASSUME DataOK, Downloaded, Whole
  PROVE  /\ target \in Distributions /\ target # Absent
         /\ \A p \in Packages \ tmp : installed[p] = From(target, p)
         /\ \A p \in Packages \ tmp : From(target, p) = From(installed[Versions], p)
<1>1. target \in Distributions /\ target # Absent
  BY UpdaterAssumption DEF DataOK, Downloaded, Absent
<1>2. \A p \in Packages \ tmp : From(target, p) = From(installed[Versions], p)
  BY DEF Downloaded, Outdated
<1>3. QED
  BY <1>1, <1>2 DEF Whole, WholeIn

(* What is published makes the release downloaded of what is installed.     *)
LEMMA PublishedWhole ==
  ASSUME DataOK, Publish, Whole
  PROVE  WholeIn(Done')
<1>1. /\ target \in Distributions /\ target # Absent
      /\ \A p \in Packages \ tmp : installed[p] = From(target, p)
  BY UpToDate DEF Publish
<1>2. \A p \in Packages : From(target, p) # Absent
  BY <1>1, FromRelease, UpdaterAssumption DEF Absent
<1>3. Done'[Distr] = target /\ Done'[Versions] = target
  BY <1>1, UpdaterAssumption DEF Done, Publish, Files
<1>4. \A p \in Packages : Done'[p] = From(target, p)
  BY <1>1, <1>2 DEF Done, Publish, Files
<1>5. QED
  BY <1>1, <1>3, <1>4 DEF WholeIn

(* Nor does distr.json make another release of what is not outdated.        *)
LEMMA NothingNewWhole ==
  ASSUME DataOK, NothingNew, Whole
  PROVE  WholeIn(installed')
<1>1. /\ target \in Distributions
      /\ \A p \in Packages : /\ installed[p] = From(target, p)
                             /\ From(target, p) = From(installed[Versions], p)
  BY UpToDate DEF NothingNew
<1>2. /\ installed'[Distr] = target /\ installed'[Versions] = installed[Versions]
      /\ \A p \in Packages : installed'[p] = installed[p]
  BY UpdaterAssumption DEF NothingNew, DataOK, Copies, Files, Versions, Distr
<1>3. QED
  BY <1>1, <1>2 DEF WholeIn

(* Releases stay releases. *)
LEMMA WholeStep ==
  ASSUME DataOK, DataOK', LostInv, LostInv', CompleteInv, WholeInv, ~hurt, ~hurt',
         [UpdaterNext]_updateVars
  PROVE  WholeInv'
<1>1. ASSUME Launch PROVE WholeInv'
  BY <1>1, WholeKept, SamePlaces, EmptyPlaces DEF Launch, Goes, WholeInv, Idle, dirs,
         agentVars, faultVars, LostInv, CompleteInv
<1>2. ASSUME Start PROVE WholeInv'
  BY <1>2, WholeKept, SamePlaces, EmptyPlaces DEF Start, Goes, WholeInv, Idle, dirs,
         agentVars, faultVars, LostInv, CompleteInv
<1>3. ASSUME WriteStatus PROVE WholeInv'
  BY <1>3, WholeKept, SamePlaces, EmptyPlaces DEF WriteStatus, Goes, WholeInv, Idle,
         dirs, agentVars, faultVars, LostInv, CompleteInv
<1>4. ASSUME RemoveOLD PROVE WholeInv'
  BY <1>4, WholeKept, SamePlaces, EmptyPlaces DEF RemoveOLD, Restoring, Goes, WholeInv,
         Idle, dirs, agentVars, faultVars, LostInv, CompleteInv
<1>5. ASSUME Restored PROVE WholeInv'
  <2>1. CASE ~update
    BY <1>5, <2>1, WholeKept, SamePlaces DEF Restored, Goes, WholeInv, Idle
  <2>2. CASE update
    <3>1. ~updateOLD /\ old = NoFiles /\ Whole /\ DoneWhole
      BY <1>5, <2>2 DEF Restored, LostInv, WholeInv, Idle
    <3>2. Undone = installed /\ \A f \in Files : old[f] = Absent /\ Undone[f] # Absent
      BY <3>1, EmptyPlaces DEF LostInv, NoFiles
    <3>3. /\ pc' = "apply" /\ Undone' = Undone /\ Done' = Done
          /\ UNCHANGED <<installed, staged, old>>
      BY <1>5, <2>2, SamePlaces DEF Restored, Goes
    <3>4. DoneWhole' /\ UndoneWhole'
      BY <3>1, <3>2, <3>3, WholeKept
    <3>5. QED
      BY <3>2, <3>3, <3>4 DEF WholeInv, Idle
  <2>3. QED
    BY <2>1, <2>2
<1>6. ASSUME Applied PROVE WholeInv'
  BY <1>6, WholeKept, SamePlaces, EmptyPlaces DEF Applied, Goes, WholeInv, Idle, dirs,
         agentVars, faultVars, LostInv, CompleteInv
<1>7. ASSUME Cleaned PROVE WholeInv'
  BY <1>7, WholeKept, SamePlaces, EmptyPlaces DEF Cleaned, Goes, WholeInv, Idle, dirs,
         agentVars, faultVars, LostInv, CompleteInv
<1>8. ASSUME Finished PROVE WholeInv'
  BY <1>8, WholeKept, SamePlaces, EmptyPlaces DEF Finished, Goes, WholeInv, Idle, dirs,
         agentVars, faultVars, LostInv, CompleteInv
<1>9. ASSUME Ended PROVE WholeInv'
  BY <1>9, WholeKept, SamePlaces, EmptyPlaces DEF Ended, Goes, WholeInv, Idle, dirs,
         agentVars, faultVars, LostInv, CompleteInv
<1>10. ASSUME NEW f \in Files, RemoveNew(f) PROVE WholeInv'
  <2>1. Undone' = Undone
    BY <1>10 DEF RemoveNew, Restoring, DataOK, Copies, LostInv, WholeInv, Done, Undone
  <2>2. QED
    BY <1>10, <2>1, WholeKept, SamePlaces, EmptyPlaces DEF RemoveNew, Restoring, Goes,
       WholeInv, Idle, agentVars, faultVars
<1>11. ASSUME NEW f \in Files, MoveBack(f) PROVE WholeInv'
  <2>1. Undone' = Undone
    BY <1>11 DEF MoveBack, Restoring, DataOK, Copies, LostInv, WholeInv, Done, Undone
  <2>2. QED
    BY <1>11, <2>1, WholeKept, SamePlaces, EmptyPlaces DEF MoveBack, Restoring, Goes,
       WholeInv, Idle, agentVars, faultVars
<1>12. ASSUME NEW f \in Files, SetAside(f) PROVE WholeInv'
  <2>1. Undone' = Undone /\ Done' = Done
    BY <1>12 DEF SetAside, DataOK, Copies, LostInv, WholeInv, Done, Undone
  <2>2. \A g \in Files : old'[g] # Absent /\ installed'[g] # Absent => staged'[g] = Absent
    BY <1>12 DEF SetAside, DataOK, Copies, LostInv, WholeInv
  <2>3. QED
    BY <1>12, <2>1, <2>2, WholeKept DEF SetAside, WholeInv, Idle
<1>13. ASSUME NEW f \in Files, MoveIn(f) PROVE WholeInv'
  <2>0. installed[f] = Absent /\ old[f] # Absent /\ staged[f] # Absent
    BY <1>13, UpdaterAssumption DEF MoveIn, LostInv, WholeInv, Undone, Files, Versions,
       Distr, NoFile
  <2>1. Undone' = Undone /\ Done' = Done
    BY <1>13, <2>0 DEF MoveIn, DataOK, Copies, LostInv, WholeInv, Done, Undone
  <2>2. \A g \in Files : old'[g] # Absent /\ installed'[g] # Absent => staged'[g] = Absent
    BY <1>13 DEF MoveIn, DataOK, Copies, LostInv, WholeInv
  <2>3. QED
    BY <1>13, <2>1, <2>2, WholeKept DEF MoveIn, WholeInv, Idle
<1>14. ASSUME NEW f \in Files, DeleteOld(f) PROVE WholeInv'
  BY <1>14, WholeKept, SamePlaces, EmptyPlaces DEF DeleteOld, Goes, WholeInv, Idle,
         dirs, agentVars, faultVars, LostInv, CompleteInv
<1>15. ASSUME NEW f \in Files, DropStaged(f) PROVE WholeInv'
  BY <1>15, WholeKept, SamePlaces, EmptyPlaces DEF DropStaged, Goes, WholeInv, Idle,
         dirs, agentVars, faultVars, LostInv, CompleteInv
<1>16. ASSUME Release PROVE WholeInv'
  BY <1>16, WholeKept, SamePlaces, EmptyPlaces DEF Release, Goes, WholeInv, Idle, dirs,
         agentVars, faultVars, LostInv, CompleteInv
<1>17. ASSUME SetDistrUpdate PROVE WholeInv'
  BY <1>17, WholeKept, SamePlaces, EmptyPlaces DEF SetDistrUpdate, Goes, WholeInv,
         Idle, dirs, agentVars, faultVars, LostInv, CompleteInv
<1>18. ASSUME CheckDistr PROVE WholeInv'
  BY <1>18, WholeKept, SamePlaces, EmptyPlaces DEF CheckDistr, Goes, WholeInv, Idle,
         dirs, agentVars, faultVars, LostInv, CompleteInv
<1>19. ASSUME DownloadFails PROVE WholeInv'
  BY <1>19, WholeKept, SamePlaces, EmptyPlaces DEF DownloadFails, Goes, WholeInv, Idle,
         dirs, agentVars, faultVars, LostInv, CompleteInv
<1>20. ASSUME Publish PROVE WholeInv'
  <2>1. /\ pc = "agent" /\ pc' = "off" /\ installed' = installed /\ ~updateOLD' /\ Whole
    BY <1>20 DEF Publish, Downloaded, Goes, WholeInv, Idle
  <2>2. DoneWhole'
    BY <1>20, <2>1, PublishedWhole, WholePrimed
  <2>3. QED
    BY <2>1, <2>2, WholeKept DEF WholeInv, Idle
<1>21. ASSUME NothingNew PROVE WholeInv'
  <2>1. /\ pc = "agent" /\ pc' = "agent" /\ ~update /\ ~update' /\ ~updateOLD' /\ Whole
    BY <1>21 DEF NothingNew, Downloaded, WholeInv, Idle, CompleteInv
  <2>3. Whole'
    BY <1>21, <2>1, NothingNewWhole, WholePrimed
  <2>4. QED
    BY <2>1, <2>3 DEF WholeInv, Idle
<1>22. ASSUME NEW p \in Packages, Download(p) PROVE WholeInv'
  BY <1>22, WholeKept, SamePlaces, EmptyPlaces DEF Download, Outdated, Goes, WholeInv,
         Idle, dirs, agentVars, faultVars, LostInv, CompleteInv
<1>23. ASSUME StatusFails PROVE WholeInv'
  BY <1>23, WholeKept, SamePlaces, EmptyPlaces DEF StatusFails, Fails, Goes, WholeInv,
         Idle, dirs, agentVars, faultVars, LostInv, CompleteInv
<1>24. ASSUME RestoreFails PROVE WholeInv'
  BY <1>24, WholeKept, SamePlaces, EmptyPlaces DEF RestoreFails, Fails, Goes, WholeInv,
         Idle, dirs, agentVars, faultVars, LostInv, CompleteInv
<1>25. ASSUME ApplyFails PROVE WholeInv'
  BY <1>25, WholeKept, SamePlaces, EmptyPlaces DEF ApplyFails, Fails, Goes, WholeInv,
         Idle, dirs, agentVars, faultVars, LostInv, CompleteInv
<1>26. ASSUME RollbackFails PROVE WholeInv'
  BY <1>26, WholeKept, SamePlaces, EmptyPlaces DEF RollbackFails, Fails, Goes,
         WholeInv, Idle, dirs, agentVars, faultVars, LostInv, CompleteInv
<1>27. ASSUME Crash PROVE WholeInv'
  <2>1. ~updateOLD /\ pc # "rollback"
    BY <1>27, Zenon DEF Crash
  <2>2. Whole
    BY <2>1 DEF DataOK, Places, LostInv, WholeInv, Idle
  <2>3. ~updateOLD' /\ Whole' /\ pc' = "off" /\ (update' => DoneWhole')
    BY <1>27, <2>1, <2>2, WholeKept, SamePlaces DEF Crash, Goes, dirs, WholeInv, Idle,
       DataOK, Places,
       LostInv
  <2>4. QED
    BY <2>3 DEF WholeInv, Idle
<1>28. ASSUME UNCHANGED updateVars PROVE WholeInv'
  BY <1>28, WholeKept, SamePlaces, EmptyPlaces DEF updateVars, WholeInv, Idle, dirs,
         agentVars, faultVars, LostInv, CompleteInv
<1>29. QED
  BY <1>1, <1>2, <1>3, <1>4, <1>5, <1>6, <1>7, <1>8, <1>9, <1>10, <1>11, <1>12, <1>13,
     <1>14, <1>15, <1>16, <1>17, <1>18, <1>19, <1>20, <1>21, <1>22, <1>23, <1>24,
     <1>25, <1>26, <1>27, <1>28
     DEF UpdaterNext, Update, Agent, Failure

LEMMA InitUpdater == UpdaterInit => UpdaterInv
<1> SUFFICES ASSUME UpdaterInit PROVE UpdaterInv
  OBVIOUS
<1>1. DataOK /\ LostInv /\ CompleteInv
  BY UpdaterAssumption DEF UpdaterInit, DataOK, Copies, Status, Places, LostInv,
     CompleteInv,
     Missing, Idle, NoFiles, Absent, Files, NoFile
<1>2. \A p \in Packages : From(0, p) = 0
  <2>1. \A p \in Packages : {q \in Distributions : q <= 0 /\ p \in Changed[q]} = {}
    <3>1. \A q \in Distributions : ~(q <= 0)
      BY UpdaterAssumption
    <3>2. QED
      BY <3>1, Zenon
  <2>2. QED
    BY <2>1, Zenon DEF From
<1>3. Whole
  BY <1>2 DEF UpdaterInit, Whole, WholeIn, Files
<1>4. QED
  BY <1>1, <1>3 DEF UpdaterInit, UpdaterInv, WholeInv, Idle

(* Something that hurt stays known. *)
LEMMA StepUpdater == UpdaterInv /\ [UpdaterNext]_updateVars => UpdaterInv'
<1> SUFFICES ASSUME UpdaterInv, [UpdaterNext]_updateVars PROVE UpdaterInv'
  OBVIOUS
<1>1. DataOK' /\ LostInv' /\ CompleteInv'
  BY DataStep, LostStep, CompleteStep DEF UpdaterInv
<1>2. hurt => hurt'
  BY Zenon DEF UpdaterNext, Update, Agent, Failure, updateVars, dirs, agentVars, faultVars,
     Launch, Start, WriteStatus, RemoveOLD, Restored, Applied, Cleaned, Finished, Ended,
     RemoveNew, MoveBack, SetAside, MoveIn, DeleteOld, DropStaged, Release, SetDistrUpdate,
     CheckDistr, DownloadFails, Publish, NothingNew, Download, StatusFails, RestoreFails,
     ApplyFails, RollbackFails, Crash
<1>3. QED
  BY <1>1, <1>2, WholeStep DEF UpdaterInv

(* For any packages and releases: an update loses no file; the agent that   *)
(* starts is complete if nothing failed, or nothing stopped and two moves   *)
(* did, and of one release but after a stop with files displaced, or a      *)
(* failure to undo or to clean up (hurt).                                   *)
THEOREM UpdateKeepsAgent == UpdaterSpec => []AgentWhole
<1>1. UpdaterInv => AgentWhole
  BY DEF UpdaterInv, LostInv, CompleteInv, WholeInv, AgentWhole, NothingLost, RunsComplete,
     RunsWhole, Missing, Idle, DataOK
<1>2. QED
  BY InitUpdater, StepUpdater, <1>1, PTL DEF UpdaterSpec
-----------------------------------------------------------------------------
(* What the operations of the pool make of where a task is. *)

(* A task put on the queue is there, unless the pool is destroyed. *)
LEMMA ExecuteQueues ==
  ASSUME PoolOK, NEW t \in Tasks, Execute(t)
  PROVE  /\ PoolOK' /\ busy' = busy /\ stopped' = stopped
         /\ ~stopped => Waiting(t)'
         /\ \A u : /\ Waiting(u) => Waiting(u)'
                   /\ Waiting(u)' => Waiting(u) \/ u = t
                   /\ Held(u)' => Held(u) \/ u = t
                   /\ Held(u) => Held(u)'
                   /\ Once(u) /\ (u = t => ~Held(t)) => Once(u)'
<1>0. /\ Len(queue) \in Nat /\ Append(queue, t) \in Seq(Tasks)
      /\ Len(Append(queue, t)) = Len(queue) + 1
      /\ \A i \in 1..Len(queue) : Append(queue, t)[i] = queue[i]
      /\ Append(queue, t)[Len(queue) + 1] = t
  BY AppendProperties, LenProperties DEF PoolOK
<1>1. CASE stopped
  <2>1. UNCHANGED <<queue, busy, stopped>>
    BY <1>1 DEF Execute
  <2>2. QED
    BY <1>1, <2>1 DEF PoolOK, Waiting, Running, Held, Alone, Once
<1>2. CASE ~stopped
  <2>1. queue' = Append(queue, t) /\ busy' = busy /\ stopped' = stopped
    BY <1>2 DEF Execute
  <2>2. \A i \in 1..Len(queue') : i \in 1..Len(queue) \/ i = Len(queue) + 1
    BY <1>0, <2>1
  <2>3. PoolOK' /\ Waiting(t)'
    BY <1>0, <2>1 DEF PoolOK, Waiting
  <2>4. ASSUME NEW u PROVE /\ Waiting(u) => Waiting(u)'
                           /\ Waiting(u)' => Waiting(u) \/ u = t
    BY <1>0, <2>1, <2>2 DEF Waiting
  <2>5. ASSUME NEW u PROVE Running(u)' <=> Running(u)
    BY <2>1 DEF Running
  <2>6. ASSUME NEW u, Alone(u), u = t => ~Waiting(t) PROVE Alone(u)'
    BY <1>0, <2>1, <2>2, <2>6 DEF Alone, Waiting
  <2>7. ASSUME NEW u, Once(u), u = t => ~Held(t) PROVE Once(u)'
    <3>1. Alone(u)'
      BY <2>6, <2>7 DEF Once, Held
    <3>2. \A x \in Workers : busy'[x] = u => ~Waiting(u)'
      BY <2>1, <2>4, <2>7 DEF Once, Held, Running
    <3>3. QED
      BY <2>1, <2>7, <3>1, <3>2 DEF Once
  <2>8. QED
    BY <2>1, <2>3, <2>4, <2>5, <2>7 DEF Held
<1>3. QED
  BY <1>1, <1>2

(* A worker takes the task off the queue. *)
LEMMA TakeMoves ==
  ASSUME PoolOK, NEW x \in Workers, Take(x)
  PROVE  /\ PoolOK' /\ stopped' = stopped
         /\ busy[x] = NoTask /\ busy'[x] \in Tasks
         /\ \A y \in Workers \ {x} : busy'[y] = busy[y]
         /\ \A u : /\ Waiting(u)' => Waiting(u)
                   /\ Waiting(u) => Waiting(u)' \/ u = busy'[x]
                   /\ u \in Tasks => (Held(u)' <=> Held(u))
                   /\ u \in Tasks /\ Once(u) => Once(u)'
<1>1. /\ Len(queue) \in Nat \ {0} /\ queue' \in Seq(Tasks) /\ Len(queue') = Len(queue) - 1
      /\ \A i \in 1..Len(queue') : queue'[i] = queue[i + 1]
      /\ queue[1] = Head(queue) /\ Head(queue) \in Tasks
  BY HeadTailProperties, LenProperties, EmptySeq DEF PoolOK, Take
<1>2. /\ busy' = [busy EXCEPT ![x] = Head(queue)] /\ busy[x] = NoTask
      /\ stopped' = stopped
  BY DEF Take
<1>3. /\ PoolOK' /\ busy'[x] = Head(queue)
      /\ \A y \in Workers \ {x} : busy'[y] = busy[y]
  BY <1>1, <1>2 DEF PoolOK
<1>4. ASSUME NEW u PROVE /\ Waiting(u)' => Waiting(u)
                         /\ Waiting(u) => Waiting(u)' \/ u = busy'[x]
  <2>1. Waiting(u)' => Waiting(u)
    BY <1>1 DEF Waiting
  <2>2. ASSUME NEW i \in 1..Len(queue), queue[i] = u, u # busy'[x] PROVE Waiting(u)'
    <3>1. i # 1
      BY <1>1, <1>3, <2>2
    <3>2. i - 1 \in 1..Len(queue') /\ queue'[i - 1] = queue[i]
      BY <1>1, <3>1
    <3>3. QED
      BY <2>2, <3>2 DEF Waiting
  <2>3. QED
    BY <2>1, <2>2 DEF Waiting
<1>5. Waiting(busy'[x])
  BY <1>1, <1>3 DEF Waiting
<1>6. ASSUME NEW u \in Tasks PROVE Held(u)' <=> Held(u)
  <2>1. Running(u)' <=> Running(u) \/ u = busy'[x]
    BY <1>2, <1>3, PoolAssumption DEF Running
  <2>2. QED
    BY <1>4, <1>5, <2>1 DEF Held
<1>7. ASSUME NEW u \in Tasks, Once(u) PROVE Once(u)'
  <2>1. Alone(u)'
    BY <1>1, <1>7 DEF Alone, Once
  <2>2. u = busy'[x] => ~Waiting(u)' /\ ~Running(u)
    <3>1. u = busy'[x] => queue[1] = u /\ Waiting(u)
      BY <1>1, <1>3, <1>5
    <3>2. u = busy'[x] => ~Waiting(u)'
      <4>1. \A i \in 1..Len(queue') : i + 1 \in 1..Len(queue) /\ i + 1 # 1 /\ 1 \in 1..Len(queue)
        BY <1>1
      <4>2. QED
        BY <1>1, <1>7, <3>1, <4>1 DEF Once, Alone, Waiting
    <3>3. QED
      BY <1>7, <3>1, <3>2 DEF Once, Running
  <2>3. QED
    BY <1>2, <1>3, <1>4, <1>7, <2>1, <2>2 DEF Once, Running
<1>8. QED
  BY <1>1, <1>2, <1>3, <1>4, <1>6, <1>7

(* A task that ends is nowhere any more, if it was once. *)
LEMMA FinishFrees ==
  ASSUME PoolOK, NEW x \in Workers, busy[x] \in Tasks, Finish(x), queue' = queue
  PROVE  /\ PoolOK' /\ busy'[x] = NoTask
         /\ \A y \in Workers \ {x} : busy'[y] = busy[y]
         /\ \A u \in Tasks : /\ Waiting(u)' <=> Waiting(u)
                             /\ Held(u)' => Held(u)
                             /\ Held(u) => Held(u)' \/ u = busy[x]
                             /\ Once(u) /\ u = busy[x] => ~Held(u)'
                             /\ Once(u) => Once(u)'
<1>1. /\ busy'[x] = NoTask /\ \A y \in Workers \ {x} : busy'[y] = busy[y]
      /\ PoolOK'
  BY DEF Finish, PoolOK
<1>2. \A u : (Waiting(u)' <=> Waiting(u)) /\ (Alone(u)' <=> Alone(u))
  BY DEF Waiting, Alone
<1>3. \A u \in Tasks : Running(u)' => Running(u)
  BY <1>1, PoolAssumption DEF Running
<1>4. \A u \in Tasks : Running(u) => Running(u)' \/ u = busy[x]
  BY <1>1 DEF Running
<1>5. \A u \in Tasks : Once(u) /\ u = busy[x] => ~Running(u)' /\ ~Waiting(u)
  BY <1>1, PoolAssumption DEF Once, Running
<1>6. \A u \in Tasks : Once(u) => Once(u)'
  BY <1>1, <1>2, PoolAssumption DEF Once
<1>7. QED
  BY <1>1, <1>2, <1>3, <1>4, <1>5, <1>6 DEF Held
-----------------------------------------------------------------------------
(* The inductive invariant. *)

ShapeOK ==
  /\ PoolOK
  /\ sessions \subseteq Sess
  /\ phase \in [Workers -> Phases]
  /\ conn \in [Sess -> {"none", "up", "ended"}]
  /\ reader \in [Sess -> {"none", "notify", "done"}]
  /\ evts \in [Sess -> BOOLEAN]
  /\ requested \in [Sess -> SUBSET {"open", "request"}]
  /\ told \in [Sess -> Nat]
  /\ \A x \in Workers : busy[x] = NoTask => phase[x] = "start"

(* A session is opened by one task, which nobody told the end of.           *)
OpenOf(s) ==
  /\ Once(OpenTask(s))
  /\ Held(OpenTask(s)) => "open" \in requested[s] /\ s \notin sessions /\ told[s] = 0
  /\ "open" \notin requested[s] => s \notin sessions /\ told[s] = 0
  /\ s \in sessions => evts[s]
OpenInv == \A s \in Sess : OpenOf(s)

(* What the main thread does with the sessions there are.                   *)
MainInv ==
  /\ updateStatus # "none" => sessions = {}
  /\ main \in {"updating", "fetching"} => updateStatus # "none"
  /\ locked <=> main = "closing"
  /\ todo \subseteq sessions /\ visiting \subseteq sessions /\ todo \cap visiting = {}
  /\ main # "closing" => todo = {} /\ visiting = {}

(* The apps were told of the sessions _close_all_sessions has visited.      *)
ToldInv ==
  \A s \in Sess :
    /\ told[s] <= 1
    /\ s \in sessions => (told[s] = 0 <=> main # "closing" \/ s \in todo \cup visiting)

AppInv ==
  ~stale => /\ appState \subseteq sessions
            /\ main = "closing" => appState \subseteq todo \cup visiting

SessInv == ShapeOK /\ OpenInv /\ MainInv /\ ToldInv /\ AppInv /\ EndedClosed

(* What a step does to the task that opens a session, but the one that asks. *)
PoolSteps(s) ==
  \/ UNCHANGED <<queue, busy>>
  \/ \E x \in Workers : Take(x)
  \/ \E x \in Workers : busy[x] \in Tasks /\ Finish(x) /\ queue' = queue
  \/ \E t \in Tasks : t # OpenTask(s) /\ Execute(t)

LEMMA TasksAre ==
  /\ \A s \in Sess : OpenTask(s) \in Tasks /\ CloseTask(s) \in Tasks /\ RequestTask(s) \in Tasks
  /\ \A s, r : OpenTask(s) # CloseTask(r) /\ OpenTask(s) # RequestTask(r)
                 /\ CloseTask(s) # RequestTask(r)
  /\ \A s, r : OpenTask(s) = OpenTask(r) => s = r
  /\ \A s, r : CloseTask(s) = CloseTask(r) => s = r
BY SessAssumption, Zenon DEF OpenTask, CloseTask, RequestTask, SessTask

LEMMA OpensKept ==
  ASSUME PoolOK, NEW s \in Sess, PoolSteps(s)
  PROVE  /\ PoolOK'
         /\ Held(OpenTask(s))' => Held(OpenTask(s))
         /\ Once(OpenTask(s)) => Once(OpenTask(s))'
<1>0. OpenTask(s) \in Tasks
  BY TasksAre
<1>1. CASE UNCHANGED <<queue, busy>>
  BY <1>1 DEF PoolOK, Held, Once, Waiting, Running, Alone, OpenTask
<1>2. ASSUME NEW x \in Workers, Take(x)
      PROVE  /\ PoolOK'
             /\ Held(OpenTask(s))' => Held(OpenTask(s))
             /\ Once(OpenTask(s)) => Once(OpenTask(s))'
  BY <1>0, <1>2, TakeMoves DEF OpenTask
<1>3. ASSUME NEW x \in Workers, busy[x] \in Tasks, Finish(x), queue' = queue
      PROVE  /\ PoolOK'
             /\ Held(OpenTask(s))' => Held(OpenTask(s))
             /\ Once(OpenTask(s)) => Once(OpenTask(s))'
  BY <1>0, <1>3, FinishFrees DEF OpenTask
<1>4. ASSUME NEW t \in Tasks, t # OpenTask(s), Execute(t)
      PROVE  /\ PoolOK'
             /\ Held(OpenTask(s))' => Held(OpenTask(s))
             /\ Once(OpenTask(s)) => Once(OpenTask(s))'
  BY <1>0, <1>4, ExecuteQueues DEF OpenTask
<1>5. QED
  BY <1>1, <1>2, <1>3, <1>4 DEF PoolSteps

(* The types. *)
LEMMA ShapeStep ==
  ASSUME ShapeOK, OpenInv, MainInv, [SessNext]_sessVars
  PROVE  ShapeOK'
<1>1. ASSUME NEW s \in Sess, AskOpen(s) PROVE ShapeOK'
  <2>1. PoolOK' /\ busy' = busy
    BY <1>1, TasksAre, ExecuteQueues DEF AskOpen, ShapeOK, poolVars, OpenTask, CloseTask
  <2>2. QED
    BY <1>1, <2>1 DEF AskOpen, ShapeOK, mainThreadVars, connVars, requestVars, appStateVars
<1>2. ASSUME NEW s \in Sess, AskRequest(s) PROVE ShapeOK'
  <2>1. PoolOK' /\ busy' = busy
    BY <1>2, TasksAre, ExecuteQueues DEF AskRequest, ShapeOK, poolVars, OpenTask, CloseTask
  <2>2. QED
    BY <1>2, <2>1 DEF AskRequest, ShapeOK, mainThreadVars, connVars, requestVars,
       appStateVars
<1>3. ASSUME NEW s \in Sess, Elapse(s) PROVE ShapeOK'
  BY <1>3, PoolAssumption, SessAssumption DEF Elapse, poolVars, mainThreadVars, connVars,
     requestVars, appStateVars, ShapeOK, Phases, PoolOK, Finish
<1>4. ASSUME NEW s \in Sess, ConnectionEnds(s) PROVE ShapeOK'
  BY <1>4, PoolAssumption, SessAssumption DEF ConnectionEnds, poolVars, mainThreadVars,
     connVars, requestVars, appStateVars, ShapeOK, Phases, PoolOK, Finish
<1>5. ASSUME NEW s \in Sess, ReaderNotifies(s) PROVE ShapeOK'
  <2>1. PoolOK' /\ busy' = busy
    <3>1. CASE Execute(CloseTask(s))
      BY <3>1, TasksAre, ExecuteQueues DEF ShapeOK, CloseTask
    <3>2. CASE UNCHANGED poolVars
      BY <3>2 DEF ShapeOK, PoolOK, poolVars
    <3>3. QED
      BY <1>5, <3>1, <3>2 DEF ReaderNotifies
  <2>2. QED
    BY <1>5, <2>1 DEF ReaderNotifies, ShapeOK, mainThreadVars, requestVars, appStateVars
<1>6. ASSUME NEW x \in Workers, TakeTask(x) PROVE ShapeOK'
  <2>1. /\ PoolOK' /\ busy[x] = NoTask /\ busy'[x] # NoTask
        /\ \A y \in Workers \ {x} : busy'[y] = busy[y]
    BY <1>6, TakeMoves, PoolAssumption DEF TakeTask, ShapeOK
  <2>2. QED
    BY <1>6, <2>1 DEF TakeTask, ShapeOK, mainThreadVars, connVars, requestVars, appStateVars
<1>7. ASSUME NEW x \in Workers, NEW s \in Sess, OpenConnects(x, s) PROVE ShapeOK'
  <2>2. PoolOK' /\ phase' \in [Workers -> Phases]
    <3>1. CASE Ends(x)
      BY <3>1, <1>7 DEF OpenConnects, At, Proceeds, Ends, ShapeOK, PoolOK, Finish, Phases
    <3>2. CASE ~Ends(x)
      BY <3>2, <1>7 DEF OpenConnects, At, Proceeds, Ends, ShapeOK, PoolOK, poolVars, Phases
    <3>3. QED
      BY <3>1, <3>2
  <2>3. \A y \in Workers : busy'[y] = NoTask => phase'[y] = "start"
    <3>1. busy[x] # NoTask
      BY <1>7, PoolAssumption, TasksAre DEF OpenConnects, At, Proceeds, Ends, OpenTask,
         CloseTask
    <3>2. CASE Ends(x)
      BY <3>2 DEF OpenConnects, At, Proceeds, Ends, ShapeOK, PoolOK, Finish
    <3>3. CASE Proceeds(x, phase'[x])
      BY <3>1, <3>3 DEF Proceeds, ShapeOK, PoolOK, poolVars
    <3>4. QED
      BY <1>7, <3>2, <3>3 DEF OpenConnects, At, Proceeds, Ends, ShapeOK
  <2>4. QED
    BY <1>7, <2>2, <2>3 DEF OpenConnects, At, Proceeds, Ends, ShapeOK, mainThreadVars,
       connVars, requestVars, appStateVars
<1>8. ASSUME NEW x \in Workers, NEW s \in Sess, OpenEnters(x, s) PROVE ShapeOK'
  <2>2. PoolOK' /\ phase' \in [Workers -> Phases]
    <3>1. CASE Ends(x)
      BY <3>1, <1>8 DEF OpenEnters, At, Proceeds, Ends, ShapeOK, PoolOK, Finish, Phases
    <3>2. CASE ~Ends(x)
      BY <3>2, <1>8 DEF OpenEnters, At, Proceeds, Ends, ShapeOK, PoolOK, poolVars, Phases
    <3>3. QED
      BY <3>1, <3>2
  <2>3. \A y \in Workers : busy'[y] = NoTask => phase'[y] = "start"
    <3>1. busy[x] # NoTask
      BY <1>8, PoolAssumption, TasksAre DEF OpenEnters, At, Proceeds, Ends, OpenTask,
         CloseTask
    <3>2. CASE Ends(x)
      BY <3>2 DEF OpenEnters, At, Proceeds, Ends, ShapeOK, PoolOK, Finish
    <3>3. CASE Proceeds(x, phase'[x])
      BY <3>1, <3>3 DEF Proceeds, ShapeOK, PoolOK, poolVars
    <3>4. QED
      BY <1>8, <3>2, <3>3 DEF OpenEnters, At, Proceeds, Ends, ShapeOK
  <2>4. QED
    BY <1>8, <2>2, <2>3 DEF OpenEnters, At, Proceeds, Ends, ShapeOK, mainThreadVars,
       connVars, requestVars, appStateVars
<1>9. ASSUME NEW x \in Workers, NEW s \in Sess, OpenAborts(x, s) PROVE ShapeOK'
  BY <1>9, PoolAssumption, SessAssumption DEF OpenAborts, At, Ends, poolVars,
     mainThreadVars, connVars, requestVars, appStateVars, ShapeOK, Phases, PoolOK, Finish
<1>10. ASSUME NEW x \in Workers, NEW s \in Sess, CloseRemoves(x, s) PROVE ShapeOK'
  <2>2. PoolOK' /\ phase' \in [Workers -> Phases]
    <3>1. CASE Ends(x)
      BY <3>1, <1>10 DEF CloseRemoves, At, Proceeds, Ends, TellApps, ShapeOK, PoolOK,
         Finish, Phases
    <3>2. CASE ~Ends(x)
      BY <3>2, <1>10 DEF CloseRemoves, At, Proceeds, Ends, TellApps, ShapeOK, PoolOK,
         poolVars, Phases
    <3>3. QED
      BY <3>1, <3>2
  <2>3. \A y \in Workers : busy'[y] = NoTask => phase'[y] = "start"
    <3>1. busy[x] # NoTask
      BY <1>10, PoolAssumption, TasksAre DEF CloseRemoves, At, Proceeds, Ends, TellApps,
         OpenTask, CloseTask
    <3>2. CASE Ends(x)
      BY <3>2 DEF CloseRemoves, At, Proceeds, Ends, TellApps, ShapeOK, PoolOK, Finish
    <3>3. CASE Proceeds(x, phase'[x])
      BY <3>1, <3>3 DEF Proceeds, ShapeOK, PoolOK, poolVars
    <3>4. QED
      BY <1>10, <3>2, <3>3 DEF CloseRemoves, At, Proceeds, Ends, TellApps, ShapeOK
  <2>4. QED
    BY <1>10, <2>2, <2>3 DEF CloseRemoves, At, Proceeds, Ends, TellApps, ShapeOK,
       mainThreadVars, connVars, requestVars, appStateVars
<1>11. ASSUME NEW x \in Workers, NEW s \in Sess, CloseUnloads(x, s) PROVE ShapeOK'
  BY <1>11, PoolAssumption, SessAssumption DEF CloseUnloads, At, Ends, UnloadApps, poolVars,
     mainThreadVars, connVars, requestVars, appStateVars, ShapeOK, Phases, PoolOK, Finish
<1>12. ASSUME NEW x \in Workers, NEW s \in Sess, RequestInvokes(x, s) PROVE ShapeOK'
  BY <1>12, PoolAssumption, SessAssumption DEF RequestInvokes, At, Ends, poolVars,
     mainThreadVars, connVars, requestVars, appStateVars, ShapeOK, Phases, PoolOK, Finish
<1>13. ASSUME UpdateBegins PROVE ShapeOK'
  BY <1>13, PoolAssumption, SessAssumption DEF UpdateBegins, MainGoes, poolVars,
     mainThreadVars, connVars, requestVars, appStateVars, ShapeOK, Phases, PoolOK, Finish
<1>14. ASSUME Reconnect PROVE ShapeOK'
  BY <1>14, PoolAssumption, SessAssumption DEF Reconnect, MainGoes, poolVars,
     mainThreadVars, connVars, requestVars, appStateVars, ShapeOK, Phases, PoolOK, Finish
<1>15. ASSUME CloseAllBegins PROVE ShapeOK'
  BY <1>15, PoolAssumption, SessAssumption DEF CloseAllBegins, poolVars, mainThreadVars,
     connVars, requestVars, appStateVars, ShapeOK, Phases, PoolOK, Finish
<1>16. ASSUME UpdateUnloads PROVE ShapeOK'
  BY <1>16, PoolAssumption, SessAssumption DEF UpdateUnloads, MainGoes, UnloadApps,
     poolVars, mainThreadVars, connVars, requestVars, appStateVars, ShapeOK, Phases, PoolOK,
     Finish
<1>17. ASSUME UpdateEnds PROVE ShapeOK'
  BY <1>17, PoolAssumption, SessAssumption DEF UpdateEnds, MainGoes, poolVars,
     mainThreadVars, connVars, requestVars, appStateVars, ShapeOK, Phases, PoolOK, Finish
<1>18. ASSUME ReconnectUnloads PROVE ShapeOK'
  BY <1>18, PoolAssumption, SessAssumption DEF ReconnectUnloads, MainGoes, UnloadApps,
     poolVars, mainThreadVars, connVars, requestVars, appStateVars, ShapeOK, Phases, PoolOK,
     Finish
<1>19. ASSUME NEW s \in Sess, CloseAllPuts(s) PROVE ShapeOK'
  <2>1. PoolOK' /\ busy' = busy
    BY <1>19, TasksAre, ExecuteQueues DEF CloseAllPuts, ShapeOK, poolVars, OpenTask,
       CloseTask
  <2>2. QED
    BY <1>19, <2>1 DEF CloseAllPuts, ShapeOK, mainThreadVars, connVars, requestVars,
       appStateVars
<1>20. ASSUME NEW s \in Sess, CloseAllVisits(s) PROVE ShapeOK'
  BY <1>20, PoolAssumption, SessAssumption DEF CloseAllVisits, TellApps, poolVars,
     mainThreadVars, connVars, requestVars, appStateVars, ShapeOK, Phases, PoolOK, Finish
<1>21. ASSUME CloseAllReleases PROVE ShapeOK'
  BY <1>21, PoolAssumption, SessAssumption DEF CloseAllReleases, poolVars, mainThreadVars,
     connVars, requestVars, appStateVars, ShapeOK, Phases, PoolOK, Finish
<1>22. ASSUME CloseAllUnloads PROVE ShapeOK'
  BY <1>22, PoolAssumption, SessAssumption DEF CloseAllUnloads, MainGoes, UnloadApps,
     Destroy, poolVars, mainThreadVars, connVars, requestVars, appStateVars, ShapeOK,
     Phases, PoolOK, Finish
<1>23. ASSUME UNCHANGED sessVars PROVE ShapeOK'
  BY <1>23, PoolAssumption, SessAssumption DEF sessVars, poolVars, mainThreadVars, connVars,
     requestVars, appStateVars, ShapeOK, Phases, PoolOK, Finish
<1>24. QED
  BY <1>1, <1>2, <1>3, <1>4, <1>5, <1>6, <1>7, <1>8, <1>9, <1>10, <1>11, <1>12, <1>13,
     <1>14, <1>15, <1>16, <1>17, <1>18, <1>19, <1>20, <1>21, <1>22, <1>23 DEF SessNext,
     Worker, Main, MainEnds

(* What keeps a session from being opened by another task. *)
LEMMA OpenStays ==
  ASSUME ShapeOK, NEW s \in Sess, OpenOf(s), PoolSteps(s),
         "open" \in requested'[s] <=> "open" \in requested[s],
         s \in sessions' => s \in sessions, told'[s] = told[s] \/ s \in sessions,
         s \in sessions' => evts'[s] = evts[s]
  PROVE  OpenOf(s)'
<1>1. /\ Held(OpenTask(s))' => Held(OpenTask(s))
      /\ Once(OpenTask(s)) => Once(OpenTask(s))'
  BY OpensKept DEF ShapeOK
<1>2. QED
  BY <1>1 DEF OpenOf, OpenTask

(* A session is opened once. *)
LEMMA OpenStep ==
  ASSUME ShapeOK, OpenInv, MainInv, [SessNext]_sessVars
  PROVE  OpenInv'
<1>1. ASSUME NEW s \in Sess, AskOpen(s) PROVE OpenInv'
  <2> SUFFICES ASSUME NEW r \in Sess PROVE OpenOf(r)'
    BY DEF OpenInv
  <2>1. CASE r # s
    <3>1. PoolSteps(r)
      BY <1>1, <2>1, TasksAre DEF AskOpen, PoolSteps, OpenTask
    <3>2. QED
      BY <1>1, <2>1, <3>1, OpenStays DEF AskOpen, ShapeOK, OpenInv, connVars, appStateVars
  <2>2. CASE r = s
    <3>1. Execute(OpenTask(r)) /\ ~Held(OpenTask(r)) /\ OpenOf(r) /\ OpenTask(r) \in Tasks
      BY <1>1, <2>2, TasksAre DEF AskOpen, OpenInv, OpenOf, OpenTask
    <3>2. Once(OpenTask(r))'
      BY <3>1, ExecuteQueues DEF OpenOf, ShapeOK, OpenTask
    <3>3. "open" \in requested'[r] /\ sessions' = sessions /\ told' = told /\ evts' = evts
      BY <1>1, <2>2 DEF AskOpen, ShapeOK, connVars, appStateVars
    <3>4. QED
      BY <1>1, <2>2, <3>1, <3>2, <3>3 DEF AskOpen, OpenOf
  <2>3. QED
    BY <2>1, <2>2
<1>2. ASSUME NEW s \in Sess, AskRequest(s) PROVE OpenInv'
  <2> SUFFICES ASSUME NEW r \in Sess PROVE OpenOf(r)'
    BY DEF OpenInv
  <2>1. PoolSteps(r)
    BY <1>2, TasksAre DEF AskRequest, PoolSteps, OpenTask, CloseTask, poolVars
  <2>2. QED
    BY <1>2, <2>1, OpenStays DEF AskRequest, ShapeOK, OpenInv, mainThreadVars, connVars,
       requestVars, appStateVars
<1>3. ASSUME NEW s \in Sess, Elapse(s) PROVE OpenInv'
  <2> SUFFICES ASSUME NEW r \in Sess PROVE OpenOf(r)'
    BY DEF OpenInv
  <2>1. PoolSteps(r)
    BY <1>3, TasksAre DEF Elapse, PoolSteps, OpenTask, CloseTask, poolVars
  <2>2. QED
    BY <1>3, <2>1, OpenStays DEF Elapse, ShapeOK, OpenInv, mainThreadVars, connVars,
       requestVars, appStateVars
<1>4. ASSUME NEW s \in Sess, ConnectionEnds(s) PROVE OpenInv'
  <2> SUFFICES ASSUME NEW r \in Sess PROVE OpenOf(r)'
    BY DEF OpenInv
  <2>1. PoolSteps(r)
    BY <1>4, TasksAre DEF ConnectionEnds, PoolSteps, OpenTask, CloseTask, poolVars
  <2>2. QED
    BY <1>4, <2>1, OpenStays DEF ConnectionEnds, ShapeOK, OpenInv, mainThreadVars, connVars,
       requestVars, appStateVars
<1>5. ASSUME NEW s \in Sess, ReaderNotifies(s) PROVE OpenInv'
  <2> SUFFICES ASSUME NEW r \in Sess PROVE OpenOf(r)'
    BY DEF OpenInv
  <2>1. PoolSteps(r)
    BY <1>5, TasksAre DEF ReaderNotifies, PoolSteps, OpenTask, CloseTask, poolVars
  <2>2. QED
    BY <1>5, <2>1, OpenStays DEF ReaderNotifies, ShapeOK, OpenInv, mainThreadVars, connVars,
       requestVars, appStateVars
<1>6. ASSUME NEW x \in Workers, TakeTask(x) PROVE OpenInv'
  <2> SUFFICES ASSUME NEW r \in Sess PROVE OpenOf(r)'
    BY DEF OpenInv
  <2>1. PoolSteps(r)
    BY <1>6, TasksAre DEF TakeTask, PoolSteps, OpenTask, CloseTask, poolVars
  <2>2. QED
    BY <1>6, <2>1, OpenStays DEF TakeTask, ShapeOK, OpenInv, mainThreadVars, connVars,
       requestVars, appStateVars
<1>7. ASSUME NEW x \in Workers, NEW s \in Sess, OpenConnects(x, s) PROVE OpenInv'
  <2> SUFFICES ASSUME NEW r \in Sess PROVE OpenOf(r)'
    BY DEF OpenInv
  <2>1. PoolSteps(r)
    BY <1>7, TasksAre DEF OpenConnects, At, Proceeds, Ends, PoolSteps, OpenTask, CloseTask,
       poolVars
  <2>2. QED
    BY <1>7, <2>1, OpenStays DEF OpenConnects, At, Proceeds, Ends, ShapeOK, OpenInv,
       mainThreadVars, connVars, requestVars, appStateVars
<1>8. ASSUME NEW x \in Workers, NEW s \in Sess, OpenEnters(x, s) PROVE OpenInv'
  <2> SUFFICES ASSUME NEW r \in Sess PROVE OpenOf(r)'
    BY DEF OpenInv
  <2>1. PoolSteps(r)
    BY <1>8, TasksAre DEF OpenEnters, At, Proceeds, Ends, PoolSteps, OpenTask, poolVars
  <2>2. CASE r # s \/ r \notin sessions'
    BY <1>8, <2>1, <2>2, OpenStays DEF OpenEnters, At, Proceeds, Ends, ShapeOK, OpenInv,
       mainThreadVars, requestVars, appStateVars
  <2>3. CASE r = s /\ r \in sessions'
    <3>1. OpenOf(r) /\ busy[x] = OpenTask(r) /\ Held(OpenTask(r)) /\ OpenTask(r) \in Tasks
      BY <1>8, <2>3, TasksAre DEF OpenEnters, At, Proceeds, Ends, OpenInv, OpenTask, Held,
         Running
    <3>2. updateStatus = "none" /\ Ends(x)
      BY <1>8, <2>3, <3>1 DEF OpenEnters, At, Proceeds, Ends, OpenOf
    <3>3. Once(OpenTask(r))' /\ ~Held(OpenTask(r))'
      BY <3>1, <3>2, FinishFrees DEF OpenOf, ShapeOK, OpenTask, Ends
    <3>4. evts'[r] /\ requested' = requested /\ told' = told
      BY <1>8, <2>3, <3>2 DEF OpenEnters, At, Proceeds, Ends, ShapeOK, requestVars,
         appStateVars
    <3>5. QED
      BY <3>1, <3>3, <3>4 DEF OpenOf
  <2>4. QED
    BY <2>2, <2>3
<1>9. ASSUME NEW x \in Workers, NEW s \in Sess, OpenAborts(x, s) PROVE OpenInv'
  <2> SUFFICES ASSUME NEW r \in Sess PROVE OpenOf(r)'
    BY DEF OpenInv
  <2>1. PoolSteps(r)
    BY <1>9, TasksAre DEF OpenAborts, At, Ends, PoolSteps, OpenTask, CloseTask, poolVars
  <2>2. QED
    BY <1>9, <2>1, OpenStays DEF OpenAborts, At, Ends, ShapeOK, OpenInv, mainThreadVars,
       connVars, requestVars, appStateVars
<1>10. ASSUME NEW x \in Workers, NEW s \in Sess, CloseRemoves(x, s) PROVE OpenInv'
  <2> SUFFICES ASSUME NEW r \in Sess PROVE OpenOf(r)'
    BY DEF OpenInv
  <2>1. PoolSteps(r)
    BY <1>10, TasksAre DEF CloseRemoves, At, Proceeds, Ends, TellApps, PoolSteps, OpenTask,
       CloseTask, poolVars
  <2>2. QED
    BY <1>10, <2>1, OpenStays DEF CloseRemoves, At, Proceeds, Ends, TellApps, ShapeOK,
       OpenInv, mainThreadVars, connVars, requestVars, appStateVars
<1>11. ASSUME NEW x \in Workers, NEW s \in Sess, CloseUnloads(x, s) PROVE OpenInv'
  <2> SUFFICES ASSUME NEW r \in Sess PROVE OpenOf(r)'
    BY DEF OpenInv
  <2>1. PoolSteps(r)
    BY <1>11, TasksAre DEF CloseUnloads, At, Ends, UnloadApps, PoolSteps, OpenTask,
       CloseTask, poolVars
  <2>2. QED
    BY <1>11, <2>1, OpenStays DEF CloseUnloads, At, Ends, UnloadApps, ShapeOK, OpenInv,
       mainThreadVars, connVars, requestVars, appStateVars
<1>12. ASSUME NEW x \in Workers, NEW s \in Sess, RequestInvokes(x, s) PROVE OpenInv'
  <2> SUFFICES ASSUME NEW r \in Sess PROVE OpenOf(r)'
    BY DEF OpenInv
  <2>1. PoolSteps(r)
    BY <1>12, TasksAre DEF RequestInvokes, At, Ends, PoolSteps, OpenTask, CloseTask,
       poolVars
  <2>2. QED
    BY <1>12, <2>1, OpenStays DEF RequestInvokes, At, Ends, ShapeOK, OpenInv,
       mainThreadVars, connVars, requestVars, appStateVars
<1>13. ASSUME UpdateBegins PROVE OpenInv'
  <2> SUFFICES ASSUME NEW r \in Sess PROVE OpenOf(r)'
    BY DEF OpenInv
  <2>1. PoolSteps(r)
    BY <1>13, TasksAre DEF UpdateBegins, MainGoes, PoolSteps, OpenTask, CloseTask, poolVars
  <2>2. QED
    BY <1>13, <2>1, OpenStays DEF UpdateBegins, MainGoes, ShapeOK, OpenInv, mainThreadVars,
       connVars, requestVars, appStateVars
<1>14. ASSUME Reconnect PROVE OpenInv'
  <2> SUFFICES ASSUME NEW r \in Sess PROVE OpenOf(r)'
    BY DEF OpenInv
  <2>1. PoolSteps(r)
    BY <1>14, TasksAre DEF Reconnect, MainGoes, PoolSteps, OpenTask, CloseTask, poolVars
  <2>2. QED
    BY <1>14, <2>1, OpenStays DEF Reconnect, MainGoes, ShapeOK, OpenInv, mainThreadVars,
       connVars, requestVars, appStateVars
<1>15. ASSUME CloseAllBegins PROVE OpenInv'
  <2> SUFFICES ASSUME NEW r \in Sess PROVE OpenOf(r)'
    BY DEF OpenInv
  <2>1. PoolSteps(r)
    BY <1>15, TasksAre DEF CloseAllBegins, PoolSteps, OpenTask, CloseTask, poolVars
  <2>2. QED
    BY <1>15, <2>1, OpenStays DEF CloseAllBegins, ShapeOK, OpenInv, mainThreadVars,
       connVars, requestVars, appStateVars
<1>16. ASSUME UpdateUnloads PROVE OpenInv'
  <2> SUFFICES ASSUME NEW r \in Sess PROVE OpenOf(r)'
    BY DEF OpenInv
  <2>1. PoolSteps(r)
    BY <1>16, TasksAre DEF UpdateUnloads, MainGoes, UnloadApps, PoolSteps, OpenTask,
       CloseTask, poolVars
  <2>2. QED
    BY <1>16, <2>1, OpenStays DEF UpdateUnloads, MainGoes, UnloadApps, ShapeOK, OpenInv,
       mainThreadVars, connVars, requestVars, appStateVars
<1>17. ASSUME UpdateEnds PROVE OpenInv'
  <2> SUFFICES ASSUME NEW r \in Sess PROVE OpenOf(r)'
    BY DEF OpenInv
  <2>1. PoolSteps(r)
    BY <1>17, TasksAre DEF UpdateEnds, MainGoes, PoolSteps, OpenTask, CloseTask, poolVars
  <2>2. QED
    BY <1>17, <2>1, OpenStays DEF UpdateEnds, MainGoes, ShapeOK, OpenInv, mainThreadVars,
       connVars, requestVars, appStateVars
<1>18. ASSUME ReconnectUnloads PROVE OpenInv'
  <2> SUFFICES ASSUME NEW r \in Sess PROVE OpenOf(r)'
    BY DEF OpenInv
  <2>1. PoolSteps(r)
    BY <1>18, TasksAre DEF ReconnectUnloads, MainGoes, UnloadApps, PoolSteps, OpenTask,
       CloseTask, poolVars
  <2>2. QED
    BY <1>18, <2>1, OpenStays DEF ReconnectUnloads, MainGoes, UnloadApps, ShapeOK, OpenInv,
       mainThreadVars, connVars, requestVars, appStateVars
<1>19. ASSUME NEW s \in Sess, CloseAllPuts(s) PROVE OpenInv'
  <2> SUFFICES ASSUME NEW r \in Sess PROVE OpenOf(r)'
    BY DEF OpenInv
  <2>1. PoolSteps(r)
    BY <1>19, TasksAre DEF CloseAllPuts, PoolSteps, OpenTask, CloseTask, poolVars
  <2>2. QED
    BY <1>19, <2>1, OpenStays DEF CloseAllPuts, ShapeOK, OpenInv, mainThreadVars, connVars,
       requestVars, appStateVars
<1>20. ASSUME NEW s \in Sess, CloseAllVisits(s) PROVE OpenInv'
  <2> SUFFICES ASSUME NEW r \in Sess PROVE OpenOf(r)'
    BY DEF OpenInv
  <2>1. PoolSteps(r)
    BY <1>20, TasksAre DEF CloseAllVisits, TellApps, PoolSteps, OpenTask, CloseTask,
       poolVars
  <2>2. QED
    BY <1>20, <2>1, OpenStays DEF CloseAllVisits, TellApps, ShapeOK, OpenInv, MainInv,
       mainThreadVars, connVars, requestVars, appStateVars
<1>21. ASSUME CloseAllReleases PROVE OpenInv'
  <2> SUFFICES ASSUME NEW r \in Sess PROVE OpenOf(r)'
    BY DEF OpenInv
  <2>1. PoolSteps(r)
    BY <1>21, TasksAre DEF CloseAllReleases, PoolSteps, OpenTask, CloseTask, poolVars
  <2>2. QED
    BY <1>21, <2>1, OpenStays DEF CloseAllReleases, ShapeOK, OpenInv, mainThreadVars,
       connVars, requestVars, appStateVars
<1>22. ASSUME CloseAllUnloads PROVE OpenInv'
  <2> SUFFICES ASSUME NEW r \in Sess PROVE OpenOf(r)'
    BY DEF OpenInv
  <2>1. PoolSteps(r)
    BY <1>22, TasksAre DEF CloseAllUnloads, MainGoes, UnloadApps, Destroy, PoolSteps,
       OpenTask, CloseTask, poolVars
  <2>2. QED
    BY <1>22, <2>1, OpenStays DEF CloseAllUnloads, MainGoes, UnloadApps, Destroy, ShapeOK,
       OpenInv, mainThreadVars, connVars, requestVars, appStateVars
<1>23. ASSUME UNCHANGED sessVars PROVE OpenInv'
  BY <1>23 DEF sessVars, poolVars, mainThreadVars, connVars, requestVars, appStateVars,
     OpenInv, OpenOf, ShapeOK, Held, Once, Waiting, Running, Alone, OpenTask
<1>24. QED
  BY <1>1, <1>2, <1>3, <1>4, <1>5, <1>6, <1>7, <1>8, <1>9, <1>10, <1>11, <1>12, <1>13,
     <1>14, <1>15, <1>16, <1>17, <1>18, <1>19, <1>20, <1>21, <1>22, <1>23 DEF SessNext,
     Worker, Main, MainEnds

(* No session is there while the agent is updated. *)
LEMMA MainStep ==
  ASSUME ShapeOK, OpenInv, MainInv, [SessNext]_sessVars
  PROVE  MainInv'
<1>1. ASSUME NEW s \in Sess, AskOpen(s) PROVE MainInv'
  BY <1>1 DEF AskOpen, poolVars, mainThreadVars, connVars, requestVars, appStateVars,
     MainInv
<1>2. ASSUME NEW s \in Sess, AskRequest(s) PROVE MainInv'
  BY <1>2 DEF AskRequest, poolVars, mainThreadVars, connVars, requestVars, appStateVars,
     MainInv
<1>3. ASSUME NEW s \in Sess, Elapse(s) PROVE MainInv'
  BY <1>3 DEF Elapse, poolVars, mainThreadVars, connVars, requestVars, appStateVars, MainInv
<1>4. ASSUME NEW s \in Sess, ConnectionEnds(s) PROVE MainInv'
  BY <1>4 DEF ConnectionEnds, poolVars, mainThreadVars, connVars, requestVars, appStateVars,
     MainInv
<1>5. ASSUME NEW s \in Sess, ReaderNotifies(s) PROVE MainInv'
  BY <1>5 DEF ReaderNotifies, poolVars, mainThreadVars, connVars, requestVars, appStateVars,
     MainInv
<1>6. ASSUME NEW x \in Workers, TakeTask(x) PROVE MainInv'
  BY <1>6 DEF TakeTask, poolVars, mainThreadVars, connVars, requestVars, appStateVars,
     MainInv
<1>7. ASSUME NEW x \in Workers, NEW s \in Sess, OpenConnects(x, s) PROVE MainInv'
  BY <1>7 DEF OpenConnects, At, Proceeds, Ends, poolVars, mainThreadVars, connVars,
     requestVars, appStateVars, MainInv
<1>8. ASSUME NEW x \in Workers, NEW s \in Sess, OpenEnters(x, s) PROVE MainInv'
  BY <1>8 DEF OpenEnters, At, Proceeds, Ends, poolVars, mainThreadVars, connVars,
     requestVars, appStateVars, MainInv
<1>9. ASSUME NEW x \in Workers, NEW s \in Sess, OpenAborts(x, s) PROVE MainInv'
  BY <1>9 DEF OpenAborts, At, Ends, poolVars, mainThreadVars, connVars, requestVars,
     appStateVars, MainInv
<1>10. ASSUME NEW x \in Workers, NEW s \in Sess, CloseRemoves(x, s) PROVE MainInv'
  BY <1>10 DEF CloseRemoves, At, Proceeds, Ends, TellApps, poolVars, mainThreadVars,
     connVars, requestVars, appStateVars, MainInv
<1>11. ASSUME NEW x \in Workers, NEW s \in Sess, CloseUnloads(x, s) PROVE MainInv'
  BY <1>11 DEF CloseUnloads, At, Ends, UnloadApps, poolVars, mainThreadVars, connVars,
     requestVars, appStateVars, MainInv
<1>12. ASSUME NEW x \in Workers, NEW s \in Sess, RequestInvokes(x, s) PROVE MainInv'
  BY <1>12 DEF RequestInvokes, At, Ends, poolVars, mainThreadVars, connVars, requestVars,
     appStateVars, MainInv
<1>13. ASSUME UpdateBegins PROVE MainInv'
  BY <1>13 DEF UpdateBegins, MainGoes, poolVars, mainThreadVars, connVars, requestVars,
     appStateVars, MainInv
<1>14. ASSUME Reconnect PROVE MainInv'
  BY <1>14 DEF Reconnect, MainGoes, poolVars, mainThreadVars, connVars, requestVars,
     appStateVars, MainInv
<1>15. ASSUME CloseAllBegins PROVE MainInv'
  BY <1>15 DEF CloseAllBegins, poolVars, mainThreadVars, connVars, requestVars,
     appStateVars, MainInv
<1>16. ASSUME UpdateUnloads PROVE MainInv'
  BY <1>16 DEF UpdateUnloads, MainGoes, UnloadApps, poolVars, mainThreadVars, connVars,
     requestVars, appStateVars, MainInv
<1>17. ASSUME UpdateEnds PROVE MainInv'
  BY <1>17 DEF UpdateEnds, MainGoes, poolVars, mainThreadVars, connVars, requestVars,
     appStateVars, MainInv
<1>18. ASSUME ReconnectUnloads PROVE MainInv'
  BY <1>18 DEF ReconnectUnloads, MainGoes, UnloadApps, poolVars, mainThreadVars, connVars,
     requestVars, appStateVars, MainInv
<1>19. ASSUME NEW s \in Sess, CloseAllPuts(s) PROVE MainInv'
  BY <1>19 DEF CloseAllPuts, poolVars, mainThreadVars, connVars, requestVars, appStateVars,
     MainInv
<1>20. ASSUME NEW s \in Sess, CloseAllVisits(s) PROVE MainInv'
  BY <1>20 DEF CloseAllVisits, TellApps, poolVars, mainThreadVars, connVars, requestVars,
     appStateVars, MainInv
<1>21. ASSUME CloseAllReleases PROVE MainInv'
  BY <1>21 DEF CloseAllReleases, poolVars, mainThreadVars, connVars, requestVars,
     appStateVars, MainInv
<1>22. ASSUME CloseAllUnloads PROVE MainInv'
  BY <1>22 DEF CloseAllUnloads, MainGoes, UnloadApps, Destroy, poolVars, mainThreadVars,
     connVars, requestVars, appStateVars, MainInv
<1>23. ASSUME UNCHANGED sessVars PROVE MainInv'
  BY <1>23 DEF sessVars, poolVars, mainThreadVars, connVars, requestVars, appStateVars,
     MainInv
<1>24. QED
  BY <1>1, <1>2, <1>3, <1>4, <1>5, <1>6, <1>7, <1>8, <1>9, <1>10, <1>11, <1>12, <1>13,
     <1>14, <1>15, <1>16, <1>17, <1>18, <1>19, <1>20, <1>21, <1>22, <1>23 DEF SessNext,
     Worker, Main, MainEnds

(* The apps are told once. *)
LEMMA ToldStep ==
  ASSUME ShapeOK, OpenInv, OpenInv', MainInv, MainInv', ToldInv, [SessNext]_sessVars
  PROVE  ToldInv'
<1>1. ASSUME NEW s \in Sess, AskOpen(s) PROVE ToldInv'
  BY <1>1 DEF AskOpen, poolVars, mainThreadVars, connVars, requestVars, appStateVars,
     ToldInv, MainInv, ShapeOK
<1>2. ASSUME NEW s \in Sess, AskRequest(s) PROVE ToldInv'
  BY <1>2 DEF AskRequest, poolVars, mainThreadVars, connVars, requestVars, appStateVars,
     ToldInv, MainInv, ShapeOK
<1>3. ASSUME NEW s \in Sess, Elapse(s) PROVE ToldInv'
  BY <1>3 DEF Elapse, poolVars, mainThreadVars, connVars, requestVars, appStateVars,
     ToldInv, MainInv, ShapeOK
<1>4. ASSUME NEW s \in Sess, ConnectionEnds(s) PROVE ToldInv'
  BY <1>4 DEF ConnectionEnds, poolVars, mainThreadVars, connVars, requestVars, appStateVars,
     ToldInv, MainInv, ShapeOK
<1>5. ASSUME NEW s \in Sess, ReaderNotifies(s) PROVE ToldInv'
  BY <1>5 DEF ReaderNotifies, poolVars, mainThreadVars, connVars, requestVars, appStateVars,
     ToldInv, MainInv, ShapeOK
<1>6. ASSUME NEW x \in Workers, TakeTask(x) PROVE ToldInv'
  BY <1>6 DEF TakeTask, poolVars, mainThreadVars, connVars, requestVars, appStateVars,
     ToldInv, MainInv, ShapeOK
<1>7. ASSUME NEW x \in Workers, NEW s \in Sess, OpenConnects(x, s) PROVE ToldInv'
  BY <1>7 DEF OpenConnects, At, Proceeds, Ends, poolVars, mainThreadVars, connVars,
     requestVars, appStateVars, ToldInv, MainInv, ShapeOK
<1>8. ASSUME NEW x \in Workers, NEW s \in Sess, OpenEnters(x, s) PROVE ToldInv'
  <2>1. told[s] = 0 /\ main # "closing" /\ told' = told /\ UNCHANGED <<main, todo, visiting>>
    BY <1>8, TasksAre DEF OpenEnters, At, Proceeds, Ends, OpenInv, OpenOf, Held, Running,
       OpenTask, MainInv, mainThreadVars,
       appStateVars
  <2>2. QED
    BY <1>8, <2>1 DEF OpenEnters, ToldInv
<1>9. ASSUME NEW x \in Workers, NEW s \in Sess, OpenAborts(x, s) PROVE ToldInv'
  BY <1>9 DEF OpenAborts, At, Ends, poolVars, mainThreadVars, connVars, requestVars,
     appStateVars, ToldInv, MainInv, ShapeOK
<1>10. ASSUME NEW x \in Workers, NEW s \in Sess, CloseRemoves(x, s) PROVE ToldInv'
  BY <1>10 DEF CloseRemoves, At, Proceeds, Ends, TellApps, poolVars, mainThreadVars,
     connVars, requestVars, appStateVars, ToldInv, MainInv, ShapeOK
<1>11. ASSUME NEW x \in Workers, NEW s \in Sess, CloseUnloads(x, s) PROVE ToldInv'
  BY <1>11 DEF CloseUnloads, At, Ends, UnloadApps, poolVars, mainThreadVars, connVars,
     requestVars, appStateVars, ToldInv, MainInv, ShapeOK
<1>12. ASSUME NEW x \in Workers, NEW s \in Sess, RequestInvokes(x, s) PROVE ToldInv'
  BY <1>12 DEF RequestInvokes, At, Ends, poolVars, mainThreadVars, connVars, requestVars,
     appStateVars, ToldInv, MainInv, ShapeOK
<1>13. ASSUME UpdateBegins PROVE ToldInv'
  BY <1>13 DEF UpdateBegins, MainGoes, poolVars, mainThreadVars, connVars, requestVars,
     appStateVars, ToldInv, MainInv, ShapeOK
<1>14. ASSUME Reconnect PROVE ToldInv'
  BY <1>14 DEF Reconnect, MainGoes, poolVars, mainThreadVars, connVars, requestVars,
     appStateVars, ToldInv, MainInv, ShapeOK
<1>15. ASSUME CloseAllBegins PROVE ToldInv'
  BY <1>15 DEF CloseAllBegins, poolVars, mainThreadVars, connVars, requestVars,
     appStateVars, ToldInv, MainInv, ShapeOK
<1>16. ASSUME UpdateUnloads PROVE ToldInv'
  BY <1>16 DEF UpdateUnloads, MainGoes, UnloadApps, poolVars, mainThreadVars, connVars,
     requestVars, appStateVars, ToldInv, MainInv, ShapeOK
<1>17. ASSUME UpdateEnds PROVE ToldInv'
  BY <1>17 DEF UpdateEnds, MainGoes, poolVars, mainThreadVars, connVars, requestVars,
     appStateVars, ToldInv, MainInv, ShapeOK
<1>18. ASSUME ReconnectUnloads PROVE ToldInv'
  BY <1>18 DEF ReconnectUnloads, MainGoes, UnloadApps, poolVars, mainThreadVars, connVars,
     requestVars, appStateVars, ToldInv, MainInv, ShapeOK
<1>19. ASSUME NEW s \in Sess, CloseAllPuts(s) PROVE ToldInv'
  BY <1>19 DEF CloseAllPuts, poolVars, mainThreadVars, connVars, requestVars, appStateVars,
     ToldInv, MainInv, ShapeOK
<1>20. ASSUME NEW s \in Sess, CloseAllVisits(s) PROVE ToldInv'
  BY <1>20 DEF CloseAllVisits, TellApps, poolVars, mainThreadVars, connVars, requestVars,
     appStateVars, ToldInv, MainInv, ShapeOK
<1>21. ASSUME CloseAllReleases PROVE ToldInv'
  BY <1>21 DEF CloseAllReleases, poolVars, mainThreadVars, connVars, requestVars,
     appStateVars, ToldInv, MainInv, ShapeOK
<1>22. ASSUME CloseAllUnloads PROVE ToldInv'
  BY <1>22 DEF CloseAllUnloads, MainGoes, UnloadApps, Destroy, poolVars, mainThreadVars,
     connVars, requestVars, appStateVars, ToldInv, MainInv, ShapeOK
<1>23. ASSUME UNCHANGED sessVars PROVE ToldInv'
  BY <1>23 DEF sessVars, poolVars, mainThreadVars, connVars, requestVars, appStateVars,
     ToldInv, MainInv, ShapeOK
<1>24. QED
  BY <1>1, <1>2, <1>3, <1>4, <1>5, <1>6, <1>7, <1>8, <1>9, <1>10, <1>11, <1>12, <1>13,
     <1>14, <1>15, <1>16, <1>17, <1>18, <1>19, <1>20, <1>21, <1>22, <1>23 DEF SessNext,
     Worker, Main, MainEnds

(* The apps hold nothing else. *)
LEMMA AppStep ==
  ASSUME ShapeOK, MainInv, ToldInv, AppInv, [SessNext]_sessVars
  PROVE  AppInv'
<1>1. ASSUME NEW s \in Sess, AskOpen(s) PROVE AppInv'
  BY <1>1 DEF AskOpen, poolVars, mainThreadVars, connVars, requestVars, appStateVars,
     AppInv, MainInv, ToldInv, ShapeOK
<1>2. ASSUME NEW s \in Sess, AskRequest(s) PROVE AppInv'
  BY <1>2 DEF AskRequest, poolVars, mainThreadVars, connVars, requestVars, appStateVars,
     AppInv, MainInv, ToldInv, ShapeOK
<1>3. ASSUME NEW s \in Sess, Elapse(s) PROVE AppInv'
  BY <1>3 DEF Elapse, poolVars, mainThreadVars, connVars, requestVars, appStateVars, AppInv,
     MainInv, ToldInv, ShapeOK
<1>4. ASSUME NEW s \in Sess, ConnectionEnds(s) PROVE AppInv'
  BY <1>4 DEF ConnectionEnds, poolVars, mainThreadVars, connVars, requestVars, appStateVars,
     AppInv, MainInv, ToldInv, ShapeOK
<1>5. ASSUME NEW s \in Sess, ReaderNotifies(s) PROVE AppInv'
  BY <1>5 DEF ReaderNotifies, poolVars, mainThreadVars, connVars, requestVars, appStateVars,
     AppInv, MainInv, ToldInv, ShapeOK
<1>6. ASSUME NEW x \in Workers, TakeTask(x) PROVE AppInv'
  BY <1>6 DEF TakeTask, poolVars, mainThreadVars, connVars, requestVars, appStateVars,
     AppInv, MainInv, ToldInv, ShapeOK
<1>7. ASSUME NEW x \in Workers, NEW s \in Sess, OpenConnects(x, s) PROVE AppInv'
  BY <1>7 DEF OpenConnects, At, Proceeds, Ends, poolVars, mainThreadVars, connVars,
     requestVars, appStateVars, AppInv, MainInv, ToldInv, ShapeOK
<1>8. ASSUME NEW x \in Workers, NEW s \in Sess, OpenEnters(x, s) PROVE AppInv'
  BY <1>8 DEF OpenEnters, At, Proceeds, Ends, poolVars, mainThreadVars, connVars,
     requestVars, appStateVars, AppInv, MainInv, ToldInv, ShapeOK
<1>9. ASSUME NEW x \in Workers, NEW s \in Sess, OpenAborts(x, s) PROVE AppInv'
  BY <1>9 DEF OpenAborts, At, Ends, poolVars, mainThreadVars, connVars, requestVars,
     appStateVars, AppInv, MainInv, ToldInv, ShapeOK
<1>10. ASSUME NEW x \in Workers, NEW s \in Sess, CloseRemoves(x, s) PROVE AppInv'
  BY <1>10 DEF CloseRemoves, At, Proceeds, Ends, TellApps, poolVars, mainThreadVars,
     connVars, requestVars, appStateVars, AppInv, MainInv, ToldInv, ShapeOK
<1>11. ASSUME NEW x \in Workers, NEW s \in Sess, CloseUnloads(x, s) PROVE AppInv'
  BY <1>11 DEF CloseUnloads, At, Ends, UnloadApps, poolVars, mainThreadVars, connVars,
     requestVars, appStateVars, AppInv, MainInv, ToldInv, ShapeOK
<1>12. ASSUME NEW x \in Workers, NEW s \in Sess, RequestInvokes(x, s) PROVE AppInv'
  <2>1. ~stale' => ~stale /\ s \in sessions /\ ~(told[s] > 0)
    BY <1>12, Zenon DEF RequestInvokes
  <2>2. QED
    BY <1>12, <2>1 DEF RequestInvokes, AppInv, ToldInv, ShapeOK, mainThreadVars
<1>13. ASSUME UpdateBegins PROVE AppInv'
  BY <1>13 DEF UpdateBegins, MainGoes, poolVars, mainThreadVars, connVars, requestVars,
     appStateVars, AppInv, MainInv, ToldInv, ShapeOK
<1>14. ASSUME Reconnect PROVE AppInv'
  BY <1>14 DEF Reconnect, MainGoes, poolVars, mainThreadVars, connVars, requestVars,
     appStateVars, AppInv, MainInv, ToldInv, ShapeOK
<1>15. ASSUME CloseAllBegins PROVE AppInv'
  BY <1>15 DEF CloseAllBegins, poolVars, mainThreadVars, connVars, requestVars,
     appStateVars, AppInv, MainInv, ToldInv, ShapeOK
<1>16. ASSUME UpdateUnloads PROVE AppInv'
  BY <1>16 DEF UpdateUnloads, MainGoes, UnloadApps, poolVars, mainThreadVars, connVars,
     requestVars, appStateVars, AppInv, MainInv, ToldInv, ShapeOK
<1>17. ASSUME UpdateEnds PROVE AppInv'
  BY <1>17 DEF UpdateEnds, MainGoes, poolVars, mainThreadVars, connVars, requestVars,
     appStateVars, AppInv, MainInv, ToldInv, ShapeOK
<1>18. ASSUME ReconnectUnloads PROVE AppInv'
  BY <1>18 DEF ReconnectUnloads, MainGoes, UnloadApps, poolVars, mainThreadVars, connVars,
     requestVars, appStateVars, AppInv, MainInv, ToldInv, ShapeOK
<1>19. ASSUME NEW s \in Sess, CloseAllPuts(s) PROVE AppInv'
  BY <1>19 DEF CloseAllPuts, poolVars, mainThreadVars, connVars, requestVars, appStateVars,
     AppInv, MainInv, ToldInv, ShapeOK
<1>20. ASSUME NEW s \in Sess, CloseAllVisits(s) PROVE AppInv'
  BY <1>20 DEF CloseAllVisits, TellApps, poolVars, mainThreadVars, connVars, requestVars,
     appStateVars, AppInv, MainInv, ToldInv, ShapeOK
<1>21. ASSUME CloseAllReleases PROVE AppInv'
  BY <1>21 DEF CloseAllReleases, poolVars, mainThreadVars, connVars, requestVars,
     appStateVars, AppInv, MainInv, ToldInv, ShapeOK
<1>22. ASSUME CloseAllUnloads PROVE AppInv'
  BY <1>22 DEF CloseAllUnloads, MainGoes, UnloadApps, Destroy, poolVars, mainThreadVars,
     connVars, requestVars, appStateVars, AppInv, MainInv, ToldInv, ShapeOK
<1>23. ASSUME UNCHANGED sessVars PROVE AppInv'
  BY <1>23 DEF sessVars, poolVars, mainThreadVars, connVars, requestVars, appStateVars,
     AppInv, MainInv, ToldInv, ShapeOK
<1>24. QED
  BY <1>1, <1>2, <1>3, <1>4, <1>5, <1>6, <1>7, <1>8, <1>9, <1>10, <1>11, <1>12, <1>13,
     <1>14, <1>15, <1>16, <1>17, <1>18, <1>19, <1>20, <1>21, <1>22, <1>23 DEF SessNext,
     Worker, Main, MainEnds

(* What leaves a close task where it is, or moves it on. *)
PendingSteps(s) ==
  \/ UNCHANGED <<queue, busy>> /\ \A x \in Workers : busy[x] = CloseTask(s) => phase'[x] = phase[x]
  \/ \E x \in Workers : Take(x) /\ phase' = phase
  \/ \E x \in Workers :
       /\ busy[x] \in Tasks /\ (busy[x] # CloseTask(s) \/ phase[x] # "start")
       /\ Finish(x) /\ queue' = queue /\ phase' = [phase EXCEPT ![x] = "start"]
  \/ \E t \in Tasks : Execute(t) /\ phase' = phase

LEMMA PendingIs ==
  \A s : ClosePending(s) <=> \/ reader[s] = "notify"
                             \/ Waiting(CloseTask(s))
                             \/ \E x \in Workers : busy[x] = CloseTask(s) /\ phase[x] = "start"
BY Zenon DEF ClosePending, CloseTask, At

LEMMA PendingStays ==
  ASSUME ShapeOK, NEW s \in Sess, ClosePending(s), PendingSteps(s),
         reader[s] = "notify" => reader'[s] = "notify"
  PROVE  ClosePending(s)'
<1> DEFINE Begun == \E x \in Workers : busy[x] = CloseTask(s) /\ phase[x] = "start"
<1>0. CloseTask(s) \in Tasks
  BY TasksAre
<1>1. ClosePending(s)' <=> reader'[s] = "notify" \/ Waiting(CloseTask(s))' \/ Begun'
  BY Zenon DEF ClosePending, CloseTask, At
<1>2. CASE reader[s] = "notify"
  BY <1>1, <1>2
<1>3. ASSUME Waiting(CloseTask(s)) PROVE Waiting(CloseTask(s))' \/ Begun'
  <2>1. CASE UNCHANGED <<queue, busy>>
    BY <1>3, <2>1 DEF Waiting, CloseTask
  <2>2. ASSUME NEW x \in Workers, Take(x), phase' = phase
        PROVE  Waiting(CloseTask(s))' \/ Begun'
    <3>1. busy[x] = NoTask /\ phase'[x] = "start"
      BY <2>2, TakeMoves DEF ShapeOK
    <3>2. Waiting(CloseTask(s))' \/ CloseTask(s) = busy'[x]
      BY <1>3, <2>2, TakeMoves DEF ShapeOK, CloseTask
    <3>3. QED
      BY <3>1, <3>2
  <2>3. ASSUME NEW x \in Workers, busy[x] \in Tasks, Finish(x), queue' = queue
        PROVE  Waiting(CloseTask(s))'
    BY <1>3, <2>3 DEF Waiting, CloseTask
  <2>4. ASSUME NEW t \in Tasks, Execute(t)
        PROVE  Waiting(CloseTask(s))'
    BY <1>3, <2>4, ExecuteQueues DEF ShapeOK, CloseTask
  <2>5. QED
    BY <2>1, <2>2, <2>3, <2>4 DEF PendingSteps
<1>4. ASSUME NEW y \in Workers, busy[y] = CloseTask(s), phase[y] = "start" PROVE Begun'
  <2>1. busy'[y] = busy[y] /\ phase'[y] = phase[y]
    <3>1. busy[y] # NoTask
      BY <1>0, <1>4, PoolAssumption
    <3>2. ASSUME NEW x \in Workers, Take(x), phase' = phase
          PROVE  busy'[y] = busy[y] /\ phase'[y] = phase[y]
      BY <3>1, <3>2, TakeMoves DEF ShapeOK
    <3>3. ASSUME NEW x \in Workers, busy[x] # CloseTask(s) \/ phase[x] # "start", Finish(x),
                 phase' = [phase EXCEPT ![x] = "start"]
          PROVE  busy'[y] = busy[y] /\ phase'[y] = phase[y]
      BY <1>4, <3>3 DEF Finish, ShapeOK, PoolOK
    <3>4. ASSUME NEW t \in Tasks, Execute(t), phase' = phase
          PROVE  busy'[y] = busy[y] /\ phase'[y] = phase[y]
      BY <3>4 DEF Execute
    <3>5. QED
      BY <1>4, <3>2, <3>3, <3>4 DEF PendingSteps
  <2>2. QED
    BY <1>4, <2>1 DEF CloseTask
<1>5. QED
  BY <1>1, <1>2, <1>3, <1>4, PendingIs

LEMMA EndsPends ==
  ASSUME ShapeOK, NEW s, NEW x \in Workers, busy[x] \in Tasks, Ends(x),
         busy[x] # CloseTask(s) \/ phase[x] # "start"
  PROVE  PendingSteps(s)
BY Zenon DEF PendingSteps, Ends

LEMMA GoesPends ==
  ASSUME ShapeOK, NEW s, NEW x \in Workers, NEW st, busy[x] # CloseTask(s), Proceeds(x, st)
  PROVE  PendingSteps(s)
BY DEF PendingSteps, Proceeds, poolVars, ShapeOK

(* A session that has ended is being closed. *)
LEMMA EndedStep ==
  ASSUME ShapeOK, ShapeOK', OpenInv, MainInv, EndedClosed, [SessNext]_sessVars
  PROVE  EndedClosed'
<1>1. ASSUME NEW s \in Sess, AskOpen(s) PROVE EndedClosed'
  <2> SUFFICES ASSUME NEW r \in Sess, r \in sessions', conn'[r] = "ended",
                      main' # "closing", ~stopped'
               PROVE  ClosePending(r)'
    BY DEF EndedClosed, ShapeOK
  <2>1. ClosePending(r)
    BY <1>1 DEF AskOpen, EndedClosed, MainInv, ShapeOK, Execute, Take, poolVars,
       mainThreadVars, connVars
  <2>2. PendingSteps(r)
    BY <1>1, TasksAre DEF AskOpen, PendingSteps, OpenTask, CloseTask, poolVars, ShapeOK
  <2>3. reader'[r] = reader[r]
    BY <1>1 DEF AskOpen, connVars, ShapeOK
  <2>4. QED
    BY <2>1, <2>2, <2>3, PendingStays
<1>2. ASSUME NEW s \in Sess, AskRequest(s) PROVE EndedClosed'
  <2> SUFFICES ASSUME NEW r \in Sess, r \in sessions', conn'[r] = "ended",
                      main' # "closing", ~stopped'
               PROVE  ClosePending(r)'
    BY DEF EndedClosed, ShapeOK
  <2>1. ClosePending(r)
    BY <1>2 DEF AskRequest, EndedClosed, MainInv, ShapeOK, Execute, Take, poolVars,
       mainThreadVars, connVars
  <2>2. PendingSteps(r)
    BY <1>2, TasksAre DEF AskRequest, PendingSteps, OpenTask, CloseTask, poolVars, ShapeOK
  <2>3. reader'[r] = reader[r]
    BY <1>2 DEF AskRequest, connVars, ShapeOK
  <2>4. QED
    BY <2>1, <2>2, <2>3, PendingStays
<1>3. ASSUME NEW s \in Sess, Elapse(s) PROVE EndedClosed'
  <2> SUFFICES ASSUME NEW r \in Sess, r \in sessions', conn'[r] = "ended",
                      main' # "closing", ~stopped'
               PROVE  ClosePending(r)'
    BY DEF EndedClosed, ShapeOK
  <2>1. ClosePending(r)
    BY <1>3 DEF Elapse, EndedClosed, MainInv, ShapeOK, Execute, Take, poolVars,
       mainThreadVars, connVars
  <2>2. PendingSteps(r)
    BY <1>3, TasksAre DEF Elapse, PendingSteps, OpenTask, CloseTask, poolVars, ShapeOK
  <2>3. reader'[r] = reader[r]
    BY <1>3 DEF Elapse, connVars, ShapeOK
  <2>4. QED
    BY <2>1, <2>2, <2>3, PendingStays
<1>4. ASSUME NEW s \in Sess, ConnectionEnds(s) PROVE EndedClosed'
  <2> SUFFICES ASSUME NEW r \in Sess, r \in sessions', conn'[r] = "ended",
                      main' # "closing", ~stopped'
               PROVE  ClosePending(r)'
    BY DEF EndedClosed, ShapeOK
  <2>1. CASE r # s
    <3>1. ClosePending(r) /\ PendingSteps(r) /\ reader'[r] = reader[r]
      BY <1>4, <2>1 DEF ConnectionEnds, EndedClosed, MainInv, ShapeOK, PendingSteps,
         poolVars, mainThreadVars
    <3>2. QED
      BY <3>1, PendingStays
  <2>2. CASE r = s
    <3>1. reader'[r] = "notify"
      BY <1>4, <2>2 DEF ConnectionEnds, ShapeOK
    <3>2. QED
      BY <3>1, Zenon DEF ClosePending
  <2>3. QED
    BY <2>1, <2>2
<1>5. ASSUME NEW s \in Sess, ReaderNotifies(s) PROVE EndedClosed'
  <2> SUFFICES ASSUME NEW r \in Sess, r \in sessions', conn'[r] = "ended",
                      main' # "closing", ~stopped'
               PROVE  ClosePending(r)'
    BY DEF EndedClosed, ShapeOK
  <2>1. CASE r # s
    <3>1. ClosePending(r) /\ reader'[r] = reader[r]
      BY <1>5, <2>1 DEF ReaderNotifies, EndedClosed, MainInv, ShapeOK, Execute, poolVars,
         mainThreadVars
    <3>2. PendingSteps(r)
      BY <1>5, TasksAre DEF ReaderNotifies, PendingSteps, CloseTask, poolVars
    <3>3. QED
      BY <3>1, <3>2, PendingStays
  <2>2. CASE r = s
    <3>1. Execute(CloseTask(r)) /\ CloseTask(r) \in Tasks
      BY <1>5, <2>2, TasksAre DEF ReaderNotifies, OpenInv, OpenOf, CloseTask
    <3>2. stopped' = stopped
      BY <3>1 DEF Execute
    <3>3. Waiting(CloseTask(r))'
      BY <3>1, <3>2, ExecuteQueues DEF ShapeOK, CloseTask
    <3>4. QED
      BY <3>3, Zenon DEF ClosePending, CloseTask
  <2>3. QED
    BY <2>1, <2>2
<1>6. ASSUME NEW x \in Workers, TakeTask(x) PROVE EndedClosed'
  <2> SUFFICES ASSUME NEW r \in Sess, r \in sessions', conn'[r] = "ended",
                      main' # "closing", ~stopped'
               PROVE  ClosePending(r)'
    BY DEF EndedClosed, ShapeOK
  <2>1. ClosePending(r)
    BY <1>6 DEF TakeTask, EndedClosed, MainInv, ShapeOK, Execute, Take, poolVars,
       mainThreadVars, connVars
  <2>2. PendingSteps(r)
    BY <1>6, TasksAre DEF TakeTask, PendingSteps, OpenTask, CloseTask, poolVars, ShapeOK
  <2>3. reader'[r] = reader[r]
    BY <1>6 DEF TakeTask, connVars, ShapeOK
  <2>4. QED
    BY <2>1, <2>2, <2>3, PendingStays
<1>7. ASSUME NEW x \in Workers, NEW s \in Sess, OpenConnects(x, s) PROVE EndedClosed'
  <2> SUFFICES ASSUME NEW r \in Sess, r \in sessions', conn'[r] = "ended",
                      main' # "closing", ~stopped'
               PROVE  ClosePending(r)'
    BY DEF EndedClosed, ShapeOK
  <2>1. ClosePending(r)
    BY <1>7 DEF OpenConnects, At, Proceeds, Ends, EndedClosed, MainInv, ShapeOK, Execute,
       Take, poolVars, mainThreadVars, connVars
  <2>2. PendingSteps(r)
    <3>1. busy[x] = OpenTask(s)
      BY <1>7, Zenon DEF OpenConnects, At, OpenTask, CloseTask
    <3>2. busy[x] \in Tasks /\ (busy[x] # CloseTask(r))
      BY <3>1, TasksAre
    <3>3. QED
      BY <1>7, <3>2, EndsPends, GoesPends DEF OpenConnects, MainInv
  <2>3. reader'[r] = reader[r]
    BY <1>7 DEF OpenConnects, At, Proceeds, Ends, connVars, ShapeOK
  <2>4. QED
    BY <2>1, <2>2, <2>3, PendingStays
<1>8. ASSUME NEW x \in Workers, NEW s \in Sess, OpenEnters(x, s) PROVE EndedClosed'
  <2> SUFFICES ASSUME NEW r \in Sess, r \in sessions', conn'[r] = "ended",
                      main' # "closing", ~stopped'
               PROVE  ClosePending(r)'
    BY DEF EndedClosed, ShapeOK
  <2>1. ClosePending(r)
    BY <1>8 DEF OpenEnters, At, Proceeds, Ends, EndedClosed, MainInv, ShapeOK, Execute,
       Take, poolVars, mainThreadVars, connVars
  <2>2. PendingSteps(r)
    <3>1. busy[x] = OpenTask(s)
      BY <1>8, Zenon DEF OpenEnters, At, OpenTask, CloseTask
    <3>2. busy[x] \in Tasks /\ (busy[x] # CloseTask(r))
      BY <3>1, TasksAre
    <3>3. QED
      BY <1>8, <3>2, EndsPends, GoesPends DEF OpenEnters, MainInv
  <2>3. reader'[r] = reader[r]
    BY <1>8 DEF OpenEnters, At, Proceeds, Ends, connVars, ShapeOK
  <2>4. QED
    BY <2>1, <2>2, <2>3, PendingStays
<1>9. ASSUME NEW x \in Workers, NEW s \in Sess, OpenAborts(x, s) PROVE EndedClosed'
  <2> SUFFICES ASSUME NEW r \in Sess, r \in sessions', conn'[r] = "ended",
                      main' # "closing", ~stopped'
               PROVE  ClosePending(r)'
    BY DEF EndedClosed, ShapeOK
  <2>1. ClosePending(r)
    <3>1. Held(OpenTask(s))
      BY <1>9, Zenon DEF OpenAborts, At, Ends, Held, Running, OpenTask
    <3>2. s \notin sessions /\ r # s
      BY <1>9, <3>1 DEF OpenAborts, At, Ends, OpenInv, OpenOf
    <3>3. QED
      BY <1>9, <3>2 DEF OpenAborts, At, Ends, EndedClosed, MainInv, ShapeOK, mainThreadVars
  <2>2. PendingSteps(r)
    <3>1. busy[x] = OpenTask(s)
      BY <1>9, Zenon DEF OpenAborts, At, OpenTask, CloseTask
    <3>2. busy[x] \in Tasks /\ (busy[x] # CloseTask(r))
      BY <3>1, TasksAre
    <3>3. QED
      BY <1>9, <3>2, EndsPends, GoesPends DEF OpenAborts, MainInv
  <2>3. reader'[r] = reader[r]
    BY <1>9 DEF OpenAborts, At, Ends, connVars, ShapeOK
  <2>4. QED
    BY <2>1, <2>2, <2>3, PendingStays
<1>10. ASSUME NEW x \in Workers, NEW s \in Sess, CloseRemoves(x, s) PROVE EndedClosed'
  <2> SUFFICES ASSUME NEW r \in Sess, r \in sessions', conn'[r] = "ended",
                      main' # "closing", ~stopped'
               PROVE  ClosePending(r)'
    BY DEF EndedClosed, ShapeOK
  <2>1. ClosePending(r)
    BY <1>10 DEF CloseRemoves, At, Proceeds, Ends, TellApps, EndedClosed, MainInv, ShapeOK,
       Execute, Take, poolVars, mainThreadVars, connVars
  <2>2. PendingSteps(r)
    <3>1. busy[x] = CloseTask(s)
      BY <1>10, Zenon DEF CloseRemoves, At, OpenTask, CloseTask
    <3>2. busy[x] \in Tasks /\ (busy[x] # CloseTask(r))
      BY <1>10, <3>1, TasksAre DEF CloseRemoves
    <3>3. QED
      BY <1>10, <3>2, EndsPends, GoesPends DEF CloseRemoves, MainInv
  <2>3. reader'[r] = reader[r]
    BY <1>10 DEF CloseRemoves, At, Proceeds, Ends, TellApps, connVars, ShapeOK
  <2>4. QED
    BY <2>1, <2>2, <2>3, PendingStays
<1>11. ASSUME NEW x \in Workers, NEW s \in Sess, CloseUnloads(x, s) PROVE EndedClosed'
  <2> SUFFICES ASSUME NEW r \in Sess, r \in sessions', conn'[r] = "ended",
                      main' # "closing", ~stopped'
               PROVE  ClosePending(r)'
    BY DEF EndedClosed, ShapeOK
  <2>1. ClosePending(r)
    BY <1>11 DEF CloseUnloads, At, Ends, UnloadApps, EndedClosed, MainInv, ShapeOK, Execute,
       Take, poolVars, mainThreadVars, connVars
  <2>2. PendingSteps(r)
    <3>1. busy[x] = CloseTask(s) /\ phase[x] = "unload"
      BY <1>11, Zenon DEF CloseUnloads, At, OpenTask, CloseTask
    <3>2. busy[x] \in Tasks /\ (busy[x] # CloseTask(r) \/ phase[x] # "start")
      BY <3>1, TasksAre
    <3>3. QED
      BY <1>11, <3>2, EndsPends, GoesPends DEF CloseUnloads, MainInv
  <2>3. reader'[r] = reader[r]
    BY <1>11 DEF CloseUnloads, At, Ends, UnloadApps, connVars, ShapeOK
  <2>4. QED
    BY <2>1, <2>2, <2>3, PendingStays
<1>12. ASSUME NEW x \in Workers, NEW s \in Sess, RequestInvokes(x, s) PROVE EndedClosed'
  <2> SUFFICES ASSUME NEW r \in Sess, r \in sessions', conn'[r] = "ended",
                      main' # "closing", ~stopped'
               PROVE  ClosePending(r)'
    BY DEF EndedClosed, ShapeOK
  <2>1. ClosePending(r)
    BY <1>12 DEF RequestInvokes, At, Ends, EndedClosed, MainInv, ShapeOK, Execute, Take,
       poolVars, mainThreadVars, connVars
  <2>2. PendingSteps(r)
    <3>1. busy[x] = RequestTask(s)
      BY <1>12, Zenon DEF RequestInvokes, At, OpenTask, CloseTask
    <3>2. busy[x] \in Tasks /\ (busy[x] # CloseTask(r))
      BY <3>1, TasksAre
    <3>3. QED
      BY <1>12, <3>2, EndsPends, GoesPends DEF RequestInvokes, MainInv
  <2>3. reader'[r] = reader[r]
    BY <1>12 DEF RequestInvokes, At, Ends, connVars, ShapeOK
  <2>4. QED
    BY <2>1, <2>2, <2>3, PendingStays
<1>13. ASSUME UpdateBegins PROVE EndedClosed'
  <2> SUFFICES ASSUME NEW r \in Sess, r \in sessions', conn'[r] = "ended",
                      main' # "closing", ~stopped'
               PROVE  ClosePending(r)'
    BY DEF EndedClosed, ShapeOK
  <2>1. ClosePending(r)
    BY <1>13 DEF UpdateBegins, MainGoes, EndedClosed, MainInv, ShapeOK, Execute, Take,
       poolVars, mainThreadVars, connVars
  <2>2. PendingSteps(r)
    BY <1>13, TasksAre DEF UpdateBegins, MainGoes, PendingSteps, OpenTask, CloseTask,
       poolVars, ShapeOK
  <2>3. reader'[r] = reader[r]
    BY <1>13 DEF UpdateBegins, MainGoes, connVars, ShapeOK
  <2>4. QED
    BY <2>1, <2>2, <2>3, PendingStays
<1>14. ASSUME Reconnect PROVE EndedClosed'
  <2> SUFFICES ASSUME NEW r \in Sess, r \in sessions', conn'[r] = "ended",
                      main' # "closing", ~stopped'
               PROVE  ClosePending(r)'
    BY DEF EndedClosed, ShapeOK
  <2>1. ClosePending(r)
    BY <1>14 DEF Reconnect, MainGoes, EndedClosed, MainInv, ShapeOK, Execute, Take,
       poolVars, mainThreadVars, connVars
  <2>2. PendingSteps(r)
    BY <1>14, TasksAre DEF Reconnect, MainGoes, PendingSteps, OpenTask, CloseTask, poolVars,
       ShapeOK
  <2>3. reader'[r] = reader[r]
    BY <1>14 DEF Reconnect, MainGoes, connVars, ShapeOK
  <2>4. QED
    BY <2>1, <2>2, <2>3, PendingStays
<1>15. ASSUME CloseAllBegins PROVE EndedClosed'
  <2> SUFFICES ASSUME NEW r \in Sess, r \in sessions', conn'[r] = "ended",
                      main' # "closing", ~stopped'
               PROVE  ClosePending(r)'
    BY DEF EndedClosed, ShapeOK
  <2>1. ClosePending(r)
    BY <1>15 DEF CloseAllBegins, EndedClosed, MainInv, ShapeOK, Execute, Take, poolVars,
       mainThreadVars, connVars
  <2>2. PendingSteps(r)
    BY <1>15, TasksAre DEF CloseAllBegins, PendingSteps, OpenTask, CloseTask, poolVars,
       ShapeOK
  <2>3. reader'[r] = reader[r]
    BY <1>15 DEF CloseAllBegins, connVars, ShapeOK
  <2>4. QED
    BY <2>1, <2>2, <2>3, PendingStays
<1>16. ASSUME UpdateUnloads PROVE EndedClosed'
  <2> SUFFICES ASSUME NEW r \in Sess, r \in sessions', conn'[r] = "ended",
                      main' # "closing", ~stopped'
               PROVE  ClosePending(r)'
    BY DEF EndedClosed, ShapeOK
  <2>1. ClosePending(r)
    BY <1>16 DEF UpdateUnloads, MainGoes, UnloadApps, EndedClosed, MainInv, ShapeOK,
       Execute, Take, poolVars, mainThreadVars, connVars
  <2>2. PendingSteps(r)
    BY <1>16, TasksAre DEF UpdateUnloads, MainGoes, UnloadApps, PendingSteps, OpenTask,
       CloseTask, poolVars, ShapeOK
  <2>3. reader'[r] = reader[r]
    BY <1>16 DEF UpdateUnloads, MainGoes, UnloadApps, connVars, ShapeOK
  <2>4. QED
    BY <2>1, <2>2, <2>3, PendingStays
<1>17. ASSUME UpdateEnds PROVE EndedClosed'
  <2> SUFFICES ASSUME NEW r \in Sess, r \in sessions', conn'[r] = "ended",
                      main' # "closing", ~stopped'
               PROVE  ClosePending(r)'
    BY DEF EndedClosed, ShapeOK
  <2>1. ClosePending(r)
    BY <1>17 DEF UpdateEnds, MainGoes, EndedClosed, MainInv, ShapeOK, Execute, Take,
       poolVars, mainThreadVars, connVars
  <2>2. PendingSteps(r)
    BY <1>17, TasksAre DEF UpdateEnds, MainGoes, PendingSteps, OpenTask, CloseTask,
       poolVars, ShapeOK
  <2>3. reader'[r] = reader[r]
    BY <1>17 DEF UpdateEnds, MainGoes, connVars, ShapeOK
  <2>4. QED
    BY <2>1, <2>2, <2>3, PendingStays
<1>18. ASSUME ReconnectUnloads PROVE EndedClosed'
  <2> SUFFICES ASSUME NEW r \in Sess, r \in sessions', conn'[r] = "ended",
                      main' # "closing", ~stopped'
               PROVE  ClosePending(r)'
    BY DEF EndedClosed, ShapeOK
  <2>1. ClosePending(r)
    BY <1>18 DEF ReconnectUnloads, MainGoes, UnloadApps, EndedClosed, MainInv, ShapeOK,
       Execute, Take, poolVars, mainThreadVars, connVars
  <2>2. PendingSteps(r)
    BY <1>18, TasksAre DEF ReconnectUnloads, MainGoes, UnloadApps, PendingSteps, OpenTask,
       CloseTask, poolVars, ShapeOK
  <2>3. reader'[r] = reader[r]
    BY <1>18 DEF ReconnectUnloads, MainGoes, UnloadApps, connVars, ShapeOK
  <2>4. QED
    BY <2>1, <2>2, <2>3, PendingStays
<1>19. ASSUME NEW s \in Sess, CloseAllPuts(s) PROVE EndedClosed'
  <2> SUFFICES ASSUME NEW r \in Sess, r \in sessions', conn'[r] = "ended",
                      main' # "closing", ~stopped'
               PROVE  ClosePending(r)'
    BY DEF EndedClosed, ShapeOK
  <2>1. ClosePending(r)
    BY <1>19 DEF CloseAllPuts, EndedClosed, MainInv, ShapeOK, Execute, Take, poolVars,
       mainThreadVars, connVars
  <2>2. PendingSteps(r)
    BY <1>19, TasksAre DEF CloseAllPuts, PendingSteps, OpenTask, CloseTask, poolVars,
       ShapeOK
  <2>3. reader'[r] = reader[r]
    BY <1>19 DEF CloseAllPuts, connVars, ShapeOK
  <2>4. QED
    BY <2>1, <2>2, <2>3, PendingStays
<1>20. ASSUME NEW s \in Sess, CloseAllVisits(s) PROVE EndedClosed'
  <2> SUFFICES ASSUME NEW r \in Sess, r \in sessions', conn'[r] = "ended",
                      main' # "closing", ~stopped'
               PROVE  ClosePending(r)'
    BY DEF EndedClosed, ShapeOK
  <2>1. ClosePending(r)
    BY <1>20 DEF CloseAllVisits, TellApps, EndedClosed, MainInv, ShapeOK, Execute, Take,
       poolVars, mainThreadVars, connVars
  <2>2. PendingSteps(r)
    BY <1>20, TasksAre DEF CloseAllVisits, TellApps, PendingSteps, OpenTask, CloseTask,
       poolVars, ShapeOK
  <2>3. reader'[r] = reader[r]
    BY <1>20 DEF CloseAllVisits, TellApps, connVars, ShapeOK
  <2>4. QED
    BY <2>1, <2>2, <2>3, PendingStays
<1>21. ASSUME CloseAllReleases PROVE EndedClosed'
  <2> SUFFICES ASSUME NEW r \in Sess, r \in sessions', conn'[r] = "ended",
                      main' # "closing", ~stopped'
               PROVE  ClosePending(r)'
    BY DEF EndedClosed, ShapeOK
  <2>1. ClosePending(r)
    BY <1>21 DEF CloseAllReleases, EndedClosed, MainInv, ShapeOK, Execute, Take, poolVars,
       mainThreadVars, connVars
  <2>2. PendingSteps(r)
    BY <1>21, TasksAre DEF CloseAllReleases, PendingSteps, OpenTask, CloseTask, poolVars,
       ShapeOK
  <2>3. reader'[r] = reader[r]
    BY <1>21 DEF CloseAllReleases, connVars, ShapeOK
  <2>4. QED
    BY <2>1, <2>2, <2>3, PendingStays
<1>22. ASSUME CloseAllUnloads PROVE EndedClosed'
  <2> SUFFICES ASSUME NEW r \in Sess, r \in sessions', conn'[r] = "ended",
                      main' # "closing", ~stopped'
               PROVE  ClosePending(r)'
    BY DEF EndedClosed, ShapeOK
  <2>1. ClosePending(r)
    BY <1>22 DEF CloseAllUnloads, MainGoes, UnloadApps, Destroy, EndedClosed, MainInv,
       ShapeOK, Execute, Take, poolVars, mainThreadVars, connVars
  <2>2. PendingSteps(r)
    BY <1>22, TasksAre DEF CloseAllUnloads, MainGoes, UnloadApps, Destroy, PendingSteps,
       OpenTask, CloseTask, poolVars, ShapeOK
  <2>3. reader'[r] = reader[r]
    BY <1>22 DEF CloseAllUnloads, MainGoes, UnloadApps, Destroy, connVars, ShapeOK
  <2>4. QED
    BY <2>1, <2>2, <2>3, PendingStays
<1>23. ASSUME UNCHANGED sessVars PROVE EndedClosed'
  BY <1>23 DEF sessVars, poolVars, mainThreadVars, connVars, requestVars, appStateVars,
     EndedClosed, ClosePending, Waiting, At
<1>24. QED
  BY <1>1, <1>2, <1>3, <1>4, <1>5, <1>6, <1>7, <1>8, <1>9, <1>10, <1>11, <1>12, <1>13,
     <1>14, <1>15, <1>16, <1>17, <1>18, <1>19, <1>20, <1>21, <1>22, <1>23 DEF SessNext,
     Worker, Main, MainEnds

LEMMA InitSess == SessInit => SessInv
<1> SUFFICES ASSUME SessInit PROVE SessInv
  OBVIOUS
<1>1. PoolOK /\ queue = <<>> /\ busy = [x \in Workers |-> NoTask]
  BY DEF SessInit, PoolInit, PoolOK
<1>2. ShapeOK
  BY <1>1 DEF SessInit, ShapeOK, Phases
<1>3. ASSUME NEW s \in Sess PROVE OpenOf(s)
  <2>1. OpenTask(s) # NoTask
    BY TasksAre, PoolAssumption
  <2>2. \A x \in Workers : busy[x] # OpenTask(s)
    BY <1>1, <2>1
  <2>3. ~Waiting(OpenTask(s)) /\ ~Running(OpenTask(s)) /\ Once(OpenTask(s))
    BY <1>1, <2>2 DEF Waiting, Running, Once, Alone
  <2>4. QED
    BY <2>3 DEF OpenOf, Held, SessInit
<1>4. OpenInv
  BY <1>3 DEF OpenInv
<1>5. MainInv
  BY DEF MainInv, SessInit
<1>6. ToldInv
  BY DEF ToldInv, SessInit
<1>7. AppInv /\ EndedClosed
  BY DEF AppInv, EndedClosed, SessInit
<1>8. QED
  BY <1>2, <1>4, <1>5, <1>6, <1>7 DEF SessInv

LEMMA StepSess == SessInv /\ [SessNext]_sessVars => SessInv'
BY ShapeStep, OpenStep, MainStep, ToldStep, AppStep, EndedStep DEF SessInv

(* The sessions the agent has registered are sessions it has, whatever the  *)
(* order of the readers, the workers and the main thread, for any number of *)
(* sessions and workers and any size of the queue: none is registered while *)
(* the agent is updated, one whose connection has ended has a close task    *)
(* that will find it, and the apps are told of its end once and keep        *)
(* nothing for it (open_session, close_session, _close_all_sessions).       *)
THEOREM SessionsAreReal == SessSpec => []NoGhostSession
<1>1. SessInv => NoGhostSession
  BY DEF SessInv, NoGhostSession, MainInv, UpdateExclusive, ToldInv, ToldOnce, AppInv,
     AppStateOwned
<1>2. QED
  BY <1>1, InitSess, StepSess, PTL DEF SessSpec
-----------------------------------------------------------------------------
(* The inductive invariant of the messages. *)

(* The numbers the server has used, and the sockets there have been.        *)
NumbersInv ==
  /\ asked \in 0..Requests /\ gen \in Gens
  /\ sent = asked + gen - 1
  /\ link # "up" => gen <= Losses
  /\ recovering => link # "lost"
  /\ link = "down" => recovering

(* What the readers have of the frames and of the buffer. *)
HandInv ==
  /\ \A g \in Gens : rpc[g] # "idle" => inHand[g] \in DownMsgs
  /\ temp.st # "empty" => temp.by \in Gens
  /\ temp.st = "whole" => rpc[temp.by] # "idle"
  /\ half # 0 => half = gen /\ rpc[gen] = "idle" /\ toAgent # <<>>
  /\ link = "down" => toAgent = <<>>
  /\ \A g \in Gens : rpc[g] = "skip" => skipping /\ lastreqcnt + 1 < inHand[g].n
  /\ \A g, h \in Gens : rpc[g] = "skip" /\ rpc[h] = "skip" => g = h

(* The tasks of the pool, and what the workers have still to send of them.  *)
MsgTasks == [kind : {"fire", "answer", "skip", "reply"}, ns : SUBSET Counts]

TaskOK(t) ==
  /\ t \in MsgTasks
  /\ t.kind = "fire" => \E n \in Counts : t = FireTask(n)
  /\ t.kind = "skip" => \E a, b \in Counts : a <= b /\ t.ns = a..b

TasksInv == \A t \in Tasks : Held(t) => TaskOK(t)

OutInv ==
  \A x \in Workers :
    /\ busy[x] = NoTask => stage[x] = "start"
    /\ stage[x] = "start" => out[x] = {}
    /\ busy[x] # NoTask => out[x] \subseteq ToSend(busy[x])

(* What the server says it has received is settled. *)
Settles(m) == \A n \in 1..m.got : n \in answered \cup skipped
SettledInv ==
  /\ \A i \in 1..Len(toAgent) : Settles(toAgent[i])
  /\ \A g \in Gens : Settles(inHand[g])

(* Without a race only the reader of the socket in use has a message, and   *)
(* the buffer is its own.                                                   *)
BufferInv ==
  /\ ~garbled
  /\ \A g \in Gens : rpc[g] # "idle" => g = gen /\ ~recovering
  /\ recovering => half = 0
  /\ temp.st = "whole" <=> rpc[gen] # "idle"
  /\ ~recovering =>
       /\ half # 0 => temp = [st |-> "part", by |-> gen]
       /\ temp.st = "part" => temp.by = gen /\ (half # 0 \/ (toAgent = <<>> /\ link # "up"))

(* The messages still to come have greater numbers than those that came.    *)
Ascends(s, lo, hi) ==
  /\ \A i \in 1..Len(s) : lo < s[i].n /\ s[i].n <= hi
  /\ \A i, j \in 1..Len(s) : i < j => s[i].n < s[j].n

Unchecked == rpc[gen] \in {"check", "skip"}
Floor == IF Unchecked THEN inHand[gen].n ELSE lastreqcnt
OrderInv ==
  /\ Ascends(toAgent, Floor, sent)
  /\ lastreqcnt <= Floor /\ Floor <= sent
  /\ Unchecked => lastreqcnt < inHand[gen].n
  /\ rpc[gen] # "idle" /\ ~Unchecked => inHand[gen].n = lastreqcnt

(* A request is put on the queue once, and begun once. *)
Fired(n) == Held(FireTask(n)) \/ executed[n] > 0
FiredOf(n) ==
  /\ Fired(n) => n <= lastreqcnt
  /\ Once(FireTask(n))
  /\ executed[n] <= 1
  /\ executed[n] > 0 => ~Waiting(FireTask(n))
  /\ \A x \in Workers : busy[x] = FireTask(n) /\ stage[x] = "start" => executed[n] = 0
FiredInv == \A n \in Counts : FiredOf(n)

(* What the server is told to skip was lost on the way here. *)
Covers(m, n) == m.kind = "skip" /\ n \in m.from..m.to
SkipSent(n) == \E i \in 1..Len(toServer) : Covers(toServer[i], n)
SkipHeld(n) == \E t \in Tasks : Held(t) /\ t.kind = "skip" /\ n \in t.ns
Skips(n) == n \in skipped \/ SkipSent(n) \/ SkipHeld(n)
SkipsOf(n) == Skips(n) => n <= lastreqcnt /\ ~Fired(n)
SkipsInv == \A n \in Counts : SkipsOf(n)

(* The request a reader is about to put on the queue is a new one. *)
FreshInv ==
  rpc[gen] = "fire" => \A n \in Counts : n = lastreqcnt => ~Fired(n) /\ ~Skips(n)

AgreedInv == ~raced => BufferInv /\ OrderInv /\ FiredInv /\ SkipsInv /\ FreshInv

MsgInv == /\ MsgTypeOK /\ NumbersInv /\ HandInv /\ TasksInv /\ OutInv
          /\ SettledInv /\ ResponsesKept /\ AgreedInv

(* The sequences of messages. *)
LEMMA Appended ==
  ASSUME NEW S, NEW s \in Seq(S), NEW e \in S
  PROVE  /\ Append(s, e) \in Seq(S) /\ Append(s, e) # <<>>
         /\ \A i \in 1..Len(Append(s, e)) :
              (i \in 1..Len(s) /\ Append(s, e)[i] = s[i]) \/ (i = Len(s) + 1 /\ Append(s, e)[i] = e)
BY AppendProperties, LenProperties

LEMMA Shortened ==
  ASSUME NEW S, NEW s \in Seq(S), s # <<>>
  PROVE  /\ Tail(s) \in Seq(S) /\ Head(s) \in S /\ Head(s) = s[1] /\ 1 \in 1..Len(s)
         /\ Len(Tail(s)) = Len(s) - 1 /\ Len(s) \in Nat
         /\ \A i \in 1..Len(Tail(s)) : i + 1 \in 2..Len(s) /\ Tail(s)[i] = s[i + 1]
<1>1. Len(s) \in Nat \ {0}
  BY EmptySeq
<1>2. QED
  BY <1>1, HeadTailProperties

LEMMA Cut ==
  ASSUME NEW S, NEW s \in Seq(S), NEW k \in 0..Len(s)
  PROVE  /\ SubSeq(s, 1, k) \in Seq(S) /\ Len(SubSeq(s, 1, k)) = k /\ Len(s) \in Nat
         /\ \A i \in 1..k : i \in 1..Len(s) /\ SubSeq(s, 1, k)[i] = s[i]
<1>1. Len(s) \in Nat /\ \A i \in 1..Len(s) : s[i] \in S
  BY LenProperties, ElementOfSeq
<1>2. \A i \in 1..k : s[i] \in S
  BY <1>1
<1>3. QED
  BY <1>1, <1>2, SubSeqProperties

LEMMA EmptyIs == ASSUME NEW S PROVE <<>> \in Seq(S) /\ Len(<<>>) = 0
BY EmptySeq

LEMMA SingleIs ==
  ASSUME NEW S, NEW e \in S
  PROVE  <<e>> \in Seq(S) /\ Len(<<e>>) = 1 /\ <<e>>[1] = e
OBVIOUS

(* The numbers. *)
LEMMA CountsAre == Counts = 1..(Requests + Losses) /\ Requests + Losses \in Nat /\ Counts \subseteq Nat
BY MsgAssumption DEF Counts

LEMMA NextCount ==
  ASSUME NumbersInv
  PROVE  /\ sent \in Nat /\ sent <= Requests + Losses
         /\ asked < Requests => sent + 1 \in Counts
         /\ link # "up" => sent + 1 \in Counts /\ gen + 1 \in Gens
BY MsgAssumption DEF NumbersInv, Counts, Gens

LEMMA LeastCount ==
  ASSUME NEW S \in SUBSET Nat, S # {}
  PROVE  \E m \in S : \A k \in S : m <= k
<1> DEFINE Below == {p \in Nat \X Nat : p[1] < p[2]}
<1>1. IsWellFoundedOn(Below, Nat)
  BY NatLessThanWellFounded, Zenon DEF OpToRel
<1> HIDE DEF Below
<1>2. \E m \in S : \A k \in S : ~ <<k, m>> \in Below
  BY <1>1, WFMin, Zenon
<1>3. \A m \in S, k \in S : ~ <<k, m>> \in Below => m <= k
  BY DEF Below
<1>4. QED
  BY <1>2, <1>3

(* cntRequestReceived exists, and says what is so. *)
LEMMA ReceivedSettles ==
  ASSUME NumbersInv
  PROVE  Received \in 0..sent /\ \A n \in 1..Received : n \in answered \cup skipped
<1> DEFINE S == {c \in 0..sent : c = sent \/ c + 1 \notin answered \cup skipped}
<1>1. sent \in Nat /\ sent \in S
  BY NextCount
<1>2. PICK c \in S : \A k \in S : c <= k
  <2>1. S \in SUBSET Nat /\ S # {}
    BY <1>1
  <2> HIDE DEF S
  <2>2. QED
    BY <2>1, LeastCount
<1>3. ASSUME NEW n \in 1..c PROVE n \in answered \cup skipped
  <2>1. n - 1 \in 0..sent /\ n - 1 \notin S /\ (n - 1) + 1 = n
    BY <1>1, <1>2
  <2>2. QED
    BY <2>1
<1>4. \E d \in 0..sent : /\ 1..d \subseteq answered \cup skipped
                         /\ d = sent \/ d + 1 \notin answered \cup skipped
  BY <1>2, <1>3
<1>5. QED
  BY <1>4 DEF Received

(* The tasks. *)
LEMMA TasksAreOK ==
  /\ \A n \in Counts : TaskOK(FireTask(n)) /\ TaskOK(SendTask("reply", {n}))
  /\ \A ns \in SUBSET Counts : TaskOK(SendTask("answer", ns))
  /\ \A a, b \in Counts : a <= b => TaskOK(SendTask("skip", a..b))
  /\ \A n, m : FireTask(n) = FireTask(m) => n = m
  /\ \A n, ns : FireTask(n) # SendTask("answer", ns) /\ FireTask(n) # SendTask("reply", ns)
                /\ FireTask(n) # SendTask("skip", ns)
  /\ \A t : TaskOK(t) => t \in Tasks /\ t # NoTask
<1>1. MsgTasks \subseteq Tasks
  BY MsgAssumption DEF MsgTasks
<1>2. ASSUME NEW n \in Counts PROVE TaskOK(FireTask(n)) /\ TaskOK(SendTask("reply", {n}))
  BY DEF TaskOK, FireTask, SendTask, MsgTasks
<1>3. ASSUME NEW ns \in SUBSET Counts PROVE TaskOK(SendTask("answer", ns))
  BY DEF TaskOK, SendTask, MsgTasks
<1>4. ASSUME NEW a \in Counts, NEW b \in Counts, a <= b PROVE TaskOK(SendTask("skip", a..b))
  <2>1. a..b \subseteq Counts
    BY CountsAre
  <2>2. QED
    BY <1>4, <2>1 DEF TaskOK, SendTask, MsgTasks
<1>5. ASSUME NEW n, NEW m, FireTask(n) = FireTask(m) PROVE n = m
  <2>1. FireTask(n).ns = {n} /\ FireTask(m).ns = {m}
    BY DEF FireTask
  <2>2. QED
    BY <1>5, <2>1
<1>6. ASSUME NEW n, NEW ns
      PROVE  FireTask(n) # SendTask("answer", ns) /\ FireTask(n) # SendTask("reply", ns)
             /\ FireTask(n) # SendTask("skip", ns)
  BY DEF FireTask, SendTask
<1>7. \A t : TaskOK(t) => t \in Tasks /\ t # NoTask
  BY <1>1, PoolAssumption DEF TaskOK
<1>8. QED
  BY <1>2, <1>3, <1>4, <1>5, <1>6, <1>7

LEMMA IntervalEnds ==
  ASSUME NEW a \in Int, NEW b \in Int, a <= b
  PROVE  /\ (CHOOSE n \in a..b : \A k \in a..b : n <= k) = a
         /\ (CHOOSE n \in a..b : \A k \in a..b : n >= k) = b
<1>1. a \in a..b /\ b \in a..b
  OBVIOUS
<1>2. \A n \in a..b : (\A k \in a..b : n <= k) <=> n = a
  BY <1>1
<1>3. \A n \in a..b : (\A k \in a..b : n >= k) <=> n = b
  BY <1>1
<1>4. QED
  BY <1>1, <1>2, <1>3

(* What a worker sends for a task. *)
LEMMA SendsAre ==
  ASSUME NEW t, TaskOK(t), NEW m \in ToSend(t)
  PROVE  /\ m \in UpMsgs
         /\ m.kind = "skip" => t.kind = "skip" /\ m.from..m.to \subseteq t.ns
<1>1. t.ns \subseteq Counts /\ t.kind \in {"fire", "answer", "skip", "reply"}
  BY DEF TaskOK, MsgTasks
<1>2. CASE t.kind \in {"fire", "answer"}
  BY <1>1, <1>2 DEF ToSend, Answers, UpMsg, UpMsgs
<1>3. CASE t.kind = "reply"
  BY <1>1, <1>3 DEF ToSend, UpMsg, UpMsgs
<1>4. CASE t.kind = "skip"
  <2>1. PICK a \in Counts, b \in Counts : a <= b /\ t.ns = a..b
    BY <1>4 DEF TaskOK
  <2>2. a \in Int /\ b \in Int
    BY <2>1, CountsAre
  <2>3. ToSend(t) = {UpMsg("skip", CHOOSE n \in t.ns : \A k \in t.ns : n <= k,
                                   CHOOSE n \in t.ns : \A k \in t.ns : n >= k)}
    BY <1>4 DEF ToSend
  <2>4. m = UpMsg("skip", a, b)
    BY <2>1, <2>2, <2>3, IntervalEnds
  <2>5. QED
    BY <1>4, <2>1, <2>4 DEF UpMsg, UpMsgs
<1>5. QED
  BY <1>1, <1>2, <1>3, <1>4

(* The steps of the pool. *)
PoolSafe == PoolOK /\ ~stopped /\ TasksInv

LEMMA QueuedSafe ==
  ASSUME PoolSafe, NEW t, TaskOK(t), Execute(t)
  PROVE  PoolSafe' /\ busy' = busy
<1>1. t \in Tasks
  BY TasksAreOK
<1>2. /\ PoolOK' /\ busy' = busy /\ stopped' = stopped
      /\ \A u : Held(u)' => Held(u) \/ u = t
  BY <1>1, ExecuteQueues DEF PoolSafe
<1>3. TasksInv'
  BY <1>2 DEF PoolSafe, TasksInv, TaskOK
<1>4. QED
  BY <1>2, <1>3 DEF PoolSafe

LEMMA TakenSafe ==
  ASSUME PoolSafe, NEW x \in Workers, Take(x)
  PROVE  /\ PoolSafe' /\ busy[x] = NoTask /\ TaskOK(busy'[x])
         /\ \A y \in Workers \ {x} : busy'[y] = busy[y]
<1>1. /\ PoolOK' /\ stopped' = stopped
      /\ busy[x] = NoTask /\ busy'[x] \in Tasks
      /\ \A y \in Workers \ {x} : busy'[y] = busy[y]
      /\ \A u \in Tasks : Held(u)' <=> Held(u)
  BY TakeMoves DEF PoolSafe
<1>2. TasksInv'
  BY <1>1 DEF PoolSafe, TasksInv, TaskOK
<1>3. \A u : u = busy'[x] => Held(u)'
  BY DEF Held, Running
<1>4. \A u : u = busy'[x] => TaskOK(u)
  BY <1>1, <1>2, <1>3 DEF TasksInv, TaskOK
<1>5. QED
  BY <1>1, <1>2, <1>4 DEF PoolSafe

LEMMA FinishedSafe ==
  ASSUME PoolSafe, NEW x \in Workers, busy[x] # NoTask, Finish(x), UNCHANGED <<queue,
         stopped>>
  PROVE  /\ PoolSafe' /\ busy'[x] = NoTask
         /\ \A y \in Workers \ {x} : busy'[y] = busy[y]
<1>0. busy[x] \in Tasks
  BY DEF PoolSafe, PoolOK
<1>1. /\ PoolOK' /\ busy'[x] = NoTask
      /\ \A y \in Workers \ {x} : busy'[y] = busy[y]
      /\ \A u \in Tasks : Held(u)' => Held(u)
  BY <1>0, FinishFrees DEF PoolSafe
<1>2. TasksInv'
  BY <1>1 DEF PoolSafe, TasksInv, TaskOK
<1>3. QED
  BY <1>1, <1>2 DEF PoolSafe

LEMMA PoolKept ==
  ASSUME PoolSafe, UNCHANGED poolVars
  PROVE  PoolSafe'
<1>1. \A u : Held(u)' <=> Held(u)
  BY DEF poolVars, Held, Waiting, Running
<1>2. QED
  BY <1>1 DEF PoolSafe, PoolOK, TasksInv, TaskOK, poolVars

LEMMA BusyOK ==
  ASSUME PoolSafe, NEW x \in Workers, busy[x] # NoTask
  PROVE  TaskOK(busy[x])
<1>1. busy[x] \in Tasks /\ Held(busy[x])
  BY DEF PoolSafe, PoolOK, Held, Running
<1>2. QED
  BY <1>1 DEF PoolSafe, TasksInv

(* A sender has a task. *)
LEMMA SendingIs ==
  ASSUME PoolSafe, OutInv, NEW x \in Workers, stage[x] # "start", NEW m \in out[x]
  PROVE  /\ busy[x] # NoTask /\ TaskOK(busy[x]) /\ m \in UpMsgs
         /\ m.kind = "skip" => busy[x].kind = "skip" /\ m.from..m.to \subseteq busy[x].ns
<1>1. busy[x] # NoTask /\ m \in ToSend(busy[x])
  BY DEF OutInv
<1>2. QED
  BY <1>1, BusyOK, SendsAre

(* The numbers. *)
LEMMA NumbersStep ==
  ASSUME NumbersInv, [MsgNext]_msgVars
  PROVE  NumbersInv'
<1>1. ASSUME ServerRequests PROVE NumbersInv'
  BY <1>1, MsgAssumption DEF ServerRequests, poolVars, linkVars, bufferVars, readerVars,
     countVars, workerVars, serverVars, msgHistoryVars, NumbersInv, Gens
<1>2. ASSUME ServerReads PROVE NumbersInv'
  BY <1>2, MsgAssumption DEF ServerReads, poolVars, linkVars, bufferVars, readerVars,
     countVars, workerVars, serverVars, msgHistoryVars, NumbersInv, Gens
<1>3. ASSUME Lose PROVE NumbersInv'
  BY <1>3, MsgAssumption DEF Lose, poolVars, linkVars, bufferVars, readerVars, countVars,
     workerVars, serverVars, msgHistoryVars, NumbersInv, Gens
<1>4. ASSUME Notice PROVE NumbersInv'
  BY <1>4, MsgAssumption DEF Notice, poolVars, linkVars, bufferVars, readerVars, countVars,
     workerVars, serverVars, msgHistoryVars, NumbersInv, Gens
<1>5. ASSUME Reopen PROVE NumbersInv'
  BY <1>5, MsgAssumption DEF Reopen, poolVars, linkVars, bufferVars, readerVars, countVars,
     workerVars, serverVars, msgHistoryVars, NumbersInv, Gens
<1>6. ASSUME OnRecovery PROVE NumbersInv'
  BY <1>6, MsgAssumption DEF OnRecovery, poolVars, linkVars, bufferVars, readerVars,
     countVars, workerVars, serverVars, msgHistoryVars, NumbersInv, Gens
<1>7. ASSUME NEW g \in Gens, ReadFirst(g) PROVE NumbersInv'
  BY <1>7, MsgAssumption DEF ReadFirst, Hands, ReaderUnchanged, poolVars, linkVars,
     bufferVars, readerVars, countVars, workerVars, serverVars, msgHistoryVars, NumbersInv,
     Gens
<1>8. ASSUME NEW g \in Gens, ReadRest(g) PROVE NumbersInv'
  BY <1>8, MsgAssumption DEF ReadRest, Hands, ReaderUnchanged, poolVars, linkVars,
     bufferVars, readerVars, countVars, workerVars, serverVars, msgHistoryVars, NumbersInv,
     Gens
<1>9. ASSUME NEW g \in Gens, Check(g) PROVE NumbersInv'
  BY <1>9, MsgAssumption DEF Check, Rpc, Afterwards, poolVars, linkVars, bufferVars,
     readerVars, countVars, workerVars, serverVars, msgHistoryVars, NumbersInv, Gens
<1>10. ASSUME NEW g \in Gens, PutSkip(g) PROVE NumbersInv'
  BY <1>10, MsgAssumption DEF PutSkip, Rpc, Afterwards, poolVars, linkVars, bufferVars,
     readerVars, countVars, workerVars, serverVars, msgHistoryVars, NumbersInv, Gens
<1>11. ASSUME NEW g \in Gens, PutFire(g) PROVE NumbersInv'
  BY <1>11, MsgAssumption DEF PutFire, Cleared, Hands, poolVars, linkVars, bufferVars,
     readerVars, countVars, workerVars, serverVars, msgHistoryVars, NumbersInv, Gens
<1>12. ASSUME NEW g \in Gens, Purge(g) PROVE NumbersInv'
  BY <1>12, MsgAssumption DEF Purge, Rpc, poolVars, linkVars, bufferVars, readerVars,
     countVars, workerVars, serverVars, msgHistoryVars, NumbersInv, Gens
<1>13. ASSUME NEW g \in Gens, PutResend(g) PROVE NumbersInv'
  BY <1>13, MsgAssumption DEF PutResend, Rpc, poolVars, linkVars, bufferVars, readerVars,
     countVars, workerVars, serverVars, msgHistoryVars, NumbersInv, Gens
<1>14. ASSUME NEW g \in Gens, PutReply(g) PROVE NumbersInv'
  BY <1>14, MsgAssumption DEF PutReply, Cleared, Hands, poolVars, linkVars, bufferVars,
     readerVars, countVars, workerVars, serverVars, msgHistoryVars, NumbersInv, Gens
<1>15. ASSUME NEW x \in Workers, TakeMsgTask(x) PROVE NumbersInv'
  BY <1>15, MsgAssumption DEF TakeMsgTask, poolVars, linkVars, bufferVars, readerVars,
     countVars, workerVars, serverVars, msgHistoryVars, NumbersInv, Gens
<1>16. ASSUME NEW x \in Workers, Begin(x) PROVE NumbersInv'
  BY <1>16, MsgAssumption DEF Begin, poolVars, linkVars, bufferVars, readerVars, countVars,
     workerVars, serverVars, msgHistoryVars, NumbersInv, Gens
<1>17. ASSUME NEW x \in Workers, Send(x) PROVE NumbersInv'
  BY <1>17, MsgAssumption DEF Send, poolVars, linkVars, bufferVars, readerVars, countVars,
     workerVars, serverVars, msgHistoryVars, NumbersInv, Gens
<1>18. ASSUME NEW x \in Workers, SendRaises(x) PROVE NumbersInv'
  BY <1>18, MsgAssumption DEF SendRaises, poolVars, linkVars, bufferVars, readerVars,
     countVars, workerVars, serverVars, msgHistoryVars, NumbersInv, Gens
<1>19. ASSUME NEW x \in Workers, WaitRecovery(x) PROVE NumbersInv'
  BY <1>19, MsgAssumption DEF WaitRecovery, poolVars, linkVars, bufferVars, readerVars,
     countVars, workerVars, serverVars, msgHistoryVars, NumbersInv, Gens
<1>20. ASSUME UNCHANGED msgVars PROVE NumbersInv'
  BY <1>20, MsgAssumption DEF msgVars, poolVars, linkVars, bufferVars, readerVars,
     countVars, workerVars, serverVars, msgHistoryVars, NumbersInv, Gens
<1>21. QED
  BY <1>1, <1>2, <1>3, <1>4, <1>5, <1>6, <1>7, <1>8, <1>9, <1>10, <1>11, <1>12, <1>13,
     <1>14, <1>15, <1>16, <1>17, <1>18, <1>19, <1>20 DEF MsgNext, Link, Reader, MsgWorker

(* The tasks. *)
LEMMA PoolStep ==
  ASSUME MsgShape, PoolSafe, HandInv, OutInv, [MsgNext]_msgVars
  PROVE  PoolSafe'
<1>1. ASSUME ServerRequests PROVE PoolSafe'
  BY <1>1, PoolKept DEF ServerRequests, poolVars
<1>2. ASSUME ServerReads PROVE PoolSafe'
  BY <1>2, PoolKept DEF ServerReads, poolVars
<1>3. ASSUME Lose PROVE PoolSafe'
  BY <1>3, PoolKept DEF Lose, poolVars
<1>4. ASSUME Notice PROVE PoolSafe'
  BY <1>4, PoolKept DEF Notice, poolVars
<1>5. ASSUME Reopen PROVE PoolSafe'
  BY <1>5, PoolKept DEF Reopen, poolVars
<1>6. ASSUME OnRecovery PROVE PoolSafe'
  BY <1>6, PoolKept DEF OnRecovery, poolVars
<1>7. ASSUME NEW g \in Gens, ReadFirst(g) PROVE PoolSafe'
  BY <1>7, PoolKept DEF ReadFirst, Hands, ReaderUnchanged, poolVars
<1>8. ASSUME NEW g \in Gens, ReadRest(g) PROVE PoolSafe'
  BY <1>8, PoolKept DEF ReadRest, Hands, ReaderUnchanged, poolVars
<1>9. ASSUME NEW g \in Gens, Check(g) PROVE PoolSafe'
  BY <1>9, PoolKept DEF Check, Rpc, Afterwards, poolVars
<1>10. ASSUME NEW g \in Gens, PutSkip(g) PROVE PoolSafe'
  <2>1. TaskOK(SendTask("skip", Gap(inHand[g].n)))
    <3>1. lastreqcnt + 1 < inHand[g].n /\ inHand[g].n \in Counts /\ lastreqcnt \in {0} \cup Counts
      BY <1>10 DEF PutSkip, HandInv, MsgShape, DownMsgs
    <3>2. /\ lastreqcnt + 1 \in Counts /\ inHand[g].n - 1 \in Counts
          /\ lastreqcnt + 1 <= inHand[g].n - 1
      BY <3>1, CountsAre
    <3>3. QED
      BY <3>2, TasksAreOK DEF Gap
  <2>2. QED
    BY <1>10, <2>1, QueuedSafe DEF PutSkip, Rpc, Afterwards
<1>11. ASSUME NEW g \in Gens, PutFire(g) PROVE PoolSafe'
  <2>1. TaskOK(FireTask(inHand[g].n))
    BY <1>11, TasksAreOK DEF PutFire, HandInv, DownMsgs
  <2>2. QED
    BY <1>11, <2>1, QueuedSafe DEF PutFire, Cleared, Hands
<1>12. ASSUME NEW g \in Gens, Purge(g) PROVE PoolSafe'
  BY <1>12, PoolKept DEF Purge, Rpc, poolVars
<1>13. ASSUME NEW g \in Gens, PutResend(g) PROVE PoolSafe'
  <2>1. TaskOK(SendTask("answer", kept))
    BY TasksAreOK DEF MsgShape
  <2>2. QED
    BY <1>13, <2>1, QueuedSafe, PoolKept DEF PutResend
<1>14. ASSUME NEW g \in Gens, PutReply(g) PROVE PoolSafe'
  <2>1. TaskOK(SendTask("reply", {inHand[g].n}))
    BY <1>14, TasksAreOK DEF PutReply, HandInv, DownMsgs
  <2>2. QED
    BY <1>14, <2>1, QueuedSafe DEF PutReply, Cleared, Hands
<1>15. ASSUME NEW x \in Workers, TakeMsgTask(x) PROVE PoolSafe'
  BY <1>15, TakenSafe DEF TakeMsgTask
<1>16. ASSUME NEW x \in Workers, Begin(x) PROVE PoolSafe'
  BY <1>16, PoolKept DEF Begin, poolVars
<1>17. ASSUME NEW x \in Workers, Send(x) PROVE PoolSafe'
  <2>1. busy[x] # NoTask
    BY <1>17 DEF Send, OutInv
  <2>2. CASE Finish(x)
    BY <1>17, <2>1, <2>2, FinishedSafe DEF Send
  <2>3. CASE UNCHANGED poolVars
    BY <2>3, PoolKept
  <2>4. QED
    BY <1>17, <2>2, <2>3 DEF Send, poolVars
<1>18. ASSUME NEW x \in Workers, SendRaises(x) PROVE PoolSafe'
  BY <1>18, PoolKept DEF SendRaises, poolVars
<1>19. ASSUME NEW x \in Workers, WaitRecovery(x) PROVE PoolSafe'
  BY <1>19, PoolKept DEF WaitRecovery, poolVars
<1>20. ASSUME UNCHANGED msgVars PROVE PoolSafe'
  BY <1>20, PoolKept DEF msgVars, poolVars
<1>21. QED
  BY <1>1, <1>2, <1>3, <1>4, <1>5, <1>6, <1>7, <1>8, <1>9, <1>10, <1>11, <1>12, <1>13,
     <1>14, <1>15, <1>16, <1>17, <1>18, <1>19, <1>20 DEF MsgNext, Link, Reader, MsgWorker

(* The types. *)
LEMMA ShapeStepMsg ==
  ASSUME MsgShape, PoolSafe, NumbersInv, HandInv, OutInv, [MsgNext]_msgVars
  PROVE  MsgShape'
<1>1. ASSUME ServerRequests PROVE MsgShape'
  <2>1. sent + 1 \in Counts /\ asked + 1 \in 0..Requests
    BY <1>1, NextCount, MsgAssumption DEF ServerRequests, NumbersInv
  <2>2. [kind |-> "request", n |-> sent + 1, got |-> 0] \in DownMsgs
    BY <2>1 DEF DownMsgs
  <2>3. toAgent' \in Seq(DownMsgs)
    BY <1>1, <2>2, Appended DEF ServerRequests, MsgShape
  <2>4. QED
    BY <1>1, <2>1, <2>3 DEF ServerRequests, linkVars, bufferVars, readerVars, countVars,
       workerVars, serverVars, msgHistoryVars, MsgShape
<1>2. ASSUME ServerReads PROVE MsgShape'
  <2>1. toServer' \in Seq(UpMsgs) /\ Head(toServer) \in UpMsgs
    BY <1>2, Shortened DEF ServerReads, MsgShape
  <2>2. Head(toServer).from..Head(toServer).to \subseteq Counts
    BY <2>1, CountsAre DEF UpMsgs
  <2>3. answered' \subseteq Counts /\ skipped' \subseteq Counts
    BY <1>2, <2>2 DEF ServerReads, MsgShape
  <2>4. QED
    BY <1>2, <2>1, <2>3 DEF ServerReads, linkVars, bufferVars, readerVars, countVars,
       workerVars, serverVars, msgHistoryVars, MsgShape
<1>3. ASSUME Lose PROVE MsgShape'
  <2>1. toAgent' \in Seq(DownMsgs) /\ toServer' \in Seq(UpMsgs)
    BY <1>3, Cut DEF Lose, MsgShape
  <2>2. half' \in {0} \cup Gens /\ link' \in {"up", "lost", "down"}
    BY <1>3 DEF Lose, MsgShape
  <2>3. QED
    BY <1>3, <2>1, <2>2 DEF Lose, linkVars, bufferVars, readerVars, countVars, workerVars,
       serverVars, msgHistoryVars, MsgShape
<1>4. ASSUME Notice PROVE MsgShape'
  <2>1. toAgent' \in Seq(DownMsgs)
    BY <1>4, EmptyIs DEF Notice
  <2>2. QED
    BY <1>4, <2>1 DEF Notice, linkVars, bufferVars, readerVars, countVars, workerVars,
       serverVars, msgHistoryVars, MsgShape
<1>5. ASSUME Reopen PROVE MsgShape'
  <2>1. sent + 1 \in Counts /\ gen + 1 \in Gens
    BY <1>5, NextCount DEF Reopen
  <2>2. Received \in {0} \cup Counts
    BY NextCount, ReceivedSettles, CountsAre
  <2>3. [kind |-> "recovery", n |-> sent + 1, got |-> Received] \in DownMsgs
    BY <2>1, <2>2 DEF DownMsgs
  <2>4. toAgent' \in Seq(DownMsgs)
    BY <1>5, <2>3, SingleIs DEF Reopen
  <2>5. QED
    BY <1>5, <2>1, <2>4 DEF Reopen, linkVars, bufferVars, readerVars, countVars, workerVars,
       serverVars, msgHistoryVars, MsgShape
<1>6. ASSUME OnRecovery PROVE MsgShape'
  <2>1. temp' \in [st : {"empty", "part", "whole"}, by : {0} \cup Gens]
    BY <1>6 DEF OnRecovery, Empty
  <2>2. QED
    BY <1>6, <2>1 DEF OnRecovery, linkVars, bufferVars, readerVars, countVars, workerVars,
       serverVars, msgHistoryVars, MsgShape
<1>7. ASSUME NEW g \in Gens, ReadFirst(g) PROVE MsgShape'
  <2>0. toAgent # <<>>
    BY <1>7 DEF ReadFirst, HandInv, Gens
  <2>1. Head(toAgent) \in DownMsgs /\ Tail(toAgent) \in Seq(DownMsgs)
    BY <2>0, Shortened DEF MsgShape
  <2>2. inHand' \in [Gens -> DownMsgs \cup {NoMsg}] /\ toAgent' \in Seq(DownMsgs)
    <3>1. temp.st = "whole" => inHand[temp.by] \in DownMsgs
      BY DEF HandInv
    <3>2. inHand \in [Gens -> DownMsgs \cup {NoMsg}] /\ toAgent \in Seq(DownMsgs)
      BY DEF MsgShape
    <3>3. QED
      BY <1>7, <2>1, <3>1, <3>2 DEF ReadFirst, Hands
  <2>3. rpc' \in [Gens -> {"idle", "check", "skip", "fire", "purge", "resend", "reply"}]
    BY <1>7 DEF ReadFirst, Hands, MsgShape
  <2>4. temp' \in [st : {"empty", "part", "whole"}, by : {0} \cup Gens] /\ half' \in {0} \cup Gens
    <3>1. temp \in [st : {"empty", "part", "whole"}, by : {0} \cup Gens] /\ half \in {0} \cup Gens
      BY DEF MsgShape
    <3>2. QED
      BY <1>7, <3>1 DEF ReadFirst, bufferVars
  <2>5. QED
    BY <1>7, <2>2, <2>3, <2>4 DEF ReadFirst, ReaderUnchanged, linkVars, bufferVars,
       readerVars, countVars, workerVars, serverVars, msgHistoryVars, MsgShape
<1>8. ASSUME NEW g \in Gens, ReadRest(g) PROVE MsgShape'
  <2>0. toAgent # <<>>
    BY <1>8 DEF ReadRest, HandInv, Gens
  <2>1. Head(toAgent) \in DownMsgs /\ Tail(toAgent) \in Seq(DownMsgs)
    BY <2>0, Shortened DEF MsgShape
  <2>2. inHand' \in [Gens -> DownMsgs \cup {NoMsg}] /\ toAgent' \in Seq(DownMsgs)
    <3>1. temp.st = "whole" => inHand[temp.by] \in DownMsgs
      BY DEF HandInv
    <3>2. inHand \in [Gens -> DownMsgs \cup {NoMsg}] /\ toAgent \in Seq(DownMsgs)
      BY DEF MsgShape
    <3>3. QED
      BY <1>8, <2>1, <3>1, <3>2 DEF ReadRest, Hands
  <2>3. rpc' \in [Gens -> {"idle", "check", "skip", "fire", "purge", "resend", "reply"}]
    BY <1>8 DEF ReadRest, Hands, MsgShape
  <2>4. temp' \in [st : {"empty", "part", "whole"}, by : {0} \cup Gens] /\ half' \in {0} \cup Gens
    <3>1. temp \in [st : {"empty", "part", "whole"}, by : {0} \cup Gens] /\ half \in {0} \cup Gens
      BY DEF MsgShape
    <3>2. QED
      BY <1>8, <3>1 DEF ReadRest, bufferVars
  <2>5. QED
    BY <1>8, <2>2, <2>3, <2>4 DEF ReadRest, ReaderUnchanged, linkVars, bufferVars,
       readerVars, countVars, workerVars, serverVars, msgHistoryVars, MsgShape
<1>9. ASSUME NEW g \in Gens, Check(g) PROVE MsgShape'
  <2>1. /\ rpc[g] # "idle" /\ inHand[g].n \in Counts
        /\ rpc' \in [Gens -> {"idle", "check", "skip", "fire", "purge", "resend", "reply"}]
    <3>1. rpc[g] = "check"
      BY <1>9 DEF Check
    <3>2. inHand[g] \in DownMsgs
      BY <3>1 DEF HandInv
    <3>3. inHand[g].n \in Counts
      BY <3>2 DEF DownMsgs
    <3>4. rpc' = [rpc EXCEPT ![g] = "skip"] \/ rpc' = [rpc EXCEPT ![g] = "fire"]
          \/ rpc' = [rpc EXCEPT ![g] = "purge"]
      BY <1>9 DEF Check, Rpc, Afterwards
    <3>5. rpc \in [Gens -> {"idle", "check", "skip", "fire", "purge", "resend", "reply"}]
      BY DEF MsgShape
    <3>6. QED
      BY <3>1, <3>3, <3>4, <3>5
  <2>2. QED
    BY <1>9, <2>1 DEF Check, Rpc, Afterwards, linkVars, bufferVars, readerVars, countVars,
       workerVars, serverVars, msgHistoryVars, MsgShape
<1>10. ASSUME NEW g \in Gens, PutSkip(g) PROVE MsgShape'
  <2>1. /\ rpc[g] # "idle" /\ inHand[g].n \in Counts
        /\ rpc' \in [Gens -> {"idle", "check", "skip", "fire", "purge", "resend", "reply"}]
    BY <1>10 DEF PutSkip, Rpc, Afterwards, HandInv, MsgShape, DownMsgs
  <2>2. QED
    BY <1>10, <2>1 DEF PutSkip, Rpc, Afterwards, linkVars, bufferVars, readerVars,
       countVars, workerVars, serverVars, msgHistoryVars, MsgShape
<1>11. ASSUME NEW g \in Gens, PutFire(g) PROVE MsgShape'
  <2>1. /\ rpc' \in [Gens -> {"idle", "check", "skip", "fire", "purge", "resend", "reply"}]
        /\ inHand' \in [Gens -> DownMsgs \cup {NoMsg}]
        /\ temp' \in [st : {"empty", "part", "whole"}, by : {0} \cup Gens]
    BY <1>11 DEF PutFire, Cleared, Hands, MsgShape, Empty
  <2>2. QED
    BY <1>11, <2>1 DEF PutFire, Cleared, Hands, linkVars, bufferVars, readerVars, countVars,
       workerVars, serverVars, msgHistoryVars, MsgShape
<1>12. ASSUME NEW g \in Gens, Purge(g) PROVE MsgShape'
  <2>1. /\ rpc[g] # "idle" /\ inHand[g] \in DownMsgs
        /\ rpc' \in [Gens -> {"idle", "check", "skip", "fire", "purge", "resend", "reply"}]
    BY <1>12 DEF Purge, Rpc, HandInv, MsgShape
  <2>2. QED
    BY <1>12, <2>1 DEF Purge, Rpc, linkVars, bufferVars, readerVars, countVars, workerVars,
       serverVars, msgHistoryVars, MsgShape, DownMsgs, Empty, Purged
<1>13. ASSUME NEW g \in Gens, PutResend(g) PROVE MsgShape'
  <2>1. /\ rpc[g] # "idle" /\ inHand[g] \in DownMsgs
        /\ rpc' \in [Gens -> {"idle", "check", "skip", "fire", "purge", "resend", "reply"}]
    BY <1>13 DEF PutResend, Rpc, HandInv, MsgShape
  <2>2. QED
    BY <1>13, <2>1 DEF PutResend, Rpc, linkVars, bufferVars, readerVars, countVars,
       workerVars, serverVars, msgHistoryVars, MsgShape, DownMsgs, Empty, Purged
<1>14. ASSUME NEW g \in Gens, PutReply(g) PROVE MsgShape'
  <2>1. /\ rpc' \in [Gens -> {"idle", "check", "skip", "fire", "purge", "resend", "reply"}]
        /\ inHand' \in [Gens -> DownMsgs \cup {NoMsg}]
        /\ temp' \in [st : {"empty", "part", "whole"}, by : {0} \cup Gens]
    BY <1>14 DEF PutReply, Cleared, Hands, MsgShape, Empty
  <2>2. QED
    BY <1>14, <2>1 DEF PutReply, Cleared, Hands, linkVars, bufferVars, readerVars,
       countVars, workerVars, serverVars, msgHistoryVars, MsgShape
<1>15. ASSUME NEW x \in Workers, TakeMsgTask(x) PROVE MsgShape'
  BY <1>15 DEF TakeMsgTask, poolVars, linkVars, bufferVars, readerVars, countVars,
     workerVars, serverVars, msgHistoryVars, MsgShape
<1>16. ASSUME NEW x \in Workers, Begin(x) PROVE MsgShape'
  <2>1. TaskOK(busy[x])
    BY <1>16, BusyOK DEF Begin
  <2>2. ToSend(busy[x]) \subseteq UpMsgs /\ busy[x].ns \subseteq Counts
    BY <2>1, SendsAre DEF TaskOK, MsgTasks
  <2>3. kept' \subseteq Counts
    BY <1>16, <2>2 DEF Begin, MsgShape
  <2>4. executed' \in [Counts -> Nat]
    <3>1. \A n \in Counts : executed[n] \in Nat
      BY DEF MsgShape
    <3>2. CASE busy[x].kind = "fire"
      BY <1>16, <3>1, <3>2 DEF Begin
    <3>3. CASE busy[x].kind # "fire"
      BY <1>16, <3>3 DEF Begin, MsgShape
    <3>4. QED
      BY <3>2, <3>3
  <2>5. out' \in [Workers -> SUBSET UpMsgs] /\ stage' \in [Workers -> {"start", "send", "wait"}]
    BY <1>16, <2>2 DEF Begin, MsgShape
  <2>6. QED
    BY <1>16, <2>3, <2>4, <2>5 DEF Begin, linkVars, bufferVars, readerVars, countVars,
       workerVars, serverVars, msgHistoryVars, MsgShape
<1>17. ASSUME NEW x \in Workers, Send(x) PROVE MsgShape'
  <2>1. toServer' \in Seq(UpMsgs)
    BY <1>17, Appended DEF Send, MsgShape
  <2>2. out' \in [Workers -> SUBSET UpMsgs]
    BY <1>17 DEF Send, MsgShape
  <2>3. stage' \in [Workers -> {"start", "send", "wait"}]
    BY <1>17 DEF Send, MsgShape
  <2>4. QED
    BY <1>17, <2>1, <2>2, <2>3 DEF Send, linkVars, bufferVars, readerVars, countVars,
       workerVars, serverVars, msgHistoryVars, MsgShape
<1>18. ASSUME NEW x \in Workers, SendRaises(x) PROVE MsgShape'
  BY <1>18 DEF SendRaises, poolVars, linkVars, bufferVars, readerVars, countVars,
     workerVars, serverVars, msgHistoryVars, MsgShape
<1>19. ASSUME NEW x \in Workers, WaitRecovery(x) PROVE MsgShape'
  BY <1>19 DEF WaitRecovery, poolVars, linkVars, bufferVars, readerVars, countVars,
     workerVars, serverVars, msgHistoryVars, MsgShape
<1>20. ASSUME UNCHANGED msgVars PROVE MsgShape'
  BY <1>20 DEF msgVars, poolVars, linkVars, bufferVars, readerVars, countVars, workerVars,
     serverVars, msgHistoryVars, MsgShape
<1>21. QED
  BY <1>1, <1>2, <1>3, <1>4, <1>5, <1>6, <1>7, <1>8, <1>9, <1>10, <1>11, <1>12, <1>13,
     <1>14, <1>15, <1>16, <1>17, <1>18, <1>19, <1>20 DEF MsgNext, Link, Reader, MsgWorker

(* What the workers have still to send. *)
LEMMA OutStep ==
  ASSUME MsgShape, PoolSafe, OutInv, [MsgNext]_msgVars
  PROVE  OutInv'
<1>1. ASSUME ServerRequests PROVE OutInv'
  BY <1>1 DEF ServerRequests, poolVars, workerVars, OutInv
<1>2. ASSUME ServerReads PROVE OutInv'
  BY <1>2 DEF ServerReads, poolVars, workerVars, OutInv
<1>3. ASSUME Lose PROVE OutInv'
  BY <1>3 DEF Lose, poolVars, workerVars, OutInv
<1>4. ASSUME Notice PROVE OutInv'
  BY <1>4 DEF Notice, poolVars, workerVars, OutInv
<1>5. ASSUME Reopen PROVE OutInv'
  BY <1>5 DEF Reopen, poolVars, workerVars, OutInv
<1>6. ASSUME OnRecovery PROVE OutInv'
  BY <1>6 DEF OnRecovery, poolVars, workerVars, OutInv
<1>7. ASSUME NEW g \in Gens, ReadFirst(g) PROVE OutInv'
  BY <1>7 DEF ReadFirst, Hands, ReaderUnchanged, poolVars, workerVars, OutInv
<1>8. ASSUME NEW g \in Gens, ReadRest(g) PROVE OutInv'
  BY <1>8 DEF ReadRest, Hands, ReaderUnchanged, poolVars, workerVars, OutInv
<1>9. ASSUME NEW g \in Gens, Check(g) PROVE OutInv'
  BY <1>9 DEF Check, Rpc, Afterwards, poolVars, workerVars, OutInv
<1>10. ASSUME NEW g \in Gens, PutSkip(g) PROVE OutInv'
  BY <1>10 DEF PutSkip, Rpc, Afterwards, Execute, workerVars, OutInv
<1>11. ASSUME NEW g \in Gens, PutFire(g) PROVE OutInv'
  BY <1>11 DEF PutFire, Cleared, Hands, Execute, workerVars, OutInv
<1>12. ASSUME NEW g \in Gens, Purge(g) PROVE OutInv'
  BY <1>12 DEF Purge, Rpc, poolVars, workerVars, OutInv
<1>13. ASSUME NEW g \in Gens, PutResend(g) PROVE OutInv'
  BY <1>13 DEF PutResend, Rpc, Execute, poolVars, workerVars, OutInv
<1>14. ASSUME NEW g \in Gens, PutReply(g) PROVE OutInv'
  BY <1>14 DEF PutReply, Cleared, Hands, Execute, workerVars, OutInv
<1>15. ASSUME NEW x \in Workers, TakeMsgTask(x) PROVE OutInv'
  <2>1. busy[x] = NoTask /\ \A y \in Workers \ {x} : busy'[y] = busy[y]
    BY <1>15, TakenSafe DEF TakeMsgTask
  <2>2. out[x] = {} /\ stage[x] = "start"
    BY <2>1 DEF OutInv
  <2>3. stage' = stage /\ out' = out
    BY <1>15 DEF TakeMsgTask, workerVars
  <2>4. QED
    BY <2>1, <2>2, <2>3 DEF OutInv
<1>16. ASSUME NEW x \in Workers, Begin(x) PROVE OutInv'
  <2>1. stage'[x] = "send" /\ out'[x] = ToSend(busy[x]) /\ busy' = busy /\ busy[x] # NoTask
    BY <1>16 DEF Begin, poolVars, MsgShape
  <2>2. \A y \in Workers \ {x} : stage'[y] = stage[y] /\ out'[y] = out[y]
    BY <1>16 DEF Begin, MsgShape
  <2>3. QED
    BY <2>1, <2>2 DEF OutInv
<1>17. ASSUME NEW x \in Workers, Send(x) PROVE OutInv'
  <2>1. /\ out'[x] \subseteq out[x] /\ busy[x] # NoTask
        /\ \A y \in Workers \ {x} : stage'[y] = stage[y] /\ out'[y] = out[y] /\ busy'[y] = busy[y]
    BY <1>17 DEF Send, Finish, MsgShape, OutInv, PoolSafe, PoolOK
  <2>2. \/ busy'[x] = NoTask /\ stage'[x] = "start" /\ out'[x] = {}
        \/ busy'[x] = busy[x] /\ stage'[x] = stage[x] /\ stage[x] # "start"
    BY <1>17 DEF Send, Finish, MsgShape, PoolSafe, PoolOK
  <2>3. QED
    BY <2>1, <2>2 DEF OutInv
<1>18. ASSUME NEW x \in Workers, SendRaises(x) PROVE OutInv'
  <2>1. /\ \A y \in Workers : stage'[y] = "start" => stage[y] = "start"
        /\ \A y \in Workers : stage[y] = "start" => stage'[y] = "start"
        /\ busy' = busy /\ out' = out
    BY <1>18 DEF SendRaises, poolVars, MsgShape
  <2>2. QED
    BY <2>1 DEF OutInv
<1>19. ASSUME NEW x \in Workers, WaitRecovery(x) PROVE OutInv'
  <2>1. /\ \A y \in Workers : stage'[y] = "start" => stage[y] = "start"
        /\ \A y \in Workers : stage[y] = "start" => stage'[y] = "start"
        /\ busy' = busy /\ out' = out
    BY <1>19 DEF WaitRecovery, poolVars, MsgShape
  <2>2. QED
    BY <2>1 DEF OutInv
<1>20. ASSUME UNCHANGED msgVars PROVE OutInv'
  BY <1>20 DEF msgVars, poolVars, workerVars, OutInv
<1>21. QED
  BY <1>1, <1>2, <1>3, <1>4, <1>5, <1>6, <1>7, <1>8, <1>9, <1>10, <1>11, <1>12, <1>13,
     <1>14, <1>15, <1>16, <1>17, <1>18, <1>19, <1>20 DEF MsgNext, Link, Reader, MsgWorker

(* What the readers have. *)
LEMMA HandStep ==
  ASSUME MsgShape, NumbersInv, HandInv, [MsgNext]_msgVars
  PROVE  HandInv'
<1>1. ASSUME ServerRequests PROVE HandInv'
  <2>1. toAgent # <<>> => toAgent' # <<>>
    <3>1. sent + 1 \in Counts
      BY <1>1, NextCount DEF ServerRequests
    <3>2. [kind |-> "request", n |-> sent + 1, got |-> 0] \in DownMsgs
      BY <3>1 DEF DownMsgs
    <3>3. Append(toAgent, [kind |-> "request", n |-> sent + 1, got |-> 0]) # <<>>
      BY <3>2, Appended DEF MsgShape
    <3>4. QED
      BY <1>1, <3>3 DEF ServerRequests
  <2>2. QED
    BY <1>1, <2>1 DEF ServerRequests, linkVars, bufferVars, readerVars, countVars,
       workerVars, serverVars, msgHistoryVars, HandInv
<1>2. ASSUME ServerReads PROVE HandInv'
  BY <1>2 DEF ServerReads, poolVars, linkVars, bufferVars, readerVars, countVars,
     workerVars, serverVars, msgHistoryVars, HandInv, MsgShape, Empty
<1>3. ASSUME Lose PROVE HandInv'
  BY <1>3 DEF Lose, poolVars, linkVars, bufferVars, readerVars, countVars, workerVars,
     serverVars, msgHistoryVars, HandInv, MsgShape, Empty
<1>4. ASSUME Notice PROVE HandInv'
  BY <1>4 DEF Notice, poolVars, linkVars, bufferVars, readerVars, countVars, workerVars,
     serverVars, msgHistoryVars, HandInv, MsgShape, Empty
<1>5. ASSUME Reopen PROVE HandInv'
  BY <1>5 DEF Reopen, linkVars, bufferVars, readerVars, countVars, workerVars, serverVars,
     msgHistoryVars, HandInv
<1>6. ASSUME OnRecovery PROVE HandInv'
  BY <1>6 DEF OnRecovery, poolVars, linkVars, bufferVars, readerVars, countVars, workerVars,
     serverVars, msgHistoryVars, HandInv, MsgShape, Empty
<1>7. ASSUME NEW g \in Gens, ReadFirst(g) PROVE HandInv'
  <2>0. toAgent # <<>> /\ rpc[g] = "idle" /\ g \in Gens /\ g # 0 /\ g = gen
    BY <1>7 DEF ReadFirst, HandInv, Gens
  <2>1. Head(toAgent) \in DownMsgs
    BY <2>0, Shortened DEF MsgShape
  <2>2. /\ inHand \in [Gens -> DownMsgs \cup {NoMsg}]
        /\ rpc \in [Gens -> {"idle", "check", "skip", "fire", "purge", "resend", "reply"}]
    BY DEF MsgShape
  <2>3. CASE /\ rpc' = rpc /\ inHand' = inHand /\ temp'.by \in Gens /\ temp'.st # "whole"
             /\ half' # 0 => half' = g /\ toAgent' = toAgent
    BY <1>7, <2>0, <2>3 DEF ReadFirst, HandInv, ReaderUnchanged, linkVars, countVars
  <2>4. CASE /\ \E m \in DownMsgs : Hands(g, m, "check")
             /\ half' = 0 /\ (temp' = temp \/ temp' = [st |-> "whole", by |-> g])
    <3>1. PICK m \in DownMsgs : Hands(g, m, "check")
      BY <2>4
    <3>2. /\ rpc'[g] = "check" /\ inHand'[g] = m
          /\ \A h \in Gens \ {g} : rpc'[h] = rpc[h] /\ inHand'[h] = inHand[h]
      BY <2>2, <3>1 DEF Hands
    <3>3. gen' = gen /\ link' = link /\ lastreqcnt' = lastreqcnt /\ skipping' = skipping
      BY <1>7 DEF ReadFirst, ReaderUnchanged, linkVars, countVars
    <3>4. QED
      BY <2>0, <2>4, <3>2, <3>3 DEF HandInv
  <2>5. CASE UNCHANGED <<rpc, inHand, temp, half, toAgent>>
    BY <1>7, <2>5 DEF ReadFirst, HandInv, ReaderUnchanged, linkVars, countVars
  <2>6. QED
    <3>1. CASE temp.st = "empty"
      BY <1>7, <2>0, <2>1, <2>3, <2>4, <3>1 DEF ReadFirst
    <3>2. CASE temp.st = "part"
      BY <1>7, <2>5, <3>2 DEF ReadFirst, bufferVars
    <3>3. CASE temp.st = "whole"
      <4>1. inHand[temp.by] \in DownMsgs
        BY <3>3 DEF HandInv
      <4>2. QED
        BY <1>7, <2>4, <3>3, <4>1 DEF ReadFirst, bufferVars
    <3>4. QED
      BY <1>7, <3>1, <3>2, <3>3 DEF ReadFirst
<1>8. ASSUME NEW g \in Gens, ReadRest(g) PROVE HandInv'
  <2>0. toAgent # <<>> /\ rpc[g] = "idle" /\ g \in Gens /\ g # 0 /\ g = gen
    BY <1>8 DEF ReadRest, HandInv, Gens
  <2>1. Head(toAgent) \in DownMsgs
    BY <2>0, Shortened DEF MsgShape
  <2>2. /\ inHand \in [Gens -> DownMsgs \cup {NoMsg}]
        /\ rpc \in [Gens -> {"idle", "check", "skip", "fire", "purge", "resend", "reply"}]
    BY DEF MsgShape
  <2>3. CASE /\ rpc' = rpc /\ inHand' = inHand /\ temp'.by \in Gens /\ temp'.st # "whole"
             /\ half' # 0 => half' = g /\ toAgent' = toAgent
    BY <1>8, <2>0, <2>3 DEF ReadRest, HandInv, ReaderUnchanged, linkVars, countVars
  <2>4. CASE /\ \E m \in DownMsgs : Hands(g, m, "check")
             /\ half' = 0 /\ (temp' = temp \/ temp' = [st |-> "whole", by |-> g])
    <3>1. PICK m \in DownMsgs : Hands(g, m, "check")
      BY <2>4
    <3>2. /\ rpc'[g] = "check" /\ inHand'[g] = m
          /\ \A h \in Gens \ {g} : rpc'[h] = rpc[h] /\ inHand'[h] = inHand[h]
      BY <2>2, <3>1 DEF Hands
    <3>3. gen' = gen /\ link' = link /\ lastreqcnt' = lastreqcnt /\ skipping' = skipping
      BY <1>8 DEF ReadRest, ReaderUnchanged, linkVars, countVars
    <3>4. QED
      BY <2>0, <2>4, <3>2, <3>3 DEF HandInv
  <2>5. CASE UNCHANGED <<rpc, inHand, temp, half, toAgent>>
    BY <1>8, <2>5 DEF ReadRest, HandInv, ReaderUnchanged, linkVars, countVars
  <2>6. QED
    BY <1>8, <2>1, <2>4, <2>5 DEF ReadRest, bufferVars
<1>9. ASSUME NEW g \in Gens, Check(g) PROVE HandInv'
  <2>1. /\ rpc[g] # "idle" /\ rpc'[g] # "idle" /\ inHand' = inHand
        /\ \A h \in Gens \ {g} : rpc'[h] = rpc[h] /\ rpc[h] # "skip"
        /\ rpc'[g] = "skip" => skipping' /\ lastreqcnt' + 1 < inHand'[g].n
    BY <1>9 DEF Check, Rpc, Afterwards, MsgShape, HandInv
  <2>2. gen \in Gens
    BY DEF NumbersInv
  <2>3. QED
    BY <1>9, <2>1, <2>2 DEF Check, linkVars, bufferVars, readerVars, countVars, workerVars,
       serverVars, msgHistoryVars, HandInv
<1>10. ASSUME NEW g \in Gens, PutSkip(g) PROVE HandInv'
  <2>1. /\ rpc[g] # "idle" /\ rpc'[g] # "idle" /\ rpc'[g] # "skip" /\ inHand' = inHand
        /\ \A h \in Gens \ {g} : rpc'[h] = rpc[h] /\ rpc[h] # "skip"
    BY <1>10 DEF PutSkip, Rpc, Afterwards, MsgShape, HandInv
  <2>2. gen \in Gens
    BY DEF NumbersInv
  <2>3. QED
    BY <1>10, <2>1, <2>2 DEF PutSkip, linkVars, bufferVars, readerVars, countVars,
       workerVars, serverVars, msgHistoryVars, HandInv
<1>11. ASSUME NEW g \in Gens, PutFire(g) PROVE HandInv'
  <2>1. /\ rpc[g] # "idle" /\ rpc'[g] = "idle"
        /\ \A h \in Gens \ {g} : rpc'[h] = rpc[h] /\ inHand'[h] = inHand[h]
        /\ temp' = [st |-> "empty", by |-> 0]
    BY <1>11 DEF PutFire, Cleared, Hands, MsgShape, Empty
  <2>2. gen \in Gens
    BY DEF NumbersInv
  <2>3. QED
    BY <1>11, <2>1, <2>2 DEF PutFire, linkVars, bufferVars, readerVars, countVars,
       workerVars, serverVars, msgHistoryVars, HandInv
<1>12. ASSUME NEW g \in Gens, Purge(g) PROVE HandInv'
  <2>1. /\ rpc[g] # "idle" /\ rpc'[g] # "idle" /\ inHand' = inHand
        /\ \A h \in Gens \ {g} : rpc'[h] = rpc[h]
    BY <1>12 DEF Purge, Rpc, MsgShape
  <2>2. QED
    BY <1>12, <2>1 DEF Purge, Rpc, linkVars, bufferVars, readerVars, countVars, workerVars,
       serverVars, msgHistoryVars, HandInv
<1>13. ASSUME NEW g \in Gens, PutResend(g) PROVE HandInv'
  <2>1. /\ rpc[g] # "idle" /\ rpc'[g] # "idle" /\ inHand' = inHand
        /\ \A h \in Gens \ {g} : rpc'[h] = rpc[h]
    BY <1>13 DEF PutResend, Rpc, MsgShape
  <2>2. QED
    BY <1>13, <2>1 DEF PutResend, Rpc, linkVars, bufferVars, readerVars, countVars,
       workerVars, serverVars, msgHistoryVars, HandInv
<1>14. ASSUME NEW g \in Gens, PutReply(g) PROVE HandInv'
  <2>1. /\ rpc[g] # "idle" /\ rpc'[g] = "idle"
        /\ \A h \in Gens \ {g} : rpc'[h] = rpc[h] /\ inHand'[h] = inHand[h]
        /\ temp' = [st |-> "empty", by |-> 0]
    BY <1>14 DEF PutReply, Cleared, Hands, MsgShape, Empty
  <2>2. gen \in Gens
    BY DEF NumbersInv
  <2>3. QED
    BY <1>14, <2>1, <2>2 DEF PutReply, linkVars, bufferVars, readerVars, countVars,
       workerVars, serverVars, msgHistoryVars, HandInv
<1>15. ASSUME NEW x \in Workers, TakeMsgTask(x) PROVE HandInv'
  BY <1>15 DEF TakeMsgTask, poolVars, linkVars, bufferVars, readerVars, countVars,
     workerVars, serverVars, msgHistoryVars, HandInv, MsgShape, Empty
<1>16. ASSUME NEW x \in Workers, Begin(x) PROVE HandInv'
  BY <1>16 DEF Begin, poolVars, linkVars, bufferVars, readerVars, countVars, workerVars,
     serverVars, msgHistoryVars, HandInv, MsgShape, Empty
<1>17. ASSUME NEW x \in Workers, Send(x) PROVE HandInv'
  BY <1>17 DEF Send, poolVars, linkVars, bufferVars, readerVars, countVars, workerVars,
     serverVars, msgHistoryVars, HandInv, MsgShape, Empty
<1>18. ASSUME NEW x \in Workers, SendRaises(x) PROVE HandInv'
  BY <1>18 DEF SendRaises, poolVars, linkVars, bufferVars, readerVars, countVars,
     workerVars, serverVars, msgHistoryVars, HandInv, MsgShape, Empty
<1>19. ASSUME NEW x \in Workers, WaitRecovery(x) PROVE HandInv'
  BY <1>19 DEF WaitRecovery, poolVars, linkVars, bufferVars, readerVars, countVars,
     workerVars, serverVars, msgHistoryVars, HandInv, MsgShape, Empty
<1>20. ASSUME UNCHANGED msgVars PROVE HandInv'
  BY <1>20 DEF msgVars, poolVars, linkVars, bufferVars, readerVars, countVars, workerVars,
     serverVars, msgHistoryVars, HandInv, MsgShape, Empty
<1>21. QED
  BY <1>1, <1>2, <1>3, <1>4, <1>5, <1>6, <1>7, <1>8, <1>9, <1>10, <1>11, <1>12, <1>13,
     <1>14, <1>15, <1>16, <1>17, <1>18, <1>19, <1>20 DEF MsgNext, Link, Reader, MsgWorker

(* What the server has received stays received. *)
LEMMA ServerKeeps ==
  ASSUME [MsgNext]_msgVars
  PROVE  answered \subseteq answered' /\ skipped \subseteq skipped'
<1>1. CASE ServerReads
  BY <1>1 DEF ServerReads
<1>2. CASE UNCHANGED <<answered, skipped>>
  BY <1>2
<1>3. QED
  BY <1>1, <1>2 DEF MsgNext, Link, Reader, MsgWorker, msgVars, serverVars, ServerRequests,
     Lose, Notice, Reopen, OnRecovery, ReadFirst, ReadRest, ReaderUnchanged, Check, PutSkip,
     PutFire, Purge, PutResend, PutReply, TakeMsgTask, Begin, Send, SendRaises, WaitRecovery

(* What the server says it has received is settled. *)
LEMMA SettledStep ==
  ASSUME MsgShape, NumbersInv, HandInv, SettledInv, [MsgNext]_msgVars
  PROVE  SettledInv'
<1>1. ASSUME ServerRequests PROVE SettledInv'
  <2>1. \A m : Settles(m) => Settles(m)'
    BY ServerKeeps DEF Settles
  <2>2. [kind |-> "request", n |-> sent + 1, got |-> 0] \in DownMsgs
    BY <1>1, NextCount DEF ServerRequests, DownMsgs
  <2>3. \A i \in 1..Len(toAgent') : (\E k \in 1..Len(toAgent) : toAgent'[i] = toAgent[k]) \/ toAgent'[i].got = 0
    BY <1>1, <2>2, Appended DEF ServerRequests, MsgShape
  <2>4. \A i \in 1..Len(toAgent') : Settles(toAgent'[i])
    BY <2>3 DEF SettledInv, Settles
  <2>5. QED
    BY <1>1, <2>1, <2>4 DEF ServerRequests, readerVars, SettledInv
<1>2. ASSUME ServerReads PROVE SettledInv'
  <2>1. \A m : Settles(m) => Settles(m)'
    BY ServerKeeps DEF Settles
  <2>2. QED
    BY <1>2, <2>1 DEF ServerReads, readerVars, SettledInv
<1>3. ASSUME Lose PROVE SettledInv'
  <2>1. \A m : Settles(m) => Settles(m)'
    BY ServerKeeps DEF Settles
  <2>3. \A i \in 1..Len(toAgent') : \E k \in 1..Len(toAgent) : toAgent'[i] = toAgent[k]
    BY <1>3, Cut DEF Lose, MsgShape
  <2>4. QED
    BY <1>3, <2>1, <2>3 DEF Lose, readerVars, SettledInv
<1>4. ASSUME Notice PROVE SettledInv'
  <2>1. \A m : Settles(m) => Settles(m)'
    BY ServerKeeps DEF Settles
  <2>4. QED
    BY <1>4, <2>1, EmptyIs DEF Notice, readerVars, SettledInv
<1>5. ASSUME Reopen PROVE SettledInv'
  <2>1. \A m : Settles(m) => Settles(m)'
    BY ServerKeeps DEF Settles
  <2>2. Len(toAgent') = 1 /\ toAgent'[1].got = Received
    BY <1>5 DEF Reopen
  <2>3. \A n \in 1..Received : n \in answered' \cup skipped'
    BY ReceivedSettles, ServerKeeps
  <2>4. QED
    BY <1>5, <2>1, <2>2, <2>3 DEF Reopen, readerVars, SettledInv, Settles
<1>6. ASSUME OnRecovery PROVE SettledInv'
  <2>1. \A m : Settles(m) => Settles(m)'
    BY ServerKeeps DEF Settles
  <2>2. QED
    BY <1>6, <2>1 DEF OnRecovery, readerVars, SettledInv
<1>7. ASSUME NEW g \in Gens, ReadFirst(g) PROVE SettledInv'
  <2>1. \A m : Settles(m) => Settles(m)'
    BY ServerKeeps DEF Settles
  <2>2. toAgent # <<>>
    BY <1>7 DEF ReadFirst, HandInv, Gens
  <2>3. /\ Settles(Head(toAgent))
        /\ \A i \in 1..Len(Tail(toAgent)) : \E k \in 1..Len(toAgent) : Tail(toAgent)[i] = toAgent[k]
    BY <2>2, Shortened DEF MsgShape, SettledInv
  <2>4. \A i \in 1..Len(toAgent') : Settles(toAgent'[i])
    BY <1>7, <2>3 DEF ReadFirst, SettledInv, bufferVars
  <2>5. temp.st = "whole" => Settles(inHand[temp.by])
    BY DEF HandInv, SettledInv
  <2>6. \A h \in Gens : Settles(inHand'[h])
    BY <1>7, <2>3, <2>5 DEF ReadFirst, Hands, SettledInv, MsgShape
  <2>7. QED
    BY <2>1, <2>4, <2>6 DEF SettledInv
<1>8. ASSUME NEW g \in Gens, ReadRest(g) PROVE SettledInv'
  <2>1. \A m : Settles(m) => Settles(m)'
    BY ServerKeeps DEF Settles
  <2>2. toAgent # <<>>
    BY <1>8 DEF ReadRest, HandInv, Gens
  <2>3. /\ Settles(Head(toAgent))
        /\ \A i \in 1..Len(Tail(toAgent)) : \E k \in 1..Len(toAgent) : Tail(toAgent)[i] = toAgent[k]
    BY <2>2, Shortened DEF MsgShape, SettledInv
  <2>4. \A i \in 1..Len(toAgent') : Settles(toAgent'[i])
    BY <1>8, <2>3 DEF ReadRest, SettledInv, bufferVars
  <2>5. temp.st = "whole" => Settles(inHand[temp.by])
    BY DEF HandInv, SettledInv
  <2>6. \A h \in Gens : Settles(inHand'[h])
    BY <1>8, <2>3, <2>5 DEF ReadRest, Hands, SettledInv, MsgShape
  <2>7. QED
    BY <2>1, <2>4, <2>6 DEF SettledInv
<1>9. ASSUME NEW g \in Gens, Check(g) PROVE SettledInv'
  <2>1. \A m : Settles(m) => Settles(m)'
    BY ServerKeeps DEF Settles
  <2>2. QED
    BY <1>9, <2>1 DEF Check, Rpc, Afterwards, readerVars, SettledInv
<1>10. ASSUME NEW g \in Gens, PutSkip(g) PROVE SettledInv'
  <2>1. \A m : Settles(m) => Settles(m)'
    BY ServerKeeps DEF Settles
  <2>2. QED
    BY <1>10, <2>1 DEF PutSkip, Rpc, Afterwards, readerVars, SettledInv
<1>11. ASSUME NEW g \in Gens, PutFire(g) PROVE SettledInv'
  <2>1. \A m : Settles(m) => Settles(m)'
    BY ServerKeeps DEF Settles
  <2>2. \A h \in Gens : Settles(inHand'[h])
    BY <1>11 DEF PutFire, Cleared, Hands, SettledInv, MsgShape, Settles, NoMsg
  <2>3. QED
    BY <1>11, <2>1, <2>2 DEF PutFire, SettledInv
<1>12. ASSUME NEW g \in Gens, Purge(g) PROVE SettledInv'
  <2>1. \A m : Settles(m) => Settles(m)'
    BY ServerKeeps DEF Settles
  <2>2. QED
    BY <1>12, <2>1 DEF Purge, Rpc, readerVars, SettledInv
<1>13. ASSUME NEW g \in Gens, PutResend(g) PROVE SettledInv'
  <2>1. \A m : Settles(m) => Settles(m)'
    BY ServerKeeps DEF Settles
  <2>2. QED
    BY <1>13, <2>1 DEF PutResend, Rpc, readerVars, SettledInv
<1>14. ASSUME NEW g \in Gens, PutReply(g) PROVE SettledInv'
  <2>1. \A m : Settles(m) => Settles(m)'
    BY ServerKeeps DEF Settles
  <2>2. \A h \in Gens : Settles(inHand'[h])
    BY <1>14 DEF PutReply, Cleared, Hands, SettledInv, MsgShape, Settles, NoMsg
  <2>3. QED
    BY <1>14, <2>1, <2>2 DEF PutReply, SettledInv
<1>15. ASSUME NEW x \in Workers, TakeMsgTask(x) PROVE SettledInv'
  <2>1. \A m : Settles(m) => Settles(m)'
    BY ServerKeeps DEF Settles
  <2>2. QED
    BY <1>15, <2>1 DEF TakeMsgTask, readerVars, SettledInv
<1>16. ASSUME NEW x \in Workers, Begin(x) PROVE SettledInv'
  <2>1. \A m : Settles(m) => Settles(m)'
    BY ServerKeeps DEF Settles
  <2>2. QED
    BY <1>16, <2>1 DEF Begin, readerVars, SettledInv
<1>17. ASSUME NEW x \in Workers, Send(x) PROVE SettledInv'
  <2>1. \A m : Settles(m) => Settles(m)'
    BY ServerKeeps DEF Settles
  <2>2. QED
    BY <1>17, <2>1 DEF Send, readerVars, SettledInv
<1>18. ASSUME NEW x \in Workers, SendRaises(x) PROVE SettledInv'
  <2>1. \A m : Settles(m) => Settles(m)'
    BY ServerKeeps DEF Settles
  <2>2. QED
    BY <1>18, <2>1 DEF SendRaises, readerVars, SettledInv
<1>19. ASSUME NEW x \in Workers, WaitRecovery(x) PROVE SettledInv'
  <2>1. \A m : Settles(m) => Settles(m)'
    BY ServerKeeps DEF Settles
  <2>2. QED
    BY <1>19, <2>1 DEF WaitRecovery, readerVars, SettledInv
<1>20. ASSUME UNCHANGED msgVars PROVE SettledInv'
  BY <1>20 DEF msgVars, readerVars, serverVars, SettledInv, Settles
<1>21. QED
  BY <1>1, <1>2, <1>3, <1>4, <1>5, <1>6, <1>7, <1>8, <1>9, <1>10, <1>11, <1>12, <1>13,
     <1>14, <1>15, <1>16, <1>17, <1>18, <1>19, <1>20 DEF MsgNext, Link, Reader, MsgWorker

(* A response that may be asked for again is kept. *)
LEMMA KeptStep ==
  ASSUME MsgShape, HandInv, SettledInv, ResponsesKept, [MsgNext]_msgVars
  PROVE  ResponsesKept'
<1>1. ASSUME ServerRequests PROVE ResponsesKept'
  BY <1>1, ServerKeeps DEF ServerRequests, countVars, msgHistoryVars, ResponsesKept
<1>2. ASSUME ServerReads PROVE ResponsesKept'
  BY <1>2, ServerKeeps DEF ServerReads, countVars, msgHistoryVars, ResponsesKept
<1>3. ASSUME Lose PROVE ResponsesKept'
  BY <1>3, ServerKeeps DEF Lose, countVars, msgHistoryVars, ResponsesKept
<1>4. ASSUME Notice PROVE ResponsesKept'
  BY <1>4, ServerKeeps DEF Notice, countVars, msgHistoryVars, ResponsesKept
<1>5. ASSUME Reopen PROVE ResponsesKept'
  BY <1>5, ServerKeeps DEF Reopen, countVars, msgHistoryVars, ResponsesKept
<1>6. ASSUME OnRecovery PROVE ResponsesKept'
  BY <1>6, ServerKeeps DEF OnRecovery, countVars, msgHistoryVars, ResponsesKept
<1>7. ASSUME NEW g \in Gens, ReadFirst(g) PROVE ResponsesKept'
  BY <1>7, ServerKeeps DEF ReadFirst, Hands, ReaderUnchanged, countVars, msgHistoryVars,
     ResponsesKept
<1>8. ASSUME NEW g \in Gens, ReadRest(g) PROVE ResponsesKept'
  BY <1>8, ServerKeeps DEF ReadRest, Hands, ReaderUnchanged, countVars, msgHistoryVars,
     ResponsesKept
<1>9. ASSUME NEW g \in Gens, Check(g) PROVE ResponsesKept'
  BY <1>9, ServerKeeps DEF Check, Rpc, Afterwards, countVars, msgHistoryVars, ResponsesKept
<1>10. ASSUME NEW g \in Gens, PutSkip(g) PROVE ResponsesKept'
  BY <1>10, ServerKeeps DEF PutSkip, Rpc, Afterwards, countVars, msgHistoryVars,
     ResponsesKept
<1>11. ASSUME NEW g \in Gens, PutFire(g) PROVE ResponsesKept'
  BY <1>11, ServerKeeps DEF PutFire, Cleared, Hands, countVars, msgHistoryVars,
     ResponsesKept
<1>12. ASSUME NEW g \in Gens, Purge(g) PROVE ResponsesKept'
  <2>1. \A n \in Counts : n <= inHand[g].got => n \in answered \cup skipped
    <3>1. inHand[g].got \in Nat /\ Settles(inHand[g])
      BY <1>12, CountsAre DEF Purge, HandInv, DownMsgs, SettledInv
    <3>2. QED
      BY <3>1, CountsAre DEF Settles
  <2>2. inHand[g].got \in Nat
    BY <1>12, CountsAre DEF Purge, HandInv, DownMsgs
  <2>3. QED
    BY <1>12, <2>1, <2>2, CountsAre DEF Purge, Rpc, Purged, ResponsesKept, serverVars,
       msgHistoryVars
<1>13. ASSUME NEW g \in Gens, PutResend(g) PROVE ResponsesKept'
  BY <1>13, ServerKeeps DEF PutResend, Rpc, countVars, msgHistoryVars, ResponsesKept
<1>14. ASSUME NEW g \in Gens, PutReply(g) PROVE ResponsesKept'
  BY <1>14, ServerKeeps DEF PutReply, Cleared, Hands, countVars, msgHistoryVars,
     ResponsesKept
<1>15. ASSUME NEW x \in Workers, TakeMsgTask(x) PROVE ResponsesKept'
  BY <1>15, ServerKeeps DEF TakeMsgTask, countVars, msgHistoryVars, ResponsesKept
<1>16. ASSUME NEW x \in Workers, Begin(x) PROVE ResponsesKept'
  <2>1. \A n \in Counts : executed'[n] > 0 => executed[n] > 0 \/ (n \in busy[x].ns /\ kept' = kept \cup busy[x].ns)
    BY <1>16 DEF Begin, MsgShape
  <2>2. kept \subseteq kept'
    BY <1>16 DEF Begin
  <2>3. QED
    BY <2>1, <2>2, ServerKeeps DEF ResponsesKept
<1>17. ASSUME NEW x \in Workers, Send(x) PROVE ResponsesKept'
  BY <1>17, ServerKeeps DEF Send, countVars, msgHistoryVars, ResponsesKept
<1>18. ASSUME NEW x \in Workers, SendRaises(x) PROVE ResponsesKept'
  BY <1>18, ServerKeeps DEF SendRaises, countVars, msgHistoryVars, ResponsesKept
<1>19. ASSUME NEW x \in Workers, WaitRecovery(x) PROVE ResponsesKept'
  BY <1>19, ServerKeeps DEF WaitRecovery, countVars, msgHistoryVars, ResponsesKept
<1>20. ASSUME UNCHANGED msgVars PROVE ResponsesKept'
  BY <1>20, ServerKeeps DEF msgVars, countVars, msgHistoryVars, ResponsesKept
<1>21. QED
  BY <1>1, <1>2, <1>3, <1>4, <1>5, <1>6, <1>7, <1>8, <1>9, <1>10, <1>11, <1>12, <1>13,
     <1>14, <1>15, <1>16, <1>17, <1>18, <1>19, <1>20 DEF MsgNext, Link, Reader, MsgWorker

(* Without a race a reader reads for itself, and whole messages. *)
LEMMA ReadsOwn ==
  ASSUME MsgShape, NumbersInv, HandInv, BufferInv, NEW g \in Gens, ~raced',
         ReadFirst(g) \/ ReadRest(g)
  PROVE  /\ g = gen /\ rpc[g] = "idle" /\ toAgent # <<>> /\ ~recovering
         /\ ~garbled'
         /\ \/ /\ Hands(g, Head(toAgent), "check") /\ toAgent' = Tail(toAgent) /\ half' = 0
               /\ temp' = [st |-> "whole", by |-> g]
            \/ /\ UNCHANGED <<inHand, rpc, toAgent>> /\ half' = g
               /\ temp' = [st |-> "part", by |-> g]
         /\ UNCHANGED <<poolVars, linkVars, toServer, countVars, workerVars, serverVars, executed>>
<1>0. ~recovering
  BY Zenon DEF ReadFirst, ReadRest, ReaderUnchanged
<1>1. UNCHANGED <<poolVars, linkVars, toServer, countVars, workerVars, serverVars, executed>>
  BY Zenon DEF ReadFirst, ReadRest, ReaderUnchanged
<1>2. g # 0 /\ gen \in Gens /\ ~garbled
  BY DEF Gens, NumbersInv, BufferInv
<1>3. CASE ReadFirst(g)
  <2>1. g = gen /\ rpc[g] = "idle" /\ half = 0 /\ toAgent # <<>>
    BY <1>3 DEF ReadFirst
  <2>3. temp.st # "part" /\ temp.st # "whole"
    BY <1>0, <2>1 DEF BufferInv
  <2>4. \/ /\ Hands(g, Head(toAgent), "check")
           /\ temp' = [st |-> "whole", by |-> g]
           /\ toAgent' = Tail(toAgent)
           /\ half' = half /\ garbled' = garbled
        \/ /\ temp' = [st |-> "part", by |-> g] /\ half' = g
           /\ inHand' = inHand /\ rpc' = rpc /\ toAgent' = toAgent /\ garbled' = garbled
    BY <1>3, <2>3, Zenon DEF ReadFirst
  <2>5. ~garbled'
    BY <1>2, <2>4, Zenon
  <2>6. QED
    BY <1>0, <1>1, <2>1, <2>4, <2>5
<1>4. CASE ReadRest(g)
  <2>1. half = g /\ g = gen /\ rpc[g] = "idle" /\ toAgent # <<>>
    BY <1>2, <1>4 DEF ReadRest, HandInv
  <2>2. temp = [st |-> "part", by |-> g]
    BY <1>0, <1>2, <2>1 DEF BufferInv
  <2>3. /\ Hands(g, Head(toAgent), "check") /\ garbled' = garbled
        /\ temp' = [st |-> "whole", by |-> g]
        /\ toAgent' = Tail(toAgent) /\ half' = 0
    BY <1>4, <2>2, Zenon DEF ReadRest
  <2>4. ~garbled'
    BY <1>2, <2>3, Zenon
  <2>5. QED
    BY <1>0, <1>1, <2>1, <2>3, <2>4
<1>5. QED
  BY <1>3, <1>4

(* The buffer and who reads. *)
LEMMA BufferStep ==
  ASSUME MsgShape, NumbersInv, HandInv, BufferInv, ~raced', [MsgNext]_msgVars
  PROVE  BufferInv'
<1>1. ASSUME ServerRequests PROVE BufferInv'
  BY <1>1 DEF ServerRequests, bufferVars, readerVars, linkVars, msgHistoryVars, BufferInv
<1>2. ASSUME ServerReads PROVE BufferInv'
  BY <1>2 DEF ServerReads, bufferVars, readerVars, linkVars, msgHistoryVars, BufferInv
<1>3. ASSUME Lose PROVE BufferInv'
  BY <1>3 DEF Lose, bufferVars, readerVars, linkVars, msgHistoryVars, BufferInv
<1>4. ASSUME Notice PROVE BufferInv'
  BY <1>4 DEF Notice, bufferVars, readerVars, linkVars, msgHistoryVars, BufferInv
<1>5. ASSUME Reopen PROVE BufferInv'
  <2>1. recovering /\ gen \in Gens /\ gen + 1 \in Gens
    BY <1>5, NextCount DEF Reopen, NumbersInv
  <2>2. half = 0 /\ ~garbled /\ \A h \in Gens : rpc[h] = "idle"
    BY <2>1 DEF BufferInv
  <2>3. /\ rpc' = rpc /\ half' = half /\ gen' = gen + 1 /\ garbled' = garbled
        /\ temp' = temp /\ recovering' = recovering
    BY <1>5 DEF Reopen, readerVars, bufferVars, msgHistoryVars
  <2>4. recovering' /\ ~garbled' /\ temp.st # "whole"
    BY <2>1, <2>2, <2>3 DEF BufferInv
  <2>5. QED
    BY <2>1, <2>2, <2>3, <2>4 DEF BufferInv
<1>6. ASSUME OnRecovery PROVE BufferInv'
  <2>1. half = 0 /\ ~garbled /\ \A h \in Gens : rpc[h] = "idle"
    BY <1>6 DEF OnRecovery, BufferInv
  <2>2. /\ rpc' = rpc /\ half' = half /\ gen' = gen /\ garbled' = garbled /\ gen \in Gens
        /\ temp' = [st |-> "empty", by |-> 0] /\ link' = link /\ toAgent' = toAgent /\ link = "up"
    BY <1>6 DEF OnRecovery, readerVars, msgHistoryVars, Empty, NumbersInv
  <2>3. ~recovering' /\ ~garbled'
    BY <1>6, <2>1, <2>2, Zenon DEF OnRecovery
  <2>4. QED
    BY <2>1, <2>2, <2>3 DEF BufferInv
<1>7. ASSUME NEW g \in Gens, ReadFirst(g) PROVE BufferInv'
  <2>1. /\ g = gen /\ rpc[g] = "idle" /\ toAgent # <<>> /\ ~recovering /\ ~garbled'
        /\ \/ /\ Hands(g, Head(toAgent), "check") /\ half' = 0
              /\ temp' = [st |-> "whole", by |-> g]
           \/ UNCHANGED <<inHand, rpc, toAgent>> /\ half' = g /\ temp' = [st |-> "part", by |-> g]
        /\ link' = link /\ gen' = gen /\ recovering' = recovering
    BY <1>7, ReadsOwn DEF linkVars
  <2>2. \A h \in Gens \ {g} : rpc'[h] = rpc[h]
    BY <2>1 DEF Hands, MsgShape
  <2>3. g # 0 /\ (half' = 0 => rpc'[g] = "check") /\ (half' # 0 => rpc'[g] = "idle")
    <3>1. g # 0
      BY DEF Gens
    <3>2. QED
      BY <2>1, <3>1 DEF Hands, MsgShape
  <2>4. ~recovering'
    BY <2>1, Zenon
  <2>5. QED
    BY <2>1, <2>2, <2>3, <2>4 DEF BufferInv
<1>8. ASSUME NEW g \in Gens, ReadRest(g) PROVE BufferInv'
  <2>1. /\ g = gen /\ rpc[g] = "idle" /\ toAgent # <<>> /\ ~recovering /\ ~garbled'
        /\ \/ /\ Hands(g, Head(toAgent), "check") /\ half' = 0
              /\ temp' = [st |-> "whole", by |-> g]
           \/ UNCHANGED <<inHand, rpc, toAgent>> /\ half' = g /\ temp' = [st |-> "part", by |-> g]
        /\ link' = link /\ gen' = gen /\ recovering' = recovering
    BY <1>8, ReadsOwn DEF linkVars
  <2>2. \A h \in Gens \ {g} : rpc'[h] = rpc[h]
    BY <2>1 DEF Hands, MsgShape
  <2>3. g # 0 /\ (half' = 0 => rpc'[g] = "check") /\ (half' # 0 => rpc'[g] = "idle")
    <3>1. g # 0
      BY DEF Gens
    <3>2. QED
      BY <2>1, <3>1 DEF Hands, MsgShape
  <2>4. ~recovering'
    BY <2>1, Zenon
  <2>5. QED
    BY <2>1, <2>2, <2>3, <2>4 DEF BufferInv
<1>9. ASSUME NEW g \in Gens, Check(g) PROVE BufferInv'
  <2>1. /\ rpc[g] # "idle" /\ rpc'[g] # "idle"
        /\ \A h \in Gens \ {g} : rpc'[h] = rpc[h]
    BY <1>9 DEF Check, Rpc, Afterwards, MsgShape
  <2>2. g = gen /\ ~recovering /\ half = 0 /\ temp.st = "whole"
    BY <2>1 DEF BufferInv, HandInv
  <2>3. /\ gen' = gen /\ temp' = temp /\ half' = half /\ recovering' = recovering /\ garbled' = garbled
    BY <1>9 DEF Check, linkVars, bufferVars, msgHistoryVars
  <2>4. ~recovering' /\ ~garbled'
    BY <2>2, <2>3, Zenon DEF BufferInv
  <2>5. QED
    BY <2>1, <2>2, <2>3, <2>4 DEF BufferInv
<1>10. ASSUME NEW g \in Gens, PutSkip(g) PROVE BufferInv'
  BY <1>10 DEF PutSkip, Rpc, Afterwards, bufferVars, readerVars, linkVars, msgHistoryVars,
     BufferInv
<1>11. ASSUME NEW g \in Gens, PutFire(g) PROVE BufferInv'
  <2>1. /\ rpc[g] # "idle" /\ rpc'[g] = "idle" /\ temp' = [st |-> "empty", by |-> 0]
        /\ \A h \in Gens \ {g} : rpc'[h] = rpc[h]
    BY <1>11 DEF PutFire, Cleared, Hands, MsgShape, Empty
  <2>2. g = gen /\ ~recovering /\ half = 0
    BY <2>1 DEF BufferInv, HandInv
  <2>3. \A h \in Gens : rpc'[h] = "idle"
    BY <2>1, <2>2 DEF BufferInv
  <2>4. /\ gen' = gen /\ half' = half /\ recovering' = recovering /\ garbled' = garbled
    BY <1>11 DEF PutFire, linkVars, msgHistoryVars
  <2>5. ~recovering' /\ ~garbled'
    BY <2>2, <2>4, Zenon DEF BufferInv
  <2>6. QED
    BY <2>1, <2>2, <2>3, <2>4, <2>5 DEF BufferInv
<1>12. ASSUME NEW g \in Gens, Purge(g) PROVE BufferInv'
  BY <1>12 DEF Purge, Rpc, bufferVars, readerVars, linkVars, msgHistoryVars, BufferInv
<1>13. ASSUME NEW g \in Gens, PutResend(g) PROVE BufferInv'
  BY <1>13 DEF PutResend, Rpc, bufferVars, readerVars, linkVars, msgHistoryVars, BufferInv
<1>14. ASSUME NEW g \in Gens, PutReply(g) PROVE BufferInv'
  <2>1. /\ rpc[g] # "idle" /\ rpc'[g] = "idle" /\ temp' = [st |-> "empty", by |-> 0]
        /\ \A h \in Gens \ {g} : rpc'[h] = rpc[h]
    BY <1>14 DEF PutReply, Cleared, Hands, MsgShape, Empty
  <2>2. g = gen /\ ~recovering /\ half = 0
    BY <2>1 DEF BufferInv, HandInv
  <2>3. \A h \in Gens : rpc'[h] = "idle"
    BY <2>1, <2>2 DEF BufferInv
  <2>4. /\ gen' = gen /\ half' = half /\ recovering' = recovering /\ garbled' = garbled
    BY <1>14 DEF PutReply, linkVars, msgHistoryVars
  <2>5. ~recovering' /\ ~garbled'
    BY <2>2, <2>4, Zenon DEF BufferInv
  <2>6. QED
    BY <2>1, <2>2, <2>3, <2>4, <2>5 DEF BufferInv
<1>15. ASSUME NEW x \in Workers, TakeMsgTask(x) PROVE BufferInv'
  BY <1>15 DEF TakeMsgTask, bufferVars, readerVars, linkVars, msgHistoryVars, BufferInv
<1>16. ASSUME NEW x \in Workers, Begin(x) PROVE BufferInv'
  BY <1>16 DEF Begin, bufferVars, readerVars, linkVars, msgHistoryVars, BufferInv
<1>17. ASSUME NEW x \in Workers, Send(x) PROVE BufferInv'
  BY <1>17 DEF Send, bufferVars, readerVars, linkVars, msgHistoryVars, BufferInv
<1>18. ASSUME NEW x \in Workers, SendRaises(x) PROVE BufferInv'
  BY <1>18 DEF SendRaises, bufferVars, readerVars, linkVars, msgHistoryVars, BufferInv
<1>19. ASSUME NEW x \in Workers, WaitRecovery(x) PROVE BufferInv'
  BY <1>19 DEF WaitRecovery, bufferVars, readerVars, linkVars, msgHistoryVars, BufferInv
<1>20. ASSUME UNCHANGED msgVars PROVE BufferInv'
  BY <1>20 DEF msgVars, bufferVars, readerVars, linkVars, msgHistoryVars, BufferInv
<1>21. QED
  BY <1>1, <1>2, <1>3, <1>4, <1>5, <1>6, <1>7, <1>8, <1>9, <1>10, <1>11, <1>12, <1>13,
     <1>14, <1>15, <1>16, <1>17, <1>18, <1>19, <1>20 DEF MsgNext, Link, Reader, MsgWorker

(* The order of the numbers. *)
LEMMA Numbered == \A m \in DownMsgs : m.n \in Nat
BY CountsAre DEF DownMsgs

LEMMA AscendsLonger ==
  ASSUME NEW s \in Seq(DownMsgs), NEW lo \in Nat, NEW hi \in Nat, lo <= hi, Ascends(s, lo,
         hi),
         NEW m \in DownMsgs, m.n = hi + 1
  PROVE  Ascends(Append(s, m), lo, hi + 1)
<1>0. \A i \in 1..Len(s) : s[i] \in DownMsgs
  BY ElementOfSeq
<1>1. \A i \in 1..Len(s) : s[i].n \in Nat
  BY <1>0, Numbered
<1>2. \A i \in 1..Len(Append(s, m)) :
        (i \in 1..Len(s) /\ Append(s, m)[i] = s[i]) \/ (i = Len(s) + 1 /\ Append(s, m)[i] = m)
  BY Appended
<1>3. Len(s) \in Nat
  BY LenProperties
<1> DEFINE z == Append(s, m)
<1>4. ASSUME NEW i \in 1..Len(z)
      PROVE  lo < z[i].n /\ z[i].n <= hi + 1
  <2>1. CASE i \in 1..Len(s) /\ z[i] = s[i]
    BY <1>1, <2>1 DEF Ascends
  <2>2. CASE i = Len(s) + 1 /\ z[i] = m
    BY <2>2
  <2>3. QED
    BY <1>2, <1>4, <2>1, <2>2
<1>5. ASSUME NEW i \in 1..Len(z), NEW j \in 1..Len(z), i < j
      PROVE  z[i].n < z[j].n
  <2>1. i \in 1..Len(s) /\ z[i] = s[i]
    BY <1>2, <1>3, <1>5
  <2>2. CASE j \in 1..Len(s) /\ z[j] = s[j]
    BY <1>5, <2>1, <2>2 DEF Ascends
  <2>3. CASE j = Len(s) + 1 /\ z[j] = m
    BY <1>1, <2>1, <2>3 DEF Ascends
  <2>4. QED
    BY <1>2, <1>5, <2>2, <2>3
<1>6. QED
  BY <1>4, <1>5 DEF Ascends

LEMMA AscendsOn ==
  ASSUME NEW s \in Seq(DownMsgs), s # <<>>, NEW lo, NEW hi, Ascends(s, lo, hi)
  PROVE  /\ Ascends(Tail(s), Head(s).n, hi)
         /\ lo < Head(s).n /\ Head(s).n <= hi /\ Head(s) \in DownMsgs /\ Head(s).n \in Nat
BY Shortened, Numbered DEF Ascends

LEMMA AscendsCut ==
  ASSUME NEW s \in Seq(DownMsgs), NEW k \in 0..Len(s), NEW lo, NEW hi, Ascends(s, lo, hi)
  PROVE  Ascends(SubSeq(s, 1, k), lo, hi)
BY Cut DEF Ascends

LEMMA AscendsWider ==
  ASSUME NEW s \in Seq(DownMsgs), NEW lo \in Nat, NEW hi \in Nat, Ascends(s, lo, hi)
  PROVE  Ascends(s, lo, hi + 1)
<1>0. \A i \in 1..Len(s) : s[i] \in DownMsgs
  BY ElementOfSeq
<1>1. \A i \in 1..Len(s) : s[i].n \in Nat
  BY <1>0, Numbered
<1>2. QED
  BY <1>1 DEF Ascends

LEMMA FloorIs ==
  ASSUME MsgShape, NumbersInv, HandInv
  PROVE  /\ Floor \in Nat /\ lastreqcnt \in Nat /\ sent \in Nat /\ gen \in Gens
         /\ Unchecked => inHand[gen].n \in Nat
<1>1. lastreqcnt \in Nat /\ sent \in Nat /\ gen \in Gens
  BY CountsAre, NextCount DEF MsgShape, NumbersInv
<1>2. Unchecked => inHand[gen].n \in Nat
  BY <1>1, CountsAre DEF Unchecked, HandInv, DownMsgs
<1>3. QED
  BY <1>1, <1>2 DEF Floor

(* The messages come in order. *)
LEMMA OrderStep ==
  ASSUME MsgShape, NumbersInv, HandInv, BufferInv, OrderInv, ~raced', [MsgNext]_msgVars
  PROVE  OrderInv'
<1>1. ASSUME ServerRequests PROVE OrderInv'
  <2>0. Floor' = Floor /\ lastreqcnt' = lastreqcnt /\ gen' = gen /\ rpc' = rpc /\ inHand' = inHand
    BY <1>1 DEF ServerRequests, linkVars, readerVars, countVars, Floor, Unchecked
  <2>1. sent' = sent + 1 /\ sent + 1 \in Counts
    BY <1>1, NextCount DEF ServerRequests
  <2>2. [kind |-> "request", n |-> sent + 1, got |-> 0] \in DownMsgs
    BY <2>1 DEF DownMsgs
  <2>3. Ascends(toAgent', Floor, sent + 1)
    <3>1. toAgent \in Seq(DownMsgs) /\ Ascends(toAgent, Floor, sent) /\ Floor <= sent
      BY DEF MsgShape, OrderInv
    <3>2. Ascends(Append(toAgent, [kind |-> "request", n |-> sent + 1, got |-> 0]), Floor, sent + 1)
      BY <2>2, <3>1, FloorIs, AscendsLonger
    <3>3. Ascends(toAgent, Floor, sent + 1)
      BY <3>1, FloorIs, AscendsWider
    <3>4. QED
      BY <1>1, <3>2, <3>3 DEF ServerRequests
  <2>4. Floor' <= sent'
    BY <2>0, <2>1, FloorIs DEF OrderInv
  <2>5. QED
    BY <2>0, <2>1, <2>3, <2>4 DEF OrderInv, Unchecked
<1>2. ASSUME ServerReads PROVE OrderInv'
  BY <1>2 DEF ServerReads, linkVars, readerVars, countVars, serverVars, OrderInv, Floor,
     Unchecked
<1>3. ASSUME Lose PROVE OrderInv'
  <2>0. Floor' = Floor /\ lastreqcnt' = lastreqcnt /\ gen' = gen /\ rpc' = rpc /\ inHand' = inHand
    BY <1>3 DEF Lose, linkVars, readerVars, countVars, Floor, Unchecked
  <2>1. sent' = sent
    BY <1>3 DEF Lose, serverVars
  <2>2. Ascends(toAgent', Floor, sent)
    BY <1>3, AscendsCut DEF Lose, MsgShape, OrderInv
  <2>3. QED
    BY <2>0, <2>1, <2>2 DEF OrderInv, Unchecked
<1>4. ASSUME Notice PROVE OrderInv'
  <2>0. Floor' = Floor /\ lastreqcnt' = lastreqcnt /\ gen' = gen /\ rpc' = rpc /\ inHand' = inHand
    BY <1>4 DEF Notice, linkVars, readerVars, countVars, Floor, Unchecked
  <2>1. sent' = sent /\ toAgent' = <<>>
    BY <1>4 DEF Notice, serverVars
  <2>2. Ascends(toAgent', Floor, sent)
    BY <2>1, EmptyIs DEF Ascends
  <2>3. QED
    BY <2>0, <2>1, <2>2 DEF OrderInv, Unchecked
<1>5. ASSUME Reopen PROVE OrderInv'
  <2>1. recovering /\ gen \in Gens /\ gen + 1 \in Gens /\ sent \in Nat
    BY <1>5, NextCount DEF Reopen, NumbersInv
  <2>2. \A h \in Gens : rpc[h] = "idle"
    BY <2>1 DEF BufferInv
  <2>3. /\ rpc' = rpc /\ gen' = gen + 1 /\ sent' = sent + 1 /\ lastreqcnt' = lastreqcnt
        /\ Len(toAgent') = 1 /\ toAgent'[1].n = sent + 1
    BY <1>5 DEF Reopen, readerVars, countVars
  <2>4. Floor = lastreqcnt /\ Floor' = lastreqcnt /\ ~Unchecked' /\ rpc'[gen'] = "idle"
    BY <2>1, <2>2, <2>3 DEF Floor, Unchecked
  <2>5. lastreqcnt <= sent /\ lastreqcnt \in Nat
    BY <2>4, FloorIs DEF OrderInv
  <2>6. Ascends(toAgent', lastreqcnt, sent + 1)
    BY <2>1, <2>3, <2>5 DEF Ascends
  <2>7. QED
    BY <2>1, <2>3, <2>4, <2>5, <2>6 DEF OrderInv
<1>6. ASSUME OnRecovery PROVE OrderInv'
  BY <1>6 DEF OnRecovery, linkVars, readerVars, countVars, serverVars, OrderInv, Floor,
     Unchecked
<1>7. ASSUME NEW g \in Gens, ReadFirst(g) PROVE OrderInv'
  <2>1. /\ g = gen /\ rpc[g] = "idle" /\ toAgent # <<>>
        /\ \/ Hands(g, Head(toAgent), "check") /\ toAgent' = Tail(toAgent)
           \/ UNCHANGED <<inHand, rpc, toAgent>>
        /\ lastreqcnt' = lastreqcnt /\ gen' = gen /\ sent' = sent
    BY <1>7, ReadsOwn DEF linkVars, countVars, serverVars
  <2>2. CASE UNCHANGED <<inHand, rpc, toAgent>>
    BY <2>1, <2>2 DEF OrderInv, Floor, Unchecked
  <2>3. CASE Hands(g, Head(toAgent), "check") /\ toAgent' = Tail(toAgent)
    <3>1. /\ rpc'[gen'] = "check" /\ inHand'[gen'] = Head(toAgent)
      BY <2>1, <2>3 DEF Hands, MsgShape
    <3>2. Floor = lastreqcnt /\ Floor' = Head(toAgent).n /\ Unchecked'
      BY <2>1, <3>1 DEF Floor, Unchecked
    <3>3. /\ Ascends(Tail(toAgent), Head(toAgent).n, sent) /\ lastreqcnt < Head(toAgent).n
          /\ Head(toAgent).n <= sent /\ Head(toAgent).n \in Nat
      BY <2>1, <3>2, AscendsOn DEF OrderInv, MsgShape
    <3>4. QED
      BY <2>1, <2>3, <3>1, <3>2, <3>3, FloorIs DEF OrderInv
  <2>4. QED
    BY <2>1, <2>2, <2>3
<1>8. ASSUME NEW g \in Gens, ReadRest(g) PROVE OrderInv'
  <2>1. /\ g = gen /\ rpc[g] = "idle" /\ toAgent # <<>>
        /\ \/ Hands(g, Head(toAgent), "check") /\ toAgent' = Tail(toAgent)
           \/ UNCHANGED <<inHand, rpc, toAgent>>
        /\ lastreqcnt' = lastreqcnt /\ gen' = gen /\ sent' = sent
    BY <1>8, ReadsOwn DEF linkVars, countVars, serverVars
  <2>2. CASE UNCHANGED <<inHand, rpc, toAgent>>
    BY <2>1, <2>2 DEF OrderInv, Floor, Unchecked
  <2>3. CASE Hands(g, Head(toAgent), "check") /\ toAgent' = Tail(toAgent)
    <3>1. /\ rpc'[gen'] = "check" /\ inHand'[gen'] = Head(toAgent)
      BY <2>1, <2>3 DEF Hands, MsgShape
    <3>2. Floor = lastreqcnt /\ Floor' = Head(toAgent).n /\ Unchecked'
      BY <2>1, <3>1 DEF Floor, Unchecked
    <3>3. /\ Ascends(Tail(toAgent), Head(toAgent).n, sent) /\ lastreqcnt < Head(toAgent).n
          /\ Head(toAgent).n <= sent /\ Head(toAgent).n \in Nat
      BY <2>1, <3>2, AscendsOn DEF OrderInv, MsgShape
    <3>4. QED
      BY <2>1, <2>3, <3>1, <3>2, <3>3, FloorIs DEF OrderInv
  <2>4. QED
    BY <2>1, <2>2, <2>3
<1>9. ASSUME NEW g \in Gens, Check(g) PROVE OrderInv'
  <2>1. g = gen /\ Unchecked /\ Floor = inHand[gen].n /\ gen \in Gens
    BY <1>9 DEF Check, BufferInv, Unchecked, Floor, NumbersInv
  <2>2. toAgent' = toAgent /\ sent' = sent /\ gen' = gen /\ inHand' = inHand
    BY <1>9 DEF Check, serverVars, linkVars
  <2>3. \/ rpc'[gen] = "skip" /\ lastreqcnt' = lastreqcnt
        \/ rpc'[gen] \in {"fire", "purge"} /\ lastreqcnt' = inHand[gen].n
    BY <1>9, <2>1 DEF Check, Rpc, Afterwards, MsgShape
  <2>4. Floor' = Floor
    BY <2>1, <2>2, <2>3 DEF Floor, Unchecked
  <2>5. QED
    BY <2>1, <2>2, <2>3, <2>4, FloorIs DEF OrderInv, Unchecked
<1>10. ASSUME NEW g \in Gens, PutSkip(g) PROVE OrderInv'
  <2>1. g = gen /\ Unchecked /\ Floor = inHand[gen].n /\ gen \in Gens
    BY <1>10 DEF PutSkip, BufferInv, Unchecked, Floor, NumbersInv
  <2>2. toAgent' = toAgent /\ sent' = sent /\ gen' = gen /\ inHand' = inHand
    BY <1>10 DEF PutSkip, serverVars, linkVars
  <2>3. rpc'[gen] \in {"fire", "purge"} /\ lastreqcnt' = inHand[gen].n
    BY <1>10, <2>1 DEF PutSkip, Rpc, Afterwards, MsgShape
  <2>4. Floor' = Floor
    BY <2>1, <2>2, <2>3 DEF Floor, Unchecked
  <2>5. QED
    BY <2>1, <2>2, <2>3, <2>4, FloorIs DEF OrderInv, Unchecked
<1>11. ASSUME NEW g \in Gens, PutFire(g) PROVE OrderInv'
  <2>1. g = gen /\ ~Unchecked /\ rpc[gen] # "idle" /\ gen \in Gens
    BY <1>11 DEF PutFire, BufferInv, Unchecked, NumbersInv
  <2>2. /\ toAgent' = toAgent /\ sent' = sent /\ gen' = gen /\ lastreqcnt' = lastreqcnt
        /\ rpc'[gen] = "idle"
    BY <1>11, <2>1 DEF PutFire, Cleared, Hands, serverVars, linkVars, countVars, MsgShape
  <2>3. Floor = lastreqcnt /\ Floor' = lastreqcnt /\ ~Unchecked'
    BY <2>1, <2>2 DEF Floor, Unchecked
  <2>4. QED
    BY <2>1, <2>2, <2>3 DEF OrderInv
<1>12. ASSUME NEW g \in Gens, Purge(g) PROVE OrderInv'
  <2>1. g = gen /\ ~Unchecked /\ rpc[gen] # "idle" /\ gen \in Gens
    BY <1>12 DEF Purge, BufferInv, Unchecked, NumbersInv
  <2>2. /\ toAgent' = toAgent /\ sent' = sent /\ gen' = gen /\ lastreqcnt' = lastreqcnt
        /\ rpc'[gen] = "resend" /\ inHand' = inHand
    BY <1>12, <2>1 DEF Purge, Rpc, serverVars, linkVars, countVars, MsgShape
  <2>3. Floor = lastreqcnt /\ Floor' = lastreqcnt /\ ~Unchecked'
    BY <2>1, <2>2 DEF Floor, Unchecked
  <2>4. QED
    BY <2>1, <2>2, <2>3 DEF OrderInv
<1>13. ASSUME NEW g \in Gens, PutResend(g) PROVE OrderInv'
  <2>1. g = gen /\ ~Unchecked /\ rpc[gen] # "idle" /\ gen \in Gens
    BY <1>13 DEF PutResend, BufferInv, Unchecked, NumbersInv
  <2>2. /\ toAgent' = toAgent /\ sent' = sent /\ gen' = gen /\ lastreqcnt' = lastreqcnt
        /\ rpc'[gen] = "reply" /\ inHand' = inHand
    BY <1>13, <2>1 DEF PutResend, Rpc, serverVars, linkVars, countVars, MsgShape
  <2>3. Floor = lastreqcnt /\ Floor' = lastreqcnt /\ ~Unchecked'
    BY <2>1, <2>2 DEF Floor, Unchecked
  <2>4. QED
    BY <2>1, <2>2, <2>3 DEF OrderInv
<1>14. ASSUME NEW g \in Gens, PutReply(g) PROVE OrderInv'
  <2>1. g = gen /\ ~Unchecked /\ rpc[gen] # "idle" /\ gen \in Gens
    BY <1>14 DEF PutReply, BufferInv, Unchecked, NumbersInv
  <2>2. /\ toAgent' = toAgent /\ sent' = sent /\ gen' = gen /\ lastreqcnt' = lastreqcnt
        /\ rpc'[gen] = "idle"
    BY <1>14, <2>1 DEF PutReply, Cleared, Hands, serverVars, linkVars, countVars, MsgShape
  <2>3. Floor = lastreqcnt /\ Floor' = lastreqcnt /\ ~Unchecked'
    BY <2>1, <2>2 DEF Floor, Unchecked
  <2>4. QED
    BY <2>1, <2>2, <2>3 DEF OrderInv
<1>15. ASSUME NEW x \in Workers, TakeMsgTask(x) PROVE OrderInv'
  BY <1>15 DEF TakeMsgTask, linkVars, readerVars, countVars, serverVars, OrderInv, Floor,
     Unchecked
<1>16. ASSUME NEW x \in Workers, Begin(x) PROVE OrderInv'
  BY <1>16 DEF Begin, linkVars, readerVars, countVars, serverVars, OrderInv, Floor,
     Unchecked
<1>17. ASSUME NEW x \in Workers, Send(x) PROVE OrderInv'
  BY <1>17 DEF Send, linkVars, readerVars, countVars, serverVars, OrderInv, Floor, Unchecked
<1>18. ASSUME NEW x \in Workers, SendRaises(x) PROVE OrderInv'
  BY <1>18 DEF SendRaises, linkVars, readerVars, countVars, serverVars, OrderInv, Floor,
     Unchecked
<1>19. ASSUME NEW x \in Workers, WaitRecovery(x) PROVE OrderInv'
  BY <1>19 DEF WaitRecovery, linkVars, readerVars, countVars, serverVars, OrderInv, Floor,
     Unchecked
<1>20. ASSUME UNCHANGED msgVars PROVE OrderInv'
  BY <1>20 DEF msgVars, linkVars, readerVars, countVars, serverVars, OrderInv, Floor,
     Unchecked
<1>21. QED
  BY <1>1, <1>2, <1>3, <1>4, <1>5, <1>6, <1>7, <1>8, <1>9, <1>10, <1>11, <1>12, <1>13,
     <1>14, <1>15, <1>16, <1>17, <1>18, <1>19, <1>20 DEF MsgNext, Link, Reader, MsgWorker

(* What is fired, and what is skipped, while the pool, a task or a worker   *)
(* changes.                                                                 *)
FiresNow(n) == \E g \in Gens : PutFire(g) /\ n = inHand[g].n
FiredGrows == \A n \in Counts : Fired(n)' => Fired(n) \/ FiresNow(n)

LEMMA FiredOn ==
  ASSUME MsgShape, FiredInv, UNCHANGED <<queue, busy>>, executed' = executed,
         lastreqcnt' \in Nat, lastreqcnt <= lastreqcnt',
         \A x \in Workers : stage'[x] = "start" => stage[x] = "start"
  PROVE  FiredInv' /\ FiredGrows
<1>1. ASSUME NEW t PROVE /\ Waiting(t)' <=> Waiting(t)
                         /\ Held(t)' <=> Held(t)
                         /\ Once(t)' <=> Once(t)
  BY DEF Held, Running, Waiting, Once, Alone
<1>2. \A n : Fired(n)' <=> Fired(n)
  BY <1>1 DEF Fired
<1>3. lastreqcnt \in Nat /\ Counts \subseteq Nat
  BY CountsAre DEF MsgShape
<1>4. ASSUME NEW n \in Counts PROVE FiredOf(n)'
  <2>1. FiredOf(n)
    BY DEF FiredInv
  <2>2. Fired(n)' => n <= lastreqcnt'
    BY <1>2, <1>3, <2>1 DEF FiredOf
  <2>3. QED
    BY <1>1, <2>1, <2>2 DEF FiredOf
<1>5. QED
  BY <1>2, <1>4 DEF FiredInv, FiredGrows

LEMMA FiredQueued ==
  ASSUME MsgShape, PoolSafe, FiredInv, executed' = executed, stage' = stage,
         lastreqcnt' \in Nat, lastreqcnt <= lastreqcnt',
         NEW t, TaskOK(t), Execute(t),
         \A n \in Counts : t = FireTask(n) => ~Fired(n) /\ n <= lastreqcnt' /\ FiresNow(n)
  PROVE  FiredInv' /\ FiredGrows
<1>1. /\ busy' = busy
      /\ \A u : /\ Waiting(u)' => Waiting(u) \/ u = t
                /\ Held(u)' => Held(u) \/ u = t
                /\ Once(u) /\ (u = t => ~Held(t)) => Once(u)'
  BY TasksAreOK, ExecuteQueues DEF PoolSafe
<1>2. \A n \in Counts : Fired(n)' => Fired(n) \/ t = FireTask(n)
  BY <1>1 DEF Fired
<1>3. lastreqcnt \in Nat /\ Counts \subseteq Nat
  BY CountsAre DEF MsgShape
<1>4. ASSUME NEW n \in Counts PROVE FiredOf(n)'
  <2>1. FiredOf(n)
    BY DEF FiredInv
  <2>2. Fired(n)' => n <= lastreqcnt'
    BY <1>2, <1>3, <2>1 DEF FiredOf
  <2>3. Once(FireTask(n))'
    BY <1>1, <2>1 DEF FiredOf, Fired
  <2>4. executed'[n] > 0 => ~Waiting(FireTask(n))'
    BY <1>1, <2>1 DEF FiredOf, Fired
  <2>5. QED
    BY <1>1, <2>1, <2>2, <2>3, <2>4 DEF FiredOf
<1>5. QED
  BY <1>2, <1>4 DEF FiredInv, FiredGrows

LEMMA FireTaskIs ==
  ASSUME NEW t, TaskOK(t), t.kind = "fire"
  PROVE  \E n \in Counts : t = FireTask(n) /\ t.ns = {n}
BY DEF TaskOK, FireTask

LEMMA CountGrows ==
  ASSUME MsgShape, NumbersInv, HandInv, BufferInv, OrderInv, NEW g \in Gens, Reader(g)
  PROVE  lastreqcnt' \in Nat /\ lastreqcnt <= lastreqcnt'
<1>1. lastreqcnt \in Nat
  BY FloorIs
<1>2. CASE Check(g) \/ PutSkip(g)
  <2>1. g = gen /\ Unchecked
    BY <1>2 DEF Check, PutSkip, BufferInv, Unchecked
  <2>2. inHand[g].n \in Nat /\ lastreqcnt < inHand[g].n
    BY <2>1, FloorIs DEF OrderInv
  <2>3. lastreqcnt' \in {lastreqcnt, inHand[g].n}
    BY <1>2 DEF Check, PutSkip
  <2>4. QED
    BY <1>1, <2>2, <2>3
<1>3. CASE lastreqcnt' = lastreqcnt
  BY <1>1, <1>3
<1>4. QED
  BY <1>2, <1>3 DEF Reader, ReadFirst, ReadRest, ReaderUnchanged, PutFire, Purge, PutResend,
     PutReply, countVars

LEMMA GapIs ==
  ASSUME MsgShape, HandInv, NEW g \in Gens, rpc[g] = "skip"
  PROVE  TaskOK(SendTask("skip", Gap(inHand[g].n)))
<1>1. lastreqcnt + 1 < inHand[g].n /\ inHand[g].n \in Counts /\ lastreqcnt \in {0} \cup Counts
  BY DEF HandInv, MsgShape, DownMsgs
<1>2. /\ lastreqcnt + 1 \in Counts /\ inHand[g].n - 1 \in Counts
      /\ lastreqcnt + 1 <= inHand[g].n - 1
  BY <1>1, CountsAre
<1>3. QED
  BY <1>2, TasksAreOK DEF Gap

(* A request is put on the queue once, and begun once. *)
LEMMA FiredStep ==
  ASSUME MsgShape, PoolSafe, NumbersInv, HandInv, OutInv, BufferInv, OrderInv, FiredInv,
         FreshInv, ~raced', [MsgNext]_msgVars
  PROVE  FiredInv' /\ FiredGrows
<1>1. ASSUME ServerRequests PROVE FiredInv' /\ FiredGrows
  <2>1. lastreqcnt' = lastreqcnt /\ lastreqcnt \in Nat
    BY <1>1, CountsAre DEF ServerRequests, countVars, MsgShape
  <2>2. UNCHANGED <<queue, busy>> /\ executed' = executed /\ stage' = stage
    BY <1>1 DEF ServerRequests, poolVars, workerVars, msgHistoryVars
  <2>3. QED
    BY <2>1, <2>2, FiredOn
<1>2. ASSUME ServerReads PROVE FiredInv' /\ FiredGrows
  <2>1. lastreqcnt' = lastreqcnt /\ lastreqcnt \in Nat
    BY <1>2, CountsAre DEF ServerReads, countVars, MsgShape
  <2>2. UNCHANGED <<queue, busy>> /\ executed' = executed /\ stage' = stage
    BY <1>2 DEF ServerReads, poolVars, workerVars, msgHistoryVars
  <2>3. QED
    BY <2>1, <2>2, FiredOn
<1>3. ASSUME Lose PROVE FiredInv' /\ FiredGrows
  <2>1. lastreqcnt' = lastreqcnt /\ lastreqcnt \in Nat
    BY <1>3, CountsAre DEF Lose, countVars, MsgShape
  <2>2. UNCHANGED <<queue, busy>> /\ executed' = executed /\ stage' = stage
    BY <1>3 DEF Lose, poolVars, workerVars, msgHistoryVars
  <2>3. QED
    BY <2>1, <2>2, FiredOn
<1>4. ASSUME Notice PROVE FiredInv' /\ FiredGrows
  <2>1. lastreqcnt' = lastreqcnt /\ lastreqcnt \in Nat
    BY <1>4, CountsAre DEF Notice, countVars, MsgShape
  <2>2. UNCHANGED <<queue, busy>> /\ executed' = executed /\ stage' = stage
    BY <1>4 DEF Notice, poolVars, workerVars, msgHistoryVars
  <2>3. QED
    BY <2>1, <2>2, FiredOn
<1>5. ASSUME Reopen PROVE FiredInv' /\ FiredGrows
  <2>1. lastreqcnt' = lastreqcnt /\ lastreqcnt \in Nat
    BY <1>5, CountsAre DEF Reopen, countVars, MsgShape
  <2>2. UNCHANGED <<queue, busy>> /\ executed' = executed /\ stage' = stage
    BY <1>5 DEF Reopen, poolVars, workerVars, msgHistoryVars
  <2>3. QED
    BY <2>1, <2>2, FiredOn
<1>6. ASSUME OnRecovery PROVE FiredInv' /\ FiredGrows
  <2>1. lastreqcnt' = lastreqcnt /\ lastreqcnt \in Nat
    BY <1>6, CountsAre DEF OnRecovery, countVars, MsgShape
  <2>2. UNCHANGED <<queue, busy>> /\ executed' = executed /\ stage' = stage
    BY <1>6 DEF OnRecovery, poolVars, workerVars, msgHistoryVars
  <2>3. QED
    BY <2>1, <2>2, FiredOn
<1>7. ASSUME NEW g \in Gens, ReadFirst(g) PROVE FiredInv' /\ FiredGrows
  <2>1. lastreqcnt' = lastreqcnt /\ lastreqcnt \in Nat
    BY <1>7, CountsAre DEF ReadFirst, ReaderUnchanged, countVars, MsgShape
  <2>2. UNCHANGED <<queue, busy>> /\ executed' = executed /\ stage' = stage
    BY <1>7 DEF ReadFirst, ReaderUnchanged, poolVars, workerVars, msgHistoryVars
  <2>3. QED
    BY <2>1, <2>2, FiredOn
<1>8. ASSUME NEW g \in Gens, ReadRest(g) PROVE FiredInv' /\ FiredGrows
  <2>1. lastreqcnt' = lastreqcnt /\ lastreqcnt \in Nat
    BY <1>8, CountsAre DEF ReadRest, ReaderUnchanged, countVars, MsgShape
  <2>2. UNCHANGED <<queue, busy>> /\ executed' = executed /\ stage' = stage
    BY <1>8 DEF ReadRest, ReaderUnchanged, poolVars, workerVars, msgHistoryVars
  <2>3. QED
    BY <2>1, <2>2, FiredOn
<1>9. ASSUME NEW g \in Gens, Check(g) PROVE FiredInv' /\ FiredGrows
  <2>1. lastreqcnt' \in Nat /\ lastreqcnt <= lastreqcnt'
    BY <1>9, CountGrows DEF Reader
  <2>2. UNCHANGED <<queue, busy>> /\ executed' = executed /\ stage' = stage
    BY <1>9 DEF Check, Rpc, Afterwards, poolVars, workerVars, msgHistoryVars
  <2>3. QED
    BY <2>1, <2>2, FiredOn
<1>10. ASSUME NEW g \in Gens, PutSkip(g) PROVE FiredInv' /\ FiredGrows
  <2>1. lastreqcnt' \in Nat /\ lastreqcnt <= lastreqcnt'
    BY <1>10, CountGrows DEF Reader
  <2>2. executed' = executed /\ stage' = stage
    BY <1>10 DEF PutSkip, Rpc, Afterwards, workerVars, msgHistoryVars
  <2>3. TaskOK(SendTask("skip", Gap(inHand[g].n))) /\ Execute(SendTask("skip", Gap(inHand[g].n)))
    BY <1>10, GapIs DEF PutSkip
  <2>4. QED
    BY <2>1, <2>2, <2>3, TasksAreOK, FiredQueued
<1>11. ASSUME NEW g \in Gens, PutFire(g) PROVE FiredInv' /\ FiredGrows
  <2>1. lastreqcnt' \in Nat /\ lastreqcnt <= lastreqcnt'
    BY <1>11, CountGrows DEF Reader
  <2>2. executed' = executed /\ stage' = stage
    BY <1>11 DEF PutFire, Cleared, Hands, workerVars, msgHistoryVars
  <2>3. TaskOK(FireTask(inHand[g].n)) /\ Execute(FireTask(inHand[g].n))
    BY <1>11, TasksAreOK DEF PutFire, HandInv, DownMsgs
  <2>4. lastreqcnt' = lastreqcnt /\ inHand[g].n = lastreqcnt /\ ~Fired(inHand[g].n)
    <3>1. g = gen /\ rpc[gen] = "fire" /\ inHand[g].n \in Counts
      BY <1>11 DEF PutFire, BufferInv, HandInv, DownMsgs
    <3>2. QED
      BY <1>11, <3>1 DEF PutFire, countVars, OrderInv, Unchecked, FreshInv
  <2>5. \A n \in Counts : FireTask(inHand[g].n) = FireTask(n) => n = inHand[g].n /\ FiresNow(n)
    BY <1>11, TasksAreOK DEF FiresNow
  <2>6. \A n \in Counts : FireTask(inHand[g].n) = FireTask(n) => ~Fired(n) /\ n <= lastreqcnt' /\ FiresNow(n)
    BY <2>1, <2>4, <2>5
  <2>7. QED
    BY <2>1, <2>2, <2>3, <2>6, FiredQueued
<1>12. ASSUME NEW g \in Gens, Purge(g) PROVE FiredInv' /\ FiredGrows
  <2>1. lastreqcnt' = lastreqcnt /\ lastreqcnt \in Nat
    BY <1>12, CountsAre DEF Purge, Rpc, countVars, MsgShape
  <2>2. UNCHANGED <<queue, busy>> /\ executed' = executed /\ stage' = stage
    BY <1>12 DEF Purge, Rpc, poolVars, workerVars, msgHistoryVars
  <2>3. QED
    BY <2>1, <2>2, FiredOn
<1>13. ASSUME NEW g \in Gens, PutResend(g) PROVE FiredInv' /\ FiredGrows
  <2>1. lastreqcnt' \in Nat /\ lastreqcnt <= lastreqcnt'
    BY <1>13, CountGrows DEF Reader
  <2>2. executed' = executed /\ stage' = stage
    BY <1>13 DEF PutResend, Rpc, workerVars, msgHistoryVars
  <2>3. CASE UNCHANGED poolVars
    BY <2>1, <2>2, <2>3, FiredOn DEF poolVars
  <2>4. CASE Execute(SendTask("answer", kept))
    <3>1. TaskOK(SendTask("answer", kept))
      BY TasksAreOK DEF MsgShape
    <3>2. QED
      BY <2>1, <2>2, <2>4, <3>1, TasksAreOK, FiredQueued
  <2>5. QED
    BY <1>13, <2>3, <2>4 DEF PutResend
<1>14. ASSUME NEW g \in Gens, PutReply(g) PROVE FiredInv' /\ FiredGrows
  <2>1. lastreqcnt' \in Nat /\ lastreqcnt <= lastreqcnt'
    BY <1>14, CountGrows DEF Reader
  <2>2. executed' = executed /\ stage' = stage
    BY <1>14 DEF PutReply, Cleared, Hands, workerVars, msgHistoryVars
  <2>3. TaskOK(SendTask("reply", {inHand[g].n})) /\ Execute(SendTask("reply", {inHand[g].n}))
    BY <1>14, TasksAreOK DEF PutReply, HandInv, DownMsgs
  <2>4. QED
    BY <2>1, <2>2, <2>3, TasksAreOK, FiredQueued
<1>15. ASSUME NEW x \in Workers, TakeMsgTask(x) PROVE FiredInv' /\ FiredGrows
  <2>1. /\ busy[x] = NoTask
        /\ \A y \in Workers \ {x} : busy'[y] = busy[y]
        /\ \A u \in Tasks : /\ Waiting(u)' => Waiting(u)
                            /\ Held(u)' <=> Held(u)
                            /\ Once(u) => Once(u)'
    BY <1>15, TakeMoves DEF TakeMsgTask, PoolSafe
  <2>2. Waiting(busy'[x])
    BY <1>15, Shortened DEF TakeMsgTask, Take, PoolSafe, PoolOK, Waiting
  <2>3. executed' = executed /\ stage' = stage /\ lastreqcnt' = lastreqcnt
    BY <1>15 DEF TakeMsgTask, workerVars, countVars, msgHistoryVars
  <2>4. ASSUME NEW n \in Counts PROVE FiredOf(n)' /\ (Fired(n)' => Fired(n))
    <3>1. FiredOf(n) /\ FireTask(n) \in Tasks
      BY TasksAreOK DEF FiredInv
    <3>2. Fired(n)' <=> Fired(n)
      BY <2>1, <2>3, <3>1 DEF Fired
    <3>3. \A y \in Workers : busy'[y] = FireTask(n) /\ stage'[y] = "start" => executed[n] = 0
      <4>1. busy'[x] = FireTask(n) => ~(executed[n] > 0)
        BY <2>2, <3>1 DEF FiredOf
      <4>2. busy'[x] = FireTask(n) => executed[n] = 0
        BY <4>1 DEF MsgShape
      <4>3. QED
        BY <2>1, <2>3, <3>1, <4>2 DEF FiredOf
    <3>4. Once(FireTask(n))' /\ (executed'[n] > 0 => ~Waiting(FireTask(n))')
      BY <2>1, <2>3, <3>1 DEF FiredOf
    <3>5. QED
      BY <2>3, <3>1, <3>2, <3>3, <3>4 DEF FiredOf
  <2>5. QED
    BY <2>4 DEF FiredInv, FiredGrows
<1>16. ASSUME NEW x \in Workers, Begin(x) PROVE FiredInv' /\ FiredGrows
  <2>1. /\ UNCHANGED <<queue, busy>> /\ lastreqcnt' = lastreqcnt
        /\ busy[x] # NoTask /\ stage[x] = "start" /\ stage'[x] = "send"
        /\ \A y \in Workers : stage'[y] = "start" => stage[y] = "start"
    BY <1>16 DEF Begin, poolVars, MsgShape
  <2>2. CASE busy[x].kind # "fire"
    <3>1. executed' = executed
      BY <1>16, <2>2 DEF Begin
    <3>2. lastreqcnt \in Nat
      BY CountsAre DEF MsgShape
    <3>3. QED
      BY <2>1, <3>1, <3>2, FiredOn
  <2>3. CASE busy[x].kind = "fire"
    <3>1. PICK m \in Counts : busy[x] = FireTask(m) /\ busy[x].ns = {m}
      BY <2>1, <2>3, BusyOK, FireTaskIs
    <3>2. \A n \in Counts : executed'[n] = executed[n] + IF n = m THEN 1 ELSE 0
      BY <1>16, <2>3, <3>1 DEF Begin
    <3>3. ASSUME NEW t PROVE /\ Waiting(t)' <=> Waiting(t)
                             /\ Held(t)' <=> Held(t)
                             /\ Once(t)' <=> Once(t)
      BY <2>1 DEF Held, Running, Waiting, Once, Alone
    <3>4. FiredOf(m) /\ executed[m] = 0 /\ ~Waiting(FireTask(m)) /\ Fired(m)
      BY <2>1, <3>1 DEF FiredInv, FiredOf, Once, Fired, Held, Running
    <3>5. \A n \in Counts : Fired(n)' <=> Fired(n)
      <4>1. \A n \in Counts : n # m => executed'[n] = executed[n]
        BY <3>2 DEF MsgShape
      <4>2. Fired(m)'
        BY <3>3, <3>1 DEF Fired, Held, Running
      <4>3. QED
        BY <3>3, <3>4, <4>1, <4>2 DEF Fired
    <3>6. \A y \in Workers : busy[y] = FireTask(m) => y = x
      BY <3>1, <3>4 DEF FiredOf, Once
    <3>7. ASSUME NEW n \in Counts, n # m PROVE FiredOf(n)'
      <4>1. executed'[n] = executed[n] /\ FiredOf(n)
        BY <3>2, <3>7 DEF FiredInv, MsgShape
      <4>2. QED
        BY <2>1, <3>3, <3>5, <4>1 DEF FiredOf
    <3>8. FiredOf(m)'
      <4>1. executed'[m] = 1
        BY <3>2, <3>4
      <4>2. QED
        BY <2>1, <3>3, <3>4, <3>5, <3>6, <4>1 DEF FiredOf
    <3>9. QED
      BY <3>5, <3>7, <3>8 DEF FiredInv, FiredGrows
  <2>4. QED
    BY <2>2, <2>3
<1>17. ASSUME NEW x \in Workers, Send(x) PROVE FiredInv' /\ FiredGrows
  <2>1. lastreqcnt' = lastreqcnt /\ lastreqcnt \in Nat /\ executed' = executed
    BY <1>17, CountsAre DEF Send, countVars, msgHistoryVars, MsgShape
  <2>2. CASE UNCHANGED <<busy, stage>>
    BY <1>17, <2>1, <2>2, FiredOn DEF Send
  <2>3. CASE Finish(x) /\ stage' = [stage EXCEPT ![x] = "start"]
    <3>1. busy[x] \in Tasks
      BY <1>17 DEF Send, OutInv, PoolSafe, PoolOK
    <3>2. /\ busy'[x] = NoTask /\ \A y \in Workers \ {x} : busy'[y] = busy[y]
          /\ \A u \in Tasks : /\ Waiting(u)' <=> Waiting(u)
                              /\ Held(u)' => Held(u)
                              /\ Once(u) => Once(u)'
      BY <1>17, <2>3, <3>1, FinishFrees DEF Send, PoolSafe
    <3>3. \A y \in Workers \ {x} : stage'[y] = stage[y]
      BY <2>3 DEF MsgShape
    <3>4. ASSUME NEW n \in Counts PROVE FiredOf(n)' /\ (Fired(n)' => Fired(n))
      <4>1. FiredOf(n) /\ FireTask(n) \in Tasks /\ FireTask(n) # NoTask
        BY TasksAreOK DEF FiredInv
      <4>2. Fired(n)' => Fired(n)
        BY <2>1, <3>2, <4>1 DEF Fired
      <4>3. QED
        BY <2>1, <3>2, <3>3, <4>1, <4>2 DEF FiredOf
    <3>5. QED
      BY <3>4 DEF FiredInv, FiredGrows
  <2>4. QED
    BY <1>17, <2>2, <2>3 DEF Send
<1>18. ASSUME NEW x \in Workers, SendRaises(x) PROVE FiredInv' /\ FiredGrows
  <2>1. lastreqcnt' = lastreqcnt /\ lastreqcnt \in Nat
    BY <1>18, CountsAre DEF SendRaises, countVars, MsgShape
  <2>2. /\ UNCHANGED <<queue, busy>> /\ executed' = executed
        /\ \A y \in Workers : stage'[y] = "start" => stage[y] = "start"
    BY <1>18 DEF SendRaises, poolVars, msgHistoryVars, MsgShape
  <2>3. QED
    BY <2>1, <2>2, FiredOn
<1>19. ASSUME NEW x \in Workers, WaitRecovery(x) PROVE FiredInv' /\ FiredGrows
  <2>1. lastreqcnt' = lastreqcnt /\ lastreqcnt \in Nat
    BY <1>19, CountsAre DEF WaitRecovery, countVars, MsgShape
  <2>2. /\ UNCHANGED <<queue, busy>> /\ executed' = executed
        /\ \A y \in Workers : stage'[y] = "start" => stage[y] = "start"
    BY <1>19 DEF WaitRecovery, poolVars, msgHistoryVars, MsgShape
  <2>3. QED
    BY <2>1, <2>2, FiredOn
<1>20. ASSUME UNCHANGED msgVars PROVE FiredInv' /\ FiredGrows
  <2>1. lastreqcnt' = lastreqcnt /\ lastreqcnt \in Nat
    BY <1>20, CountsAre DEF msgVars, countVars, MsgShape
  <2>2. UNCHANGED <<queue, busy>> /\ executed' = executed /\ stage' = stage
    BY <1>20 DEF msgVars, poolVars, workerVars, msgHistoryVars
  <2>3. QED
    BY <2>1, <2>2, FiredOn
<1>21. QED
  BY <1>1, <1>2, <1>3, <1>4, <1>5, <1>6, <1>7, <1>8, <1>9, <1>10, <1>11, <1>12, <1>13,
     <1>14, <1>15, <1>16, <1>17, <1>18, <1>19, <1>20 DEF MsgNext, Link, Reader, MsgWorker

(* What the server is told to skip. *)
SkipsNow(n) == \E g \in Gens : PutSkip(g) /\ n \in Gap(inHand[g].n)
SkipsGrow == \A n \in Counts : Skips(n)' => Skips(n) \/ SkipsNow(n)

LEMMA SkipsOn ==
  ASSUME skipped' = skipped,
         \A i \in 1..Len(toServer') : \E k \in 1..Len(toServer) : toServer'[i] = toServer[k],
         \A t \in Tasks : Held(t)' => Held(t)
  PROVE  SkipsGrow
<1>1. \A n : SkipSent(n)' => SkipSent(n)
  BY DEF SkipSent
<1>2. \A n : SkipHeld(n)' => SkipHeld(n)
  BY DEF SkipHeld
<1>3. QED
  BY <1>1, <1>2 DEF SkipsGrow, Skips

LEMMA SkipsOnPool ==
  ASSUME skipped' = skipped, UNCHANGED <<queue, busy>>,
         \A i \in 1..Len(toServer') : \E k \in 1..Len(toServer) : toServer'[i] = toServer[k]
  PROVE  SkipsGrow
<1>1. \A t \in Tasks : Held(t)' => Held(t)
  BY DEF Held, Running, Waiting
<1>2. QED
  BY <1>1, SkipsOn

LEMMA SkipsQueued ==
  ASSUME PoolSafe, skipped' = skipped, toServer' = toServer,
         NEW t, TaskOK(t), Execute(t),
         t.kind = "skip" => \A n \in t.ns : SkipsNow(n)
  PROVE  SkipsGrow
<1>1. \A u : Held(u)' => Held(u) \/ u = t
  BY TasksAreOK, ExecuteQueues DEF PoolSafe
<1>2. \A n : SkipHeld(n)' => SkipHeld(n) \/ SkipsNow(n)
  BY <1>1 DEF SkipHeld
<1>3. \A n : SkipSent(n)' <=> SkipSent(n)
  BY DEF SkipSent
<1>4. QED
  BY <1>2, <1>3 DEF SkipsGrow, Skips

LEMMA SkipsFrom ==
  ASSUME MsgShape, PoolSafe, HandInv, OutInv, [MsgNext]_msgVars
  PROVE  SkipsGrow
<1>1. ASSUME ServerRequests PROVE SkipsGrow
  <2>1. skipped' = skipped /\ toServer' = toServer /\ UNCHANGED <<queue, busy>>
    BY <1>1 DEF ServerRequests, poolVars, serverVars
  <2>2. QED
    BY <2>1, SkipsOnPool
<1>2. ASSUME ServerReads PROVE SkipsGrow
  <2>1. toServer # <<>> /\ toServer' = Tail(toServer) /\ UNCHANGED <<queue, busy>>
    BY <1>2 DEF ServerReads, poolVars
  <2>2. \A i \in 1..Len(toServer') : \E k \in 1..Len(toServer) : toServer'[i] = toServer[k]
    BY <2>1, Shortened DEF MsgShape
  <2>3. \A n \in skipped' : n \in skipped \/ SkipSent(n)
    <3>1. Head(toServer) = toServer[1] /\ 1 \in 1..Len(toServer)
      BY <2>1, Shortened DEF MsgShape
    <3>2. QED
      BY <1>2, <3>1 DEF ServerReads, SkipSent, Covers
  <2>4. \A n : SkipSent(n)' => SkipSent(n)
    BY <2>2 DEF SkipSent
  <2>5. \A n : SkipHeld(n)' => SkipHeld(n)
    BY <2>1 DEF SkipHeld, Held, Running, Waiting
  <2>6. QED
    BY <2>3, <2>4, <2>5 DEF SkipsGrow, Skips
<1>3. ASSUME Lose PROVE SkipsGrow
  <2>1. skipped' = skipped /\ UNCHANGED <<queue, busy>>
    BY <1>3 DEF Lose, poolVars, serverVars
  <2>2. \A i \in 1..Len(toServer') : \E k \in 1..Len(toServer) : toServer'[i] = toServer[k]
    BY <1>3, Cut DEF Lose, MsgShape
  <2>3. QED
    BY <2>1, <2>2, SkipsOnPool
<1>4. ASSUME Notice PROVE SkipsGrow
  <2>1. skipped' = skipped /\ toServer' = toServer /\ UNCHANGED <<queue, busy>>
    BY <1>4 DEF Notice, poolVars, serverVars
  <2>2. QED
    BY <2>1, SkipsOnPool
<1>5. ASSUME Reopen PROVE SkipsGrow
  <2>1. skipped' = skipped /\ toServer' = toServer /\ UNCHANGED <<queue, busy>>
    BY <1>5 DEF Reopen, poolVars, serverVars
  <2>2. QED
    BY <2>1, SkipsOnPool
<1>6. ASSUME OnRecovery PROVE SkipsGrow
  <2>1. skipped' = skipped /\ toServer' = toServer /\ UNCHANGED <<queue, busy>>
    BY <1>6 DEF OnRecovery, poolVars, serverVars
  <2>2. QED
    BY <2>1, SkipsOnPool
<1>7. ASSUME NEW g \in Gens, ReadFirst(g) PROVE SkipsGrow
  <2>1. skipped' = skipped /\ toServer' = toServer /\ UNCHANGED <<queue, busy>>
    BY <1>7 DEF ReadFirst, Hands, ReaderUnchanged, poolVars, serverVars
  <2>2. QED
    BY <2>1, SkipsOnPool
<1>8. ASSUME NEW g \in Gens, ReadRest(g) PROVE SkipsGrow
  <2>1. skipped' = skipped /\ toServer' = toServer /\ UNCHANGED <<queue, busy>>
    BY <1>8 DEF ReadRest, Hands, ReaderUnchanged, poolVars, serverVars
  <2>2. QED
    BY <2>1, SkipsOnPool
<1>9. ASSUME NEW g \in Gens, Check(g) PROVE SkipsGrow
  <2>1. skipped' = skipped /\ toServer' = toServer /\ UNCHANGED <<queue, busy>>
    BY <1>9 DEF Check, Rpc, Afterwards, poolVars, serverVars
  <2>2. QED
    BY <2>1, SkipsOnPool
<1>10. ASSUME NEW g \in Gens, PutSkip(g) PROVE SkipsGrow
  <2>1. skipped' = skipped /\ toServer' = toServer
    BY <1>10 DEF PutSkip, serverVars
  <2>2. TaskOK(SendTask("skip", Gap(inHand[g].n))) /\ Execute(SendTask("skip", Gap(inHand[g].n)))
    BY <1>10, GapIs DEF PutSkip
  <2>3. \A n \in SendTask("skip", Gap(inHand[g].n)).ns : SkipsNow(n)
    BY <1>10 DEF SkipsNow, SendTask
  <2>4. QED
    BY <2>1, <2>2, <2>3, SkipsQueued
<1>11. ASSUME NEW g \in Gens, PutFire(g) PROVE SkipsGrow
  <2>1. skipped' = skipped /\ toServer' = toServer
    BY <1>11 DEF PutFire, serverVars
  <2>2. TaskOK(FireTask(inHand[g].n)) /\ Execute(FireTask(inHand[g].n))
    BY <1>11, TasksAreOK DEF PutFire, HandInv, DownMsgs
  <2>3. FireTask(inHand[g].n).kind # "skip"
    BY DEF FireTask
  <2>4. QED
    BY <2>1, <2>2, <2>3, SkipsQueued
<1>12. ASSUME NEW g \in Gens, Purge(g) PROVE SkipsGrow
  <2>1. skipped' = skipped /\ toServer' = toServer /\ UNCHANGED <<queue, busy>>
    BY <1>12 DEF Purge, Rpc, poolVars, serverVars
  <2>2. QED
    BY <2>1, SkipsOnPool
<1>13. ASSUME NEW g \in Gens, PutResend(g) PROVE SkipsGrow
  <2>1. skipped' = skipped /\ toServer' = toServer
    BY <1>13 DEF PutResend, serverVars
  <2>2. CASE UNCHANGED poolVars
    BY <2>1, <2>2, SkipsOnPool DEF poolVars
  <2>3. CASE Execute(SendTask("answer", kept))
    <3>1. TaskOK(SendTask("answer", kept)) /\ SendTask("answer", kept).kind # "skip"
      BY TasksAreOK DEF MsgShape, SendTask
    <3>2. QED
      BY <2>1, <2>3, <3>1, SkipsQueued
  <2>4. QED
    BY <1>13, <2>2, <2>3 DEF PutResend
<1>14. ASSUME NEW g \in Gens, PutReply(g) PROVE SkipsGrow
  <2>1. skipped' = skipped /\ toServer' = toServer
    BY <1>14 DEF PutReply, serverVars
  <2>2. TaskOK(SendTask("reply", {inHand[g].n})) /\ Execute(SendTask("reply", {inHand[g].n}))
    BY <1>14, TasksAreOK DEF PutReply, HandInv, DownMsgs
  <2>3. SendTask("reply", {inHand[g].n}).kind # "skip"
    BY DEF SendTask
  <2>4. QED
    BY <2>1, <2>2, <2>3, SkipsQueued
<1>15. ASSUME NEW x \in Workers, TakeMsgTask(x) PROVE SkipsGrow
  <2>1. skipped' = skipped /\ toServer' = toServer
    BY <1>15 DEF TakeMsgTask, serverVars
  <2>2. \A t \in Tasks : Held(t)' => Held(t)
    BY <1>15, TakeMoves DEF TakeMsgTask, PoolSafe
  <2>3. QED
    BY <2>1, <2>2, SkipsOn
<1>16. ASSUME NEW x \in Workers, Begin(x) PROVE SkipsGrow
  <2>1. skipped' = skipped /\ toServer' = toServer /\ UNCHANGED <<queue, busy>>
    BY <1>16 DEF Begin, poolVars, serverVars
  <2>2. QED
    BY <2>1, SkipsOnPool
<1>17. ASSUME NEW x \in Workers, Send(x) PROVE SkipsGrow
  <2>1. skipped' = skipped /\ stage[x] = "send"
    BY <1>17 DEF Send, serverVars
  <2>2. PICK m \in out[x] : toServer' = IF link = "up" THEN Append(toServer, m) ELSE toServer
    BY <1>17 DEF Send
  <2>3. /\ busy[x] # NoTask /\ TaskOK(busy[x]) /\ m \in UpMsgs
        /\ m.kind = "skip" => busy[x].kind = "skip" /\ m.from..m.to \subseteq busy[x].ns
    BY <2>1, SendingIs
  <2>4. \A n : Covers(m, n) => SkipHeld(n)
    BY <2>3, TasksAreOK DEF Covers, SkipHeld, Held, Running
  <2>5. \A n : SkipSent(n)' => SkipSent(n) \/ SkipHeld(n)
    <3>1. \A i \in 1..Len(toServer') : toServer'[i] = m \/ \E k \in 1..Len(toServer) : toServer'[i] = toServer[k]
      BY <2>2, <2>3, Appended DEF MsgShape
    <3>2. QED
      BY <2>4, <3>1 DEF SkipSent
  <2>6. \A t \in Tasks : Held(t)' => Held(t)
    <3>1. CASE UNCHANGED <<queue, busy>>
      BY <3>1 DEF Held, Running, Waiting
    <3>2. CASE Finish(x)
      BY <1>17, <2>3, <3>2, TasksAreOK, FinishFrees DEF Send, PoolSafe
    <3>3. QED
      BY <1>17, <3>1, <3>2 DEF Send
  <2>7. \A n : SkipHeld(n)' => SkipHeld(n)
    BY <2>6 DEF SkipHeld
  <2>8. QED
    BY <2>1, <2>5, <2>7 DEF SkipsGrow, Skips
<1>18. ASSUME NEW x \in Workers, SendRaises(x) PROVE SkipsGrow
  <2>1. skipped' = skipped /\ toServer' = toServer /\ UNCHANGED <<queue, busy>>
    BY <1>18 DEF SendRaises, poolVars, serverVars
  <2>2. QED
    BY <2>1, SkipsOnPool
<1>19. ASSUME NEW x \in Workers, WaitRecovery(x) PROVE SkipsGrow
  <2>1. skipped' = skipped /\ toServer' = toServer /\ UNCHANGED <<queue, busy>>
    BY <1>19 DEF WaitRecovery, poolVars, serverVars
  <2>2. QED
    BY <2>1, SkipsOnPool
<1>20. ASSUME UNCHANGED msgVars PROVE SkipsGrow
  <2>1. skipped' = skipped /\ toServer' = toServer /\ UNCHANGED <<queue, busy>>
    BY <1>20 DEF msgVars, poolVars, serverVars
  <2>2. QED
    BY <2>1, SkipsOnPool
<1>21. QED
  BY <1>1, <1>2, <1>3, <1>4, <1>5, <1>6, <1>7, <1>8, <1>9, <1>10, <1>11, <1>12, <1>13,
     <1>14, <1>15, <1>16, <1>17, <1>18, <1>19, <1>20 DEF MsgNext, Link, Reader, MsgWorker

LEMMA CountNever ==
  ASSUME MsgShape, NumbersInv, HandInv, BufferInv, OrderInv, [MsgNext]_msgVars
  PROVE  lastreqcnt' \in Nat /\ lastreqcnt <= lastreqcnt'
<1>1. lastreqcnt \in Nat
  BY FloorIs
<1>2. CASE lastreqcnt' = lastreqcnt
  BY <1>1, <1>2
<1>3. CASE \E g \in Gens : Reader(g)
  BY <1>3, CountGrows
<1>4. QED
  BY <1>2, <1>3 DEF MsgNext, Link, MsgWorker, msgVars, countVars, ServerRequests,
     ServerReads, Lose, Notice, Reopen, OnRecovery, TakeMsgTask, Begin, Send, SendRaises, WaitRecovery

(* A request is not both run and skipped. *)
LEMMA SkipsStep ==
  ASSUME MsgShape, NumbersInv, HandInv, BufferInv, OrderInv, FiredInv, SkipsInv, FreshInv,
         FiredGrows, SkipsGrow, [MsgNext]_msgVars
  PROVE  SkipsInv'
<1>1. /\ lastreqcnt \in Nat /\ lastreqcnt' \in Nat /\ lastreqcnt <= lastreqcnt'
      /\ Counts \subseteq Nat
  BY FloorIs, CountNever, CountsAre
<1>2. ASSUME NEW n \in Counts, FiresNow(n) PROVE n = lastreqcnt /\ ~Skips(n)
  <2>1. PICK g \in Gens : PutFire(g) /\ n = inHand[g].n
    BY <1>2 DEF FiresNow
  <2>2. g = gen /\ rpc[gen] = "fire"
    BY <2>1 DEF PutFire, BufferInv
  <2>3. QED
    BY <2>1, <2>2 DEF OrderInv, Unchecked, FreshInv
<1>3. ASSUME NEW n \in Counts, SkipsNow(n) PROVE lastreqcnt < n /\ n <= lastreqcnt'
  <2>1. PICK g \in Gens : PutSkip(g) /\ n \in Gap(inHand[g].n)
    BY <1>3 DEF SkipsNow
  <2>2. lastreqcnt' = inHand[g].n /\ inHand[g].n \in Nat
    BY <2>1, CountsAre DEF PutSkip, HandInv, DownMsgs
  <2>3. QED
    BY <1>1, <2>1, <2>2 DEF Gap
<1>4. ASSUME NEW n \in Counts PROVE ~(FiresNow(n) /\ SkipsNow(n))
  BY <1>1, <1>2, <1>3
<1>5. ASSUME NEW n \in Counts, Skips(n)' PROVE n <= lastreqcnt' /\ ~Fired(n)'
  <2>1. CASE SkipsNow(n)
    <3>1. ~Fired(n)
      BY <1>1, <1>3, <2>1 DEF FiredInv, FiredOf
    <3>2. QED
      BY <1>3, <1>4, <2>1, <3>1 DEF FiredGrows
  <2>2. CASE Skips(n)
    <3>1. n <= lastreqcnt /\ ~Fired(n) /\ ~FiresNow(n)
      BY <1>2, <2>2 DEF SkipsInv, SkipsOf
    <3>2. n <= lastreqcnt'
      BY <1>1, <3>1
    <3>3. QED
      BY <3>1, <3>2 DEF FiredGrows
  <2>3. QED
    BY <1>5, <2>1, <2>2 DEF SkipsGrow
<1>6. QED
  BY <1>5 DEF SkipsInv, SkipsOf

(* A reader is at "fire" because it was, or has just seen a new number. *)
LEMMA ComesToFire ==
  ASSUME MsgShape, NumbersInv, HandInv, BufferInv, ~raced', [MsgNext]_msgVars, rpc'[gen'] =
         "fire"
  PROVE  \/ rpc[gen] = "fire" /\ lastreqcnt' = lastreqcnt /\ ~(\E g \in Gens : PutFire(g) \/ PutSkip(g))
         \/ Unchecked /\ lastreqcnt' = inHand[gen].n /\ ~(\E g \in Gens : PutFire(g))
            /\ \A g \in Gens : PutSkip(g) => g = gen
<1>0. gen \in Gens /\ rpc \in [Gens -> {"idle", "check", "skip", "fire", "purge", "resend", "reply"}]
  BY DEF NumbersInv, MsgShape
<1>1. CASE Reopen
  <2>1. \A h \in Gens : rpc'[h] = "idle"
    BY <1>1 DEF Reopen, NumbersInv, BufferInv, readerVars
  <2>2. gen' \in Gens
    BY <1>1, NextCount DEF Reopen
  <2>3. QED
    BY <2>1, <2>2
<1>2. CASE rpc' = rpc /\ gen' = gen /\ lastreqcnt' = lastreqcnt
  <2>1. \A g \in Gens : ~PutFire(g) /\ ~PutSkip(g)
    BY <1>0, <1>2 DEF PutFire, PutSkip, Cleared, Hands, Rpc, Afterwards
  <2>2. QED
    BY <1>2, <2>1
<1>3. ASSUME NEW g \in Gens, Check(g) \/ PutSkip(g)
      PROVE  Unchecked /\ lastreqcnt' = inHand[gen].n /\ ~(\E h \in Gens : PutFire(h))
            /\ \A h \in Gens : PutSkip(h) => h = gen
  <2>1. g = gen /\ gen' = gen
    BY <1>3 DEF Check, PutSkip, BufferInv, linkVars
  <2>2. /\ rpc[gen] \in {"check", "skip"}
        /\ lastreqcnt' = inHand[gen].n
    BY <1>0, <1>3, <2>1 DEF Check, PutSkip, Rpc
  <2>3. \A h \in Gens : rpc[h] # "idle" => h = gen
    BY DEF BufferInv
  <2>4. QED
    BY <2>2, <2>3 DEF Unchecked, PutFire, PutSkip
<1>4. ASSUME NEW g \in Gens, PutFire(g) \/ Purge(g) \/ PutResend(g) \/ PutReply(g)
      PROVE  FALSE
  <2>1. g = gen /\ gen' = gen
    BY <1>4 DEF PutFire, Purge, PutResend, PutReply, BufferInv, linkVars
  <2>2. rpc'[g] \in {"idle", "resend", "reply"}
    BY <1>0, <1>4 DEF PutFire, Purge, PutResend, PutReply, Cleared, Hands, Rpc
  <2>3. QED
    BY <2>1, <2>2
<1>5. ASSUME NEW g \in Gens, ReadFirst(g) \/ ReadRest(g)
      PROVE  rpc' = rpc /\ gen' = gen /\ lastreqcnt' = lastreqcnt
  <2>1. /\ g = gen /\ gen' = gen /\ lastreqcnt' = lastreqcnt
        /\ Hands(g, Head(toAgent), "check") \/ rpc' = rpc
    BY <1>5, ReadsOwn DEF linkVars, countVars
  <2>2. QED
    BY <1>0, <2>1 DEF Hands
<1>6. QED
  BY <1>1, <1>2, <1>3, <1>4, <1>5 DEF MsgNext, Link, Reader, MsgWorker, msgVars, linkVars,
     readerVars,
     countVars, ServerRequests, ServerReads, Lose, Notice, OnRecovery, TakeMsgTask, Begin,
     Send, SendRaises, WaitRecovery

LEMMA FreshStep ==
  ASSUME MsgShape, NumbersInv, HandInv, BufferInv, OrderInv, FiredInv, SkipsInv, FreshInv,
         FiredGrows, SkipsGrow, ~raced', [MsgNext]_msgVars
  PROVE  FreshInv'
<1>1. SUFFICES ASSUME rpc'[gen'] = "fire", NEW n \in Counts, n = lastreqcnt'
               PROVE  ~Fired(n)' /\ ~Skips(n)'
  BY DEF FreshInv
<1>2. CASE rpc[gen] = "fire" /\ lastreqcnt' = lastreqcnt /\ ~(\E g \in Gens : PutFire(g) \/ PutSkip(g))
  <2>1. ~FiresNow(n) /\ ~SkipsNow(n)
    BY <1>2 DEF FiresNow, SkipsNow
  <2>2. QED
    BY <1>1, <1>2, <2>1 DEF FreshInv, FiredGrows, SkipsGrow
<1>3. CASE Unchecked /\ lastreqcnt' = inHand[gen].n /\ ~(\E g \in Gens : PutFire(g))
           /\ \A g \in Gens : PutSkip(g) => g = gen
  <2>1. lastreqcnt < n /\ n \in Nat /\ lastreqcnt \in Nat
    BY <1>1, <1>3, FloorIs DEF OrderInv
  <2>2. ~Fired(n) /\ ~Skips(n)
    BY <2>1 DEF FiredInv, FiredOf, SkipsInv, SkipsOf
  <2>3. ~FiresNow(n)
    BY <1>3 DEF FiresNow
  <2>4. ~SkipsNow(n)
    BY <1>1, <1>3, <2>1 DEF SkipsNow, Gap
  <2>5. QED
    BY <2>2, <2>3, <2>4 DEF FiredGrows, SkipsGrow
<1>4. QED
  BY <1>1, <1>2, <1>3, ComesToFire

(* The whole invariant. *)
LEMMA RacedStays == ASSUME [MsgNext]_msgVars, raced PROVE raced'
<1>1. CASE UNCHANGED raced
  BY <1>1, Zenon
<1>2. CASE Notice
  BY <1>2, Zenon DEF Notice
<1>3. ASSUME NEW g \in Gens, ReadFirst(g) \/ ReadRest(g) PROVE raced'
  BY <1>3, Zenon DEF ReadFirst, ReadRest, ReaderUnchanged
<1>4. QED
  BY <1>1, <1>2, <1>3, Zenon DEF MsgNext, Link, Reader, MsgWorker, msgVars, msgHistoryVars,
     ServerRequests, ServerReads, Lose, Reopen, OnRecovery, Check, PutSkip, PutFire, Purge,
     PutResend, PutReply, TakeMsgTask, Begin, Send, SendRaises, WaitRecovery

LEMMA AgreedStep ==
  ASSUME MsgShape, PoolSafe, NumbersInv, HandInv, OutInv, AgreedInv, [MsgNext]_msgVars
  PROVE  AgreedInv'
<1>1. SUFFICES ASSUME ~raced'
               PROVE  BufferInv' /\ OrderInv' /\ FiredInv' /\ SkipsInv' /\ FreshInv'
  BY DEF AgreedInv
<1>2. ~raced
  BY <1>1, RacedStays, Zenon
<1>3. BufferInv /\ OrderInv /\ FiredInv /\ SkipsInv /\ FreshInv
  BY <1>2, Zenon DEF AgreedInv
<1>4. BufferInv' /\ OrderInv'
  BY <1>1, <1>3, BufferStep, OrderStep
<1>5. FiredInv' /\ FiredGrows
  BY <1>1, <1>3, FiredStep
<1>6. SkipsGrow
  BY SkipsFrom
<1>7. SkipsInv' /\ FreshInv'
  BY <1>1, <1>3, <1>5, <1>6, SkipsStep, FreshStep
<1>8. QED
  BY <1>4, <1>5, <1>7

LEMMA InitMsg == ASSUME MsgInit PROVE MsgInv
<1>0. /\ sent = 0 /\ asked = 0 /\ gen = 1 /\ gen \in Gens /\ lastreqcnt = 0 /\ Len(toAgent) = 0
      /\ Len(toServer) = 0 /\ Len(queue) = 0 /\ link = "up" /\ ~recovering /\ ~stopped
      /\ \A g \in Gens : rpc[g] = "idle" /\ inHand[g] = NoMsg
      /\ \A x \in Workers : busy[x] = NoTask /\ stage[x] = "start" /\ out[x] = {}
  BY MsgAssumption DEF MsgInit, PoolInit, Gens
<1>1. PoolOK /\ MsgShape
  BY <1>0, EmptyIs, MsgAssumption DEF MsgInit, PoolInit, PoolOK, MsgShape, Gens, Empty
<1>2. \A t \in Tasks : ~Held(t)
  BY <1>0, PoolAssumption DEF Held, Waiting, Running
<1>3. NumbersInv
  BY <1>0, MsgAssumption DEF NumbersInv
<1>4. HandInv /\ TasksInv /\ OutInv
  BY <1>0, <1>2 DEF HandInv, TasksInv, OutInv, MsgInit, Empty
<1>5. SettledInv /\ ResponsesKept
  BY <1>0 DEF SettledInv, Settles, NoMsg, ResponsesKept, MsgInit
<1>6. BufferInv /\ OrderInv /\ FreshInv
  <2>1. ~garbled
    BY Zenon DEF MsgInit
  <2>2. Floor = 0 /\ ~Unchecked
    BY <1>0 DEF Floor, Unchecked
  <2>3. BufferInv
    BY <1>0, <2>1 DEF BufferInv, MsgInit, Empty
  <2>4. OrderInv /\ FreshInv
    BY <1>0, <2>2 DEF OrderInv, FreshInv, Ascends
  <2>5. QED
    BY <2>3, <2>4
<1>7. FiredInv /\ SkipsInv
  <2>1. ASSUME NEW n \in Counts PROVE FiredOf(n) /\ SkipsOf(n)
    <3>1. ~Held(FireTask(n)) /\ executed[n] = 0 /\ FireTask(n) # NoTask
      BY <1>2, TasksAreOK DEF MsgInit
    <3>2. ~Skips(n)
      BY <1>0, <1>2 DEF Skips, SkipSent, SkipHeld, MsgInit
    <3>3. QED
      BY <1>0, <3>1, <3>2 DEF FiredOf, SkipsOf, Fired, Once, Alone, Held, Running
  <2>2. QED
    BY <2>1 DEF FiredInv, SkipsInv
<1>8. QED
  BY <1>0, <1>1, <1>3, <1>4, <1>5, <1>6, <1>7 DEF MsgInv, MsgTypeOK, AgreedInv

LEMMA StepMsg == ASSUME MsgInv, [MsgNext]_msgVars PROVE MsgInv'
<1>1. /\ MsgShape /\ PoolSafe /\ NumbersInv /\ HandInv /\ OutInv /\ SettledInv /\ ResponsesKept
      /\ AgreedInv
  BY DEF MsgInv, MsgTypeOK, PoolSafe
<1>2. NumbersInv' /\ PoolSafe' /\ MsgShape' /\ OutInv' /\ HandInv'
  BY <1>1, NumbersStep, PoolStep, ShapeStepMsg, OutStep, HandStep
<1>3. SettledInv' /\ ResponsesKept' /\ AgreedInv'
  BY <1>1, SettledStep, KeptStep, AgreedStep
<1>4. QED
  BY <1>2, <1>3 DEF MsgInv, MsgTypeOK, PoolSafe

(* The types, and the part of the invariant that holds whatever races.      *)
LEMMA MsgSafe == MsgSpec => []MsgInv
<1>1. MsgInit => MsgInv
  BY InitMsg
<1>2. MsgInv /\ [MsgNext]_msgVars => MsgInv'
  BY StepMsg
<1>3. QED
  BY <1>1, <1>2, PTL DEF MsgSpec

(* A response the server has neither received nor been told to skip is in   *)
(* _send_response_recovery, for every number of requests, of losses and of  *)
(* workers: what _check_recovery_msg purges (agent.py) is never wanted      *)
(* again.                                                                   *)
THEOREM ResponsesAreKept == MsgSpec => []ResponsesKept
<1>1. MsgInv => ResponsesKept
  BY DEF MsgInv
<1>2. QED
  BY <1>1, MsgSafe, PTL

(* Without a reader that overlaps recovery, a request is run once at most,  *)
(* never run and given up for lost, and never put together from the frames  *)
(* of two: the buffer, requestCount and SKIP of agent.py do their work.     *)
THEOREM RequestsExecuteOnce == MsgSpec => []ExecutedOnce
<1>1. ASSUME MsgInv PROVE ExecutedOnce
  <2>1. CASE raced
    BY <2>1 DEF ExecutedOnce, RanOnce, SkippedNotExecuted, WholeMessages
  <2>2. CASE ~raced
    <3>1. BufferInv /\ FiredInv /\ SkipsInv /\ MsgShape
      BY <1>1, <2>2, Zenon DEF MsgInv, AgreedInv, MsgTypeOK
    <3>2. RanOnce
      BY <3>1 DEF RanOnce, FiredInv, FiredOf
    <3>3. ASSUME NEW n \in Counts
          PROVE  /\ n \in skipped => executed[n] = 0
                 /\ \A i \in 1..Len(queue) : queue[i] = FireTask(n) => n \notin skipped
      <4>1. n \in skipped => ~Fired(n)
        BY <3>1 DEF SkipsInv, SkipsOf, Skips
      <4>2. n \in skipped => executed[n] = 0
        BY <3>1, <4>1 DEF Fired, MsgShape
      <4>3. \A i \in 1..Len(queue) : queue[i] = FireTask(n) => Fired(n)
        BY DEF Fired, Held, Waiting
      <4>4. QED
        BY <4>1, <4>2, <4>3
    <3>4. SkippedNotExecuted
      BY <3>3 DEF SkippedNotExecuted
    <3>5. WholeMessages
      BY <3>1, Zenon DEF WholeMessages, BufferInv
    <3>6. QED
      BY <3>2, <3>4, <3>5 DEF ExecutedOnce
  <2>3. QED
    BY <2>1, <2>2
<1>2. QED
  BY <1>1, MsgSafe, PTL

-----------------------------------------------------------------------------
(***************************************************************************)
(* Conditions.  A thread is in wait from its count as a sleeper to its      *)
(* count as woken; the sleepers and those a call has still to see come are  *)
(* as many as the threads in wait and those counted as woken.  A call finds *)
(* all who are in wait and only takes them out, one at least if it has seen *)
(* a woken one; and outside of a call no token is left.                     *)
(***************************************************************************)
InWait == Blocked \cup Leaving
monitorVars == <<owner, Blocked, Leaving, timed, call>>

Calls == [on : BOOLEAN, all : BOOLEAN, due : SUBSET Thread, ended : BOOLEAN]

CondTypes ==
  /\ owner \in Thread \cup {NoThread} /\ depth \in Int
  /\ sleeping \in Nat /\ woken \in Nat /\ waitSem \in Nat
  /\ condPc \in [Thread -> PcStates]
  /\ saved \in [Thread -> Int]
  /\ timed \subseteq Thread
  /\ call \in Calls

CallOwned ==
  /\ call.on => owner \in Thread /\ condPc[owner] \in InNotify /\ InWait \subseteq call.due
  /\ ~call.on => waitSem = 0
  /\ \A t \in Thread : condPc[t] \in InNotify => call.on /\ owner = t

\* What the call going on has woken and not seen come yet.
Notified == IF call.on THEN saved[owner] ELSE 0
Counted == sleeping + Notified = Cardinality(InWait) + woken

\* What t may rely on at each step of a call.
Progress(t) ==
  /\ condPc[t] = "run" => saved[t] = 0
  /\ condPc[t] = "drain" => saved[t] = 0 /\ waitSem = 0 /\ ~call.ended
  /\ condPc[t] = "wake" =>
       /\ saved[t] \in Nat /\ waitSem <= saved[t]
       /\ call.all \/ (saved[t] = 0 /\ ~call.ended)
  /\ condPc[t] = "await" => saved[t] \in Nat \ {0}
  /\ condPc[t] = "rezero" => saved[t] = 0 /\ ~(call.due \subseteq InWait)
  /\ condPc[t] \in {"wake", "await"} /\ woken > 0 => ~(call.due \subseteq InWait)
  /\ condPc[t] \in {"await", "rezero"} =>
       \/ call.all /\ sleeping = 0
       \/ ~call.all /\ (waitSem = 0 \/ (waitSem = 1 /\ ~call.ended))

CondInv == CondTypes /\ CallOwned /\ Counted /\ \A t \in Thread : Progress(t)

(* A number of threads is in wait. *)
LEMMA WaitersCounted ==
  ASSUME CondTypes
  PROVE  IsFiniteSet(InWait) /\ Cardinality(InWait) \in Nat
<1>1. InWait \subseteq Thread
  BY DEF InWait, Blocked, Leaving
<1>2. IsFiniteSet(InWait)
  BY <1>1, ConditionAssumption, FS_Subset
<1> QED BY <1>2, FS_CardinalityType

(* Where the threads are after one of them has gone to p. *)
LEMMA GotoMoves ==
  ASSUME CondTypes, NEW t \in Thread, NEW p \in PcStates, Goto(t, p)
  PROVE  /\ condPc' \in [Thread -> PcStates]
         /\ condPc'[t] = p
         /\ \A s \in Thread : s # t => condPc'[s] = condPc[s]
         /\ Blocked' = IF p = "blocked" THEN Blocked \cup {t} ELSE Blocked \ {t}
         /\ Leaving' = IF p = "left" THEN Leaving \cup {t} ELSE Leaving \ {t}
         /\ InWait' = IF p \in {"blocked", "left"} THEN InWait \cup {t} ELSE InWait \ {t}
<1>1. /\ condPc' \in [Thread -> PcStates]
      /\ condPc'[t] = p
      /\ \A s \in Thread : s # t => condPc'[s] = condPc[s]
  BY DEF Goto, CondTypes
<1>2. Blocked' = IF p = "blocked" THEN Blocked \cup {t} ELSE Blocked \ {t}
  BY <1>1 DEF Blocked
<1>3. Leaving' = IF p = "left" THEN Leaving \cup {t} ELSE Leaving \ {t}
  BY <1>1 DEF Leaving
<1>4. InWait' = IF p \in {"blocked", "left"} THEN InWait \cup {t} ELSE InWait \ {t}
  <2>1. CASE p = "blocked"
    BY <2>1, <1>1 DEF InWait, Blocked, Leaving
  <2>2. CASE p = "left"
    BY <2>2, <1>1 DEF InWait, Blocked, Leaving
  <2>3. CASE p \notin {"blocked", "left"}
    BY <2>3, <1>1 DEF InWait, Blocked, Leaving
  <2> QED BY <2>1, <2>2, <2>3
<1> QED BY <1>1, <1>2, <1>3, <1>4

(* Who waits and who leaves is all in condPc. *)
LEMMA NobodyMoves ==
  ASSUME UNCHANGED condPc
  PROVE  Blocked' = Blocked /\ Leaving' = Leaving /\ InWait' = InWait
BY DEF InWait, Blocked, Leaving

(* Whoever has the lock and is in neither wait nor notify is alone with the *)
(* counters.                                                                *)
LEMMA NoCallOfOwner ==
  ASSUME CondInv, NEW t \in Thread, Mine(t)
  PROVE  ~call.on /\ waitSem = 0 /\ t \notin InWait /\ saved[t] = 0
<1>1. ~call.on
  BY DEF CondInv, CallOwned, Mine, InNotify
<1>2. waitSem = 0
  BY <1>1 DEF CondInv, CallOwned
<1>3. t \notin InWait
  BY DEF Mine, InWait, Blocked, Leaving
<1>4. saved[t] = 0
  BY DEF Mine, CondInv, Progress
<1> QED BY <1>1, <1>2, <1>3, <1>4

(* The first acquire, where the monitor acquires. *)
LEMMA LockStep ==
  ASSUME CondInv, NEW t \in Thread, Lock(t), condPc[t] = "run"
  PROVE  CondInv' /\ AbstractMonitor!Next
<1>e. UNCHANGED <<sleeping, woken, waitSem, condPc, saved, timed, call>>
  BY DEF Lock
<1>m. Blocked' = Blocked /\ Leaving' = Leaving /\ InWait' = InWait
  BY <1>e, NobodyMoves
<1>c. ~call.on
  BY ConditionAssumption DEF CondInv, CallOwned, Lock
<1>1. CondTypes'
  BY <1>e DEF CondInv, CondTypes, Lock
<1>2. CallOwned'
  <2>1. ~call'.on
    BY <1>c, <1>e
  <2>2. waitSem' = 0
    BY <1>c, <1>e DEF CondInv, CallOwned
  <2>3. ASSUME NEW s \in Thread PROVE condPc'[s] \notin InNotify
    BY <1>c, <1>e DEF CondInv, CallOwned
  <2> QED BY <2>1, <2>2, <2>3 DEF CallOwned
<1>3. Counted'
  <2>1. Notified' = 0 /\ Notified = 0
    BY <1>c, <1>e DEF Notified
  <2> QED BY <2>1, <1>e, <1>m DEF CondInv, Counted
<1>4. ASSUME NEW s \in Thread PROVE Progress(s)'
  <2>1. Progress(s)
    BY DEF CondInv
  <2> QED BY <2>1, <1>e, <1>m DEF Progress
<1>5. AbstractMonitor!Acquire(t)
  BY <1>e, <1>m DEF Lock, AbstractMonitor!Acquire
<1> QED BY <1>1, <1>2, <1>3, <1>4, <1>5 DEF CondInv, AbstractMonitor!Next

(* A nested acquire, which the monitor does not see. *)
LEMMA RelockStep ==
  ASSUME CondInv, NEW t \in Thread, Relock(t)
  PROVE  CondInv' /\ UNCHANGED monitorVars
<1>e. UNCHANGED <<owner, sleeping, woken, waitSem, condPc, saved, timed, call>>
  BY DEF Relock
<1>m. Blocked' = Blocked /\ Leaving' = Leaving /\ InWait' = InWait
  BY <1>e, NobodyMoves
<1>1. CondTypes'
  BY <1>e DEF CondInv, CondTypes, Relock
<1>2. CallOwned'
  BY <1>e, <1>m DEF CondInv, CallOwned
<1>3. Counted'
  BY <1>e, <1>m DEF CondInv, Counted, Notified
<1>4. ASSUME NEW s \in Thread PROVE Progress(s)'
  <2>1. Progress(s)
    BY DEF CondInv
  <2> QED BY <2>1, <1>e, <1>m DEF Progress
<1> QED BY <1>1, <1>2, <1>3, <1>4, <1>e, <1>m DEF CondInv, monitorVars

(* A release: the last of a nest is the monitor's. *)
LEMMA UnlockStep ==
  ASSUME CondInv, NEW t \in Thread, Unlock(t)
  PROVE  CondInv' /\ (AbstractMonitor!Next \/ UNCHANGED monitorVars)
<1>e. UNCHANGED <<sleeping, woken, waitSem, condPc, saved, timed, call>>
  BY DEF Unlock
<1>m. Blocked' = Blocked /\ Leaving' = Leaving /\ InWait' = InWait
  BY <1>e, NobodyMoves
<1>o. owner = t /\ (owner' = owner \/ owner' = NoThread)
  BY DEF Unlock, Mine
<1>c. ~call.on /\ waitSem = 0
  BY NoCallOfOwner DEF Unlock
<1>1. CondTypes'
  BY <1>e, <1>o DEF CondInv, CondTypes, Unlock
<1>2. CallOwned'
  <2>1. ~call'.on
    BY <1>c, <1>e
  <2>2. waitSem' = 0
    BY <1>c, <1>e
  <2>3. ASSUME NEW s \in Thread PROVE condPc'[s] \notin InNotify
    BY <1>c, <1>e DEF CondInv, CallOwned
  <2> QED BY <2>1, <2>2, <2>3 DEF CallOwned
<1>3. Counted'
  <2>1. Notified' = 0 /\ Notified = 0
    BY <1>c, <1>e DEF Notified
  <2> QED BY <2>1, <1>e, <1>m DEF CondInv, Counted
<1>4. ASSUME NEW s \in Thread PROVE Progress(s)'
  <2>1. Progress(s)
    BY DEF CondInv
  <2> QED BY <2>1, <1>e, <1>m DEF Progress
<1>5. CASE owner' = owner
  BY <1>5, <1>1, <1>2, <1>3, <1>4, <1>e, <1>m DEF CondInv, monitorVars
<1>6. CASE owner' = NoThread
  <2>1. AbstractMonitor!Release(t)
    BY <1>6, <1>o, <1>c, <1>e, <1>m DEF AbstractMonitor!Release
  <2> QED BY <2>1, <1>1, <1>2, <1>3, <1>4 DEF CondInv, AbstractMonitor!Next
<1> QED BY <1>o, <1>5, <1>6

(* wait up to its block: one sleeper more, one thread in wait more. *)
LEMMA WaitBeginsStep ==
  ASSUME CondInv, NEW t \in Thread, NEW b \in BOOLEAN, WaitBegins(t, b)
  PROVE  CondInv' /\ AbstractMonitor!Next
<1>e. UNCHANGED <<woken, waitSem, call>>
  BY DEF WaitBegins
<1>c. ~call.on /\ waitSem = 0 /\ t \notin InWait
  BY NoCallOfOwner DEF WaitBegins
<1>t. CondTypes
  BY DEF CondInv
<1>m. /\ condPc' \in [Thread -> PcStates]
      /\ condPc'[t] = "blocked"
      /\ \A s \in Thread : s # t => condPc'[s] = condPc[s]
      /\ Blocked' = Blocked \cup {t}
      /\ Leaving' = Leaving \ {t}
      /\ InWait' = InWait \cup {t}
  BY <1>t, GotoMoves DEF WaitBegins, PcStates
<1>s. saved' = [saved EXCEPT ![t] = depth]
  BY DEF WaitBegins
<1>u. saved' \in [Thread -> Int] /\ \A s \in Thread : s # t => saved'[s] = saved[s]
  BY <1>s, <1>t DEF CondTypes
<1>1. CondTypes'
  BY <1>e, <1>m, <1>u, <1>t DEF CondTypes, WaitBegins
<1>2. CallOwned'
  <2>1. ~call'.on
    BY <1>c, <1>e
  <2>2. waitSem' = 0
    BY <1>c, <1>e
  <2>3. ASSUME NEW s \in Thread PROVE condPc'[s] \notin InNotify
    BY <1>c, <1>m DEF CondInv, CallOwned, InNotify
  <2> QED BY <2>1, <2>2, <2>3 DEF CallOwned
<1>3. Counted'
  <2>1. Notified' = 0 /\ Notified = 0
    BY <1>c, <1>e DEF Notified
  <2>2. IsFiniteSet(InWait) /\ Cardinality(InWait) \in Nat
    BY <1>t, WaitersCounted
  <2>3. Cardinality(InWait') = Cardinality(InWait) + 1
    BY <2>2, <1>c, <1>m, FS_AddElement
  <2>4. sleeping' = sleeping + 1 /\ sleeping \in Nat /\ woken \in Nat
    BY <1>t DEF WaitBegins, CondTypes
  <2>5. sleeping = Cardinality(InWait) + woken
    BY <2>1, <2>4 DEF CondInv, Counted
  <2>6. sleeping' + Notified' = Cardinality(InWait') + woken'
    BY <2>1, <2>2, <2>3, <2>4, <2>5, <1>e
  <2> QED BY <2>6 DEF Counted
<1>4. ASSUME NEW s \in Thread PROVE Progress(s)'
  <2>1. CASE s = t
    BY <2>1, <1>m DEF Progress
  <2>2. CASE s # t
    <3>1. condPc[s] \notin InNotify
      BY <1>c DEF CondInv, CallOwned
    <3>2. Progress(s)
      BY DEF CondInv
    <3> QED BY <2>2, <3>1, <3>2, <1>m, <1>u DEF Progress, InNotify
  <2> QED BY <2>1, <2>2
<1>5. AbstractMonitor!Wait(t, b)
  <2>1. Leaving' = Leaving
    BY <1>c, <1>m DEF InWait
  <2>2. timed' = IF b THEN timed \cup {t} ELSE timed \ {t}
    BY DEF WaitBegins
  <2>3. owner = t /\ owner' = NoThread
    BY DEF WaitBegins, Mine
  <2> QED BY <2>1, <2>2, <2>3, <1>c, <1>e, <1>m DEF AbstractMonitor!Wait
<1> QED BY <1>1, <1>2, <1>3, <1>4, <1>5 DEF CondInv, AbstractMonitor!Next

(* A token taken ends a wait that the call found, and the only one without *)
(* a timeout that notify ends.                                             *)
LEMMA WaitWokenStep ==
  ASSUME CondInv, NEW t \in Thread, WaitWoken(t)
  PROVE  /\ CondInv' /\ AbstractMonitor!Next
         /\ Blocked' \subseteq Blocked
         /\ (call'.on <=> call.on) /\ (call'.all <=> call.all)
<1>e. UNCHANGED <<owner, depth, sleeping, woken, saved, timed>>
  BY DEF WaitWoken
<1>w. waitSem > 0 /\ waitSem' = waitSem - 1 /\ condPc[t] = "blocked"
  BY DEF WaitWoken
<1>t. CondTypes
  BY DEF CondInv
<1>m. /\ condPc' \in [Thread -> PcStates]
      /\ condPc'[t] = "left"
      /\ \A s \in Thread : s # t => condPc'[s] = condPc[s]
      /\ Blocked' = Blocked \ {t}
      /\ Leaving' = Leaving \cup {t}
      /\ InWait' = InWait \cup {t}
  BY <1>t, GotoMoves DEF WaitWoken, PcStates
<1>i. t \in Blocked /\ t \in InWait /\ InWait' = InWait
  BY <1>w, <1>m DEF Blocked, InWait
<1>o. call.on /\ owner \in Thread /\ owner # t /\ InWait \subseteq call.due
  BY <1>w DEF CondInv, CallOwned, CondTypes, InNotify
<1>c. /\ call' \in Calls
      /\ call'.on <=> call.on
      /\ call'.all <=> call.all
      /\ call'.due = call.due
      /\ call'.ended <=> (call.ended \/ t \notin timed)
  <2>1. call' = [call EXCEPT !.ended = @ \/ t \notin timed]
    BY DEF WaitWoken
  <2>2. call \in Calls
    BY <1>t DEF CondTypes
  <2>3. call' = [on |-> call.on, all |-> call.all, due |-> call.due,
                 ended |-> call.ended \/ t \notin timed]
    BY <2>1, <2>2, Zenon DEF Calls
  <2>4. /\ call.on \in BOOLEAN /\ call.all \in BOOLEAN /\ call.due \in SUBSET Thread
        /\ (call.ended \/ t \notin timed) \in BOOLEAN
    BY <2>2, Zenon DEF Calls
  <2> QED BY <2>3, <2>4, Zenon DEF Calls
<1>1. CondTypes'
  BY <1>e, <1>w, <1>m, <1>c, <1>t DEF CondTypes
<1>2. CallOwned'
  <2>1. condPc'[owner] = condPc[owner]
    BY <1>o, <1>m
  <2>2. ASSUME NEW s \in Thread, condPc'[s] \in InNotify
        PROVE  owner' = s
    BY <2>2, <1>m, <1>e DEF CondInv, CallOwned, InNotify
  <2> QED BY <2>1, <2>2, <1>o, <1>c, <1>i, <1>e DEF CondInv, CallOwned
<1>3. Counted'
  <2>1. Notified' = Notified
    BY <1>c, <1>e DEF Notified
  <2> QED BY <2>1, <1>e, <1>i DEF CondInv, Counted
<1>4. ASSUME NEW s \in Thread PROVE Progress(s)'
  <2>1. Progress(s)
    BY DEF CondInv
  <2>2. CASE s = t
    BY <2>2, <1>m DEF Progress
  <2>3. CASE s # t
    <3>1. condPc'[s] = condPc[s]
      BY <2>3, <1>m
    <3>2. condPc[s] # "drain"
      BY <2>1, <1>w DEF Progress
    <3>3. condPc[s] = "wake" => call.all
      BY <2>1, <1>w, <1>t DEF Progress, CondTypes
    <3>4. waitSem \in Nat /\ waitSem' \in Nat /\ waitSem' < waitSem
      BY <1>w, <1>t DEF CondTypes
    <3>5. condPc[s] \in {"await", "rezero"} =>
            (call.all /\ sleeping = 0) \/ (~call.all /\ waitSem' = 0)
      BY <2>1, <3>4, <1>w DEF Progress
    <3> QED BY <2>1, <3>1, <3>2, <3>3, <3>4, <3>5, <1>e, <1>c, <1>i DEF Progress
  <2> QED BY <2>2, <2>3
<1>5. AbstractMonitor!Leave(t)
  <2>1. t \in call.due
    BY <1>i, <1>o
  <2>2. CASE t \in timed
    <3>1. call' = call
      <4>1. call' = [call EXCEPT !.ended = @ \/ t \notin timed]
        BY DEF WaitWoken
      <4>2. call \in Calls
        BY <1>t DEF CondTypes
      <4>3. (call.ended \/ t \notin timed) = call.ended
        BY <2>2, <4>2, Zenon DEF Calls
      <4> QED BY <4>1, <4>2, <4>3, Zenon DEF Calls
    <3> QED BY <2>2, <3>1, <1>i, <1>m, <1>e DEF AbstractMonitor!Leave
  <2>3. CASE t \notin timed
    <3>1. call' = [call EXCEPT !.ended = TRUE]
      <4>1. call' = [call EXCEPT !.ended = @ \/ t \notin timed]
        BY DEF WaitWoken
      <4>2. (call.ended \/ t \notin timed) = TRUE
        BY <2>3, Zenon
      <4> QED BY <4>1, <4>2, Zenon
    <3>2. call.all \/ ~call.ended
      <4>1. Progress(owner) /\ condPc[owner] \in InNotify
        BY <1>o DEF CondInv, CallOwned
      <4>2. waitSem \in Nat \ {0}
        BY <1>w, <1>t DEF CondTypes
      <4> QED BY <4>1, <4>2 DEF Progress, InNotify
    <3> QED BY <2>1, <2>3, <3>1, <3>2, <1>i, <1>m, <1>e DEF AbstractMonitor!Leave
  <2> QED BY <2>2, <2>3
<1> QED BY <1>1, <1>2, <1>3, <1>4, <1>5, <1>c, <1>m DEF CondInv, AbstractMonitor!Next

(* A step of a thread in wait that leaves the call and its tokens alone. *)
LEMMA OthersProgress ==
  ASSUME CondInv, NEW t \in Thread, NEW s \in Thread, s # t,
         condPc'[s] = condPc[s], saved'[s] = saved[s],
         UNCHANGED <<sleeping, waitSem, call>>,
         InWait' \subseteq InWait,
         woken' = woken \/ (call.on => ~(call.due \subseteq InWait'))
  PROVE  Progress(s)'
<1>1. Progress(s)
  BY DEF CondInv
<1>2. condPc[s] \in InNotify => call.on
  BY DEF CondInv, CallOwned
<1>3. condPc[s] = "rezero" => ~(call.due \subseteq InWait')
  BY <1>1 DEF Progress
<1>4. condPc[s] \in {"wake", "await"} /\ woken' > 0 => ~(call.due \subseteq InWait')
  BY <1>1, <1>2 DEF Progress, InNotify
<1> QED BY <1>1, <1>3, <1>4 DEF Progress

(* The timeout of a wait: the thread is still counted among the sleepers. *)
LEMMA WaitTimesOutStep ==
  ASSUME CondInv, NEW t \in Thread, WaitTimesOut(t)
  PROVE  /\ CondInv' /\ AbstractMonitor!Next
         /\ Blocked' \subseteq Blocked /\ UNCHANGED call
<1>e. UNCHANGED <<owner, depth, sleeping, woken, waitSem, saved, timed, call>>
  BY DEF WaitTimesOut
<1>w. condPc[t] = "blocked" /\ t \in timed
  BY DEF WaitTimesOut
<1>t. CondTypes
  BY DEF CondInv
<1>m. /\ condPc' \in [Thread -> PcStates]
      /\ condPc'[t] = "left"
      /\ \A s \in Thread : s # t => condPc'[s] = condPc[s]
      /\ Blocked' = Blocked \ {t}
      /\ Leaving' = Leaving \cup {t}
      /\ InWait' = InWait \cup {t}
  BY <1>t, GotoMoves DEF WaitTimesOut, PcStates
<1>i. t \in Blocked /\ t \in InWait /\ InWait' = InWait
  BY <1>w, <1>m DEF Blocked, InWait
<1>1. CondTypes'
  BY <1>e, <1>m, <1>t DEF CondTypes
<1>2. CallOwned'
  <2>1. ASSUME call.on
        PROVE  owner \in Thread /\ condPc'[owner] \in InNotify /\ InWait' \subseteq call.due
    <3>1. owner \in Thread /\ condPc[owner] \in InNotify /\ InWait \subseteq call.due
      BY <2>1 DEF CondInv, CallOwned
    <3> QED BY <3>1, <1>w, <1>m, <1>i DEF InNotify
  <2>2. ASSUME NEW s \in Thread, condPc'[s] \in InNotify
        PROVE  call.on /\ owner = s
    BY <2>2, <1>m DEF CondInv, CallOwned, InNotify
  <2> QED BY <2>1, <2>2, <1>e DEF CondInv, CallOwned
<1>3. Counted'
  BY <1>e, <1>i DEF CondInv, Counted, Notified
<1>4. ASSUME NEW s \in Thread PROVE Progress(s)'
  <2>1. CASE s = t
    BY <2>1, <1>m DEF Progress
  <2>2. CASE s # t
    BY <2>2, <1>m, <1>i, <1>e, OthersProgress
  <2> QED BY <2>1, <2>2
<1>5. AbstractMonitor!Leave(t)
  BY <1>w, <1>i, <1>m, <1>e DEF AbstractMonitor!Leave
<1> QED BY <1>1, <1>2, <1>3, <1>4, <1>5, <1>e, <1>m DEF CondInv, AbstractMonitor!Next

(* Counted as woken instead of among those in wait. *)
LEMMA WaitCountedStep ==
  ASSUME CondInv, NEW t \in Thread, WaitCounted(t)
  PROVE  /\ CondInv' /\ AbstractMonitor!Next
         /\ Blocked' \subseteq Blocked /\ UNCHANGED call
<1>e. UNCHANGED <<owner, depth, sleeping, waitSem, saved, timed, call>>
  BY DEF WaitCounted
<1>w. condPc[t] = "left" /\ woken' = woken + 1
  BY DEF WaitCounted
<1>t. CondTypes
  BY DEF CondInv
<1>m. /\ condPc' \in [Thread -> PcStates]
      /\ condPc'[t] = "relock"
      /\ \A s \in Thread : s # t => condPc'[s] = condPc[s]
      /\ Blocked' = Blocked \ {t}
      /\ Leaving' = Leaving \ {t}
      /\ InWait' = InWait \ {t}
  BY <1>t, GotoMoves DEF WaitCounted, PcStates
<1>i. t \in Leaving /\ t \in InWait /\ t \notin Blocked
  BY <1>w DEF Blocked, Leaving, InWait
<1>1. CondTypes'
  BY <1>e, <1>w, <1>m, <1>t DEF CondTypes
<1>2. CallOwned'
  <2>1. ASSUME call.on
        PROVE  owner \in Thread /\ condPc'[owner] \in InNotify /\ InWait' \subseteq call.due
    <3>1. owner \in Thread /\ condPc[owner] \in InNotify /\ InWait \subseteq call.due
      BY <2>1 DEF CondInv, CallOwned
    <3> QED BY <3>1, <1>w, <1>m DEF InNotify
  <2>2. ASSUME NEW s \in Thread, condPc'[s] \in InNotify
        PROVE  call.on /\ owner = s
    BY <2>2, <1>m DEF CondInv, CallOwned, InNotify
  <2> QED BY <2>1, <2>2, <1>e DEF CondInv, CallOwned
<1>3. Counted'
  <2>1. Notified' = Notified
    BY <1>e DEF Notified
  <2>2. IsFiniteSet(InWait) /\ Cardinality(InWait) \in Nat
    BY <1>t, WaitersCounted
  <2>3. Cardinality(InWait') = Cardinality(InWait) - 1
    BY <2>2, <1>i, <1>m, FS_RemoveElement
  <2>4. sleeping + Notified = Cardinality(InWait) + woken /\ woken \in Nat
    BY <1>t DEF CondInv, Counted, CondTypes
  <2>5. sleeping' + Notified' = Cardinality(InWait') + woken'
    BY <2>1, <2>2, <2>3, <2>4, <1>e, <1>w
  <2> QED BY <2>5 DEF Counted
<1>4. ASSUME NEW s \in Thread PROVE Progress(s)'
  <2>1. CASE s = t
    BY <2>1, <1>m DEF Progress
  <2>2. CASE s # t
    <3>1. call.on => t \in call.due
      BY <1>i DEF CondInv, CallOwned
    <3>2. call.on => ~(call.due \subseteq InWait')
      BY <3>1, <1>m
    <3> QED BY <2>2, <3>2, <1>m, <1>e, OthersProgress
  <2> QED BY <2>1, <2>2
<1>5. AbstractMonitor!Return(t)
  BY <1>i, <1>m, <1>e DEF AbstractMonitor!Return
<1> QED BY <1>1, <1>2, <1>3, <1>4, <1>5, <1>e, <1>m DEF CondInv, AbstractMonitor!Next

(* The return of wait, with the lock. *)
LEMMA WaitRelocksStep ==
  ASSUME CondInv, NEW t \in Thread, WaitRelocks(t)
  PROVE  /\ CondInv' /\ AbstractMonitor!Next
         /\ Blocked' \subseteq Blocked /\ UNCHANGED call
<1>e. UNCHANGED <<sleeping, woken, waitSem, timed, call>>
  BY DEF WaitRelocks
<1>w. condPc[t] = "relock" /\ owner = NoThread /\ owner' = t /\ depth' = saved[t]
  BY DEF WaitRelocks
<1>t. CondTypes
  BY DEF CondInv
<1>m. /\ condPc' \in [Thread -> PcStates]
      /\ condPc'[t] = "run"
      /\ \A s \in Thread : s # t => condPc'[s] = condPc[s]
      /\ Blocked' = Blocked \ {t}
      /\ Leaving' = Leaving \ {t}
      /\ InWait' = InWait \ {t}
  BY <1>t, GotoMoves DEF WaitRelocks, PcStates
<1>i. Blocked' = Blocked /\ Leaving' = Leaving /\ InWait' = InWait
  BY <1>w, <1>m DEF Blocked, Leaving, InWait
<1>s. saved' \in [Thread -> Int] /\ saved'[t] = 0 /\ \A s \in Thread : s # t => saved'[s] = saved[s]
  BY <1>t DEF WaitRelocks, CondTypes
<1>c. ~call.on
  BY <1>w, ConditionAssumption DEF CondInv, CallOwned
<1>1. CondTypes'
  BY <1>e, <1>w, <1>m, <1>s, <1>t DEF CondTypes
<1>2. CallOwned'
  <2>1. ASSUME NEW s \in Thread PROVE condPc'[s] \notin InNotify
    BY <1>c, <1>m DEF CondInv, CallOwned, InNotify
  <2> QED BY <2>1, <1>c, <1>e DEF CondInv, CallOwned
<1>3. Counted'
  <2>1. Notified' = 0 /\ Notified = 0
    BY <1>c, <1>e DEF Notified
  <2> QED BY <2>1, <1>e, <1>i DEF CondInv, Counted
<1>4. ASSUME NEW s \in Thread PROVE Progress(s)'
  <2>1. CASE s = t
    BY <2>1, <1>m, <1>s DEF Progress
  <2>2. CASE s # t
    BY <2>2, <1>m, <1>s, <1>i, <1>e, OthersProgress
  <2> QED BY <2>1, <2>2
<1>5. AbstractMonitor!Acquire(t)
  BY <1>w, <1>i, <1>e DEF AbstractMonitor!Acquire
<1> QED BY <1>1, <1>2, <1>3, <1>4, <1>5, <1>e, <1>i DEF CondInv, AbstractMonitor!Next

(* The call that is none. *)
LEMMA NoCallTyped ==
  /\ AbstractMonitor!NoCall \in Calls
  /\ ~AbstractMonitor!NoCall.on
BY Zenon DEF AbstractMonitor!NoCall, Calls

(* One thread notifies at a time, the owner of the lock. *)
LEMMA NotifierOwns ==
  ASSUME CondInv, NEW t \in Thread, condPc[t] \in InNotify
  PROVE  /\ call.on /\ owner = t /\ InWait \subseteq call.due
         /\ Notified = saved[t]
         /\ \A s \in Thread : s # t => condPc[s] \notin InNotify
         /\ Progress(t)
         /\ CondTypes
<1>1. call.on /\ owner = t /\ InWait \subseteq call.due
  BY DEF CondInv, CallOwned
<1>2. \A s \in Thread : s # t => condPc[s] \notin InNotify
  BY <1>1 DEF CondInv, CallOwned
<1> QED BY <1>1, <1>2 DEF CondInv, Notified

(* What a notification does says nothing of the threads that do not notify. *)
LEMMA BystandersProgress ==
  ASSUME CondInv, NEW s \in Thread, condPc[s] \notin InNotify,
         condPc'[s] = condPc[s], saved'[s] = saved[s]
  PROVE  Progress(s)'
BY DEF CondInv, Progress, InNotify

(* The notification of t is still its owner's. *)
LEMMA StillOwned ==
  ASSUME CondInv, NEW t \in Thread, condPc[t] \in InNotify, condPc'[t] \in InNotify,
         \A s \in Thread : s # t => condPc'[s] = condPc[s],
         UNCHANGED <<owner, call>>, InWait' = InWait
  PROVE  CallOwned'
<1>1. call.on /\ owner = t /\ InWait \subseteq call.due
  BY NotifierOwns
<1>2. ASSUME NEW s \in Thread, condPc'[s] \in InNotify
      PROVE  s = t
  BY <1>2, NotifierOwns
<1> QED BY <1>1, <1>2 DEF CallOwned

(* The end of a call whose word is kept: all have left, or one has. *)
LEMMA CallEnds ==
  ASSUME CondInv, NEW t \in Thread, condPc[t] \in InNotify,
         NotifyDone(t), UNCHANGED <<owner, depth, timed, woken>>,
         waitSem' = 0, sleeping' \in Nat, saved' = saved, saved[t] = 0,
         sleeping' = sleeping,
         InWait = {} \/ (~call.all /\ ~(call.due \subseteq InWait))
  PROVE  /\ CondInv' /\ AbstractMonitor!Next
         /\ Blocked' = Blocked /\ ~call'.on
<1>o. /\ call.on /\ owner = t /\ Notified = 0
      /\ \A s \in Thread : s # t => condPc[s] \notin InNotify
      /\ CondTypes
  BY NotifierOwns
<1>m. /\ condPc' \in [Thread -> PcStates]
      /\ condPc'[t] = "run"
      /\ \A s \in Thread : s # t => condPc'[s] = condPc[s]
      /\ Blocked' = Blocked \ {t}
      /\ Leaving' = Leaving \ {t}
      /\ InWait' = InWait \ {t}
  BY <1>o, GotoMoves DEF NotifyDone, PcStates
<1>i. Blocked' = Blocked /\ Leaving' = Leaving /\ InWait' = InWait
  BY <1>m DEF Blocked, Leaving, InWait, InNotify
<1>c. call' = AbstractMonitor!NoCall /\ call' \in Calls /\ ~call'.on
  BY NoCallTyped, Zenon DEF NotifyDone
<1>1. CondTypes'
  BY <1>o, <1>m, <1>c DEF CondTypes
<1>2. CallOwned'
  <2>1. ASSUME NEW s \in Thread PROVE condPc'[s] \notin InNotify
    BY <1>m, <1>o DEF InNotify
  <2> QED BY <2>1, <1>c DEF CallOwned
<1>3. Counted'
  <2>1. Notified' = 0
    BY <1>c DEF Notified
  <2> QED BY <2>1, <1>o, <1>i DEF CondInv, Counted
<1>4. ASSUME NEW s \in Thread PROVE Progress(s)'
  <2>1. CASE s = t
    BY <2>1, <1>m DEF Progress
  <2>2. CASE s # t
    BY <2>2, <1>m, <1>o, BystandersProgress
  <2> QED BY <2>1, <2>2
<1>5. AbstractMonitor!NotifyEnds(t)
  <2>1. LET still == call.due \cap (Blocked \cup Leaving) IN
          still = {} \/ (~call.all /\ still # call.due)
    BY DEF InWait
  <2> QED BY <2>1, <1>o, <1>i, <1>c DEF AbstractMonitor!NotifyEnds
<1> QED BY <1>1, <1>2, <1>3, <1>4, <1>5, <1>i, <1>c DEF CondInv, AbstractMonitor!Next

(* notify begins: it finds those in wait. *)
LEMMA NotifyBeginsStep ==
  ASSUME CondInv, NEW t \in Thread, NEW all \in BOOLEAN, NotifyBegins(t, all)
  PROVE  CondInv' /\ AbstractMonitor!Next /\ call'.on /\ (call'.all <=> all)
<1>e. UNCHANGED <<owner, depth, sleeping, woken, waitSem, saved, timed>>
  BY DEF NotifyBegins
<1>o. /\ ~call.on /\ waitSem = 0 /\ saved[t] = 0 /\ owner = t /\ condPc[t] = "run"
      /\ CondTypes
  BY NoCallOfOwner DEF NotifyBegins, CondInv, Mine
<1>m. /\ condPc' \in [Thread -> PcStates]
      /\ condPc'[t] = "drain"
      /\ \A s \in Thread : s # t => condPc'[s] = condPc[s]
      /\ Blocked' = Blocked \ {t}
      /\ Leaving' = Leaving \ {t}
      /\ InWait' = InWait \ {t}
  BY <1>o, GotoMoves DEF NotifyBegins, PcStates, InNotify
<1>i. Blocked' = Blocked /\ Leaving' = Leaving /\ InWait' = InWait
  BY <1>m, <1>o DEF Blocked, Leaving, InWait
<1>n. call' = [AbstractMonitor!NoCall EXCEPT !.on = TRUE, !.all = all,
                                             !.due = Blocked \cup Leaving]
  BY DEF NotifyBegins
<1>c. call' \in Calls /\ call'.on /\ (call'.all <=> all) /\ call'.due = InWait /\ ~call'.ended
  <2>1. call' = [on |-> TRUE, all |-> all, due |-> InWait, ended |-> FALSE]
    BY <1>n, Zenon DEF AbstractMonitor!NoCall, InWait
  <2>2. InWait \subseteq Thread
    BY DEF InWait, Blocked, Leaving
  <2> QED BY <2>1, <2>2, Zenon DEF Calls
<1>1. CondTypes'
  BY <1>o, <1>e, <1>m, <1>c DEF CondTypes
<1>2. CallOwned'
  <2>1. ASSUME NEW s \in Thread, condPc'[s] \in InNotify
        PROVE  s = t
    BY <2>1, <1>m, <1>o DEF CondInv, CallOwned
  <2>2. condPc'[t] \in InNotify
    BY <1>m DEF InNotify
  <2> QED BY <2>1, <2>2, <1>c, <1>e, <1>i, <1>o DEF CallOwned
<1>3. Counted'
  <2>1. Notified = 0 /\ Notified' = 0
    BY <1>o, <1>e, <1>c DEF Notified
  <2> QED BY <2>1, <1>e, <1>i DEF CondInv, Counted
<1>4. ASSUME NEW s \in Thread PROVE Progress(s)'
  <2>1. CASE s = t
    BY <2>1, <1>m, <1>o, <1>e, <1>c DEF Progress
  <2>2. CASE s # t
    <3>1. condPc[s] \notin InNotify
      BY <1>o DEF CondInv, CallOwned
    <3> QED BY <2>2, <3>1, <1>m, <1>e, BystandersProgress
  <2> QED BY <2>1, <2>2
<1>5. AbstractMonitor!NotifyBegins(t)
  BY <1>o, <1>n, <1>e, <1>i DEF AbstractMonitor!NotifyBegins
<1> QED BY <1>1, <1>2, <1>3, <1>4, <1>5, <1>c DEF CondInv, AbstractMonitor!Next

(* Who left before the call is taken from both counts. *)
LEMMA NotifyDrainsStep ==
  ASSUME CondInv, NEW t \in Thread, NotifyDrains(t)
  PROVE  CondInv' /\ UNCHANGED monitorVars
<1>e. UNCHANGED <<owner, depth, waitSem, saved, timed, call>>
  BY DEF NotifyDrains
<1>p. condPc[t] = "drain" /\ condPc[t] \in InNotify
  BY DEF NotifyDrains, InNotify
<1>o. /\ call.on /\ owner = t /\ Notified = saved[t] /\ Progress(t) /\ CondTypes
      /\ \A s \in Thread : s # t => condPc[s] \notin InNotify
  BY <1>p, NotifierOwns
<1>s. saved[t] = 0 /\ waitSem = 0 /\ ~call.ended /\ Notified' = 0 /\ Notified = 0
  BY <1>p, <1>o, <1>e DEF Progress, Notified
<1>m. /\ condPc' \in [Thread -> PcStates] /\ condPc'[t] \in {"drain", "wake"}
      /\ \A s \in Thread : s # t => condPc'[s] = condPc[s]
      /\ Blocked' = Blocked /\ Leaving' = Leaving /\ InWait' = InWait
      /\ sleeping' \in Nat /\ woken' \in Nat
      /\ sleeping' - woken' = sleeping - woken
      /\ condPc'[t] = "wake" => woken' = 0
  <2>1. CASE woken > 0
    <3>1. UNCHANGED condPc /\ sleeping > 0 /\ woken' = woken - 1 /\ sleeping' = sleeping - 1
      BY <2>1 DEF NotifyDrains
    <3> QED BY <2>1, <3>1, <1>p, <1>o, NobodyMoves DEF CondTypes
  <2>2. CASE ~(woken > 0)
    <3>1. Goto(t, "wake") /\ UNCHANGED <<woken, sleeping>>
      BY <2>2 DEF NotifyDrains
    <3>2. /\ condPc' \in [Thread -> PcStates]
          /\ condPc'[t] = "wake"
          /\ \A s \in Thread : s # t => condPc'[s] = condPc[s]
          /\ Blocked' = Blocked \ {t}
          /\ Leaving' = Leaving \ {t}
          /\ InWait' = InWait \ {t}
      BY <1>o, <3>1, GotoMoves DEF PcStates, InNotify
    <3>3. Blocked' = Blocked /\ Leaving' = Leaving /\ InWait' = InWait
      BY <3>2, <1>p DEF Blocked, Leaving, InWait
    <3> QED BY <2>2, <3>1, <3>2, <3>3, <1>o DEF CondTypes
  <2> QED BY <2>1, <2>2
<1>1. CondTypes'
  BY <1>o, <1>e, <1>m DEF CondTypes
<1>2. CallOwned'
  BY <1>p, <1>m, <1>e, StillOwned DEF InNotify
<1>3. Counted'
  <2>1. Cardinality(InWait) \in Nat
    BY <1>o, WaitersCounted
  <2>2. sleeping = Cardinality(InWait) + woken /\ sleeping \in Nat /\ woken \in Nat
    BY <1>o, <1>s DEF CondInv, Counted, CondTypes
  <2>3. sleeping' + 0 = Cardinality(InWait) + woken'
    BY <2>1, <2>2, <1>m
  <2> QED BY <2>3, <1>s, <1>m DEF Counted
<1>4. ASSUME NEW s \in Thread PROVE Progress(s)'
  <2>1. CASE s = t
    BY <2>1, <1>m, <1>s, <1>e DEF Progress
  <2>2. CASE s # t
    BY <2>2, <1>m, <1>o, <1>e, BystandersProgress
  <2> QED BY <2>1, <2>2
<1> QED BY <1>1, <1>2, <1>3, <1>4, <1>m, <1>e DEF CondInv, monitorVars

\* A step of a call that leaves who waits as it is.
NotifyEffect ==
  /\ CondInv' /\ (AbstractMonitor!Next \/ UNCHANGED monitorVars)
  /\ Blocked' = Blocked
  /\ UNCHANGED call \/ (~call'.on /\ (call.all => Blocked = {}))

(* A sleeper is given a token; with no sleepers the call awaits or ends. *)
LEMMA NotifyWakesStep ==
  ASSUME CondInv, NEW t \in Thread, NotifyWakes(t)
  PROVE  NotifyEffect
<1>e. UNCHANGED <<owner, depth, woken, timed>>
  BY DEF NotifyWakes
<1>p. condPc[t] = "wake" /\ condPc[t] \in InNotify
  BY DEF NotifyWakes, InNotify
<1>o. /\ call.on /\ owner = t /\ Notified = saved[t] /\ Progress(t) /\ CondTypes
      /\ \A s \in Thread : s # t => condPc[s] \notin InNotify
  BY <1>p, NotifierOwns
<1>s. /\ saved[t] \in Nat /\ waitSem <= saved[t]
      /\ call.all \/ (saved[t] = 0 /\ ~call.ended)
      /\ woken > 0 => ~(call.due \subseteq InWait)
  BY <1>p, <1>o DEF Progress
<1>n. sleeping \in Nat /\ woken \in Nat /\ waitSem \in Nat /\ call \in Calls
  BY <1>o DEF CondTypes
<1>k. IsFiniteSet(InWait) /\ Cardinality(InWait) \in Nat
  BY <1>o, WaitersCounted
<1>1. CASE sleeping > 0
  <2>e. /\ sleeping' = sleeping - 1 /\ waitSem' = waitSem + 1 /\ UNCHANGED call
        /\ saved' = [saved EXCEPT ![t] = saved[t] + 1]
        /\ Goto(t, IF call.all THEN "wake" ELSE "await")
    BY <1>1 DEF NotifyWakes
  <2>s. /\ saved' \in [Thread -> Int] /\ saved'[t] = saved[t] + 1
        /\ \A s \in Thread : s # t => saved'[s] = saved[s]
    BY <2>e, <1>o DEF CondTypes
  <2>m. /\ condPc' \in [Thread -> PcStates]
        /\ condPc'[t] = IF call.all THEN "wake" ELSE "await"
        /\ \A s \in Thread : s # t => condPc'[s] = condPc[s]
        /\ Blocked' = Blocked \ {t}
        /\ Leaving' = Leaving \ {t}
    <3>1. CASE call.all
      <4>1. Goto(t, "wake")
        BY <2>e, <3>1
      <4> QED BY <4>1, <3>1, <1>o, GotoMoves DEF PcStates, InNotify
    <3>2. CASE ~call.all
      <4>1. Goto(t, "await")
        BY <2>e, <3>2
      <4> QED BY <4>1, <3>2, <1>o, GotoMoves DEF PcStates, InNotify
    <3> QED BY <3>1, <3>2
  <2>i. Blocked' = Blocked /\ Leaving' = Leaving /\ InWait' = InWait
    BY <2>m, <1>p DEF Blocked, Leaving, InWait
  <2>1. CondTypes'
    BY <1>o, <1>e, <1>n, <1>1, <2>e, <2>s, <2>m DEF CondTypes
  <2>2. CallOwned'
    BY <1>p, <1>e, <2>e, <2>m, <2>i, StillOwned DEF InNotify
  <2>3. Counted'
    <3>1. Notified' = saved[t] + 1
      BY <1>o, <1>e, <2>e, <2>s DEF Notified
    <3>2. sleeping + saved[t] = Cardinality(InWait) + woken
      BY <1>o DEF CondInv, Counted
    <3>3. sleeping' + Notified' = Cardinality(InWait) + woken
      BY <3>1, <3>2, <1>n, <1>s, <1>k, <2>e
    <3> QED BY <3>3, <2>i, <1>e DEF Counted
  <2>4. ASSUME NEW s \in Thread PROVE Progress(s)'
    <3>1. CASE s = t /\ call.all
      BY <3>1, <1>s, <1>n, <1>e, <2>e, <2>s, <2>m, <2>i DEF Progress
    <3>2. CASE s = t /\ ~call.all
      <4>1. waitSem' = 1 /\ ~call.ended /\ saved'[t] = 1 /\ condPc'[t] = "await"
        BY <3>2, <1>s, <1>n, <2>e, <2>s, <2>m
      <4> QED BY <3>2, <4>1, <1>s, <1>e, <2>e, <2>i DEF Progress
    <3>3. CASE s # t
      BY <3>3, <2>m, <2>s, <1>o, BystandersProgress
    <3> QED BY <3>1, <3>2, <3>3
  <2> QED BY <2>1, <2>2, <2>3, <2>4, <2>e, <2>i, <1>e DEF NotifyEffect, CondInv, monitorVars
<1>2. CASE ~(sleeping > 0) /\ saved[t] > 0
  <2>e. Goto(t, "await") /\ UNCHANGED <<sleeping, waitSem, saved, call>>
    BY <1>2 DEF NotifyWakes
  <2>m. /\ condPc' \in [Thread -> PcStates]
        /\ condPc'[t] = "await"
        /\ \A s \in Thread : s # t => condPc'[s] = condPc[s]
        /\ Blocked' = Blocked \ {t}
        /\ Leaving' = Leaving \ {t}
    BY <2>e, <1>o, GotoMoves DEF PcStates, InNotify
  <2>i. Blocked' = Blocked /\ Leaving' = Leaving /\ InWait' = InWait
    BY <2>m, <1>p DEF Blocked, Leaving, InWait
  <2>1. CondTypes'
    BY <1>o, <1>e, <2>e, <2>m DEF CondTypes
  <2>2. CallOwned'
    BY <1>p, <1>e, <2>e, <2>m, <2>i, StillOwned DEF InNotify
  <2>3. Counted'
    BY <1>e, <2>e, <2>i DEF CondInv, Counted, Notified
  <2>4. ASSUME NEW s \in Thread PROVE Progress(s)'
    <3>1. CASE s = t
      <4>1. call.all /\ sleeping = 0 /\ saved[t] \in Nat \ {0}
        BY <1>2, <1>s, <1>n
      <4> QED BY <3>1, <4>1, <1>s, <1>e, <2>e, <2>m, <2>i DEF Progress
    <3>2. CASE s # t
      BY <3>2, <2>m, <2>e, <1>o, BystandersProgress
    <3> QED BY <3>1, <3>2
  <2> QED BY <2>1, <2>2, <2>3, <2>4, <2>e, <2>i, <1>e DEF NotifyEffect, CondInv, monitorVars
<1>3. CASE ~(sleeping > 0) /\ ~(saved[t] > 0)
  <2>1. NotifyDone(t) /\ UNCHANGED <<sleeping, waitSem, saved>>
    BY <1>3 DEF NotifyWakes
  <2>2. sleeping = 0 /\ saved[t] = 0 /\ waitSem = 0
    BY <1>3, <1>s, <1>n
  <2>3. Cardinality(InWait) = 0
    BY <2>2, <1>o, <1>n, <1>k DEF CondInv, Counted
  <2>4. InWait = {} /\ Blocked = {}
    BY <2>3, <1>k, FS_EmptySet DEF InWait
  <2>5. CondInv' /\ AbstractMonitor!Next /\ Blocked' = Blocked /\ ~call'.on
    BY <2>1, <2>2, <2>4, <1>p, <1>e, <1>n, CallEnds
  <2> QED BY <2>4, <2>5 DEF NotifyEffect
<1> QED BY <1>1, <1>2, <1>3

(* One of those woken has come. *)
LEMMA NotifyAwaitsStep ==
  ASSUME CondInv, NEW t \in Thread, NotifyAwaits(t)
  PROVE  NotifyEffect
<1>e. UNCHANGED <<owner, depth, sleeping, waitSem, timed, call>>
  BY DEF NotifyAwaits
<1>p. condPc[t] = "await" /\ condPc[t] \in InNotify
  BY DEF NotifyAwaits, InNotify
<1>o. /\ call.on /\ owner = t /\ Notified = saved[t] /\ Progress(t) /\ CondTypes
      /\ \A s \in Thread : s # t => condPc[s] \notin InNotify
  BY <1>p, NotifierOwns
<1>w. /\ woken > 0 /\ woken' = woken - 1
      /\ saved' = [saved EXCEPT ![t] = saved[t] - 1]
      /\ Goto(t, IF saved[t] = 1 THEN "rezero" ELSE "await")
  BY DEF NotifyAwaits
<1>s. /\ saved[t] \in Nat \ {0} /\ ~(call.due \subseteq InWait)
      /\ \/ call.all /\ sleeping = 0
         \/ ~call.all /\ (waitSem = 0 \/ (waitSem = 1 /\ ~call.ended))
  BY <1>p, <1>o, <1>w DEF Progress
<1>n. sleeping \in Nat /\ woken \in Nat /\ waitSem \in Nat
  BY <1>o DEF CondTypes
<1>u. /\ saved' \in [Thread -> Int] /\ saved'[t] = saved[t] - 1
      /\ \A s \in Thread : s # t => saved'[s] = saved[s]
  BY <1>w, <1>o DEF CondTypes
<1>m. /\ condPc' \in [Thread -> PcStates]
      /\ condPc'[t] = IF saved[t] = 1 THEN "rezero" ELSE "await"
      /\ \A s \in Thread : s # t => condPc'[s] = condPc[s]
      /\ Blocked' = Blocked \ {t}
      /\ Leaving' = Leaving \ {t}
  <2>1. CASE saved[t] = 1
    <3>1. Goto(t, "rezero")
      BY <1>w, <2>1
    <3> QED BY <3>1, <2>1, <1>o, GotoMoves DEF PcStates, InNotify
  <2>2. CASE saved[t] # 1
    <3>1. Goto(t, "await")
      BY <1>w, <2>2
    <3> QED BY <3>1, <2>2, <1>o, GotoMoves DEF PcStates, InNotify
  <2> QED BY <2>1, <2>2
<1>i. Blocked' = Blocked /\ Leaving' = Leaving /\ InWait' = InWait
  BY <1>m, <1>p DEF Blocked, Leaving, InWait
<1>1. CondTypes'
  BY <1>o, <1>e, <1>n, <1>w, <1>u, <1>m DEF CondTypes
<1>2. CallOwned'
  BY <1>p, <1>e, <1>m, <1>i, StillOwned DEF InNotify
<1>3. Counted'
  <2>1. Notified' = saved[t] - 1
    BY <1>o, <1>e, <1>u DEF Notified
  <2>2. sleeping + saved[t] = Cardinality(InWait) + woken
    BY <1>o DEF CondInv, Counted
  <2>3. Cardinality(InWait) \in Nat
    BY <1>o, WaitersCounted
  <2>4. sleeping' + Notified' = Cardinality(InWait) + woken'
    BY <2>1, <2>2, <2>3, <1>n, <1>s, <1>e, <1>w
  <2> QED BY <2>4, <1>i DEF Counted
<1>4. ASSUME NEW s \in Thread PROVE Progress(s)'
  <2>1. CASE s = t /\ saved[t] = 1
    BY <2>1, <1>s, <1>e, <1>u, <1>m, <1>i DEF Progress
  <2>2. CASE s = t /\ saved[t] # 1
    BY <2>2, <1>s, <1>e, <1>u, <1>m, <1>i DEF Progress
  <2>3. CASE s # t
    BY <2>3, <1>m, <1>u, <1>o, BystandersProgress
  <2> QED BY <2>1, <2>2, <2>3
<1> QED BY <1>1, <1>2, <1>3, <1>4, <1>e, <1>i DEF NotifyEffect, CondInv, monitorVars

(* The tokens nobody took are taken back, and the call ends. *)
LEMMA NotifyRezeroesStep ==
  ASSUME CondInv, NEW t \in Thread, NotifyRezeroes(t)
  PROVE  NotifyEffect
<1>e. UNCHANGED <<owner, depth, sleeping, woken, saved, timed>>
  BY DEF NotifyRezeroes
<1>p. condPc[t] = "rezero" /\ condPc[t] \in InNotify
  BY DEF NotifyRezeroes, InNotify
<1>o. /\ call.on /\ owner = t /\ Notified = saved[t] /\ Progress(t) /\ CondTypes
      /\ \A s \in Thread : s # t => condPc[s] \notin InNotify
  BY <1>p, NotifierOwns
<1>s. /\ saved[t] = 0 /\ ~(call.due \subseteq InWait)
      /\ \/ call.all /\ sleeping = 0
         \/ ~call.all /\ (waitSem = 0 \/ (waitSem = 1 /\ ~call.ended))
  BY <1>p, <1>o DEF Progress
<1>n. sleeping \in Nat /\ woken \in Nat /\ waitSem \in Nat
  BY <1>o DEF CondTypes
<1>w. waitSem' = IF waitSem > 0 THEN waitSem - 1 ELSE 0
  BY DEF NotifyRezeroes
<1>1. CASE call.all /\ waitSem > 0
  <2>e. UNCHANGED <<condPc, call>> /\ waitSem' = waitSem - 1
    BY <1>1, <1>w DEF NotifyRezeroes
  <2>i. Blocked' = Blocked /\ Leaving' = Leaving /\ InWait' = InWait
    BY <2>e, NobodyMoves
  <2>1. CondTypes'
    BY <1>o, <1>e, <1>n, <1>1, <2>e DEF CondTypes
  <2>2. CallOwned'
    BY <1>p, <1>e, <2>e, <2>i, StillOwned
  <2>3. Counted'
    BY <1>e, <2>e, <2>i DEF CondInv, Counted, Notified
  <2>4. ASSUME NEW s \in Thread PROVE Progress(s)'
    <3>1. CASE s = t
      <4>1. /\ condPc'[s] = "rezero" /\ saved'[s] = 0 /\ call'.all /\ sleeping' = 0
            /\ ~(call'.due \subseteq InWait')
        BY <3>1, <1>1, <1>s, <1>p, <1>e, <2>e, <2>i
      <4> QED BY <4>1 DEF Progress
    <3>2. CASE s # t
      BY <3>2, <1>e, <2>e, <1>o, BystandersProgress
    <3> QED BY <3>1, <3>2
  <2> QED BY <2>1, <2>2, <2>3, <2>4, <2>e, <2>i, <1>e DEF NotifyEffect, CondInv, monitorVars
<1>2. CASE ~(call.all /\ waitSem > 0)
  <2>1. NotifyDone(t)
    BY <1>2 DEF NotifyRezeroes
  <2>2. waitSem' = 0
    BY <1>2, <1>s, <1>n, <1>w
  <2>3. call.all => InWait = {} /\ Blocked = {}
    <3>1. ASSUME call.all PROVE Cardinality(InWait) = 0
      <4>1. sleeping = 0 /\ Cardinality(InWait) \in Nat
        BY <3>1, <1>s, <1>o, WaitersCounted
      <4>2. 0 + 0 = Cardinality(InWait) + woken
        BY <4>1, <1>s, <1>o DEF CondInv, Counted
      <4> QED BY <4>1, <4>2, <1>n
    <3>2. IsFiniteSet(InWait)
      BY <1>o, WaitersCounted
    <3> QED BY <3>1, <3>2, FS_EmptySet DEF InWait
  <2>4. CondInv' /\ AbstractMonitor!Next /\ Blocked' = Blocked /\ ~call'.on
    BY <2>1, <2>2, <2>3, <1>s, <1>p, <1>e, <1>n, CallEnds
  <2> QED BY <2>3, <2>4 DEF NotifyEffect
<1> QED BY <1>1, <1>2

(* Every step of wait and notify: it wakes threads, or ends a call. *)
LEMMA ContinuesStep ==
  ASSUME CondInv, NEW t \in Thread, Continues(t)
  PROVE  /\ CondInv' /\ (AbstractMonitor!Next \/ UNCHANGED monitorVars)
         /\ Blocked' \subseteq Blocked
         /\ \/ (call'.on <=> call.on) /\ (call'.all <=> call.all)
            \/ ~call'.on /\ (call.all => Blocked' = {})
<1>1. CASE WaitWoken(t)
  BY <1>1, WaitWokenStep
<1>2. CASE WaitTimesOut(t)
  BY <1>2, WaitTimesOutStep
<1>3. CASE WaitCounted(t)
  BY <1>3, WaitCountedStep
<1>4. CASE WaitRelocks(t)
  BY <1>4, WaitRelocksStep
<1>5. CASE NotifyDrains(t)
  <2>1. CondInv' /\ UNCHANGED monitorVars
    BY <1>5, NotifyDrainsStep
  <2> QED BY <2>1 DEF monitorVars
<1>6. ASSUME NotifyEffect
      PROVE  /\ CondInv' /\ (AbstractMonitor!Next \/ UNCHANGED monitorVars)
             /\ Blocked' \subseteq Blocked
             /\ \/ (call'.on <=> call.on) /\ (call'.all <=> call.all)
                \/ ~call'.on /\ (call.all => Blocked' = {})
  BY <1>6 DEF NotifyEffect
<1>7. CASE NotifyWakes(t) \/ NotifyAwaits(t) \/ NotifyRezeroes(t)
  BY <1>6, <1>7, NotifyWakesStep, NotifyAwaitsStep, NotifyRezeroesStep
<1> QED BY <1>1, <1>2, <1>3, <1>4, <1>5, <1>7 DEF Continues

\* An event is set with a call to all, and waited for only when it is not set.
EventInv ==
  /\ user \in {"condition", "event"}
  /\ user = "condition" => flag = 0
  /\ user = "event" /\ call.on => call.all
  /\ flag = 1 => Blocked = {} \/ call.on

ConditionInv == CondInv /\ EventInv

(* At first nobody waits. *)
LEMMA CondStarts ==
  ASSUME CondInit
  PROVE  ConditionInv /\ AbstractMonitor!Init
<1>1. \A t \in Thread : condPc[t] = "run" /\ saved[t] = 0
  BY DEF CondInit
<1>2. Blocked = {} /\ Leaving = {} /\ InWait = {}
  BY <1>1 DEF Blocked, Leaving, InWait
<1>3. call \in Calls /\ ~call.on
  BY NoCallTyped, Zenon DEF CondInit
<1>4. CondTypes
  BY <1>3 DEF CondInit, CondTypes, PcStates
<1>5. CallOwned
  BY <1>1, <1>3 DEF CondInit, CallOwned, InNotify
<1>6. Counted
  BY <1>2, <1>3, FS_EmptySet DEF CondInit, Counted, Notified
<1>7. \A t \in Thread : Progress(t)
  BY <1>1 DEF Progress
<1>8. EventInv
  BY <1>3 DEF CondInit, EventInv
<1>9. AbstractMonitor!Init
  BY <1>2 DEF CondInit, AbstractMonitor!Init
<1> QED BY <1>4, <1>5, <1>6, <1>7, <1>8, <1>9 DEF ConditionInv, CondInv

(* Every operation begun. *)
LEMMA OperatesStep ==
  ASSUME CondInv, NEW t \in Thread, Operates(t)
  PROVE  CondInv' /\ (AbstractMonitor!Next \/ UNCHANGED monitorVars)
<1>1. CASE Lock(t) /\ condPc[t] = "run"
  BY <1>1, LockStep
<1>2. CASE Relock(t)
  BY <1>2, RelockStep
<1>3. CASE Unlock(t)
  BY <1>3, UnlockStep
<1>4. CASE \E b \in BOOLEAN : WaitBegins(t, b) \/ NotifyBegins(t, b)
  BY <1>4, WaitBeginsStep, NotifyBeginsStep
<1> QED BY <1>1, <1>2, <1>3, <1>4 DEF Operates

(* A step of others. *)
LEMMA CondStutters ==
  ASSUME CondInv, UNCHANGED condVars
  PROVE  CondInv' /\ UNCHANGED monitorVars
<1>e. UNCHANGED <<owner, depth, sleeping, woken, waitSem, condPc, saved, timed, call>>
  BY DEF condVars
<1>m. Blocked' = Blocked /\ Leaving' = Leaving /\ InWait' = InWait
  BY <1>e, NobodyMoves
<1>1. CondTypes'
  BY <1>e DEF CondInv, CondTypes
<1>2. CallOwned'
  BY <1>e, <1>m DEF CondInv, CallOwned
<1>3. Counted'
  BY <1>e, <1>m DEF CondInv, Counted, Notified
<1>4. ASSUME NEW s \in Thread PROVE Progress(s)'
  BY <1>e, <1>m DEF CondInv, Progress
<1> QED BY <1>1, <1>2, <1>3, <1>4, <1>e, <1>m DEF CondInv, monitorVars

(* Every step of a condition or of an event is the monitor's, or none of it. *)
LEMMA ConditionStep ==
  ASSUME ConditionInv, [CondNext]_conditionVars
  PROVE  ConditionInv' /\ (AbstractMonitor!Next \/ UNCHANGED monitorVars)
<1>i. CondInv /\ EventInv
  BY DEF ConditionInv
<1>1. CASE ConditionNext
  <2>1. PICK t \in Thread : (Operates(t) \/ Continues(t)) /\ UNCHANGED eventVars
    BY <1>1 DEF ConditionNext
  <2>2. CondInv' /\ (AbstractMonitor!Next \/ UNCHANGED monitorVars)
    BY <2>1, <1>i, OperatesStep, ContinuesStep
  <2>3. user = "condition" /\ user' = user /\ flag' = flag
    BY <1>1, <2>1 DEF ConditionNext, eventVars
  <2>4. EventInv'
    BY <2>3, <1>i DEF EventInv
  <2> QED BY <2>2, <2>4 DEF ConditionInv
<1>2. CASE EventNext
  <2>u. user = "event"
    BY <1>2 DEF EventNext
  <2>p. PICK t \in Thread :
          \/ EventBegins(t) \/ EventSets(t) \/ EventClears(t) \/ EventTests(t)
          \/ EventEnds(t)
          \/ Continues(t) /\ UNCHANGED eventVars
    BY <1>2 DEF EventNext
  <2>1. CASE EventBegins(t)
    <3>1. Lock(t) /\ condPc[t] = "run" /\ UNCHANGED <<user, flag>>
      BY <2>1 DEF EventBegins
    <3>2. UNCHANGED <<condPc, call>> /\ Blocked' = Blocked
      BY <3>1, NobodyMoves DEF Lock
    <3>3. EventInv'
      BY <3>1, <3>2, <1>i DEF EventInv
    <3> QED BY <3>1, <3>3, <1>i, LockStep DEF ConditionInv
  <2>2. CASE EventSets(t)
    <3>1. NotifyBegins(t, TRUE) /\ user' = user /\ TRUE \in BOOLEAN
      BY <2>2 DEF EventSets
    <3>2. CondInv' /\ AbstractMonitor!Next /\ call'.on /\ (call'.all <=> TRUE)
      BY <3>1, <1>i, NotifyBeginsStep
    <3>3. EventInv'
      BY <3>1, <3>2, <2>u DEF EventInv
    <3> QED BY <3>2, <3>3 DEF ConditionInv
  <2>3. CASE EventClears(t)
    <3>1. UNCHANGED condVars /\ flag' = 0 /\ user' = user
      BY <2>3 DEF EventClears
    <3>2. UNCHANGED call
      BY <3>1 DEF condVars
    <3>3. EventInv'
      BY <3>1, <3>2, <1>i, <2>u DEF EventInv
    <3> QED BY <3>1, <3>3, <1>i, CondStutters DEF ConditionInv
  <2>4. CASE EventTests(t)
    <3>1. UNCHANGED <<user, flag>>
      BY <2>4 DEF EventTests
    <3>2. CASE flag = 0 /\ op[t] # "is_set"
      <4>1. WaitBegins(t, op[t] = "wait_timed") /\ (op[t] = "wait_timed") \in BOOLEAN
        BY <2>4, <3>2 DEF EventTests
      <4>2. UNCHANGED call
        BY <4>1 DEF WaitBegins
      <4>3. EventInv'
        BY <3>1, <3>2, <4>2, <1>i DEF EventInv
      <4>4. PICK b \in BOOLEAN : WaitBegins(t, b)
        BY <4>1
      <4> QED BY <4>3, <4>4, <1>i, WaitBeginsStep DEF ConditionInv
    <3>3. CASE ~(flag = 0 /\ op[t] # "is_set")
      <4>1. UNCHANGED condVars
        BY <2>4, <3>3 DEF EventTests
      <4>2. UNCHANGED <<call, condPc>>
        BY <4>1 DEF condVars
      <4>3. EventInv'
        BY <3>1, <4>2, <1>i, NobodyMoves DEF EventInv
      <4> QED BY <4>1, <4>3, <1>i, CondStutters DEF ConditionInv
    <3> QED BY <3>2, <3>3
  <2>5. CASE EventEnds(t)
    <3>1. Unlock(t) /\ UNCHANGED <<user, flag>>
      BY <2>5 DEF EventEnds
    <3>2. UNCHANGED <<condPc, call>> /\ Blocked' = Blocked
      BY <3>1, NobodyMoves DEF Unlock
    <3>3. EventInv'
      BY <3>1, <3>2, <1>i DEF EventInv
    <3> QED BY <3>1, <3>3, <1>i, UnlockStep DEF ConditionInv
  <2>6. CASE Continues(t) /\ UNCHANGED eventVars
    <3>1. /\ CondInv' /\ (AbstractMonitor!Next \/ UNCHANGED monitorVars)
          /\ Blocked' \subseteq Blocked
          /\ \/ (call'.on <=> call.on) /\ (call'.all <=> call.all)
             \/ ~call'.on /\ (call.all => Blocked' = {})
      BY <2>6, <1>i, ContinuesStep
    <3>2. user' = user /\ flag' = flag
      BY <2>6 DEF eventVars
    <3>3. CASE (call'.on <=> call.on) /\ (call'.all <=> call.all)
      BY <3>1, <3>2, <3>3, <1>i, <2>u DEF EventInv, ConditionInv
    <3>4. CASE ~call'.on /\ (call.all => Blocked' = {})
      <4>1. call.on => Blocked' = {}
        BY <3>4, <1>i, <2>u DEF EventInv
      <4>2. flag = 1 => Blocked' = {}
        BY <4>1, <3>1, <1>i DEF EventInv
      <4> QED BY <3>1, <3>2, <3>4, <4>2, <1>i DEF EventInv, ConditionInv
    <3> QED BY <3>1, <3>3, <3>4
  <2> QED BY <2>p, <2>1, <2>2, <2>3, <2>4, <2>5, <2>6
<1>3. CASE UNCHANGED conditionVars
  <2>1. UNCHANGED condVars /\ UNCHANGED eventVars
    BY <1>3 DEF conditionVars
  <2>2. UNCHANGED <<call, condPc, user, flag>>
    BY <2>1 DEF condVars, eventVars
  <2>3. EventInv'
    BY <2>2, <1>i, NobodyMoves DEF EventInv
  <2> QED BY <2>1, <2>3, <1>i, CondStutters DEF ConditionInv
<1> QED BY <1>1, <1>2, <1>3 DEF CondNext

(* ConditionIPC and EventIPC, four counters in shared memory, keep the word *)
(* of a monitor: notify and notify_all reach those who were waiting, and a  *)
(* wait without a timeout ends by a notification only.                      *)
THEOREM ConditionIsMonitor == CondSpec => ImplementsMonitor
<1>1. CondInit => ConditionInv /\ AbstractMonitor!Init
  BY CondStarts
<1>2. ConditionInv /\ [CondNext]_conditionVars
        => ConditionInv' /\ [AbstractMonitor!Next]_<<owner, Blocked, Leaving, timed, call>>
  BY ConditionStep DEF monitorVars
<1> QED BY <1>1, <1>2, PTL DEF CondSpec, ImplementsMonitor, AbstractMonitor!Spec

(* The assertions of notify and notify_all hold, and no set of an event is *)
(* missed by a thread that waits for it.                                   *)
THEOREM ConditionAsserts == CondSpec => [](AssertionsHold /\ NoMissedEvent)
<1>1. CondInit => ConditionInv
  BY CondStarts
<1>2. ConditionInv /\ [CondNext]_conditionVars => ConditionInv'
  BY ConditionStep
<1>3. ASSUME ConditionInv PROVE AssertionsHold
  <2>i. CondInv
    BY <1>3 DEF ConditionInv
  <2>1. ASSUME NEW t \in Thread, Mine(t)
        PROVE  waitSem = 0
    BY <2>i, <2>1, NoCallOfOwner
  <2>2. ASSUME NEW t \in Thread, condPc[t] = "drain", woken > 0
        PROVE  sleeping > 0
    <3>1. Notified = saved[t] /\ Progress(t) /\ CondTypes
      BY <2>i, <2>2, NotifierOwns DEF InNotify
    <3>2. Cardinality(InWait) \in Nat /\ sleeping \in Nat /\ woken \in Nat
      BY <3>1, WaitersCounted DEF CondTypes
    <3>3. sleeping + 0 = Cardinality(InWait) + woken
      BY <3>1, <2>i, <2>2 DEF Progress, CondInv, Counted
    <3> QED BY <2>2, <3>2, <3>3
  <2> QED BY <2>1, <2>2 DEF AssertionsHold
<1>4. ASSUME ConditionInv PROVE NoMissedEvent
  BY <1>4 DEF ConditionInv, EventInv, CondInv, CallOwned, NoMissedEvent
<1> QED BY <1>1, <1>2, <1>3, <1>4, PTL DEF CondSpec
=============================================================================
