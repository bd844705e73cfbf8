--------------------------------- MODULE Files ---------------------------------
(***************************************************************************)
(* The requests of app_filesystem that change files: copy, move, remove,   *)
(* make a directory, rename and upload.  A copy or a move walks a tree     *)
(* (_cpmv) and goes on after what fails; a failure to make a directory is  *)
(* raised to the walk of the directory above.                              *)
(*                                                                         *)
(* A path is a sequence of names; a permission gives a name to a directory *)
(* and says which operations it allows.  The proof that a walk does what it *)
(* tells is at the end.                                                    *)
(***************************************************************************)
EXTENDS Integers, Sequences, FiniteSets, SequencesExt, Functions, SequenceTheorems, TLAPS

CONSTANTS Name, Dir,
          Trees,        \* the file systems at the start
          Permissions,  \* alias -> [base, edit, upload], or Full
          Full,
          MaxRequests

VARIABLES tree,         \* path -> Dir or a content
          former,       \* tree when the request began
          act,          \* the copy or move: [kind, from, to, replace, stack, at, ok, told]
          asks

filesVars == <<tree, former, act, asks>>

\* Above a file or a directory there are directories.
Closed(f) == \A q \in DOMAIN f : \A k \in 1..(Len(q) - 1) :
               SubSeq(q, 1, k) \in DOMAIN f /\ f[SubSeq(q, 1, k)] = Dir

ASSUME FilesAssumption ==
  /\ \A f \in Trees : DOMAIN f \subseteq Seq(Name) \ {<<>>} /\ Closed(f)
  /\ Permissions # Full => \A a \in DOMAIN Permissions : Permissions[a].base \in Seq(Name)

\* stack: the directories the walk is in, the last first, and which names in them are
\* left; at: the one that is visited, from the top of the walk.
NoJob == [kind |-> "none", from |-> <<>>, to |-> <<>>, replace |-> FALSE,
          stack |-> <<>>, at |-> <<>>, ok |-> TRUE, told |-> "nothing"]

FilesInit == tree \in Trees /\ former = tree /\ act = NoJob /\ asks = 0

-----------------------------------------------------------------------------
Exists(p) == p \in DOMAIN tree
IsDir(p) == Exists(p) /\ tree[p] = Dir
Under(f, p) == {q \in DOMAIN f : IsPrefix(p, q)}
Children(p) == {n \in Name : Append(p, n) \in DOMAIN tree}
Below(p, q) == SubSeq(q, Len(p) + 1, Len(q))
Less(f, p) == Restrict(f, DOMAIN f \ Under(f, p))
Plus(f, p, c) == [q \in DOMAIN f \cup {p} |-> IF q = p THEN c ELSE f[q]]
CanPut(p) == p # <<>> /\ (Len(p) > 1 => IsDir(Front(p)))

\* get_permission_path: the alias at the head of the path is replaced by the path
\* of its permission; with full access the path is itself.
PermissionPath(p) ==
    IF Permissions = Full THEN [name |-> p, edit |-> TRUE, upload |-> TRUE]
    ELSE LET prm == Permissions[Head(p)]
         IN  [name |-> prm.base \o Tail(p), edit |-> prm.edit, upload |-> prm.upload]

Known(p) == Permissions # Full => Head(p) \in DOMAIN Permissions

\* check_and_replace_path: refused when the operation is not allowed, or the path
\* must exist and does not.
Allowed(p, operation, checkExists) ==
    /\ Known(p) /\ PermissionPath(p)[operation]
    /\ checkExists => Exists(PermissionPath(p).name)

\* The directories a client knows, by the names it has for them.
Directories ==
  IF Permissions = Full THEN {p \in DOMAIN tree : tree[p] = Dir}
  ELSE UNION {{<<a>> \o Below(Permissions[a].base, q) :
                 q \in {p \in Under(tree, Permissions[a].base) : tree[p] = Dir}} :
              a \in DOMAIN Permissions}

Ask == act.kind = "none" /\ asks < MaxRequests /\ asks' = asks + 1

-----------------------------------------------------------------------------
\* Nothing is copied or moved into itself.
Starts(kind, from, to, replace) ==
    act' = [kind |-> kind, from |-> from, to |-> to, replace |-> replace,
            stack |-> <<>>, at |-> <<>>, ok |-> TRUE,
            told |-> IF from # to /\ IsPrefix(from, to) THEN "E" ELSE "visit"]

\* req_copy and req_move, of a name the client gives.  A copy beside itself gets a name
\* of its own.
CopyOrMove(kind) ==
    /\ Ask
    /\ \E s \in Directories, d \in Directories, n \in Name, m \in Name, replace \in BOOLEAN :
          /\ Allowed(s, "edit", TRUE) /\ Allowed(d, "edit", TRUE)
          /\ LET from == Append(PermissionPath(s).name, n)
                 to == Append(PermissionPath(d).name, m)
             IN  /\ IF kind = "copy" /\ from = Append(PermissionPath(d).name, n) /\ Exists(from)
                      THEN ~Exists(to) ELSE m = n
                 /\ Starts(kind, from, to, replace)
    /\ former' = tree /\ UNCHANGED tree

Goto(f, stack, ok, told) == tree' = f /\ act' = [act EXCEPT !.stack = stack, !.ok = ok, !.told = told]

\* What follows a visited child or the top of the request.
Result(ok) == IF ok THEN "K" ELSE "E"
Returns(f, stack, ok) == Goto(f, stack, ok, IF stack = <<>> THEN Result(ok) ELSE "walk")

\* A raise: the walk above stops listing; at the top the request fails.
Raise(f) == IF act.stack = <<>> THEN Goto(f, <<>>, FALSE, "raised")
            ELSE Goto(f, [act.stack EXCEPT ![1].todo = {}], FALSE, "walk")

Source == act.from \o act.at
Target == act.to \o act.at

Made == IF Exists(Target) THEN tree ELSE Plus(tree, Target, Dir)

\* _cpmv of a directory: it is made where it is missing, then listed.
VisitDirectory ==
    /\ act.told = "visit" /\ IsDir(Source)
    /\ LET Push(todo, ok) == Goto(Made, <<[at |-> act.at, todo |-> todo]>> \o act.stack, ok, "walk")
       IN  \/ /\ Exists(Target) \/ CanPut(Target)
              /\ Push(Children(Source), act.ok) \/ Push({}, FALSE)
           \/ ~Exists(Target) /\ (Raise(tree) \/ (CanPut(Target) /\ Raise(Made)))
    /\ UNCHANGED <<former, asks>>

\* The place of a file without what was there, with the copy, and after a move.
Cleared == IF Exists(Target) THEN Less(tree, Target) ELSE tree
Copied == Plus(Cleared, Target, tree[Source])
Finished == IF act.kind = "move" THEN Less(Copied, Source) ELSE Copied

\* mutant: the result of the copy or the move of a file is not kept
VisitFileOk ==
    /\ act.told = "visit" /\ ~IsDir(Source)
    /\ \/ Exists(Target) /\ ~act.replace /\ Returns(tree, act.stack, act.ok)
       \/ /\ Exists(Target) => act.replace
          /\ \/ Source \in DOMAIN Cleared /\ CanPut(Target) /\ Returns(Finished, act.stack, act.ok)
             \/ \E f \in {tree, Cleared} : Returns(f, act.stack, act.ok)
    /\ UNCHANGED <<former, asks>>

\* _cpmv of a file, or of what is not there any more: without replace what exists is
\* left, and that is no failure.
VisitFile ==
    /\ act.told = "visit" /\ ~IsDir(Source)
    /\ \/ Exists(Target) /\ ~act.replace /\ Returns(tree, act.stack, act.ok)
       \/ /\ Exists(Target) => act.replace
          /\ \/ /\ Source \in DOMAIN Cleared /\ CanPut(Target)
                /\ \/ Returns(Finished, act.stack, act.ok)
                   \/ \E f \in {Copied, Finished} : Returns(f, act.stack, FALSE)
             \/ \E f \in {tree, Cleared} : Returns(f, act.stack, FALSE)
    /\ UNCHANGED <<former, asks>>

NextChild ==
    /\ act.told = "walk"
    /\ \E n \in act.stack[1].todo :
          act' = [act EXCEPT !.stack[1].todo = @ \ {n}, !.at = Append(act.stack[1].at, n),
                             !.told = "visit"]
    /\ UNCHANGED <<tree, former, asks>>

\* The end of a directory: a move removes it with all that is left in it.
Leave ==
    /\ act.told = "walk" /\ act.stack[1].todo = {}
    /\ LET rest == Tail(act.stack)
       IN  \/ act.kind = "copy" /\ Returns(tree, rest, act.ok)
           \/ act.kind = "move" /\ Returns(Less(tree, act.from \o act.stack[1].at), rest, act.ok)
           \/ act.kind = "move" /\ Returns(tree, rest, FALSE)
    /\ UNCHANGED <<former, asks>>

\* The response; the client asks again.
Respond ==
    /\ act.told \in {"K", "E", "raised"} /\ act' = NoJob
    /\ UNCHANGED <<tree, former, asks>>

-----------------------------------------------------------------------------
\* req_remove, req_makedir, req_rename and req_upload, each of one name.
RemoveFile ==
    /\ Ask
    /\ \E s \in Directories, n \in Name :
          /\ Allowed(s, "edit", TRUE) /\ Exists(Append(PermissionPath(s).name, n))
          /\ tree' = Less(tree, Append(PermissionPath(s).name, n))
    /\ UNCHANGED <<former, act>>

MakeDir ==
    /\ Ask
    /\ \E s \in Directories, n \in Name :
          LET p == Append(PermissionPath(s).name, n)
          IN  Allowed(s, "edit", TRUE) /\ ~Exists(p) /\ CanPut(p) /\ tree' = Plus(tree, p, Dir)
    /\ UNCHANGED <<former, act>>

\* The tree p under the name q.
Renamed(p, q) ==
    LET moved == {q \o Below(p, r) : r \in Under(tree, p)}
    IN  [r \in (DOMAIN tree \ Under(tree, p)) \cup moved |->
           IF r \in moved THEN tree[p \o Below(q, r)] ELSE tree[r]]

Rename ==
    /\ Ask
    /\ \E s \in Directories, n \in Name, m \in Name :
          LET p == Append(PermissionPath(s).name, n)
              q == Append(PermissionPath(s).name, m)
          IN  Allowed(s, "edit", TRUE) /\ Exists(p) /\ ~Exists(q) /\ tree' = Renamed(p, q)
    /\ UNCHANGED <<former, act>>

Upload ==
    /\ Ask
    /\ \E s \in Directories, n \in Name :
          LET p == Append(PermissionPath(s).name, n)
          IN  /\ Allowed(Append(s, n), "upload", FALSE) /\ CanPut(p) /\ ~IsDir(p)
              /\ tree' = Plus(tree, p, "uploaded")
    /\ UNCHANGED <<former, act>>

FilesNext ==
    \/ CopyOrMove("copy") \/ CopyOrMove("move") \/ VisitDirectory \/ VisitFile \/ NextChild \/ Leave \/ Respond
    \/ RemoveFile \/ MakeDir \/ Rename \/ Upload

FilesSpec == FilesInit /\ [][FilesNext]_filesVars

-----------------------------------------------------------------------------
\* A copy or a move that was told to be done has put every file of the tree in
\* its new place, but those that were already there and were not to be replaced:
\* a failure anywhere in the walk reaches the answer ("E:" before the name).
\* A tree that goes to where it is, or to a directory it is in, may lose files:
\* the walk then meets what it put.
DoneWhenTold ==
    act.told = "K" /\ ~IsPrefix(act.to, act.from) =>
        \A q \in Under(former, act.from) :
            LET t == act.to \o Below(act.from, q)
            IN  former[q] = Dir \/ (t \in DOMAIN former /\ ~act.replace) \/ (t \in DOMAIN tree /\ tree[t] = former[q])
-----------------------------------------------------------------------------
(* What every file of the tree is, while the walk goes well: at its new      *)
(* place, or under a name that is still to be visited, and still there.      *)
Paths == Seq(Name)
TreeType(f) == DOMAIN f \subseteq Paths \ {<<>>} /\ Closed(f)

Frame == [at : Paths, todo : SUBSET Name]
Job == [kind : {"none", "copy", "move"}, from : Paths, to : Paths, replace : BOOLEAN,
        stack : Seq(Frame), at : Paths, ok : BOOLEAN,
        told : {"nothing", "visit", "walk", "K", "E", "raised"}]

FilesType ==
  /\ TreeType(tree) /\ TreeType(former) /\ act \in Job
  /\ act.told # "nothing" => act.kind # "none" /\ act.from # <<>>

Apart(p, q) == ~IsPrefix(p, q) /\ ~IsPrefix(q, p)

\* A place is neither under nor above a name that is still to be visited; and so is
\* each directory the walk is in, for the names in the directories above.
Away(p, s) == \A j \in DOMAIN s : \A n \in s[j].todo : Apart(p, Append(s[j].at, n))
Nested(s) == \A j \in DOMAIN s : \A i \in 1..(j - 1) : \A n \in s[j].todo :
               Apart(s[i].at, Append(s[j].at, n))

Pending(r, s) == \E j \in DOMAIN s : \E n \in s[j].todo : IsPrefix(Append(s[j].at, n), r)
Open(r) == (act.told = "visit" /\ IsPrefix(act.at, r)) \/ Pending(r, act.stack)

\* A file of the tree is in its new place, or there was one that is not to be replaced.
Moved(r) ==
  \/ act.to \o r \in DOMAIN former /\ ~act.replace
  \/ act.to \o r \in DOMAIN tree /\ tree[act.to \o r] = former[act.from \o r]

\* What is left of the tree is as it was; nothing new is where a name is still to go.
SourceKept ==
  \A r \in Paths : act.from \o r \in DOMAIN tree =>
     act.from \o r \in DOMAIN former /\ tree[act.from \o r] = former[act.from \o r]
NoneMoved ==
  \A r \in Paths : Open(r) /\ act.to \o r \in DOMAIN tree => act.to \o r \in DOMAIN former
AllMoved ==
  \A r \in Paths : act.from \o r \in DOMAIN former /\ former[act.from \o r] # Dir =>
     Moved(r) \/ (Open(r) /\ act.from \o r \in DOMAIN tree)

Going == act.told \in {"visit", "walk", "K"} /\ ~IsPrefix(act.to, act.from)

WalkInv ==
  /\ act.told \in {"visit", "walk", "K"} => act.from = act.to \/ ~IsPrefix(act.from, act.to)
  /\ act.told \in {"visit", "walk"} => Nested(act.stack)
  /\ act.told = "visit" => Away(act.at, act.stack)
  /\ act.told = "walk" => act.stack # <<>>
  /\ act.told = "K" => act.stack = <<>> /\ act.ok
  /\ Going => SourceKept
  /\ Going /\ act.ok => NoneMoved /\ AllMoved

FilesInv == FilesType /\ WalkInv

(* Paths: prefixes and concatenations, name by name. *)
LEMMA PathIs ==
  /\ <<>> \in Paths /\ Len(<<>>) = 0
  /\ \A p \in Paths : Len(p) \in Nat /\ (p = <<>> <=> Len(p) = 0) /\ \A i \in 1..Len(p) : p[i] \in Name
BY EmptySeq, ElementOfSeq, LenProperties DEF Paths

LEMMA SamePath ==
  ASSUME NEW p \in Paths, NEW q \in Paths, Len(p) = Len(q), \A i \in 1..Len(p) : p[i] = q[i]
  PROVE  p = q
BY SeqEqual DEF Paths

LEMMA HeadOf ==
  ASSUME NEW p \in Paths, NEW k \in 0..Len(p)
  PROVE  /\ SubSeq(p, 1, k) \in Paths /\ Len(SubSeq(p, 1, k)) = k
         /\ \A i \in 1..k : SubSeq(p, 1, k)[i] = p[i]
<1>1. \A i \in 1..k : p[i] \in Name
  BY PathIs
<1>2. /\ SubSeq(p, 1, k) \in Seq(Name)
      /\ Len(SubSeq(p, 1, k)) = IF 1 <= k THEN k - 1 + 1 ELSE 0
      /\ \A i \in 1 .. k - 1 + 1 : SubSeq(p, 1, k)[i] = p[1 + i - 1]
  BY <1>1, SubSeqProperties
<1> QED
  BY <1>2 DEF Paths

LEMMA PrefixIs ==
  ASSUME NEW p \in Paths, NEW q \in Paths
  PROVE  IsPrefix(p, q) <=> Len(p) <= Len(q) /\ \A i \in 1..Len(p) : p[i] = q[i]
<1>0. Len(p) \in Nat /\ Len(q) \in Nat
  BY PathIs
<1>1. SubSeq(p, 1, Len(p)) = p
  BY SubSeqFull DEF Paths
<1>2. CASE Len(p) <= Len(q)
  <2>1. /\ SubSeq(q, 1, Len(p)) \in Paths /\ Len(SubSeq(q, 1, Len(p))) = Len(p)
        /\ \A i \in 1..Len(p) : SubSeq(q, 1, Len(p))[i] = q[i]
    BY <1>0, <1>2, HeadOf
  <2> QED
    BY <1>1, <1>2, <2>1, SamePath DEF IsPrefix
<1>3. CASE ~(Len(p) <= Len(q))
  BY <1>3 DEF IsPrefix
<1> QED
  BY <1>2, <1>3

LEMMA IsAPrefix ==
  ASSUME NEW p \in Paths, NEW q \in Paths, Len(p) <= Len(q), \A i \in 1..Len(p) : p[i] = q[i]
  PROVE  IsPrefix(p, q)
BY PrefixIs

LEMMA PrefixOrder ==
  ASSUME NEW p \in Paths, NEW q \in Paths
  PROVE  /\ IsPrefix(p, p) /\ IsPrefix(<<>>, p)
         /\ IsPrefix(p, q) /\ IsPrefix(q, p) => p = q
         /\ IsPrefix(p, q) => Len(p) <= Len(q) /\ (p # q => Len(p) < Len(q))
<1>1. IsPrefix(p, p) /\ IsPrefix(<<>>, p)
  BY PathIs, PrefixIs
<1>2. ASSUME IsPrefix(p, q) PROVE Len(p) <= Len(q) /\ (p # q => Len(p) < Len(q))
  <2>1. Len(p) <= Len(q) /\ \A i \in 1..Len(p) : p[i] = q[i]
    BY <1>2, PrefixIs
  <2> QED
    BY <2>1, PathIs, SamePath
<1>3. ASSUME IsPrefix(p, q), IsPrefix(q, p) PROVE p = q
  <2>1. Len(q) <= Len(p)
    BY <1>3, PrefixIs
  <2> QED
    BY <2>1, <1>2, <1>3, PathIs
<1> QED
  BY <1>1, <1>2, <1>3

LEMMA PrefixTrans ==
  ASSUME NEW p \in Paths, NEW q \in Paths, NEW r \in Paths, IsPrefix(p, q), IsPrefix(q, r)
  PROVE  IsPrefix(p, r)
<1>1. Len(p) <= Len(q) /\ \A i \in 1..Len(p) : p[i] = q[i]
  BY PrefixIs
<1>2. Len(q) <= Len(r) /\ \A i \in 1..Len(q) : q[i] = r[i]
  BY PrefixIs
<1>3. Len(p) <= Len(r) /\ \A i \in 1..Len(p) : p[i] = r[i]
  BY <1>1, <1>2, PathIs
<1> QED
  BY <1>3, PrefixIs

LEMMA TwoPrefixes ==
  ASSUME NEW p \in Paths, NEW q \in Paths, NEW r \in Paths, IsPrefix(p, r), IsPrefix(q, r)
  PROVE  IsPrefix(p, q) \/ IsPrefix(q, p)
<1>1. Len(p) <= Len(r) /\ \A i \in 1..Len(p) : p[i] = r[i]
  BY PrefixIs
<1>2. Len(q) <= Len(r) /\ \A i \in 1..Len(q) : q[i] = r[i]
  BY PrefixIs
<1>3. Len(p) \in Nat /\ Len(q) \in Nat
  BY PathIs
<1>4. CASE Len(p) <= Len(q)
  BY <1>1, <1>2, <1>3, <1>4, PrefixIs
<1>5. CASE Len(q) <= Len(p)
  BY <1>1, <1>2, <1>3, <1>5, PrefixIs
<1> QED
  BY <1>3, <1>4, <1>5

LEMMA ConcatIs ==
  ASSUME NEW p \in Paths, NEW q \in Paths
  PROVE  /\ p \o q \in Paths /\ Len(p \o q) = Len(p) + Len(q)
         /\ \A i \in 1..Len(p) : (p \o q)[i] = p[i]
         /\ \A i \in 1..Len(q) : (p \o q)[Len(p) + i] = q[i]
         /\ p # <<>> => p \o q # <<>>
<1>1. /\ p \o q \in Paths /\ Len(p \o q) = Len(p) + Len(q)
      /\ \A i \in 1..(Len(p) + Len(q)) : (p \o q)[i] = IF i <= Len(p) THEN p[i] ELSE q[i - Len(p)]
  BY ConcatProperties DEF Paths
<1>2. Len(p) \in Nat /\ Len(q) \in Nat
  BY PathIs
<1>3. \A i \in 1..Len(p) : (p \o q)[i] = p[i]
  BY <1>1, <1>2
<1>4. ASSUME NEW i \in 1..Len(q) PROVE (p \o q)[Len(p) + i] = q[i]
  <2>1. Len(p) + i \in 1..(Len(p) + Len(q)) /\ ~(Len(p) + i <= Len(p)) /\ (Len(p) + i) - Len(p) = i
    BY <1>2
  <2> QED
    BY <1>1, <2>1
<1>5. p # <<>> => p \o q # <<>>
  BY <1>1, <1>2, PathIs
<1> QED
  BY <1>1, <1>3, <1>4, <1>5

LEMMA PrefixConcat ==
  ASSUME NEW x \in Paths, NEW p \in Paths, NEW q \in Paths
  PROVE  /\ IsPrefix(x, x \o p)
         /\ IsPrefix(x \o p, x \o q) <=> IsPrefix(p, q)
         /\ x \o p = x \o q <=> p = q
         /\ x \o <<>> = x
<1>1. Len(x) \in Nat /\ Len(p) \in Nat /\ Len(q) \in Nat
  BY PathIs
<1>2. IsPrefix(x, x \o p)
  <2>1. x \o p \in Paths /\ Len(x) <= Len(x \o p) /\ \A i \in 1..Len(x) : x[i] = (x \o p)[i]
    BY <1>1, ConcatIs
  <2> QED
    BY <2>1, IsAPrefix
<1>3. ASSUME IsPrefix(p, q) PROVE IsPrefix(x \o p, x \o q)
  <2>1. Len(p) <= Len(q) /\ \A i \in 1..Len(p) : p[i] = q[i]
    BY <1>3, PrefixIs
  <2>2. \A i \in 1..(Len(x) + Len(p)) : i \in 1..Len(x) \/ (i - Len(x) \in 1..Len(p) /\ i = Len(x) + (i - Len(x)))
    BY <1>1
  <2>3. ASSUME NEW i \in 1..(Len(x) + Len(p)) PROVE (x \o p)[i] = (x \o q)[i]
    <3>1. CASE i \in 1..Len(x)
      BY <3>1, ConcatIs
    <3>2. CASE i - Len(x) \in 1..Len(p) /\ i = Len(x) + (i - Len(x))
      <4>1. i - Len(x) \in 1..Len(q)
        BY <3>2, <2>1, <1>1
      <4>2. (x \o p)[Len(x) + (i - Len(x))] = p[i - Len(x)]
        BY <3>2, ConcatIs
      <4>3. (x \o q)[Len(x) + (i - Len(x))] = q[i - Len(x)]
        BY <4>1, ConcatIs
      <4> QED
        BY <3>2, <4>2, <4>3, <2>1
    <3> QED
      BY <2>2, <3>1, <3>2
  <2>4. x \o p \in Paths /\ x \o q \in Paths /\ Len(x \o p) = Len(x) + Len(p) /\ Len(x \o q) = Len(x) + Len(q)
    BY ConcatIs
  <2>5. Len(x \o p) <= Len(x \o q) /\ \A i \in 1..Len(x \o p) : (x \o p)[i] = (x \o q)[i]
    BY <2>1, <2>3, <2>4, <1>1
  <2> QED
    BY <2>4, <2>5, IsAPrefix
<1>4. ASSUME IsPrefix(x \o p, x \o q) PROVE IsPrefix(p, q)
  <2>4. x \o p \in Paths /\ x \o q \in Paths /\ Len(x \o p) = Len(x) + Len(p) /\ Len(x \o q) = Len(x) + Len(q)
    BY ConcatIs
  <2>5. Len(x \o p) <= Len(x \o q) /\ \A i \in 1..Len(x \o p) : (x \o p)[i] = (x \o q)[i]
    <3>1. x \o p \in Paths /\ x \o q \in Paths
      BY <2>4
    <3> QED
      BY <1>4, <3>1, PrefixIs
  <2>1. Len(x) + Len(p) <= Len(x) + Len(q) /\ \A i \in 1..(Len(x) + Len(p)) : (x \o p)[i] = (x \o q)[i]
    BY <2>4, <2>5
  <2>2. ASSUME NEW i \in 1..Len(p) PROVE p[i] = q[i]
    <3>1. Len(x) + i \in 1..(Len(x) + Len(p)) /\ i \in 1..Len(q)
      BY <1>1, <2>1
    <3>2. (x \o p)[Len(x) + i] = p[i] /\ (x \o q)[Len(x) + i] = q[i]
      BY <3>1, ConcatIs
    <3> QED
      BY <3>1, <3>2, <2>1
  <2> QED
    BY <2>1, <2>2, <1>1, PrefixIs
<1>5. x \o p = x \o q => p = q
  BY ConcatSimplifications DEF Paths
<1>6. x \o <<>> = x
  BY ConcatEmptySeq DEF Paths
<1> QED
  BY <1>2, <1>3, <1>4, <1>5, <1>6

LEMMA AppendIs ==
  ASSUME NEW p \in Paths, NEW n \in Name
  PROVE  /\ Append(p, n) \in Paths /\ Append(p, n) # <<>> /\ Len(Append(p, n)) = Len(p) + 1
         /\ \A i \in 1..Len(p) : Append(p, n)[i] = p[i]
         /\ Append(p, n)[Len(p) + 1] = n
         /\ IsPrefix(p, Append(p, n)) /\ Append(p, n) # p
         /\ \A x \in Paths : x \o Append(p, n) = Append(x \o p, n)
<1>1. /\ Append(p, n) \in Paths /\ Append(p, n) # <<>> /\ Len(Append(p, n)) = Len(p) + 1
      /\ \A i \in 1..Len(p) : Append(p, n)[i] = p[i]
      /\ Append(p, n)[Len(p) + 1] = n
  BY AppendProperties DEF Paths
<1>2. IsPrefix(p, Append(p, n)) /\ Append(p, n) # p
  <2>1. Len(p) \in Nat /\ Len(p) <= Len(Append(p, n)) /\ Len(p) # Len(Append(p, n))
        /\ \A i \in 1..Len(p) : p[i] = Append(p, n)[i]
    BY <1>1, PathIs
  <2> QED
    BY <1>1, <2>1, IsAPrefix
<1>3. ASSUME NEW x \in Paths PROVE x \o Append(p, n) = Append(x \o p, n)
  <2>1. <<n>> \in Paths /\ x \o p \in Paths
    BY ConcatIs DEF Paths
  <2>2. Append(p, n) = p \o <<n>> /\ Append(x \o p, n) = (x \o p) \o <<n>>
    BY <2>1, AppendIsConcat DEF Paths
  <2>3. (x \o p) \o <<n>> = x \o (p \o <<n>>)
    BY <2>1, ConcatAssociative DEF Paths
  <2> QED
    BY <2>2, <2>3
<1> QED
  BY <1>1, <1>2, <1>3

\* What is above a name in a directory is that name or above the directory.
LEMMA AboveName ==
  ASSUME NEW p \in Paths, NEW n \in Name, NEW q \in Paths
  PROVE  IsPrefix(q, Append(p, n)) <=> q = Append(p, n) \/ IsPrefix(q, p)
<1>1. Len(p) \in Nat /\ Len(q) \in Nat
  BY PathIs
<1>2. ASSUME IsPrefix(q, Append(p, n)), q # Append(p, n) PROVE IsPrefix(q, p)
  <2>1. Len(q) < Len(Append(p, n)) /\ \A i \in 1..Len(q) : q[i] = Append(p, n)[i]
    BY <1>2, AppendIs, PrefixIs, PrefixOrder
  <2>2. Len(q) <= Len(p) /\ \A i \in 1..Len(q) : q[i] = p[i]
    BY <2>1, <1>1, AppendIs
  <2> QED
    BY <2>2, PrefixIs
<1>3. IsPrefix(q, p) => IsPrefix(q, Append(p, n))
  BY AppendIs, PrefixTrans
<1>4. Append(p, n) \in Paths /\ IsPrefix(Append(p, n), Append(p, n))
  BY AppendIs, PrefixOrder
<1> QED
  BY <1>2, <1>3, <1>4

\* The way from a directory to what is in it goes through a name in it.
LEMMA NextName ==
  ASSUME NEW p \in Paths, NEW q \in Paths, IsPrefix(p, q), p # q
  PROVE  \E n \in Name : IsPrefix(Append(p, n), q)
<1>1. Len(p) < Len(q) /\ \A i \in 1..Len(p) : p[i] = q[i]
  BY PrefixIs, PrefixOrder
<1>2. Len(p) + 1 \in 1..Len(q) /\ Len(p) \in Nat
  BY <1>1, PathIs
<1> DEFINE n == q[Len(p) + 1]
<1>3. n \in Name
  BY <1>2, PathIs
<1>4. Append(p, n) \in Paths /\ Len(Append(p, n)) = Len(p) + 1
      /\ (\A i \in 1..Len(p) : Append(p, n)[i] = p[i]) /\ Append(p, n)[Len(p) + 1] = n
  BY <1>3, AppendIs
<1>5. \A i \in 1..(Len(p) + 1) : Append(p, n)[i] = q[i]
  BY <1>1, <1>2, <1>4
<1>6. Len(Append(p, n)) <= Len(q) /\ \A i \in 1..Len(Append(p, n)) : Append(p, n)[i] = q[i]
  BY <1>2, <1>4, <1>5
<1>7. IsPrefix(Append(p, n), q)
  BY <1>4, <1>6, IsAPrefix
<1> QED
  BY <1>3, <1>7

LEMMA BelowIs ==
  ASSUME NEW p \in Paths, NEW q \in Paths, IsPrefix(p, q)
  PROVE  Below(p, q) \in Paths /\ q = p \o Below(p, q)
<1>1. Len(p) <= Len(q) /\ \A i \in 1..Len(p) : p[i] = q[i]
  BY PrefixIs
<1>2. Len(p) \in Nat /\ Len(q) \in Nat
  BY PathIs
<1>3. \A i \in (Len(p) + 1)..Len(q) : q[i] \in Name
  BY <1>2, PathIs
<1>4. /\ SubSeq(q, Len(p) + 1, Len(q)) \in Seq(Name)
      /\ Len(SubSeq(q, Len(p) + 1, Len(q))) = IF Len(p) + 1 <= Len(q) THEN Len(q) - (Len(p) + 1) + 1 ELSE 0
      /\ \A i \in 1 .. Len(q) - (Len(p) + 1) + 1 : SubSeq(q, Len(p) + 1, Len(q))[i] = q[Len(p) + 1 + i - 1]
  BY <1>2, <1>3, SubSeqProperties
<1>5. /\ Below(p, q) \in Paths /\ Len(Below(p, q)) = Len(q) - Len(p)
      /\ \A i \in 1..(Len(q) - Len(p)) : Below(p, q)[i] = q[Len(p) + i]
  BY <1>1, <1>2, <1>4 DEF Below, Paths
<1>6. /\ p \o Below(p, q) \in Paths /\ Len(p \o Below(p, q)) = Len(q)
      /\ \A i \in 1..Len(p) : (p \o Below(p, q))[i] = p[i]
      /\ \A i \in 1..(Len(q) - Len(p)) : (p \o Below(p, q))[Len(p) + i] = Below(p, q)[i]
  BY <1>2, <1>5, ConcatIs
<1>7. ASSUME NEW i \in 1..Len(q) PROVE (p \o Below(p, q))[i] = q[i]
  <2>1. CASE i \in 1..Len(p)
    BY <2>1, <1>1, <1>6
  <2>2. CASE i \notin 1..Len(p)
    <3>1. i - Len(p) \in 1..(Len(q) - Len(p)) /\ Len(p) + (i - Len(p)) = i
      BY <2>2, <1>1, <1>2
    <3> QED
      BY <3>1, <1>5, <1>6
  <2> QED
    BY <2>1, <2>2
<1> QED
  BY <1>5, <1>6, <1>7, SamePath

LEMMA BelowConcat ==
  ASSUME NEW p \in Paths, NEW r \in Paths
  PROVE  Below(p, p \o r) = r
<1>1. Below(p, p \o r) \in Paths /\ p \o r = p \o Below(p, p \o r)
  <2>1. p \o r \in Paths /\ IsPrefix(p, p \o r)
    BY ConcatIs, PrefixConcat
  <2> QED
    BY <2>1, BelowIs
<1> QED
  BY <1>1, PrefixConcat

LEMMA ClosedIs ==
  ASSUME NEW f, DOMAIN f \subseteq Paths
  PROVE  Closed(f) <=> \A q \in DOMAIN f, p \in Paths \ {<<>>} :
                          IsPrefix(p, q) /\ p # q => p \in DOMAIN f /\ f[p] = Dir
<1>1. ASSUME Closed(f), NEW q \in DOMAIN f, NEW p \in Paths \ {<<>>}, IsPrefix(p, q), p # q
      PROVE  p \in DOMAIN f /\ f[p] = Dir
  <2>1. q \in Paths /\ Len(p) \in 1..(Len(q) - 1)
    BY <1>1, PathIs, PrefixOrder
  <2>2. /\ SubSeq(q, 1, Len(p)) \in Paths /\ Len(SubSeq(q, 1, Len(p))) = Len(p)
        /\ \A i \in 1..Len(p) : SubSeq(q, 1, Len(p))[i] = q[i]
    BY <2>1, PathIs, HeadOf
  <2>3. SubSeq(q, 1, Len(p)) = p
    BY <1>1, <2>1, <2>2, PrefixIs, SamePath
  <2> QED
    BY <1>1, <2>1, <2>3 DEF Closed
<1>2. ASSUME \A q \in DOMAIN f, p \in Paths \ {<<>>} : IsPrefix(p, q) /\ p # q => p \in DOMAIN f /\ f[p] = Dir,
             NEW q \in DOMAIN f, NEW k \in 1..(Len(q) - 1)
      PROVE  SubSeq(q, 1, k) \in DOMAIN f /\ f[SubSeq(q, 1, k)] = Dir
  <2>1. q \in Paths /\ k \in 0..Len(q) /\ k < Len(q) /\ k # 0
    BY PathIs
  <2>2. /\ SubSeq(q, 1, k) \in Paths /\ Len(SubSeq(q, 1, k)) = k
        /\ \A i \in 1..k : SubSeq(q, 1, k)[i] = q[i]
    BY <2>1, HeadOf
  <2>4. Len(SubSeq(q, 1, k)) <= Len(q) /\ \A i \in 1..Len(SubSeq(q, 1, k)) : SubSeq(q, 1, k)[i] = q[i]
    BY <2>1, <2>2
  <2>3. IsPrefix(SubSeq(q, 1, k), q) /\ SubSeq(q, 1, k) # q /\ SubSeq(q, 1, k) # <<>>
    <3>1. IsPrefix(SubSeq(q, 1, k), q)
      BY <2>1, <2>2, <2>4, IsAPrefix
    <3>2. SubSeq(q, 1, k) # q
      BY <2>1, <2>2
    <3>3. SubSeq(q, 1, k) # <<>>
      BY <2>1, <2>2, PathIs
    <3> QED
      BY <3>1, <3>2, <3>3
  <2> QED
    BY <1>2, <2>2, <2>3
<1> QED
  BY <1>1, <1>2 DEF Closed

LEMMA ApartIs ==
  ASSUME NEW p \in Paths, NEW q \in Paths, Apart(p, q)
  PROVE  /\ Apart(q, p) /\ p # q
         /\ \A r \in Paths : ~(IsPrefix(p, r) /\ IsPrefix(q, r))
         /\ \A n \in Name : Apart(Append(p, n), q)
         /\ \A r \in Paths : Apart(p \o r, q)
<1>1. Apart(q, p) /\ p # q
  BY PrefixOrder DEF Apart
<1>2. ASSUME NEW r \in Paths PROVE ~(IsPrefix(p, r) /\ IsPrefix(q, r))
  BY TwoPrefixes DEF Apart
<1>3. ASSUME NEW r \in Paths, IsPrefix(p, r) PROVE Apart(r, q)
  <2>1. ~IsPrefix(q, r)
    BY <1>2, <1>3
  <2>2. ~IsPrefix(r, q)
    BY <1>3, PrefixTrans DEF Apart
  <2> QED
    BY <2>1, <2>2 DEF Apart
<1>4. \A n \in Name : Append(p, n) \in Paths /\ IsPrefix(p, Append(p, n))
  BY AppendIs
<1>5. ASSUME NEW r \in Paths PROVE p \o r \in Paths /\ IsPrefix(p, p \o r)
  BY ConcatIs, PrefixConcat
<1> QED
  BY <1>1, <1>2, <1>3, <1>4, <1>5

LEMMA SiblingsApart ==
  ASSUME NEW p \in Paths, NEW n \in Name, NEW m \in Name, n # m
  PROVE  Apart(Append(p, n), Append(p, m))
<1>1. /\ Append(p, n) \in Paths /\ Append(p, m) \in Paths /\ Append(p, n) # Append(p, m)
      /\ IsPrefix(p, Append(p, n)) /\ IsPrefix(p, Append(p, m)) /\ Append(p, n) # p /\ Append(p, m) # p
  <2>1. Append(p, n)[Len(p) + 1] = n /\ Append(p, m)[Len(p) + 1] = m
    BY AppendIs
  <2> QED
    BY <2>1, AppendIs
<1>2. ~IsPrefix(Append(p, n), p) /\ ~IsPrefix(Append(p, m), p)
  BY <1>1, PrefixOrder
<1> QED
  BY <1>1, <1>2, AboveName DEF Apart

-----------------------------------------------------------------------------
(* The trees. *)
LEMMA LessIs ==
  ASSUME NEW f, NEW p
  PROVE  /\ DOMAIN Less(f, p) = {q \in DOMAIN f : ~IsPrefix(p, q)}
         /\ \A q \in DOMAIN Less(f, p) : Less(f, p)[q] = f[q]
BY DEF Less, Restrict, Under

LEMMA AboveIsDir ==
  ASSUME NEW f, TreeType(f), NEW q \in DOMAIN f, NEW p \in Paths \ {<<>>}, IsPrefix(p, q), p # q
  PROVE  p \in DOMAIN f /\ f[p] = Dir
BY ClosedIs DEF TreeType

LEMMA LessKeeps ==
  ASSUME NEW f, TreeType(f), NEW p \in Paths
  PROVE  TreeType(Less(f, p))
<1> DEFINE g == Less(f, p)
<1>1. DOMAIN g = {q \in DOMAIN f : ~IsPrefix(p, q)} /\ \A q \in DOMAIN g : g[q] = f[q]
  BY LessIs
<1>2. DOMAIN g \subseteq Paths \ {<<>>}
  BY <1>1 DEF TreeType
<1> HIDE DEF g
<1>3. ASSUME NEW q \in DOMAIN g, NEW r \in Paths \ {<<>>}, IsPrefix(r, q), r # q
      PROVE  r \in DOMAIN g /\ g[r] = Dir
  <2>1. r \in DOMAIN f /\ f[r] = Dir
    BY <1>1, <1>3, AboveIsDir
  <2>2. ~IsPrefix(p, r)
    BY <1>1, <1>2, <1>3, PrefixTrans
  <2> QED
    BY <1>1, <2>1, <2>2
<1>4. Closed(g)
  BY <1>2, <1>3, ClosedIs
<1> QED
  BY <1>2, <1>4 DEF TreeType, g

\* There is a directory above a new path.
InDir(f, p) ==
  /\ p \in Paths \ {<<>>}
  /\ \A q \in Paths \ {<<>>} : IsPrefix(q, p) /\ q # p => q \in DOMAIN f /\ f[q] = Dir

LEMMA PlusKeeps ==
  ASSUME NEW f, TreeType(f), NEW p, InDir(f, p), NEW c,
         c = Dir \/ p \notin DOMAIN f \/ f[p] # Dir
  PROVE  TreeType(Plus(f, p, c))
<1> DEFINE g == Plus(f, p, c)
<1>0. /\ DOMAIN Plus(f, p, c) = DOMAIN f \cup {p} /\ Plus(f, p, c)[p] = c
      /\ \A q \in DOMAIN f : q # p => Plus(f, p, c)[q] = f[q]
  BY DEF Plus
<1>1. DOMAIN g = DOMAIN f \cup {p} /\ g[p] = c /\ \A q \in DOMAIN f : q # p => g[q] = f[q]
  BY <1>0
<1>2. DOMAIN g \subseteq Paths \ {<<>>}
  BY <1>1 DEF TreeType, InDir
<1> HIDE DEF g
<1>3. ASSUME NEW q \in DOMAIN g, NEW r \in Paths \ {<<>>}, IsPrefix(r, q), r # q
      PROVE  r \in DOMAIN g /\ g[r] = Dir
  <2>1. CASE q \in DOMAIN f
    <3>1. r \in DOMAIN f /\ f[r] = Dir
      BY <1>3, <2>1, AboveIsDir
    <3>2. r = p => c = Dir
      BY <3>1
    <3> QED
      BY <1>1, <3>1, <3>2
  <2>2. CASE q = p
    BY <1>1, <1>3, <2>2 DEF InDir
  <2> QED
    BY <1>1, <2>1, <2>2
<1>4. Closed(g)
  BY <1>2, <1>3, ClosedIs
<1> QED
  BY <1>2, <1>4 DEF TreeType, g

\* What CanPut asks for.
LEMMA CanPutIs ==
  ASSUME NEW p \in Paths, TreeType(tree), CanPut(p)
  PROVE  InDir(tree, p)
<1>1. p # <<>>
  BY DEF CanPut
<1>2. Len(p) \in Nat \ {0}
  BY <1>1, PathIs
<1>3. /\ Front(p) \in Paths /\ Len(Front(p)) = Len(p) - 1
      /\ \A i \in 1..(Len(p) - 1) : Front(p)[i] = p[i]
  <2>1. Len(p) - 1 \in 0..Len(p)
    BY <1>2
  <2> QED
    BY <2>1, HeadOf DEF Front
<1>4. ASSUME NEW q \in Paths \ {<<>>}, IsPrefix(q, p), q # p
      PROVE  q \in DOMAIN tree /\ tree[q] = Dir
  <2>1. Len(q) < Len(p) /\ (\A i \in 1..Len(q) : q[i] = p[i]) /\ Len(q) \in Nat \ {0}
    BY <1>4, PrefixOrder, PrefixIs, PathIs
  <2>2. Len(q) <= Len(Front(p)) /\ \A i \in 1..Len(q) : q[i] = Front(p)[i]
    BY <1>2, <1>3, <2>1
  <2>3. IsPrefix(q, Front(p))
    BY <1>3, <2>2, IsAPrefix
  <2>4. Front(p) \in DOMAIN tree /\ tree[Front(p)] = Dir
    BY <1>2, <2>1 DEF CanPut, IsDir, Exists
  <2>5. CASE q = Front(p)
    BY <2>4, <2>5
  <2>6. CASE q # Front(p)
    BY <2>3, <2>4, <2>6, AboveIsDir
  <2> QED
    BY <2>5, <2>6
<1> QED
  BY <1>1, <1>4 DEF InDir

\* The place of what is removed is free, and still in a directory.
LEMMA ClearedIs ==
  ASSUME NEW f, TreeType(f), NEW p, InDir(f, p)
  PROVE  /\ TreeType(Less(f, p)) /\ InDir(Less(f, p), p) /\ p \notin DOMAIN Less(f, p)
<1>1. p \in Paths
  BY DEF InDir
<1>2. TreeType(Less(f, p)) /\ p \notin DOMAIN Less(f, p)
  <2>1. TreeType(Less(f, p))
    BY <1>1, LessKeeps
  <2>2. IsPrefix(p, p)
    BY <1>1, PrefixOrder
  <2> QED
    BY <2>1, <2>2, LessIs
<1>3. ASSUME NEW q \in Paths \ {<<>>}, IsPrefix(q, p), q # p
      PROVE  q \in DOMAIN Less(f, p) /\ Less(f, p)[q] = Dir
  <2>1. q \in DOMAIN f /\ f[q] = Dir
    BY <1>3 DEF InDir
  <2>2. ~IsPrefix(p, q)
    BY <1>1, <1>3, PrefixOrder
  <2> QED
    BY <2>1, <2>2, LessIs
<1> QED
  BY <1>2, <1>3 DEF InDir

LEMMA RenameKeeps ==
  ASSUME TreeType(tree), NEW d \in Paths, NEW n \in Name, NEW m \in Name,
         Append(d, n) \in DOMAIN tree, Append(d, m) \notin DOMAIN tree
  PROVE  TreeType(Renamed(Append(d, n), Append(d, m)))
<1> DEFINE p == Append(d, n)
           q == Append(d, m)
           moved == {q \o Below(p, r) : r \in Under(tree, p)}
           g == Renamed(p, q)
<1>1. p \in Paths \ {<<>>} /\ q \in Paths \ {<<>>} /\ IsPrefix(d, p) /\ d # p
  BY AppendIs
<1>2. p \in DOMAIN tree /\ q \notin DOMAIN tree
  OBVIOUS
<1>3. \A y \in Paths : (IsPrefix(y, p) <=> y = p \/ IsPrefix(y, d)) /\ (IsPrefix(y, q) <=> y = q \/ IsPrefix(y, d))
  BY AboveName
<1>4. /\ DOMAIN g = (DOMAIN tree \ Under(tree, p)) \cup moved
      /\ \A r \in DOMAIN g : g[r] = IF r \in moved THEN tree[p \o Below(q, r)] ELSE tree[r]
  BY DEF Renamed
<1> HIDE DEF p, q
<1>5. ASSUME NEW w \in Paths, p \o w \in DOMAIN tree PROVE q \o w \in moved
  <2>1. p \o w \in Under(tree, p)
    BY <1>1, <1>5, PrefixConcat DEF Under
  <2>2. Below(p, p \o w) = w
    BY <1>1, BelowConcat
  <2> QED
    BY <2>1, <2>2
<1>6. ASSUME NEW x \in moved PROVE \E w \in Paths : x = q \o w /\ p \o w \in DOMAIN tree
  <2>1. PICK r \in Under(tree, p) : x = q \o Below(p, r)
    OBVIOUS
  <2>2. r \in Paths /\ IsPrefix(p, r) /\ r \in DOMAIN tree
    BY DEF Under, TreeType
  <2>3. Below(p, r) \in Paths /\ r = p \o Below(p, r)
    BY <1>1, <2>2, BelowIs
  <2> QED
    BY <2>1, <2>2, <2>3
<1> HIDE DEF moved, g
<1>7. ASSUME NEW w \in Paths, p \o w \in DOMAIN tree
      PROVE  q \o w \in DOMAIN g /\ g[q \o w] = tree[p \o w]
  <2>1. q \o w \in moved
    BY <1>5, <1>7
  <2>2. Below(q, q \o w) = w
    BY <1>1, BelowConcat
  <2> QED
    BY <1>4, <2>1, <2>2
<1>8. ASSUME NEW y \in DOMAIN tree, ~IsPrefix(p, y), ~IsPrefix(q, y)
      PROVE  y \in DOMAIN g /\ g[y] = tree[y]
  <2>1. y \notin moved
    <3>1. SUFFICES ASSUME y \in moved PROVE FALSE
      OBVIOUS
    <3>2. PICK w \in Paths : y = q \o w
      BY <3>1, <1>6
    <3> QED
      BY <1>1, <1>8, <3>2, PrefixConcat
  <2> QED
    BY <1>4, <1>8, <2>1 DEF Under
<1>9. DOMAIN g \subseteq Paths \ {<<>>}
  <2>1. \A x \in moved : x \in Paths \ {<<>>}
    BY <1>1, <1>6, ConcatIs
  <2> QED
    BY <1>4, <2>1 DEF TreeType
<1>10. ASSUME NEW x \in DOMAIN g, NEW y \in Paths \ {<<>>}, IsPrefix(y, x), y # x
       PROVE  y \in DOMAIN g /\ g[y] = Dir
  <2>1. CASE x \in moved
    <3>1. PICK w \in Paths : x = q \o w /\ p \o w \in DOMAIN tree
      BY <2>1, <1>6
    <3>2. IsPrefix(q, x)
      BY <1>1, <3>1, PrefixConcat
    <3>3. CASE IsPrefix(q, y)
      <4>1. Below(q, y) \in Paths /\ y = q \o Below(q, y)
        BY <1>1, <3>3, BelowIs
      <4> DEFINE v == Below(q, y)
      <4>3. v \in Paths /\ IsPrefix(q \o v, q \o w) /\ q \o v # q \o w
        BY <1>10, <3>1, <4>1
      <4> HIDE DEF v
      <4>6. IsPrefix(v, w) /\ v # w
        BY <1>1, <4>3, PrefixConcat
      <4>7. IsPrefix(p \o v, p \o w) /\ p \o v # p \o w
        <5>1. p \in Paths /\ w \in Paths /\ v \in Paths
          BY <1>1, <4>3
        <5>2. IsPrefix(p \o v, p \o w) <=> IsPrefix(v, w)
          BY <5>1, PrefixConcat
        <5>3. p \o v = p \o w <=> v = w
          BY <5>1, PrefixConcat
        <5> QED
          BY <4>6, <5>2, <5>3
      <4>4. p \o v \in Paths \ {<<>>}
        BY <1>1, <4>3, ConcatIs
      <4>5. p \o v \in DOMAIN tree /\ tree[p \o v] = Dir
        BY <3>1, <4>7, <4>4, AboveIsDir
      <4>8. y = q \o v
        BY <4>1 DEF v
      <4> QED
        BY <4>3, <4>5, <4>8, <1>7
    <3>4. CASE ~IsPrefix(q, y)
      <4>1. x \in Paths /\ y \in Paths
        BY <1>9
      <4>2. IsPrefix(y, q)
        BY <4>1, <1>1, <1>10, <3>2, <3>4, TwoPrefixes
      <4>3. IsPrefix(q, q)
        BY <1>1, PrefixOrder
      <4>4. IsPrefix(y, d)
        BY <1>3, <4>2, <3>4, <4>3
      <4>5. IsPrefix(y, p)
        BY <1>3, <4>4
      <4>6. y # p
        BY <1>1, <4>4, PrefixOrder
      <4>7. y \in DOMAIN tree /\ tree[y] = Dir
        BY <1>2, <1>10, <4>5, <4>6, AboveIsDir
      <4>8. ~IsPrefix(p, y)
        BY <1>1, <4>5, <4>6, PrefixOrder
      <4> QED
        BY <1>8, <3>4, <4>7, <4>8
    <3> QED
      BY <3>3, <3>4
  <2>2. CASE x \notin moved
    <3>1. x \in DOMAIN tree /\ ~IsPrefix(p, x) /\ x \in Paths
      BY <2>2, <1>4, <1>9 DEF Under
    <3>2. y \in DOMAIN tree /\ tree[y] = Dir
      BY <1>10, <3>1, AboveIsDir
    <3>3. ~IsPrefix(p, y)
      BY <1>1, <1>10, <3>1, PrefixTrans
    <3>4. ~IsPrefix(q, y)
      <4>1. SUFFICES ASSUME IsPrefix(q, y) PROVE FALSE
        OBVIOUS
      <4>2. IsPrefix(q, x)
        BY <1>1, <1>10, <3>1, <4>1, PrefixTrans
      <4>3. q # x
        BY <1>2, <3>1
      <4> QED
        BY <1>1, <1>2, <3>1, <4>2, <4>3, AboveIsDir
    <3> QED
      BY <1>8, <3>2, <3>3, <3>4
  <2> QED
    BY <2>1, <2>2
<1>11. Closed(g)
  BY <1>9, <1>10, ClosedIs
<1> QED
  BY <1>9, <1>11 DEF TreeType, g, p, q

-----------------------------------------------------------------------------
(* The directories the walk is in. *)
LEMMA StackIs ==
  ASSUME NEW s \in Seq(Frame)
  PROVE  /\ Len(s) \in Nat /\ DOMAIN s = 1..Len(s) /\ (s = <<>> <=> Len(s) = 0)
         /\ \A j \in 1..Len(s) : s[j] \in Frame
BY EmptySeq, LenProperties, ElementOfSeq

LEMMA NoFrame ==
  /\ <<>> \in Seq(Frame) /\ Nested(<<>>) /\ \A p : Away(p, <<>>) /\ ~Pending(p, <<>>)
BY EmptySeq DEF Nested, Away, Pending

\* A name that is pending is not under a place that is away from it.
LEMMA AwayIs ==
  ASSUME NEW s \in Seq(Frame), NEW p \in Paths, Away(p, s), NEW r \in Paths, IsPrefix(p, r)
  PROVE  ~Pending(r, s)
<1>1. SUFFICES ASSUME NEW j \in DOMAIN s, NEW n \in s[j].todo, IsPrefix(Append(s[j].at, n), r) PROVE FALSE
  BY DEF Pending
<1>2. s[j].at \in Paths /\ n \in Name
  BY StackIs DEF Frame
<1>3. Append(s[j].at, n) \in Paths
  BY <1>2, AppendIs
<1>4. Apart(p, Append(s[j].at, n))
  BY DEF Away
<1> QED
  BY <1>1, <1>3, <1>4, ApartIs

LEMMA PushIs ==
  ASSUME NEW s \in Seq(Frame), NEW p \in Paths, NEW t \in SUBSET Name, Nested(s), Away(p, s)
  PROVE  LET u == <<[at |-> p, todo |-> t]>> \o s
         IN  /\ u \in Seq(Frame) /\ u # <<>> /\ Nested(u)
             /\ \A r : Pending(r, u) <=> Pending(r, s) \/ \E n \in t : IsPrefix(Append(p, n), r)
<1> DEFINE x == [at |-> p, todo |-> t]
           u == <<x>> \o s
<1>1. x \in Frame /\ x.at = p /\ x.todo = t
  BY DEF Frame
<1> HIDE DEF x
<1>2. <<x>> \in Seq(Frame) /\ Len(<<x>>) = 1 /\ <<x>>[1] = x
  BY <1>1
<1>3. /\ u \in Seq(Frame) /\ Len(u) = Len(s) + 1
      /\ \A i \in 1..(Len(s) + 1) : u[i] = IF i = 1 THEN x ELSE s[i - 1]
  <2>1. /\ u \in Seq(Frame) /\ Len(u) = 1 + Len(s)
        /\ \A i \in 1..(1 + Len(s)) : u[i] = IF i <= 1 THEN <<x>>[i] ELSE s[i - 1]
    BY <1>2, ConcatProperties
  <2> QED
    BY <1>2, <2>1, StackIs
<1> HIDE DEF u
<1>4. /\ DOMAIN u = 1..(Len(s) + 1) /\ DOMAIN s = 1..Len(s) /\ Len(s) \in Nat /\ u # <<>>
  BY <1>3, StackIs
<1>5. u[1] = x /\ \A i \in 1..Len(s) : i + 1 \in DOMAIN u /\ u[i + 1] = s[i]
  BY <1>3, <1>4
<1>6. ASSUME NEW j \in DOMAIN u, NEW i \in 1..(j - 1), NEW n \in u[j].todo
      PROVE  Apart(u[i].at, Append(u[j].at, n))
  <2>1. j - 1 \in DOMAIN s /\ u[j] = s[j - 1]
    BY <1>3, <1>4
  <2>2. CASE i = 1
    BY <1>1, <1>5, <2>1, <2>2 DEF Away
  <2>3. CASE i # 1
    <3>1. i - 1 \in 1..((j - 1) - 1) /\ u[i] = s[i - 1]
      BY <1>3, <1>4, <2>3
    <3> QED
      BY <2>1, <3>1 DEF Nested
  <2> QED
    BY <2>2, <2>3
<1>7. ASSUME NEW r, Pending(r, s) PROVE Pending(r, u)
  <2>1. PICK j \in DOMAIN s : \E n \in s[j].todo : IsPrefix(Append(s[j].at, n), r)
    BY <1>7 DEF Pending
  <2>2. j + 1 \in DOMAIN u /\ u[j + 1] = s[j]
    BY <1>4, <1>5
  <2> QED
    BY <2>1, <2>2 DEF Pending
<1>8. ASSUME NEW r, \E n \in t : IsPrefix(Append(p, n), r) PROVE Pending(r, u)
  <2>1. 1 \in DOMAIN u /\ u[1].at = p /\ u[1].todo = t
    BY <1>1, <1>4, <1>5
  <2> QED
    BY <1>8, <2>1 DEF Pending
<1>9. ASSUME NEW r, Pending(r, u) PROVE Pending(r, s) \/ \E n \in t : IsPrefix(Append(p, n), r)
  <2>1. PICK j \in DOMAIN u : \E n \in u[j].todo : IsPrefix(Append(u[j].at, n), r)
    BY <1>9 DEF Pending
  <2>2. CASE j = 1
    BY <1>1, <1>5, <2>1, <2>2
  <2>3. CASE j # 1
    <3>1. j - 1 \in DOMAIN s /\ u[j] = s[j - 1]
      BY <1>3, <1>4, <2>3
    <3> QED
      BY <2>1, <3>1 DEF Pending
  <2> QED
    BY <2>2, <2>3
<1>10. Nested(u)
  BY <1>6 DEF Nested
<1> QED
  BY <1>3, <1>4, <1>7, <1>8, <1>9, <1>10 DEF u, x

LEMMA PopIs ==
  ASSUME NEW s \in Seq(Frame), s # <<>>, Nested(s)
  PROVE  /\ Tail(s) \in Seq(Frame) /\ Nested(Tail(s)) /\ Away(s[1].at, Tail(s))
         /\ \A r : Pending(r, Tail(s)) => Pending(r, s)
         /\ s[1].todo = {} => \A r : Pending(r, s) => Pending(r, Tail(s))
<1> DEFINE u == Tail(s)
<1>1. Len(s) \in Nat \ {0} /\ DOMAIN s = 1..Len(s)
  BY StackIs
<1>2. u \in Seq(Frame) /\ Len(u) = Len(s) - 1 /\ \A i \in 1..Len(u) : u[i] = s[i + 1]
  BY HeadTailProperties
<1> HIDE DEF u
<1>3. DOMAIN u = 1..(Len(s) - 1) /\ \A i \in 1..(Len(s) - 1) : u[i] = s[i + 1] /\ i + 1 \in DOMAIN s
  BY <1>1, <1>2, StackIs
<1>4. ASSUME NEW j \in DOMAIN u, NEW i \in 1..(j - 1), NEW n \in u[j].todo
      PROVE  Apart(u[i].at, Append(u[j].at, n))
  <2>1. j + 1 \in DOMAIN s /\ u[j] = s[j + 1] /\ i + 1 \in 1..((j + 1) - 1) /\ u[i] = s[i + 1]
    BY <1>1, <1>3
  <2> QED
    BY <2>1 DEF Nested
<1>5. ASSUME NEW j \in DOMAIN u, NEW n \in u[j].todo
      PROVE  Apart(s[1].at, Append(u[j].at, n))
  <2>1. j + 1 \in DOMAIN s /\ u[j] = s[j + 1] /\ 1 \in 1..((j + 1) - 1)
    BY <1>1, <1>3
  <2> QED
    BY <2>1 DEF Nested
<1>6. ASSUME NEW r, Pending(r, u) PROVE Pending(r, s)
  <2>1. PICK j \in DOMAIN u : \E n \in u[j].todo : IsPrefix(Append(u[j].at, n), r)
    BY <1>6 DEF Pending
  <2>2. j + 1 \in DOMAIN s /\ u[j] = s[j + 1]
    BY <1>3
  <2> QED
    BY <2>1, <2>2 DEF Pending
<1>7. ASSUME s[1].todo = {}, NEW r, Pending(r, s) PROVE Pending(r, u)
  <2>1. PICK j \in DOMAIN s : \E n \in s[j].todo : IsPrefix(Append(s[j].at, n), r)
    BY <1>7 DEF Pending
  <2>2. j # 1
    BY <1>7, <2>1
  <2>3. j - 1 \in DOMAIN u /\ u[j - 1] = s[j]
    BY <1>1, <1>3, <2>2
  <2> QED
    BY <2>1, <2>3 DEF Pending
<1>8. Nested(u) /\ Away(s[1].at, u)
  BY <1>4, <1>5 DEF Nested, Away
<1> QED
  BY <1>2, <1>6, <1>7, <1>8 DEF u

\* One name less, or none, in the last directory.
LEMMA TodoIs ==
  ASSUME NEW s \in Seq(Frame), s # <<>>, Nested(s), NEW t, t \subseteq s[1].todo
  PROVE  LET u == [s EXCEPT ![1].todo = t]
         IN  /\ u \in Seq(Frame) /\ u # <<>> /\ Nested(u)
             /\ \A r : Pending(r, u) => Pending(r, s)
             /\ \A r : Pending(r, s) => Pending(r, u) \/ \E n \in s[1].todo \ t : IsPrefix(Append(s[1].at, n), r)
             /\ \A n \in Name \ t : Away(Append(s[1].at, n), u)
<1> DEFINE x == [s[1] EXCEPT !.todo = t]
           u == [s EXCEPT ![1].todo = t]
<1>1. Len(s) \in Nat \ {0} /\ DOMAIN s = 1..Len(s) /\ 1 \in 1..Len(s) /\ s[1] \in Frame
  BY StackIs
<1>2. x \in Frame /\ x.at = s[1].at /\ x.todo = t
  BY <1>1 DEF Frame
<1>3. u = [s EXCEPT ![1] = x]
  OBVIOUS
<1> HIDE DEF x, u
<1>4. /\ u \in Seq(Frame) /\ Len(u) = Len(s)
      /\ \A j \in 1..Len(s) : u[j] = IF j = 1 THEN x ELSE s[j]
  BY <1>1, <1>2, <1>3, ExceptSeq
<1>5. DOMAIN u = DOMAIN s /\ u # <<>>
  BY <1>1, <1>4, StackIs
<1>6. \A j \in DOMAIN s : u[j].at = s[j].at /\ u[j].todo \subseteq s[j].todo /\ (j # 1 => u[j] = s[j])
  BY <1>1, <1>2, <1>4
<1>7. u[1].at = s[1].at /\ u[1].todo = t
  BY <1>1, <1>2, <1>4
<1>8. ASSUME NEW j \in DOMAIN u, NEW i \in 1..(j - 1), NEW n \in u[j].todo
      PROVE  Apart(u[i].at, Append(u[j].at, n))
  <2>1. i \in DOMAIN s /\ j \in DOMAIN s
    BY <1>1, <1>5
  <2>2. u[i].at = s[i].at /\ u[j].at = s[j].at /\ n \in s[j].todo
    BY <1>6, <2>1
  <2> QED
    BY <2>1, <2>2 DEF Nested
<1>9. ASSUME NEW r, Pending(r, u) PROVE Pending(r, s)
  <2>1. PICK j \in DOMAIN u : \E n \in u[j].todo : IsPrefix(Append(u[j].at, n), r)
    BY <1>9 DEF Pending
  <2>2. j \in DOMAIN s /\ u[j].at = s[j].at /\ u[j].todo \subseteq s[j].todo
    BY <1>5, <1>6
  <2> QED
    BY <2>1, <2>2 DEF Pending
<1>10. ASSUME NEW r, Pending(r, s) PROVE Pending(r, u) \/ \E n \in s[1].todo \ t : IsPrefix(Append(s[1].at, n), r)
  <2>1. PICK j \in DOMAIN s : \E n \in s[j].todo : IsPrefix(Append(s[j].at, n), r)
    BY <1>10 DEF Pending
  <2>2. PICK n \in s[j].todo : IsPrefix(Append(s[j].at, n), r)
    BY <2>1
  <2>3. CASE j = 1 /\ n \notin t
    BY <2>2, <2>3
  <2>4. CASE j # 1 \/ n \in t
    <3>1. n \in u[j].todo /\ u[j].at = s[j].at /\ j \in DOMAIN u
      BY <1>5, <1>6, <1>7, <2>4
    <3> QED
      BY <2>2, <3>1 DEF Pending
  <2> QED
    BY <2>3, <2>4
<1>11. ASSUME NEW n \in Name \ t, NEW j \in DOMAIN u, NEW m \in u[j].todo
       PROVE  Apart(Append(s[1].at, n), Append(u[j].at, m))
  <2>1. s[1].at \in Paths /\ j \in DOMAIN s /\ u[j].at = s[j].at /\ s[j] \in Frame
    BY <1>1, <1>5, <1>6, StackIs DEF Frame
  <2>2. m \in s[j].todo /\ m \in Name /\ s[j].at \in Paths
    BY <1>6, <2>1 DEF Frame
  <2>3. CASE j = 1
    <3>1. m \in t /\ m # n /\ u[j].at = s[1].at
      BY <1>7, <2>3
    <3> QED
      BY <2>1, <2>2, <3>1, SiblingsApart
  <2>4. CASE j # 1
    <3>1. 1 \in 1..(j - 1)
      BY <1>1, <2>1, <2>4
    <3>2. Apart(s[1].at, Append(s[j].at, m)) /\ Append(s[j].at, m) \in Paths
      BY <2>1, <2>2, <3>1, AppendIs DEF Nested
    <3> QED
      BY <2>1, <3>2, ApartIs
  <2> QED
    BY <2>3, <2>4
<1>12. Nested(u) /\ \A n \in Name \ t : Away(Append(s[1].at, n), u)
  BY <1>8, <1>11 DEF Nested, Away
<1> QED
  BY <1>4, <1>5, <1>9, <1>10, <1>12 DEF u

Told == {"nothing", "visit", "walk", "K", "E", "raised"}
Same == act'.kind = act.kind /\ act'.from = act.from /\ act'.to = act.to /\ act'.replace = act.replace

LEMMA JobIs ==
  ASSUME act \in Job
  PROVE  /\ act.from \in Paths /\ act.to \in Paths /\ act.at \in Paths /\ act.stack \in Seq(Frame)
         /\ act.told \in Told /\ act.ok \in BOOLEAN
BY DEF Job, Told

LEMMA GotoDoes ==
  ASSUME act \in Job, NEW f, NEW s \in Seq(Frame), NEW ok \in BOOLEAN, NEW t \in Told, Goto(f, s, ok, t)
  PROVE  /\ tree' = f /\ act' \in Job /\ Same /\ act'.at = act.at
         /\ act'.stack = s /\ act'.ok = ok /\ act'.told = t
<1>1. act' = [act EXCEPT !.stack = s, !.ok = ok, !.told = t] /\ tree' = f
  BY DEF Goto
<1>2. act' \in Job /\ act'.stack = s /\ act'.told = t /\ act'.at = act.at
      /\ act'.kind = act.kind /\ act'.from = act.from /\ act'.to = act.to /\ act'.replace = act.replace
  BY <1>1 DEF Job, Told
<1>3. act'.ok = ok
  BY <1>1, Zenon DEF Job
<1> QED
  BY <1>1, <1>2, <1>3 DEF Same

LEMMA PlacesIs ==
  ASSUME act \in Job, NEW r \in Paths
  PROVE  /\ act.from \o r \in Paths /\ act.to \o r \in Paths
         /\ Source \in Paths /\ Target \in Paths
         /\ IsPrefix(act.at, r) => IsPrefix(Source, act.from \o r) /\ (r # act.at => Source # act.from \o r)
         /\ ~IsPrefix(act.at, r) => ~IsPrefix(Source, act.from \o r) /\ ~IsPrefix(Target, act.to \o r) /\ act.to \o r # Target
         /\ r # act.at => act.to \o r # Target
         /\ act.from # <<>> => Source # <<>>
<1>1. act.from \in Paths /\ act.to \in Paths /\ act.at \in Paths
  BY JobIs
<1>2. act.from \o r \in Paths /\ act.to \o r \in Paths /\ Source \in Paths /\ Target \in Paths
      /\ (act.from # <<>> => Source # <<>>)
  BY <1>1, ConcatIs DEF Source, Target
<1>3. (IsPrefix(Source, act.from \o r) <=> IsPrefix(act.at, r)) /\ (Source = act.from \o r <=> act.at = r)
  BY <1>1, PrefixConcat DEF Source
<1>4. (IsPrefix(Target, act.to \o r) <=> IsPrefix(act.at, r)) /\ (Target = act.to \o r <=> act.at = r)
  BY <1>1, PrefixConcat DEF Target
<1>5. IsPrefix(act.at, act.at)
  BY <1>1, PrefixOrder
<1> QED
  BY <1>2, <1>3, <1>4, <1>5

\* Where the tree goes is apart from where it is.
LEMMA GoingIs ==
  ASSUME FilesInv, Going, NEW r \in Paths
  PROVE  /\ Apart(act.from, act.to)
         /\ ~IsPrefix(Target, act.from \o r) /\ act.from \o r # Target
         /\ ~IsPrefix(Source, act.to \o r) /\ act.to \o r # Source
         /\ Going
<1>1. act.from \in Paths /\ act.to \in Paths /\ act.at \in Paths
  BY JobIs DEF FilesInv, FilesType
<1>2. Apart(act.from, act.to) /\ Apart(act.to, act.from)
  <2>1. act.from = act.to \/ ~IsPrefix(act.from, act.to)
    BY DEF FilesInv, WalkInv, Going
  <2>2. IsPrefix(act.from, act.from)
    BY <1>1, PrefixOrder
  <2> QED
    BY <2>1, <2>2 DEF Apart, Going
<1>3. Apart(Target, act.from) /\ Apart(Source, act.to)
  BY <1>1, <1>2, ApartIs DEF Source, Target
<1>4. Source \in Paths /\ Target \in Paths
  BY <1>1, ConcatIs DEF Source, Target
<1>5. Apart(act.from, Target) /\ Apart(act.to, Source)
  BY <1>1, <1>3, <1>4, ApartIs
<1>6. Apart(act.from \o r, Target) /\ Apart(act.to \o r, Source)
  BY <1>1, <1>4, <1>5, ApartIs
<1>7. act.from \o r \in Paths /\ act.to \o r \in Paths
  BY <1>1, ConcatIs
<1> QED
  BY <1>2, <1>4, <1>6, <1>7, ApartIs DEF Apart

-----------------------------------------------------------------------------
(* What a tree f, and the directories s the walk is in after a step, must    *)
(* keep of the invariant.                                                    *)
KeepsSource(f) ==
  \A r \in Paths : act.from \o r \in DOMAIN f =>
     act.from \o r \in DOMAIN tree /\ f[act.from \o r] = tree[act.from \o r]
KeepsNone(f, s) ==
  \A r \in Paths : Pending(r, s) /\ act.to \o r \in DOMAIN f => act.to \o r \in DOMAIN former
KeepsAll(f, s) ==
  \A r \in Paths : act.from \o r \in DOMAIN former /\ former[act.from \o r] # Dir =>
     \/ act.to \o r \in DOMAIN former /\ ~act.replace
     \/ act.to \o r \in DOMAIN f /\ f[act.to \o r] = former[act.from \o r]
     \/ Pending(r, s) /\ act.from \o r \in DOMAIN f

LEMMA GotoKeeps ==
  ASSUME FilesInv, act.told \in {"visit", "walk"}, former' = former,
         NEW f, TreeType(f), NEW s \in Seq(Frame), NEW ok \in BOOLEAN, NEW t \in {"walk", "K", "E", "raised"},
         Goto(f, s, ok, t),
         t = "walk" => Nested(s) /\ s # <<>>,
         t = "K" => s = <<>> /\ ok,
         Going => KeepsSource(f),
         Going /\ ok => KeepsNone(f, s) /\ KeepsAll(f, s)
  PROVE  FilesInv'
<1>1. act \in Job /\ t \in Told
  BY DEF FilesInv, FilesType, Told
<1>2. /\ tree' = f /\ act' \in Job /\ Same /\ act'.at = act.at
      /\ act'.stack = s /\ act'.ok = ok /\ act'.told = t
  BY <1>1, GotoDoes
<1>3. FilesType'
  BY <1>2 DEF FilesInv, FilesType, TreeType, Same, Closed
<1>4. Going' => Going
  BY <1>2 DEF Going, Same
<1>5. ASSUME NEW r PROVE Open(r)' <=> Pending(r, s)
  BY <1>2 DEF Open, Pending
<1>6. ASSUME Going' PROVE SourceKept'
  <2>1. SourceKept /\ KeepsSource(f)
    BY <1>4, <1>6 DEF FilesInv, WalkInv
  <2> QED
    BY <1>2, <2>1 DEF SourceKept, KeepsSource, Same, Paths
<1>7. ASSUME Going', act'.ok PROVE NoneMoved' /\ AllMoved'
  <2>1. KeepsNone(f, s) /\ KeepsAll(f, s)
    BY <1>2, <1>4, <1>7
  <2>2. NoneMoved'
    BY <1>2, <1>5, <2>1 DEF NoneMoved, KeepsNone, Same, Paths
  <2>3. AllMoved'
    BY <1>2, <1>5, <2>1 DEF AllMoved, Moved, KeepsAll, Same, Paths
  <2> QED
    BY <2>2, <2>3
<1>8. act'.told \in {"visit", "walk", "K"} => act'.from = act'.to \/ ~IsPrefix(act'.from, act'.to)
  BY <1>2 DEF FilesInv, WalkInv, Same
<1>9. /\ act'.told \in {"visit", "walk"} => Nested(act'.stack)
      /\ act'.told = "visit" => Away(act'.at, act'.stack)
      /\ act'.told = "walk" => act'.stack # <<>>
      /\ act'.told = "K" => act'.stack = <<>> /\ act'.ok
  BY <1>2
<1>10. WalkInv'
  BY <1>6, <1>7, <1>8, <1>9 DEF WalkInv, Nested, Away, Apart
<1> QED
  BY <1>3, <1>10 DEF FilesInv

LEMMA ReturnsKeeps ==
  ASSUME FilesInv, act.told \in {"visit", "walk"}, former' = former,
         NEW f, TreeType(f), NEW s \in Seq(Frame), NEW ok \in BOOLEAN, Nested(s),
         Returns(f, s, ok),
         Going => KeepsSource(f),
         Going /\ ok => KeepsNone(f, s) /\ KeepsAll(f, s)
  PROVE  FilesInv'
<1>1. CASE s = <<>> /\ ok
  <2>1. Goto(f, s, ok, "K")
    BY <1>1 DEF Returns, Result
  <2> QED
    BY <1>1, <2>1, GotoKeeps
<1>2. CASE s = <<>> /\ ~ok
  <2>1. Goto(f, s, ok, "E")
    BY <1>2 DEF Returns, Result
  <2> QED
    BY <1>2, <2>1, GotoKeeps
<1>3. CASE s # <<>>
  <2>1. Goto(f, s, ok, "walk")
    BY <1>3 DEF Returns
  <2> QED
    BY <1>3, <2>1, GotoKeeps
<1> QED
  BY <1>1, <1>2, <1>3

LEMMA RaiseKeeps ==
  ASSUME FilesInv, act.told = "visit", former' = former, NEW f, TreeType(f), Raise(f),
         Going => KeepsSource(f)
  PROVE  FilesInv'
<1>0. act.stack \in Seq(Frame) /\ Nested(act.stack) /\ <<>> \in Seq(Frame)
  BY JobIs, NoFrame DEF FilesInv, FilesType, WalkInv
<1>1. CASE act.stack = <<>>
  <2>1. Goto(f, <<>>, FALSE, "raised")
    BY <1>1 DEF Raise
  <2> QED
    BY <1>0, <2>1, GotoKeeps
<1>2. CASE act.stack # <<>>
  <2> DEFINE u == [act.stack EXCEPT ![1].todo = {}]
  <2>1. Goto(f, u, FALSE, "walk")
    BY <1>2 DEF Raise
  <2>2. u \in Seq(Frame) /\ u # <<>> /\ Nested(u)
    BY <1>0, <1>2, TodoIs
  <2> HIDE DEF u
  <2> QED
    BY <2>1, <2>2, GotoKeeps
<1> QED
  BY <1>1, <1>2

LEMMA MadeIs ==
  ASSUME FilesInv, Exists(Target) \/ CanPut(Target)
  PROVE  TreeType(Made) /\ (Going => KeepsSource(Made))
<1>1. TreeType(tree) /\ act \in Job
  BY DEF FilesInv, FilesType
<1>2. Target \in Paths
  BY <1>1, JobIs, ConcatIs DEF Target
<1>3. CASE Exists(Target)
  BY <1>1, <1>3 DEF Made, KeepsSource
<1>4. CASE ~Exists(Target)
  <2>1. Made = Plus(tree, Target, Dir)
    BY <1>4 DEF Made
  <2>2. InDir(tree, Target)
    BY <1>1, <1>2, <1>4, CanPutIs
  <2>3. TreeType(Made)
    BY <1>1, <2>1, <2>2, PlusKeeps
  <2>4. ASSUME Going, NEW r \in Paths, act.from \o r \in DOMAIN Made
        PROVE  act.from \o r \in DOMAIN tree /\ Made[act.from \o r] = tree[act.from \o r]
    <3>1. act.from \o r # Target
      BY <2>4, GoingIs
    <3> QED
      BY <2>1, <2>4, <3>1 DEF Plus
  <2> QED
    BY <2>3, <2>4 DEF KeepsSource
<1> QED
  BY <1>3, <1>4

\* After the directory is entered, what is in it is pending.
LEMMA EnterIs ==
  ASSUME FilesInv, act.told = "visit", IsDir(Source), Going, act.ok, NEW u,
         \A r : Pending(r, u) <=> Pending(r, act.stack) \/ \E n \in Children(Source) : IsPrefix(Append(act.at, n), r)
  PROVE  KeepsNone(Made, u) /\ KeepsAll(Made, u)
<1>1. /\ TreeType(tree) /\ TreeType(former) /\ act \in Job /\ act.from # <<>>
      /\ SourceKept /\ NoneMoved /\ AllMoved /\ Away(act.at, act.stack)
  BY DEF FilesInv, FilesType, WalkInv
<1>2. act.at \in Paths /\ act.stack \in Seq(Frame) /\ act.from \in Paths
  BY <1>1, JobIs
<1>3. \A q \in DOMAIN tree : q \in DOMAIN Made /\ Made[q] = tree[q]
  BY DEF Made, Plus, Exists
<1>4. \A q \in DOMAIN Made : q \in DOMAIN tree \/ q = Target
  BY DEF Made, Plus
<1>5. ASSUME NEW r \in Paths, Pending(r, u) PROVE Open(r) /\ r # act.at
  <2>1. CASE Pending(r, act.stack)
    <3>1. IsPrefix(act.at, act.at)
      BY <1>2, PrefixOrder
    <3> QED
      BY <1>1, <1>2, <2>1, <3>1, AwayIs DEF Open
  <2>2. CASE \E n \in Children(Source) : IsPrefix(Append(act.at, n), r)
    <3>1. PICK n \in Name : IsPrefix(Append(act.at, n), r)
      BY <2>2 DEF Children
    <3>2. Append(act.at, n) \in Paths /\ IsPrefix(act.at, Append(act.at, n)) /\ Append(act.at, n) # act.at
      BY <1>2, AppendIs
    <3>3. IsPrefix(act.at, r)
      BY <1>2, <3>1, <3>2, PrefixTrans
    <3>4. r # act.at
      <4>1. ~IsPrefix(Append(act.at, n), act.at)
        BY <1>2, <3>2, PrefixOrder
      <4> QED
        BY <3>1, <4>1
    <3> QED
      BY <3>3, <3>4 DEF Open
  <2> QED
    BY <1>5, <2>1, <2>2
<1>6. ASSUME NEW r \in Paths, Pending(r, u), act.to \o r \in DOMAIN Made PROVE act.to \o r \in DOMAIN former
  <2>1. Open(r) /\ r # act.at
    BY <1>5, <1>6
  <2>2. act.to \o r # Target
    BY <1>1, <2>1, PlacesIs
  <2>3. act.to \o r \in DOMAIN tree
    BY <1>4, <1>6, <2>2
  <2> QED
    BY <1>1, <2>1, <2>3 DEF NoneMoved
<1>7. ASSUME NEW r \in Paths, Open(r), act.from \o r \in DOMAIN tree, former[act.from \o r] # Dir
      PROVE  Pending(r, u)
  <2>1. CASE Pending(r, act.stack)
    BY <2>1
  <2>2. CASE IsPrefix(act.at, r)
    <3>1. act.at # r
      BY <1>1, <1>7 DEF SourceKept, IsDir, Source
    <3>2. PICK n \in Name : IsPrefix(Append(act.at, n), r)
      BY <1>2, <2>2, <3>1, NextName
    <3>3. Append(act.at, n) \in Paths /\ act.from \o Append(act.at, n) = Append(Source, n)
      <4>1. Append(act.at, n) \in Paths /\ \A x \in Paths : x \o Append(act.at, n) = Append(x \o act.at, n)
        BY <1>2, AppendIs
      <4> QED
        BY <1>2, <4>1 DEF Source
    <3>4. IsPrefix(act.from \o Append(act.at, n), act.from \o r)
      BY <1>2, <3>2, <3>3, PrefixConcat
    <3>5. act.from \o Append(act.at, n) \in Paths \ {<<>>}
      BY <1>1, <1>2, <3>3, ConcatIs
    <3>6. act.from \o Append(act.at, n) \in DOMAIN tree
      BY <1>1, <1>7, <3>4, <3>5, AboveIsDir
    <3> QED
      BY <3>2, <3>3, <3>6 DEF Children
  <2> QED
    BY <1>7, <2>1, <2>2 DEF Open
<1>8. ASSUME NEW r \in Paths, act.from \o r \in DOMAIN former, former[act.from \o r] # Dir
      PROVE  \/ act.to \o r \in DOMAIN former /\ ~act.replace
             \/ act.to \o r \in DOMAIN Made /\ Made[act.to \o r] = former[act.from \o r]
             \/ Pending(r, u) /\ act.from \o r \in DOMAIN Made
  <2>1. Moved(r) \/ (Open(r) /\ act.from \o r \in DOMAIN tree)
    BY <1>1, <1>8 DEF AllMoved
  <2>2. CASE Moved(r)
    BY <1>3, <2>2 DEF Moved
  <2>3. CASE Open(r) /\ act.from \o r \in DOMAIN tree
    BY <1>3, <1>7, <1>8, <2>3
  <2> QED
    BY <2>1, <2>2, <2>3
<1> QED
  BY <1>6, <1>8 DEF KeepsNone, KeepsAll

LEMMA VisitDirectoryKeeps == FilesInv /\ VisitDirectory => FilesInv'
<1> SUFFICES ASSUME FilesInv, VisitDirectory PROVE FilesInv'
  OBVIOUS
<1>1. /\ TreeType(tree) /\ act \in Job /\ Nested(act.stack) /\ Away(act.at, act.stack)
      /\ act.told = "visit" /\ IsDir(Source) /\ former' = former
  BY DEF FilesInv, FilesType, WalkInv, VisitDirectory
<1>2. act.at \in Paths /\ act.stack \in Seq(Frame) /\ act.ok \in BOOLEAN
  BY <1>1, JobIs
<1> DEFINE Enter(todo, ok) == Goto(Made, <<[at |-> act.at, todo |-> todo]>> \o act.stack, ok, "walk")
<1>3. \/ (Exists(Target) \/ CanPut(Target)) /\ (Enter(Children(Source), act.ok) \/ Enter({}, FALSE))
      \/ Raise(tree)
      \/ ~Exists(Target) /\ CanPut(Target) /\ Raise(Made)
  BY DEF VisitDirectory
<1>4. ASSUME NEW t \in SUBSET Name
      PROVE  LET u == <<[at |-> act.at, todo |-> t]>> \o act.stack
             IN  /\ u \in Seq(Frame) /\ u # <<>> /\ Nested(u)
                 /\ \A r : Pending(r, u) <=> Pending(r, act.stack) \/ \E n \in t : IsPrefix(Append(act.at, n), r)
  BY <1>1, <1>2, PushIs
<1>5. CASE (Exists(Target) \/ CanPut(Target)) /\ Enter(Children(Source), act.ok)
  <2> DEFINE u == <<[at |-> act.at, todo |-> Children(Source)]>> \o act.stack
  <2>1. Children(Source) \in SUBSET Name
    BY DEF Children
  <2>2. /\ u \in Seq(Frame) /\ u # <<>> /\ Nested(u)
        /\ \A r : Pending(r, u) <=> Pending(r, act.stack) \/ \E n \in Children(Source) : IsPrefix(Append(act.at, n), r)
    BY <1>4, <2>1
  <2>3. Goto(Made, u, act.ok, "walk")
    BY <1>5
  <2> HIDE DEF u
  <2>4. TreeType(Made) /\ (Going => KeepsSource(Made))
    BY <1>5, MadeIs
  <2>5. Going /\ act.ok => KeepsNone(Made, u) /\ KeepsAll(Made, u)
    BY <1>1, <2>2, EnterIs
  <2> QED
    BY <1>1, <1>2, <2>2, <2>3, <2>4, <2>5, GotoKeeps
<1>6. CASE (Exists(Target) \/ CanPut(Target)) /\ Enter({}, FALSE)
  <2> DEFINE u == <<[at |-> act.at, todo |-> {}]>> \o act.stack
  <2>2. u \in Seq(Frame) /\ u # <<>> /\ Nested(u)
    BY <1>4
  <2>3. Goto(Made, u, FALSE, "walk")
    BY <1>6
  <2> HIDE DEF u
  <2>4. TreeType(Made) /\ (Going => KeepsSource(Made))
    BY <1>6, MadeIs
  <2> QED
    BY <1>1, <2>2, <2>3, <2>4, GotoKeeps
<1>7. CASE Raise(tree)
  <2>1. KeepsSource(tree)
    BY DEF KeepsSource
  <2> QED
    BY <1>1, <1>7, <2>1, RaiseKeeps
<1>8. CASE CanPut(Target) /\ Raise(Made)
  <2>1. TreeType(Made) /\ (Going => KeepsSource(Made))
    BY <1>8, MadeIs
  <2> QED
    BY <1>1, <1>8, <2>1, RaiseKeeps
<1> QED
  BY <1>3, <1>5, <1>6, <1>7, <1>8

-----------------------------------------------------------------------------
\* The trees a file leaves.
LEMMA ClearedTree ==
  ASSUME FilesInv
  PROVE  /\ TreeType(Cleared) /\ (Going => KeepsSource(Cleared))
         /\ \A q \in DOMAIN Cleared : q \in DOMAIN tree /\ Cleared[q] = tree[q]
         /\ \A q \in DOMAIN tree : ~IsPrefix(Target, q) => q \in DOMAIN Cleared
<1>1. TreeType(tree) /\ act \in Job
  BY DEF FilesInv, FilesType
<1>2. Target \in Paths
  BY <1>1, JobIs, ConcatIs DEF Target
<1>3. CASE Exists(Target)
  <2>1. Cleared = Less(tree, Target)
    BY <1>3 DEF Cleared
  <2>2. TreeType(Cleared)
    BY <1>1, <1>2, <2>1, LessKeeps
  <2> QED
    BY <2>1, <2>2, LessIs DEF KeepsSource
<1>4. CASE ~Exists(Target)
  BY <1>1, <1>4 DEF Cleared, KeepsSource
<1> QED
  BY <1>3, <1>4

LEMMA CopiedTree ==
  ASSUME FilesInv, Source \in DOMAIN Cleared, CanPut(Target)
  PROVE  /\ TreeType(Copied) /\ (Going => KeepsSource(Copied))
         /\ DOMAIN Copied = DOMAIN Cleared \cup {Target} /\ Copied[Target] = tree[Source]
         /\ \A q \in DOMAIN Cleared : q # Target => Copied[q] = tree[q]
<1>1. TreeType(tree) /\ act \in Job
  BY DEF FilesInv, FilesType
<1>2. Target \in Paths
  BY <1>1, JobIs, ConcatIs DEF Target
<1>3. InDir(tree, Target)
  BY <1>1, <1>2, CanPutIs
<1>4. TreeType(Cleared) /\ InDir(Cleared, Target) /\ Target \notin DOMAIN Cleared
  BY <1>1, <1>3, ClearedIs DEF Cleared, Exists
<1>5. TreeType(Copied)
  BY <1>4, PlusKeeps DEF Copied
<1>6. \A q \in DOMAIN Cleared : q \in DOMAIN tree /\ Cleared[q] = tree[q]
  BY ClearedTree
<1>7. /\ DOMAIN Copied = DOMAIN Cleared \cup {Target} /\ Copied[Target] = tree[Source]
      /\ \A q \in DOMAIN Cleared : q # Target => Copied[q] = tree[q]
  BY <1>6 DEF Copied, Plus
<1>8. ASSUME Going, NEW r \in Paths, act.from \o r \in DOMAIN Copied
      PROVE  act.from \o r \in DOMAIN tree /\ Copied[act.from \o r] = tree[act.from \o r]
  <2>1. act.from \o r # Target
    BY <1>8, GoingIs
  <2> QED
    BY <1>6, <1>7, <1>8, <2>1
<1> QED
  BY <1>5, <1>7, <1>8 DEF KeepsSource

LEMMA FinishedTree ==
  ASSUME FilesInv, Source \in DOMAIN Cleared, CanPut(Target)
  PROVE  /\ TreeType(Finished) /\ (Going => KeepsSource(Finished))
         /\ \A q \in DOMAIN Finished : q \in DOMAIN Copied /\ Finished[q] = Copied[q]
         /\ \A q \in DOMAIN Copied : ~IsPrefix(Source, q) => q \in DOMAIN Finished
<1>1. TreeType(Copied) /\ (Going => KeepsSource(Copied)) /\ Source \in Paths
  BY CopiedTree, JobIs, ConcatIs DEF FilesInv, FilesType, Source
<1>2. CASE act.kind = "move"
  <2>1. Finished = Less(Copied, Source)
    BY <1>2 DEF Finished
  <2>2. TreeType(Finished)
    BY <1>1, <2>1, LessKeeps
  <2>3. \A q \in DOMAIN Finished : q \in DOMAIN Copied /\ Finished[q] = Copied[q]
    BY <2>1, LessIs
  <2>4. \A q \in DOMAIN Copied : ~IsPrefix(Source, q) => q \in DOMAIN Finished
    BY <2>1, LessIs
  <2> QED
    BY <1>1, <2>2, <2>3, <2>4 DEF KeepsSource
<1>3. CASE act.kind # "move"
  BY <1>1, <1>3 DEF Finished
<1> QED
  BY <1>2, <1>3

LEMMA VisitFileKeeps == FilesInv /\ VisitFile => FilesInv'
<1> SUFFICES ASSUME FilesInv, VisitFile PROVE FilesInv'
  OBVIOUS
<1>1. /\ TreeType(tree) /\ TreeType(former) /\ act \in Job /\ Nested(act.stack) /\ Away(act.at, act.stack)
      /\ act.told = "visit" /\ ~IsDir(Source) /\ former' = former /\ act.from # <<>>
  BY DEF FilesInv, FilesType, WalkInv, VisitFile
<1>2. act.at \in Paths /\ act.stack \in Seq(Frame) /\ act.ok \in BOOLEAN /\ act.from \in Paths
  BY <1>1, JobIs
<1>3. ASSUME NEW r \in Paths, Pending(r, act.stack) PROVE ~IsPrefix(act.at, r) /\ Open(r)
  BY <1>1, <1>2, <1>3, AwayIs DEF Open
<1>4. ASSUME NEW f, TreeType(f), Going => KeepsSource(f), Returns(f, act.stack, FALSE) PROVE FilesInv'
  BY <1>1, <1>2, <1>4, ReturnsKeeps
<1>5. CASE Exists(Target) /\ ~act.replace /\ Returns(tree, act.stack, act.ok)
  <2>1. ASSUME Going, act.ok PROVE KeepsNone(tree, act.stack) /\ KeepsAll(tree, act.stack)
    <3>1. NoneMoved /\ AllMoved
      BY <2>1 DEF FilesInv, WalkInv
    <3>2. KeepsNone(tree, act.stack)
      BY <1>3, <3>1 DEF NoneMoved, KeepsNone
    <3>3. ASSUME NEW r \in Paths, act.from \o r \in DOMAIN former, former[act.from \o r] # Dir
          PROVE  \/ act.to \o r \in DOMAIN former /\ ~act.replace
                 \/ act.to \o r \in DOMAIN tree /\ tree[act.to \o r] = former[act.from \o r]
                 \/ Pending(r, act.stack) /\ act.from \o r \in DOMAIN tree
      <4>1. Moved(r) \/ (Open(r) /\ act.from \o r \in DOMAIN tree)
        BY <3>1, <3>3 DEF AllMoved
      <4>2. CASE Moved(r) \/ (Pending(r, act.stack) /\ act.from \o r \in DOMAIN tree)
        BY <4>2 DEF Moved
      <4>3. CASE IsPrefix(act.at, r) /\ act.from \o r \in DOMAIN tree
        <5>1. r = act.at
          <6>1. SUFFICES ASSUME r # act.at PROVE FALSE
            OBVIOUS
          <6>2. IsPrefix(Source, act.from \o r) /\ Source # act.from \o r /\ Source \in Paths /\ Source # <<>>
            BY <1>1, <4>3, <6>1, PlacesIs
          <6>3. Source \in DOMAIN tree /\ tree[Source] = Dir
            BY <1>1, <4>3, <6>2, AboveIsDir
          <6> QED
            BY <1>1, <6>3 DEF IsDir, Exists
        <5>2. Open(act.at) /\ act.to \o act.at \in DOMAIN tree
          BY <1>1, <1>5, <4>3, <5>1 DEF Open, Exists, Target
        <5>3. act.to \o act.at \in DOMAIN former
          BY <1>2, <3>1, <5>2 DEF NoneMoved
        <5> QED
          BY <1>5, <5>1, <5>3
      <4> QED
        BY <4>1, <4>2, <4>3 DEF Open
    <3>4. KeepsAll(tree, act.stack)
      BY <3>3 DEF KeepsAll
    <3> QED
      BY <3>2, <3>4
  <2>2. KeepsSource(tree)
    BY DEF KeepsSource
  <2> QED
    BY <1>1, <1>2, <1>5, <2>1, <2>2, ReturnsKeeps
<1>6. CASE /\ Source \in DOMAIN Cleared /\ CanPut(Target)
           /\ Returns(Finished, act.stack, act.ok)
  <2>1. /\ TreeType(Finished) /\ (Going => KeepsSource(Finished))
        /\ \A q \in DOMAIN Finished : q \in DOMAIN Copied /\ Finished[q] = Copied[q]
        /\ \A q \in DOMAIN Copied : ~IsPrefix(Source, q) => q \in DOMAIN Finished
    BY <1>6, FinishedTree
  <2>2. /\ DOMAIN Copied = DOMAIN Cleared \cup {Target} /\ Copied[Target] = tree[Source]
        /\ \A q \in DOMAIN Cleared : q # Target => Copied[q] = tree[q]
    BY <1>6, CopiedTree
  <2>3. /\ \A q \in DOMAIN Cleared : q \in DOMAIN tree /\ Cleared[q] = tree[q]
        /\ \A q \in DOMAIN tree : ~IsPrefix(Target, q) => q \in DOMAIN Cleared
    BY ClearedTree
  <2>4. ASSUME NEW q, q \in DOMAIN tree, ~IsPrefix(Target, q), ~IsPrefix(Source, q), q # Target
        PROVE  q \in DOMAIN Finished /\ Finished[q] = tree[q]
    <3>1. q \in DOMAIN Cleared
      BY <2>3, <2>4
    <3>2. q \in DOMAIN Copied /\ Copied[q] = tree[q]
      BY <2>2, <2>4, <3>1
    <3> QED
      BY <2>1, <2>4, <3>2
  <2>5. \A q \in DOMAIN Finished : q \in DOMAIN tree \/ q = Target
    BY <2>1, <2>2, <2>3
  <2>6. ASSUME Going, act.ok PROVE KeepsNone(Finished, act.stack) /\ KeepsAll(Finished, act.stack)
    <3>1. NoneMoved /\ AllMoved /\ SourceKept
      BY <2>6 DEF FilesInv, WalkInv
    <3>2. ASSUME NEW r \in Paths, Pending(r, act.stack), act.to \o r \in DOMAIN Finished
          PROVE  act.to \o r \in DOMAIN former
      <4>1. act.to \o r # Target
        BY <1>1, <1>3, <3>2, PlacesIs
      <4> QED
        BY <1>3, <2>5, <3>1, <3>2, <4>1 DEF NoneMoved
    <3>3. ASSUME NEW r \in Paths, act.from \o r \in DOMAIN former, former[act.from \o r] # Dir
          PROVE  \/ act.to \o r \in DOMAIN former /\ ~act.replace
                 \/ act.to \o r \in DOMAIN Finished /\ Finished[act.to \o r] = former[act.from \o r]
                 \/ Pending(r, act.stack) /\ act.from \o r \in DOMAIN Finished
      <4>1. CASE IsPrefix(act.at, r)
        <5>1. Source \in DOMAIN tree /\ tree[Source] # Dir
          BY <1>1, <1>6, <2>3 DEF IsDir, Exists
        <5>2. Source \in DOMAIN former /\ former[Source] = tree[Source]
          BY <1>2, <3>1, <5>1 DEF SourceKept, Source
        <5>3. r = act.at
          <6>1. SUFFICES ASSUME r # act.at PROVE FALSE
            OBVIOUS
          <6>2. IsPrefix(Source, act.from \o r) /\ Source # act.from \o r /\ Source \in Paths /\ Source # <<>>
            BY <1>1, <4>1, <6>1, PlacesIs
          <6>3. former[Source] = Dir
            BY <1>1, <3>3, <6>2, AboveIsDir
          <6> QED
            BY <5>1, <5>2, <6>3
        <5>4. ~IsPrefix(Source, Target)
          BY <1>2, <2>6, GoingIs DEF Target
        <5>5. Target \in DOMAIN Finished /\ Finished[Target] = tree[Source]
          BY <2>1, <2>2, <5>4
        <5> QED
          BY <5>2, <5>3, <5>5 DEF Source, Target
      <4>2. CASE ~IsPrefix(act.at, r)
        <5>1. /\ ~IsPrefix(Source, act.from \o r) /\ ~IsPrefix(Target, act.to \o r) /\ act.to \o r # Target
          BY <1>1, <4>2, PlacesIs
        <5>2. /\ ~IsPrefix(Target, act.from \o r) /\ act.from \o r # Target /\ ~IsPrefix(Source, act.to \o r)
          BY <2>6, GoingIs
        <5>3. act.from \o r \in DOMAIN tree => act.from \o r \in DOMAIN Finished
          BY <2>4, <5>1, <5>2
        <5>4. act.to \o r \in DOMAIN tree => act.to \o r \in DOMAIN Finished /\ Finished[act.to \o r] = tree[act.to \o r]
          BY <2>4, <5>1, <5>2
        <5>5. Moved(r) \/ (Open(r) /\ act.from \o r \in DOMAIN tree)
          BY <3>1, <3>3 DEF AllMoved
        <5> QED
          BY <4>2, <5>3, <5>4, <5>5 DEF Moved, Open
      <4> QED
        BY <4>1, <4>2
    <3> QED
      BY <3>2, <3>3 DEF KeepsNone, KeepsAll
  <2> QED
    BY <1>1, <1>2, <1>6, <2>1, <2>6, ReturnsKeeps
<1>7. CASE \E f \in {Copied, Finished} : Source \in DOMAIN Cleared /\ CanPut(Target) /\ Returns(f, act.stack, FALSE)
  BY <1>4, <1>7, CopiedTree, FinishedTree
<1>8. CASE \E f \in {tree, Cleared} : Returns(f, act.stack, FALSE)
  <2>1. KeepsSource(tree)
    BY DEF KeepsSource
  <2> QED
    BY <1>1, <1>4, <1>8, <2>1, ClearedTree
<1> QED
  BY <1>5, <1>6, <1>7, <1>8 DEF VisitFile

LEMMA LeaveKeeps == FilesInv /\ Leave => FilesInv'
<1> SUFFICES ASSUME FilesInv, Leave PROVE FilesInv'
  OBVIOUS
<1> DEFINE s == act.stack
           rest == Tail(act.stack)
           place == act.from \o act.stack[1].at
<1>1. /\ TreeType(tree) /\ act \in Job /\ Nested(s) /\ s # <<>> /\ s[1].todo = {}
      /\ act.told = "walk" /\ former' = former
  BY DEF FilesInv, FilesType, WalkInv, Leave
<1>2. s \in Seq(Frame) /\ act.ok \in BOOLEAN /\ act.from \in Paths /\ act.to \in Paths
  BY <1>1, JobIs
<1>3. /\ rest \in Seq(Frame) /\ Nested(rest) /\ Away(s[1].at, rest)
      /\ \A r : Pending(r, rest) <=> Pending(r, s)
  BY <1>1, <1>2, PopIs
<1>4. s[1].at \in Paths
  <2>1. 1 \in 1..Len(s) /\ s[1] \in Frame
    BY <1>1, <1>2, StackIs
  <2> QED
    BY <2>1 DEF Frame
<1>5. place \in Paths
  BY <1>2, <1>4, ConcatIs
<1>6. \A r : Open(r) <=> Pending(r, rest)
  BY <1>1, <1>3 DEF Open
<1>7. TreeType(Less(tree, place)) /\ TreeType(tree)
  BY <1>1, <1>5, LessKeeps
<1>8. KeepsSource(tree) /\ KeepsSource(Less(tree, place))
  BY LessIs DEF KeepsSource
<1>9. ASSUME Going, act.ok
      PROVE  /\ KeepsNone(tree, rest) /\ KeepsAll(tree, rest)
             /\ KeepsNone(Less(tree, place), rest) /\ KeepsAll(Less(tree, place), rest)
  <2>1. NoneMoved /\ AllMoved
    BY <1>9 DEF FilesInv, WalkInv
  <2>2. KeepsNone(tree, rest) /\ KeepsAll(tree, rest)
    BY <1>6, <2>1 DEF NoneMoved, AllMoved, Moved, KeepsNone, KeepsAll
  <2>3. KeepsNone(Less(tree, place), rest)
    BY <2>2, LessIs DEF KeepsNone
  <2>4. ASSUME NEW r \in Paths, act.to \o r \in DOMAIN tree
        PROVE  act.to \o r \in DOMAIN Less(tree, place) /\ Less(tree, place)[act.to \o r] = tree[act.to \o r]
    <3>1. Apart(act.from, act.to)
      BY <1>9, GoingIs, <2>4
    <3>2. Apart(place, act.to)
      BY <1>2, <1>4, <3>1, ApartIs
    <3>3. act.to \o r \in Paths /\ IsPrefix(act.to, act.to \o r)
      BY <1>2, ConcatIs, PrefixConcat
    <3>4. ~IsPrefix(place, act.to \o r)
      BY <1>2, <1>5, <3>2, <3>3, ApartIs
    <3> QED
      BY <2>4, <3>4, LessIs
  <2>5. ASSUME NEW r \in Paths, act.from \o r \in DOMAIN tree, Pending(r, rest)
        PROVE  act.from \o r \in DOMAIN Less(tree, place)
    <3>1. ~IsPrefix(s[1].at, r)
      BY <1>3, <1>4, <2>5, AwayIs
    <3>2. ~IsPrefix(place, act.from \o r)
      BY <1>2, <1>4, <3>1, PrefixConcat
    <3> QED
      BY <2>5, <3>2, LessIs
  <2>6. KeepsAll(Less(tree, place), rest)
    BY <2>2, <2>4, <2>5 DEF KeepsAll
  <2> QED
    BY <2>2, <2>3, <2>6
<1>10. \/ Returns(tree, rest, act.ok) \/ Returns(Less(tree, place), rest, act.ok)
       \/ Returns(tree, rest, FALSE)
  BY DEF Leave
<1> HIDE DEF rest, place
<1>11. CASE Returns(tree, rest, act.ok)
  BY <1>1, <1>2, <1>3, <1>7, <1>8, <1>9, <1>11, ReturnsKeeps
<1>12. CASE Returns(Less(tree, place), rest, act.ok)
  BY <1>1, <1>2, <1>3, <1>7, <1>8, <1>9, <1>12, ReturnsKeeps
<1>13. CASE Returns(tree, rest, FALSE)
  BY <1>1, <1>2, <1>3, <1>7, <1>8, <1>13, ReturnsKeeps
<1> QED
  BY <1>10, <1>11, <1>12, <1>13

LEMMA NextChildKeeps == FilesInv /\ NextChild => FilesInv'
<1> SUFFICES ASSUME FilesInv, NextChild PROVE FilesInv'
  OBVIOUS
<1> DEFINE s == act.stack
<1>1. /\ TreeType(tree) /\ TreeType(former) /\ act \in Job /\ Nested(s) /\ s # <<>>
      /\ act.told = "walk" /\ former' = former /\ tree' = tree
  BY DEF FilesInv, FilesType, WalkInv, NextChild
<1>2. s \in Seq(Frame) /\ 1 \in DOMAIN s /\ s[1] \in Frame
  BY <1>1, JobIs, StackIs
<1>3. PICK n \in s[1].todo :
         act' = [act EXCEPT !.stack[1].todo = @ \ {n}, !.at = Append(act.stack[1].at, n), !.told = "visit"]
  BY DEF NextChild
<1>4. n \in Name /\ s[1].at \in Paths
  BY <1>2 DEF Frame
<1> DEFINE t == s[1].todo \ {n}
           u == [s EXCEPT ![1].todo = t]
           p == Append(s[1].at, n)
<1>5. /\ u \in Seq(Frame) /\ Nested(u)
      /\ \A r : Pending(r, u) => Pending(r, s)
      /\ \A r : Pending(r, s) => Pending(r, u) \/ \E m \in s[1].todo \ t : IsPrefix(Append(s[1].at, m), r)
      /\ \A m \in Name \ t : Away(Append(s[1].at, m), u)
  <2>1. t \subseteq s[1].todo
    OBVIOUS
  <2> HIDE DEF t
  <2> QED
    BY <1>1, <1>2, <2>1, TodoIs
<1>6. Away(p, u) /\ p \in Paths
  BY <1>4, <1>5, AppendIs
<1>7. \A r : Pending(r, s) <=> Pending(r, u) \/ IsPrefix(p, r)
  <2>1. s[1].todo \ t = {n}
    OBVIOUS
  <2>2. ASSUME NEW r, IsPrefix(p, r) PROVE Pending(r, s)
    BY <1>2, <2>2 DEF Pending
  <2> HIDE DEF t
  <2> QED
    BY <1>5, <2>1, <2>2
<1>8. act' = [act EXCEPT !.stack = u, !.at = p, !.told = "visit"]
  BY <1>1, <1>2, <1>3 DEF Job
<1> HIDE DEF u, p, t
<1>9. /\ act' \in Job /\ act'.stack = u /\ act'.at = p /\ act'.told = "visit"
      /\ act'.kind = act.kind /\ act'.from = act.from /\ act'.to = act.to /\ act'.replace = act.replace
  BY <1>1, <1>5, <1>6, <1>8 DEF Job
<1>10. act'.ok = act.ok
  BY <1>1, <1>8, Zenon DEF Job
<1>11. FilesType'
  BY <1>1, <1>9 DEF FilesInv, FilesType, TreeType, Closed
<1>12. ASSUME NEW r PROVE Open(r)' <=> Open(r)
  BY <1>1, <1>7, <1>9 DEF Open, Pending
<1>13. (Going' <=> Going) /\ (Going => SourceKept) /\ (Going /\ act.ok => NoneMoved /\ AllMoved)
  BY <1>1, <1>9 DEF Going, FilesInv, WalkInv
<1>14. Going' => SourceKept'
  BY <1>1, <1>9, <1>13 DEF SourceKept, Paths
<1>15. Going' /\ act'.ok => NoneMoved'
  BY <1>1, <1>9, <1>10, <1>12, <1>13 DEF NoneMoved, Paths
<1>16. Going' /\ act'.ok => AllMoved'
  BY <1>1, <1>9, <1>10, <1>12, <1>13 DEF AllMoved, Moved, Paths
<1>17. WalkInv'
  <2>1. act.from = act.to \/ ~IsPrefix(act.from, act.to)
    BY <1>1 DEF FilesInv, WalkInv
  <2> QED
    BY <1>5, <1>6, <1>9, <1>14, <1>15, <1>16, <2>1 DEF WalkInv, Nested, Away, Apart
<1> QED
  BY <1>11, <1>17 DEF FilesInv

LEMMA HeadTailPut ==
  ASSUME NEW a, NEW w \in Paths
  PROVE  Head(<<a>> \o w) = a /\ Tail(<<a>> \o w) = w
<1> DEFINE S == Name \cup {a}
           x == <<a>> \o w
<1>1. w \in Seq(S) /\ <<a>> \in Seq(S) /\ Len(<<a>>) = 1 /\ <<a>>[1] = a /\ Len(w) \in Nat
  <2>1. w \in Seq(S)
    BY SeqMonotonic DEF Paths
  <2> QED
    BY <2>1
<1>2. /\ x \in Seq(S) /\ Len(x) = 1 + Len(w)
      /\ \A i \in 1..(1 + Len(w)) : x[i] = IF i <= 1 THEN <<a>>[i] ELSE w[i - 1]
  BY <1>1, ConcatProperties
<1> HIDE DEF x, S
<1>3. x # <<>> /\ x[1] = a /\ \A i \in 1..Len(w) : x[i + 1] = w[i]
  BY <1>1, <1>2
<1>4. Head(x) = a
  BY <1>3
<1>5. Tail(x) \in Seq(S) /\ Len(Tail(x)) = Len(w) /\ \A i \in 1..Len(w) : Tail(x)[i] = w[i]
  BY <1>1, <1>2, <1>3, HeadTailProperties
<1>6. Tail(x) = w
  BY <1>1, <1>5, SeqEqual
<1> QED
  BY <1>4, <1>6 DEF x

LEMMA NameIs ==
  ASSUME TreeType(tree), NEW s \in Directories
  PROVE  PermissionPath(s).name \in Paths
<1>1. CASE Permissions = Full
  BY <1>1 DEF Directories, PermissionPath, TreeType
<1>2. CASE Permissions # Full
  <2>1. PICK a \in DOMAIN Permissions :
          s \in {<<a>> \o Below(Permissions[a].base, q) :
                   q \in {p \in Under(tree, Permissions[a].base) : tree[p] = Dir}}
    BY <1>2 DEF Directories
  <2> DEFINE b == Permissions[a].base
  <2>2. PICK q \in Under(tree, b) : s = <<a>> \o Below(b, q)
    BY <2>1
  <2>3. b \in Paths /\ q \in Paths /\ IsPrefix(b, q)
    BY <1>2, FilesAssumption DEF Under, TreeType, Paths
  <2>4. Below(b, q) \in Paths /\ q = b \o Below(b, q)
    BY <2>3, BelowIs
  <2>5. Head(s) = a /\ Tail(s) = Below(b, q)
    BY <2>2, <2>4, HeadTailPut
  <2>6. PermissionPath(s).name = b \o Below(b, q)
    BY <1>2, <2>5 DEF PermissionPath
  <2> QED
    BY <2>3, <2>4, <2>6
<1> QED
  BY <1>1, <1>2

LEMMA InitFiles == FilesInit => FilesInv
<1> SUFFICES ASSUME FilesInit PROVE FilesInv
  OBVIOUS
<1>1. TreeType(tree) /\ TreeType(former)
  BY FilesAssumption DEF FilesInit, TreeType, Paths
<1>2. act = NoJob /\ <<>> \in Paths /\ <<>> \in Seq(Frame)
  BY PathIs, NoFrame DEF FilesInit
<1>3. act \in Job /\ act.told = "nothing"
  BY <1>2 DEF NoJob, Job
<1> QED
  BY <1>1, <1>3 DEF FilesInv, FilesType, WalkInv, Going

LEMMA RespondKeeps == FilesInv /\ Respond => FilesInv'
<1> SUFFICES ASSUME FilesInv, Respond PROVE FilesInv'
  OBVIOUS
<1>1. act' = NoJob /\ tree' = tree /\ former' = former /\ <<>> \in Paths /\ <<>> \in Seq(Frame)
  BY PathIs, NoFrame DEF Respond
<1>2. act' \in Job /\ act'.told = "nothing"
  BY <1>1 DEF NoJob, Job
<1>3. FilesType'
  BY <1>1, <1>2 DEF FilesInv, FilesType, TreeType, Closed
<1> QED
  BY <1>2, <1>3 DEF FilesInv, WalkInv, Going

\* A request of one step.
LEMMA OneStepKeeps ==
  ASSUME FilesInv, act.kind = "none", act' = act, former' = former, NEW f, TreeType(f), tree' = f
  PROVE  FilesInv'
<1>1. act.told = "nothing"
  BY DEF FilesInv, FilesType
<1>2. FilesType'
  BY DEF FilesInv, FilesType, TreeType, Closed
<1> QED
  BY <1>1, <1>2 DEF FilesInv, WalkInv, Going

LEMMA RequestKeeps == FilesInv /\ (RemoveFile \/ MakeDir \/ Rename \/ Upload) => FilesInv'
<1> SUFFICES ASSUME FilesInv, RemoveFile \/ MakeDir \/ Rename \/ Upload PROVE FilesInv'
  OBVIOUS
<1>1. TreeType(tree) /\ act.kind = "none" /\ act' = act /\ former' = former
  BY DEF FilesInv, FilesType, RemoveFile, MakeDir, Rename, Upload, Ask
<1>2. \A s \in Directories : PermissionPath(s).name \in Paths
        /\ \A n \in Name : Append(PermissionPath(s).name, n) \in Paths
  BY <1>1, NameIs, AppendIs
<1>3. CASE RemoveFile
  <2>1. PICK s \in Directories, n \in Name : tree' = Less(tree, Append(PermissionPath(s).name, n))
    BY <1>3 DEF RemoveFile
  <2>2. TreeType(Less(tree, Append(PermissionPath(s).name, n)))
    BY <1>1, <1>2, LessKeeps
  <2> QED
    BY <1>1, <2>1, <2>2, OneStepKeeps
<1>4. CASE MakeDir
  <2> DEFINE p(s, n) == Append(PermissionPath(s).name, n)
  <2>1. PICK s \in Directories, n \in Name :
          ~Exists(p(s, n)) /\ CanPut(p(s, n)) /\ tree' = Plus(tree, p(s, n), Dir)
    BY <1>4 DEF MakeDir
  <2>2. InDir(tree, p(s, n))
    BY <1>1, <1>2, <2>1, CanPutIs
  <2>3. TreeType(Plus(tree, p(s, n), Dir))
    BY <1>1, <2>2, PlusKeeps
  <2> QED
    BY <1>1, <2>1, <2>3, OneStepKeeps
<1>5. CASE Upload
  <2> DEFINE p(s, n) == Append(PermissionPath(s).name, n)
  <2>1. PICK s \in Directories, n \in Name :
          CanPut(p(s, n)) /\ ~IsDir(p(s, n)) /\ tree' = Plus(tree, p(s, n), "uploaded")
    BY <1>5 DEF Upload
  <2>2. InDir(tree, p(s, n))
    BY <1>1, <1>2, <2>1, CanPutIs
  <2>3. TreeType(Plus(tree, p(s, n), "uploaded"))
    BY <1>1, <2>1, <2>2, PlusKeeps DEF IsDir, Exists
  <2> QED
    BY <1>1, <2>1, <2>3, OneStepKeeps
<1>6. CASE Rename
  <2> DEFINE p(s, n) == Append(PermissionPath(s).name, n)
  <2>1. PICK s \in Directories, n \in Name, m \in Name :
          p(s, n) \in DOMAIN tree /\ p(s, m) \notin DOMAIN tree /\ tree' = Renamed(p(s, n), p(s, m))
    BY <1>6 DEF Rename, Exists
  <2>2. TreeType(Renamed(p(s, n), p(s, m)))
    BY <1>1, <1>2, <2>1, RenameKeeps
  <2> QED
    BY <1>1, <2>1, <2>2, OneStepKeeps
<1> QED
  BY <1>3, <1>4, <1>5, <1>6

LEMMA CopyOrMoveKeeps ==
  ASSUME FilesInv, NEW kind \in {"copy", "move"}, CopyOrMove(kind)
  PROVE  FilesInv'
<1>1. TreeType(tree) /\ tree' = tree /\ former' = tree
  BY DEF FilesInv, FilesType, CopyOrMove
<1>2. PICK from \in Paths, to \in Paths, replace \in BOOLEAN :
        from # <<>> /\ Starts(kind, from, to, replace)
  <2>1. PICK s \in Directories, d \in Directories, n \in Name, m \in Name, replace \in BOOLEAN :
          Starts(kind, Append(PermissionPath(s).name, n), Append(PermissionPath(d).name, m), replace)
    BY DEF CopyOrMove
  <2>2. PermissionPath(s).name \in Paths /\ PermissionPath(d).name \in Paths
    BY <1>1, NameIs
  <2>3. /\ Append(PermissionPath(s).name, n) \in Paths /\ Append(PermissionPath(d).name, m) \in Paths
        /\ Append(PermissionPath(s).name, n) # <<>>
    BY <2>2, AppendIs
  <2> QED
    BY <2>1, <2>3
<1>3. <<>> \in Paths /\ <<>> \in Seq(Frame)
  BY PathIs, NoFrame
<1>4. act' \in Job /\ act'.kind = kind /\ act'.from = from /\ act'.to = to /\ act'.stack = <<>> /\ act'.at = <<>>
  BY <1>2, <1>3 DEF Job, Starts
<1>5. act'.told = IF from # to /\ IsPrefix(from, to) THEN "E" ELSE "visit"
  BY <1>2 DEF Starts
<1>6. FilesType'
  BY <1>1, <1>2, <1>4 DEF FilesType, TreeType, Closed
<1>7. SourceKept' /\ NoneMoved'
  BY <1>1 DEF SourceKept, NoneMoved
<1>8. act'.told = "visit" => AllMoved'
  <2>1. \A r \in Paths : act'.told = "visit" => Open(r)'
    <3>1. \A r \in Paths : IsPrefix(<<>>, r)
      BY PrefixOrder
    <3> QED
      BY <1>4, <3>1 DEF Open
  <2> QED
    BY <1>1, <2>1 DEF AllMoved, Paths
<1>9. Nested(<<>>)' /\ Away(<<>>, <<>>)'
  BY DEF Nested, Away
<1>10. WalkInv'
  <2>1. CASE from # to /\ IsPrefix(from, to)
    BY <1>5, <2>1 DEF WalkInv, Going
  <2>2. CASE ~(from # to /\ IsPrefix(from, to))
    BY <1>4, <1>5, <1>7, <1>8, <1>9, <2>2 DEF WalkInv
  <2> QED
    BY <2>1, <2>2
<1> QED
  BY <1>6, <1>10 DEF FilesInv

LEMMA StepFiles == FilesInv /\ [FilesNext]_filesVars => FilesInv'
<1> SUFFICES ASSUME FilesInv, [FilesNext]_filesVars PROVE FilesInv'
  OBVIOUS
<1>1. CASE CopyOrMove("copy") \/ CopyOrMove("move")
  BY <1>1, CopyOrMoveKeeps
<1>2. CASE VisitDirectory
  BY <1>2, VisitDirectoryKeeps
<1>3. CASE VisitFile
  BY <1>3, VisitFileKeeps
<1>4. CASE NextChild
  BY <1>4, NextChildKeeps
<1>5. CASE Leave
  BY <1>5, LeaveKeeps
<1>6. CASE Respond
  BY <1>6, RespondKeeps
<1>7. CASE RemoveFile \/ MakeDir \/ Rename \/ Upload
  BY <1>7, RequestKeeps
<1>8. CASE UNCHANGED filesVars
  BY <1>8 DEF filesVars, FilesInv, FilesType, WalkInv, TreeType, Closed, Going, SourceKept, NoneMoved, AllMoved,
               Moved, Open, Pending, Nested, Away, Apart, Paths, Job, Frame
<1> QED
  BY <1>1, <1>2, <1>3, <1>4, <1>5, <1>6, <1>7, <1>8 DEF FilesNext

LEMMA DoneIs == FilesInv => DoneWhenTold
<1> SUFFICES ASSUME FilesInv, act.told = "K", ~IsPrefix(act.to, act.from), NEW q \in Under(former, act.from),
                    former[q] # Dir
             PROVE  LET t == act.to \o Below(act.from, q)
                    IN  (t \in DOMAIN former /\ ~act.replace) \/ (t \in DOMAIN tree /\ tree[t] = former[q])
  BY DEF DoneWhenTold
<1>1. act.stack = <<>> /\ act.ok /\ AllMoved /\ act.from \in Paths
  BY JobIs DEF FilesInv, FilesType, WalkInv, Going
<1>2. q \in Paths /\ IsPrefix(act.from, q) /\ q \in DOMAIN former
  BY DEF FilesInv, FilesType, TreeType, Under
<1>3. Below(act.from, q) \in Paths /\ q = act.from \o Below(act.from, q)
  BY <1>1, <1>2, BelowIs
<1>4. ~Open(Below(act.from, q))
  BY <1>1 DEF Open, Pending
<1>5. Moved(Below(act.from, q))
  BY <1>1, <1>2, <1>3, <1>4 DEF AllMoved
<1> QED
  BY <1>3, <1>5 DEF Moved

\* Whatever the trees, the permissions and the failures: a walk that goes well leaves
\* each file of its tree in its new place or where it is still to be visited.
THEOREM ToldWhenDone == FilesSpec => []DoneWhenTold
<1>1. FilesSpec => []FilesInv
  BY InitFiles, StepFiles, PTL DEF FilesSpec
<1> QED
  BY <1>1, DoneIs, PTL
=============================================================================
