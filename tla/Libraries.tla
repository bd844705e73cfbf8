------------------------------ MODULE Libraries ------------------------------
(***************************************************************************)
(* The native libraries of the agent's process (core/agent.py: load_lib and *)
(* unload_lib), counted and shared by the apps and by the libraries that    *)
(* depend on them, and the files of a library, which are brought up to date *)
(* before its first use.                                                    *)
(*                                                                          *)
(* _libs_apps_semaphore is held by a load or an unload to its end, the      *)
(* loads and unloads of dependencies it makes included: calls is the stack  *)
(* of those.  The process may stop at any step; the files stay.             *)
(***************************************************************************)
EXTENDS Naturals, Sequences, FiniteSets, SequenceTheorems, FiniteSetTheorems, TLAPS

CONSTANTS
  Lib,            \* the libraries
  Deps,           \* Deps[l]: lib_dependencies of l, in order
  Users, Needs,   \* those who load a library, and the one each loads
  MaxRelease,     \* bound: releases of the distribution
  MaxCrashes, MaxFailures   \* bounds: stops of the process, loads the system refuses

\* No library depends on itself, through others or not.
ASSUME LibAssumption ==
  /\ IsFiniteSet(Lib) /\ Deps \in [Lib -> Seq(Lib)] /\ Needs \in [Users -> Lib]
  /\ \E depth \in [Lib -> 0..Cardinality(Lib)] :
       \A l \in Lib : \A i \in 1..Len(Deps[l]) : depth[Deps[l][i]] < depth[l]
  /\ MaxRelease \in Nat

VARIABLES
  libs,       \* keys of self._libs
  refcount, object,   \* refcount[l]; object[l]: l is loaded in the process
  calls,      \* what holds the semaphore: a stack of calls of load_lib, unload_lib and _init_lib
  user,       \* user[u]: "none", "loading", "holds" or "unloading"
  release,    \* the distribution the agent has: the version of every file in it
  recorded, content,  \* recorded[l], content[l]: version in versions.json, and of the files;
                      \* content[l] is Mixed when some are of another version
  failures, crashes   \* bounded counters

files == <<release, recorded, content>>
counters == <<failures, crashes>>
libVars == <<libs, refcount, object, calls, user, files, counters>>

Mixed == MaxRelease + 1

LibInit ==
  /\ libs = {} /\ refcount = [l \in Lib |-> 0] /\ object = [l \in Lib |-> FALSE]
  /\ calls = <<>> /\ user = [u \in Users |-> "none"]
  /\ release = 1 /\ recorded = [l \in Lib |-> 0] /\ content = [l \in Lib |-> 0]
  /\ failures = 0 /\ crashes = 0

-----------------------------------------------------------------------------
Top == calls[Len(calls)]
Below == SubSeq(calls, 1, Len(calls) - 1)
LibCall(op, l) == [op |-> op, lib |-> l, step |-> "enter", left |-> Deps[l]]
In(op, step) == calls # <<>> /\ Top.op = op /\ Top.step = step
Goes(step) == Append(Below, [Top EXCEPT !.step = step])

\* load_lib and unload_lib of an app
Loads(u) ==
  /\ calls = <<>> /\ user[u] = "none"
  /\ user' = [user EXCEPT ![u] = "loading"]
  /\ calls' = <<LibCall("load", Needs[u])>>
  /\ UNCHANGED <<libs, refcount, object, files, counters>>

Unloads(u) ==
  /\ calls = <<>> /\ user[u] = "holds"
  /\ user' = [user EXCEPT ![u] = "unloading"]
  /\ calls' = <<LibCall("unload", Needs[u])>>
  /\ UNCHANGED <<libs, refcount, object, files, counters>>

\* what the app sees when its call returns, or raises
Returns(s, raised) ==
  user' = IF s # <<>> THEN user
          ELSE [u \in Users |-> CASE user[u] = "loading" /\ ~raised -> "holds"
                                  [] user[u] = "loading" /\ raised -> "none"
                                  [] user[u] = "unloading" -> "none"
                                  [] OTHER -> user[u]]

-----------------------------------------------------------------------------
\* a library not used before is prepared first
PrepareFirst ==
  /\ In("load", "enter") /\ Top.lib \notin libs
  /\ calls' = Append(calls, LibCall("init", Top.lib))
  /\ UNCHANGED <<libs, refcount, object, user, files, counters>>

\* _init_lib: files of another version are unzipped over, one by one
InitLib ==
  /\ In("init", "enter") /\ Top.lib \notin libs
  /\ content' = [content EXCEPT ![Top.lib] = IF recorded[Top.lib] # release THEN Mixed ELSE @]
  /\ calls' = Goes(IF recorded[Top.lib] # release THEN "unzip" ELSE "deps")
  /\ UNCHANGED <<libs, refcount, object, user, release, recorded, counters>>

Unzipped ==
  /\ In("init", "unzip")
  /\ content' = [content EXCEPT ![Top.lib] = release]
  /\ calls' = Goes("record")
  /\ UNCHANGED <<libs, refcount, object, user, release, recorded, counters>>

SetAgentVersion ==
  /\ In("init", "record")
  /\ recorded' = [recorded EXCEPT ![Top.lib] = release]
  /\ calls' = Goes("deps")
  /\ UNCHANGED <<libs, refcount, object, user, release, content, counters>>

\* Its dependencies have been prepared, or it was prepared before.
Prepared ==
  /\ \/ In("init", "deps") /\ Top.left = <<>>
     \/ In("init", "enter") /\ Top.lib \in libs
  /\ libs' = libs \cup {Top.lib}
  /\ calls' = Below
  /\ UNCHANGED <<refcount, object, user, files, counters>>

\* mutant: a library loaded already is not counted again
AddReferenceOnce ==
  /\ In("load", "enter") /\ Top.lib \in libs /\ refcount[Top.lib] > 0
  /\ calls' = Below /\ Returns(Below, FALSE)
  /\ UNCHANGED <<libs, refcount, object, files, counters>>

AddReference ==
  /\ In("load", "enter") /\ Top.lib \in libs /\ refcount[Top.lib] > 0
  /\ refcount' = [refcount EXCEPT ![Top.lib] = @ + 1]
  /\ calls' = Below /\ Returns(Below, FALSE)
  /\ UNCHANGED <<libs, object, files, counters>>

FirstLoad ==
  /\ In("load", "enter") /\ Top.lib \in libs /\ refcount[Top.lib] = 0
  /\ calls' = Goes("deps")
  /\ UNCHANGED <<libs, refcount, object, user, files, counters>>

\* the next of its dependencies, prepared, loaded or unloaded in order
Dependency ==
  /\ calls # <<>> /\ Top.step = "deps" /\ Top.left # <<>>
  /\ calls' = Append(Append(Below, [Top EXCEPT !.left = Tail(@)]),
                     LibCall(Top.op, Head(Top.left)))
  /\ UNCHANGED <<libs, refcount, object, user, files, counters>>

LoadObject ==
  /\ In("load", "deps") /\ Top.left = <<>>
  /\ object' = [object EXCEPT ![Top.lib] = TRUE]
  /\ refcount' = [refcount EXCEPT ![Top.lib] = @ + 1]
  /\ calls' = Below /\ Returns(Below, FALSE)
  /\ UNCHANGED <<libs, files, counters>>

\* The exception leaves every call; what was counted for the dependencies stays.
LoadObjectFails ==
  /\ In("load", "deps") /\ Top.left = <<>> /\ failures < MaxFailures
  /\ failures' = failures + 1
  /\ calls' = <<>> /\ Returns(<<>>, TRUE)
  /\ UNCHANGED <<libs, refcount, object, files, crashes>>

RemoveReference ==
  /\ In("unload", "enter") /\ Top.lib \in libs
  /\ refcount' = [refcount EXCEPT ![Top.lib] = @ - 1]
  /\ \/ /\ refcount[Top.lib] = 1
        /\ object' = [object EXCEPT ![Top.lib] = FALSE]
        /\ calls' = Goes("deps")
        /\ UNCHANGED user
     \/ /\ refcount[Top.lib] # 1
        /\ calls' = Below /\ Returns(Below, FALSE)
        /\ UNCHANGED object
  /\ UNCHANGED <<libs, files, counters>>

Unloaded ==
  /\ In("unload", "deps") /\ Top.left = <<>>
  /\ libs' = libs \ {Top.lib}
  /\ calls' = Below /\ Returns(Below, FALSE)
  /\ UNCHANGED <<refcount, object, files, counters>>

-----------------------------------------------------------------------------
\* The process stops, and the next one may have a newer distribution (Updater.tla).
ProcessRestarts ==
  /\ crashes < MaxCrashes /\ crashes' = crashes + 1
  /\ libs' = {} /\ refcount' = [l \in Lib |-> 0] /\ object' = [l \in Lib |-> FALSE]
  /\ calls' = <<>> /\ user' = [u \in Users |-> "none"]
  /\ release' \in {release, release + 1} /\ release' <= MaxRelease
  /\ UNCHANGED <<recorded, content, failures>>

LibNext ==
  \/ \E u \in Users : Loads(u) \/ Unloads(u)
  \/ PrepareFirst \/ InitLib \/ Unzipped \/ SetAgentVersion \/ Prepared
  \/ AddReference \/ FirstLoad
  \/ Dependency \/ LoadObject \/ LoadObjectFails \/ RemoveReference \/ Unloaded
  \/ ProcessRestarts

LibSpec == LibInit /\ [][LibNext]_libVars

-----------------------------------------------------------------------------
DepSet(l) == {Deps[l][i] : i \in DOMAIN Deps[l]}

\* held by an app, or by a library that is loaded
Used(l) == \/ \E u \in Users : user[u] = "holds" /\ Needs[u] = l
           \/ \E k \in Lib : object[k] /\ l \in DepSet(k)

\* Between calls, a library someone holds is loaded with all it depends on, also after a
\* load that failed half way, and until one fails nothing else is loaded: two apps that
\* share a dependency neither take it from each other nor keep it for ever.
LoadedIfUsed ==
  calls = <<>> => \A l \in Lib : /\ Used(l) => object[l]
                                 /\ failures = 0 /\ object[l] => Used(l)

\* A library is loaded from files of the version recorded for it, which the process may
\* have stopped replacing at any moment before.
LoadsWholeFiles == \A l \in Lib : object[l] => content[l] = recorded[l]

\* A library is loaded while it is used and no longer, and from files of one version.
LoadedWhenUsed == LoadedIfUsed /\ LoadsWholeFiles

-----------------------------------------------------------------------------
(* A library's count is the number of those that hold it.                    *)

\* no chain of dependencies from l on is longer
Depth == CHOOSE depth \in [Lib -> 0..Cardinality(Lib)] :
           \A l \in Lib : \A i \in 1..Len(Deps[l]) : depth[Deps[l][i]] < depth[l]

LibFrame == [op : {"load", "unload", "init"}, lib : Lib,
             step : {"enter", "unzip", "record", "deps"}, left : Seq(Lib)]

\* the dependency a call is at, once it is through with entering
Pos(f) == Len(Deps[f.lib]) - Len(f.left)

FrameOK(f) ==
  /\ Pos(f) \in 0..Len(Deps[f.lib])
  /\ \A i \in 1..Len(f.left) : f.left[i] = Deps[f.lib][Pos(f) + i]
  /\ f.op # "init" => f.step \in {"enter", "deps"}
  /\ f.step # "deps" => Pos(f) = 0

\* g is called by f.
Calls(f, g) ==
  \/ /\ f.step = "deps" /\ g.op = f.op /\ Pos(f) \in 1..Len(Deps[f.lib])
     /\ g.lib = Deps[f.lib][Pos(f)]
  \/ f.op = "load" /\ f.step = "enter" /\ g.op = "init" /\ g.lib = f.lib

\* g is under f in the stack: it is deeper, or prepares the library f is to load.
Under(f, g) == IF f.step = "deps" THEN Depth[g.lib] < Depth[f.lib]
               ELSE g.op = "init" /\ Depth[g.lib] <= Depth[f.lib]

StackOK(c) ==
  /\ c \in Seq(LibFrame)
  /\ \A j \in 1..Len(c) : FrameOK(c[j])
  /\ \A j \in 1..Len(c) : j < Len(c) => Calls(c[j], c[j + 1])
  /\ \A i, j \in 1..Len(c) : i < j => Under(c[i], c[j])
  /\ c # <<>> => c[1].op # "init"

LibTypeOK ==
  /\ libs \in SUBSET Lib /\ refcount \in [Lib -> Nat] /\ object \in [Lib -> BOOLEAN]
  /\ user \in [Users -> {"none", "loading", "holds", "unloading"}]
  /\ release \in Nat /\ recorded \in [Lib -> Nat] /\ content \in [Lib -> Nat]
  /\ failures \in Nat /\ crashes \in Nat

\* The call at the bottom is that of one app.
Waiting(u) == user[u] \in {"loading", "unloading"}
CallerOK ==
  /\ calls = <<>> => \A u \in Users : ~Waiting(u)
  /\ calls # <<>> => \E u \in Users :
       /\ user[u] = (IF calls[1].op = "load" THEN "loading" ELSE "unloading")
       /\ Needs[u] = calls[1].lib /\ \A v \in Users : v # u => ~Waiting(v)

\* A reference: of an app, <<u, 0>>, or of a library to its i-th dependency, <<l, i>>.
References == (Users \X {0}) \cup {r \in Lib \X Nat : r[2] \in 1..Len(Deps[r[1]])}
Target(r) == IF r[2] = 0 THEN Needs[r[1]] ELSE Deps[r[1]][r[2]]

\* It is counted while held: from the end of the call that loads its target to
\* the beginning of the one that unloads it.
HeldBy(c, s) == s = "holds" \/ (s = "unloading" /\ c # <<>> /\ c[1].step = "enter")
CountedAt(c, j, i) ==
  \/ /\ c[j].op = "load"
     /\ i < Pos(c[j]) \/ (i = Pos(c[j]) /\ j = Len(c))
  \/ /\ c[j].op = "unload"
     /\ i > Pos(c[j]) \/ (i = Pos(c[j]) /\ j < Len(c) /\ c[j + 1].step = "enter")
At(c, j, l, i) == c[j].lib = l /\ c[j].step = "deps" /\ CountedAt(c, j, i)
Among(c, m, l, i) == \E j \in 1..m : At(c, j, l, i)
CountedBy(c, l, i) == Among(c, Len(c), l, i)
RefHeld(c, o, s, r) == IF r[2] = 0 THEN HeldBy(c, s[r[1]])
                       ELSE o[r[1]] \/ CountedBy(c, r[1], r[2])
Refs(c, o, s, l) == {r \in References : Target(r) = l /\ RefHeld(c, o, s, r)}
SameRefs(c, o, s, d, p, t) == \A l : Refs(d, p, t, l) = Refs(c, o, s, l)
FewerRefs(c, o, s, d, p, t) == \A l : Refs(d, p, t, l) \subseteq Refs(c, o, s, l)
NoRefs(c, o, s) == \A l : Refs(c, o, s, l) = {}

\* References to a library are counted once each; some are no longer held after a load
\* that failed.
LibCountOK(R, o, n, f) == /\ IsFiniteSet(R) /\ Cardinality(R) <= n /\ (o <=> n > 0)
                          /\ f = 0 => Cardinality(R) = n
CountsOK(c, o, s, n, f) == \A l \in Lib : LibCountOK(Refs(c, o, s, l), o[l], n[l], f)

\* Until a call is through with the dependencies its library is not loaded, and
\* the files are whole of one that is prepared.
CallOK(f, L, o, n, m, rel) ==
  /\ f.op # "init" /\ f.step = "deps" => ~o[f.lib]
  /\ f.op = "load" /\ f.step = "deps" => f.lib \in L
  /\ f.op = "init" /\ f.step # "enter" => f.lib \notin L
  /\ f.op = "init" /\ f.step = "record" => n[f.lib] = rel
  /\ f.op = "init" /\ f.step = "deps" => n[f.lib] = m[f.lib]
CallsOK(c, L, o, n, m, rel) == \A j \in 1..Len(c) : CallOK(c[j], L, o, n, m, rel)

\* The files of a library are of the release recorded last, while it is the present one.
FilesOK == /\ \A l \in libs : content[l] = recorded[l]
           /\ \A l \in Lib : object[l] => l \in libs
           /\ \A l \in Lib : /\ recorded[l] <= release
                             /\ recorded[l] = release => content[l] = release

LibInv == /\ LibTypeOK /\ StackOK(calls) /\ CallerOK /\ FilesOK
          /\ CountsOK(calls, object, user, refcount, failures)
          /\ CallsOK(calls, libs, object, content, recorded, release)

LEMMA DepthIs ==
  /\ Depth \in [Lib -> Nat]
  /\ \A l \in Lib : \A i \in 1..Len(Deps[l]) : Depth[Deps[l][i]] < Depth[l]
<1> DEFINE D == [Lib -> 0..Cardinality(Lib)]
           Deeper(depth) == \A l \in Lib : \A i \in 1..Len(Deps[l]) : depth[Deps[l][i]] < depth[l]
<1>1. \E depth \in D : Deeper(depth)
  BY LibAssumption
<1>2. Depth = CHOOSE depth \in D : Deeper(depth)
  BY DEF Depth
<1> HIDE DEF D, Deeper
<1>3. Depth \in D /\ Deeper(Depth)
  BY <1>1, <1>2, Zenon
<1>4. Cardinality(Lib) \in Nat
  BY LibAssumption, FS_CardinalityType
<1>5. 0..Cardinality(Lib) \subseteq Nat
  BY <1>4
<1>6. Depth \in [Lib -> 0..Cardinality(Lib)]
  BY <1>3 DEF D
<1>7. Depth \in [Lib -> Nat]
  BY <1>5, <1>6
<1> QED
  BY <1>3, <1>7 DEF Deeper

LEMMA DepsAre ==
  ASSUME NEW l \in Lib
  PROVE  /\ Deps[l] \in Seq(Lib) /\ Len(Deps[l]) \in Nat /\ Depth[l] \in Nat
         /\ \A i \in 1..Len(Deps[l]) : Deps[l][i] \in Lib /\ Depth[Deps[l][i]] < Depth[l]
<1>1. Deps[l] \in Seq(Lib)
  BY LibAssumption
<1> QED
  BY <1>1, DepthIs, LenProperties, ElementOfSeq

(* What a call keeps. *)
LEMMA FrameIsOne ==
  ASSUME NEW f \in LibFrame
  PROVE  /\ f.op \in {"load", "unload", "init"} /\ f.lib \in Lib
         /\ f.step \in {"enter", "unzip", "record", "deps"}
         /\ f.left \in Seq(Lib) /\ Len(f.left) \in Nat /\ Len(Deps[f.lib]) \in Nat
         /\ Pos(f) \in Int /\ Depth[f.lib] \in Nat
<1>1. /\ f.op \in {"load", "unload", "init"} /\ f.lib \in Lib
      /\ f.step \in {"enter", "unzip", "record", "deps"} /\ f.left \in Seq(Lib)
  BY DEF LibFrame
<1>2. Len(f.left) \in Nat /\ Len(Deps[f.lib]) \in Nat /\ Depth[f.lib] \in Nat
  BY <1>1, DepsAre, LenProperties
<1> QED
  BY <1>1, <1>2 DEF Pos

LEMMA NewFrame ==
  ASSUME NEW op \in {"load", "unload", "init"}, NEW l \in Lib
  PROVE  LET f == LibCall(op, l)
         IN  /\ f \in LibFrame /\ FrameOK(f) /\ f.op = op /\ f.lib = l /\ f.step = "enter"
             /\ f.left = Deps[l] /\ Pos(f) = 0
<1> DEFINE f == LibCall(op, l)
<1>1. Deps[l] \in Seq(Lib) /\ Len(Deps[l]) \in Nat
  BY DepsAre
<1>2. /\ f \in LibFrame /\ f.op = op /\ f.lib = l /\ f.step = "enter" /\ f.left = Deps[l]
  BY <1>1 DEF LibCall, LibFrame
<1> HIDE DEF f
<1>3. Pos(f) = 0
  BY <1>1, <1>2 DEF Pos
<1>4. FrameOK(f)
  BY <1>1, <1>2, <1>3 DEF FrameOK
<1> QED
  BY <1>2, <1>3, <1>4 DEF f

LEMMA StepFrame ==
  ASSUME NEW f \in LibFrame, FrameOK(f), NEW s \in {"enter", "unzip", "record", "deps"},
         f.op # "init" => s \in {"enter", "deps"}, s # "deps" => Pos(f) = 0
  PROVE  LET g == [f EXCEPT !.step = s]
         IN  /\ g \in LibFrame /\ FrameOK(g) /\ g.op = f.op /\ g.lib = f.lib /\ g.step = s
             /\ g.left = f.left /\ Pos(g) = Pos(f)
<1> DEFINE g == [f EXCEPT !.step = s]
<1>1. g \in LibFrame /\ g.op = f.op /\ g.lib = f.lib /\ g.step = s /\ g.left = f.left
  BY DEF LibFrame
<1> HIDE DEF g
<1>2. Pos(g) = Pos(f)
  BY <1>1 DEF Pos
<1>3. FrameOK(g)
  BY <1>1, <1>2 DEF FrameOK
<1> QED
  BY <1>1, <1>2, <1>3 DEF g

LEMMA NextFrame ==
  ASSUME NEW f \in LibFrame, FrameOK(f), f.step = "deps", f.left # <<>>
  PROVE  LET g == [f EXCEPT !.left = Tail(f.left)]
         IN  /\ g \in LibFrame /\ FrameOK(g) /\ g.op = f.op /\ g.lib = f.lib /\ g.step = f.step
             /\ Pos(g) = Pos(f) + 1 /\ Pos(g) \in 1..Len(Deps[f.lib])
             /\ Head(f.left) = Deps[f.lib][Pos(g)]
<1> DEFINE g == [f EXCEPT !.left = Tail(f.left)]
<1>1. f.left \in Seq(Lib) /\ Len(f.left) \in Nat /\ Len(Deps[f.lib]) \in Nat /\ Pos(f) \in Nat
  BY FrameIsOne DEF FrameOK
<1>2. /\ Tail(f.left) \in Seq(Lib) /\ Len(Tail(f.left)) = Len(f.left) - 1 /\ Len(f.left) # 0
      /\ \A i \in 1..Len(Tail(f.left)) : Tail(f.left)[i] = f.left[i + 1]
      /\ Head(f.left) = f.left[1]
  BY <1>1, HeadTailProperties, EmptySeq
<1>3. /\ g \in LibFrame /\ g.op = f.op /\ g.lib = f.lib /\ g.step = f.step
      /\ g.left = Tail(f.left)
  BY <1>2 DEF LibFrame
<1> HIDE DEF g
<1>4. Pos(f) = Len(Deps[f.lib]) - Len(f.left)
  BY DEF Pos
<1>5. Pos(g) = Len(Deps[f.lib]) - (Len(f.left) - 1)
  BY <1>2, <1>3 DEF Pos
<1>6. Pos(g) = Pos(f) + 1 /\ Pos(g) \in 1..Len(Deps[f.lib])
  <2>1. \A a, b, p \in Nat : \A q :
           p = a - b /\ q = a - (b - 1) /\ b # 0 => q = p + 1 /\ q \in 1..a
    OBVIOUS
  <2> QED
    BY <1>1, <1>2, <1>4, <1>5, <2>1, Zenon
<1>7. \A i \in 1..Len(f.left) : f.left[i] = Deps[f.lib][Pos(f) + i]
  BY DEF FrameOK
<1>8. Head(f.left) = Deps[f.lib][Pos(g)]
  <2>1. 1 \in 1..Len(f.left)
    BY <1>1, <1>2
  <2> QED
    BY <1>2, <1>6, <1>7, <2>1
<1>9. ASSUME NEW i \in 1..Len(g.left) PROVE g.left[i] = Deps[g.lib][Pos(g) + i]
  <2>1. i + 1 \in 1..Len(f.left) /\ i \in 1..Len(Tail(f.left)) /\ Pos(f) + (i + 1) = Pos(g) + i
    <3>1. i \in 1..Len(Tail(f.left)) /\ i \in 1..(Len(f.left) - 1)
      BY <1>2, <1>3
    <3>2. \A p, a, k \in Nat : k \in 1..(a - 1) => k + 1 \in 1..a /\ p + (k + 1) = (p + 1) + k
      OBVIOUS
    <3>3. i \in Nat
      BY <1>1, <3>1
    <3> QED
      BY <1>1, <1>6, <3>1, <3>2, <3>3, Zenon
  <2>2. f.left[i + 1] = Deps[f.lib][Pos(f) + (i + 1)]
    BY <1>7, <2>1
  <2> QED
    BY <1>2, <1>3, <2>1, <2>2
<1>10. FrameOK(g)
  <2>1. Pos(g) \in 0..Len(Deps[g.lib])
    BY <1>1, <1>3, <1>6
  <2> QED
    BY <1>3, <1>9, <2>1 DEF FrameOK
<1> QED
  BY <1>3, <1>6, <1>8, <1>10 DEF g

-----------------------------------------------------------------------------
(* The stack of calls. *)
LEMMA TopOf ==
  ASSUME NEW c, StackOK(c), c # <<>>
  PROVE  /\ c \in Seq(LibFrame) /\ Len(c) \in Nat \ {0} /\ Len(c) \in 1..Len(c) /\ 1 \in 1..Len(c)
         /\ \A j \in 1..Len(c) : c[j] \in LibFrame /\ FrameOK(c[j])
<1>1. c \in Seq(LibFrame)
  BY DEF StackOK
<1>2. Len(c) \in Nat /\ Len(c) # 0 /\ \A j \in 1..Len(c) : c[j] \in LibFrame
  BY <1>1, LenProperties, EmptySeq, ElementOfSeq
<1> QED
  BY <1>1, <1>2 DEF StackOK

LEMMA Popped ==
  ASSUME NEW c, StackOK(c), c # <<>>, NEW d \in Seq(LibFrame), Len(d) = Len(c) - 1,
         \A i \in 1..Len(d) : d[i] = c[i]
  PROVE  StackOK(d)
<1>1. Len(c) \in Nat \ {0} /\ Len(d) \in Nat
  BY TopOf, LenProperties
<1>2. \A j \in 1..Len(d) : j \in 1..Len(c) /\ j < Len(c)
  BY <1>1
<1>3. \A j \in 1..Len(d) : FrameOK(d[j])
  BY <1>2, TopOf
<1>4. ASSUME NEW j \in 1..Len(d), j < Len(d) PROVE Calls(d[j], d[j + 1])
  <2>1. j + 1 \in 1..Len(d)
    BY <1>1, <1>4
  <2> QED
    BY <1>2, <2>1 DEF StackOK
<1>5. \A i, j \in 1..Len(d) : i < j => Under(d[i], d[j])
  BY <1>2 DEF StackOK
<1>6. d # <<>> => d[1].op # "init"
  <2>1. d # <<>> => 1 \in 1..Len(d)
    BY <1>1, EmptySeq
  <2> QED
    BY <2>1 DEF StackOK
<1> QED
  BY <1>3, <1>4, <1>5, <1>6 DEF StackOK

LEMMA Stepped ==
  ASSUME NEW c, StackOK(c), c # <<>>, NEW d \in Seq(LibFrame), Len(d) = Len(c),
         \A i \in 1..(Len(c) - 1) : d[i] = c[i],
         FrameOK(d[Len(c)]), d[Len(c)].op = c[Len(c)].op, d[Len(c)].lib = c[Len(c)].lib
  PROVE  StackOK(d)
<1>1. Len(c) \in Nat \ {0}
  BY TopOf
<1>2. \A j \in 1..Len(d) : /\ j \in 1..Len(c) /\ (j < Len(c) => j \in 1..(Len(c) - 1))
                            /\ ~(j < Len(c)) => j = Len(c)
  BY <1>1
<1>3. \A j \in 1..Len(d) : FrameOK(d[j])
  BY <1>2, TopOf
<1>4. \A j \in 1..Len(d) : d[j].op = c[j].op /\ d[j].lib = c[j].lib
  BY <1>2
<1>5. ASSUME NEW j \in 1..Len(d), j < Len(d) PROVE Calls(d[j], d[j + 1])
  <2>1. j + 1 \in 1..Len(d) /\ d[j] = c[j]
    BY <1>1, <1>2, <1>5
  <2>2. Calls(c[j], c[j + 1])
    BY <1>2, <1>5 DEF StackOK
  <2>3. d[j + 1].op = c[j + 1].op /\ d[j + 1].lib = c[j + 1].lib
    BY <1>4, <2>1
  <2> QED
    BY <2>1, <2>2, <2>3 DEF Calls
<1>6. ASSUME NEW i \in 1..Len(d), NEW j \in 1..Len(d), i < j PROVE Under(d[i], d[j])
  <2>1. i < Len(c) /\ Under(c[i], c[j])
    BY <1>1, <1>2, <1>6 DEF StackOK
  <2>2. d[i] = c[i]
    BY <1>2, <2>1
  <2> QED
    BY <1>4, <2>1, <2>2 DEF Under
<1>7. d[1].op # "init"
  <2>1. 1 \in 1..Len(d)
    BY <1>1
  <2> QED
    BY <1>4, <2>1 DEF StackOK
<1> QED
  BY <1>3, <1>5, <1>6, <1>7 DEF StackOK

LEMMA Pushed ==
  ASSUME NEW c, StackOK(c), NEW d \in Seq(LibFrame), Len(d) = Len(c) + 1,
         \A i \in 1..Len(c) : d[i] = c[i], FrameOK(d[Len(c) + 1]),
         c # <<>> => Calls(c[Len(c)], d[Len(c) + 1]), c = <<>> => d[Len(c) + 1].op # "init"
  PROVE  StackOK(d)
<1> DEFINE n == Len(c)
           g == d[n + 1]
<1>1. n \in Nat /\ c \in Seq(LibFrame)
  BY LenProperties DEF StackOK
<1>2. \A j \in 1..(n + 1) : j \in 1..n \/ j = n + 1
  BY <1>1
<1>3. \A j \in 1..(n + 1) : FrameOK(d[j])
  BY <1>2 DEF StackOK
<1>4. c # <<>> => n \in 1..n /\ n >= 1
  BY <1>1, EmptySeq
<1>5. ASSUME NEW j \in 1..(n + 1), j < n + 1 PROVE Calls(d[j], d[j + 1])
  <2>1. j \in 1..n /\ c # <<>>
    BY <1>1, <1>5, EmptySeq
  <2>2. CASE j = n
    BY <2>1, <2>2
  <2>3. CASE j # n
    <3>1. j < n /\ j + 1 \in 1..n
      BY <1>1, <2>1, <2>3
    <3>2. Calls(c[j], c[j + 1])
      BY <2>1, <3>1 DEF StackOK
    <3> QED
      BY <2>1, <3>1, <3>2
  <2> QED
    BY <2>2, <2>3
<1>6. ASSUME NEW i \in 1..n PROVE Under(c[i], g)
  <2>0. c # <<>> /\ n \in 1..n
    BY <1>1, <1>4, EmptySeq
  <2> DEFINE f == c[n]
  <2>1. Calls(f, g) /\ f \in LibFrame /\ g \in LibFrame /\ FrameOK(f) /\ c[i] \in LibFrame
    <3>1. n + 1 \in 1..Len(d)
      BY <1>1
    <3>2. d[n + 1] \in LibFrame
      BY <3>1, ElementOfSeq
    <3> QED
      BY <2>0, <3>2, TopOf
  <2> HIDE DEF f, g
  <2>2. f.lib \in Lib /\ g.lib \in Lib /\ Depth[f.lib] \in Nat /\ Depth[g.lib] \in Nat
        /\ Depth[c[i].lib] \in Nat
    BY <2>1, FrameIsOne
  <2>3. \/ f.step = "deps" /\ g.op = f.op /\ Depth[g.lib] < Depth[f.lib]
        \/ f.step # "deps" /\ f.op = "load" /\ g.op = "init" /\ g.lib = f.lib
    <3>1. CASE /\ f.step = "deps" /\ g.op = f.op /\ Pos(f) \in 1..Len(Deps[f.lib])
               /\ g.lib = Deps[f.lib][Pos(f)]
      <4>1. Depth[Deps[f.lib][Pos(f)]] < Depth[f.lib]
        BY <2>2, <3>1, DepsAre
      <4> QED
        BY <3>1, <4>1
    <3>2. CASE f.op = "load" /\ f.step = "enter" /\ g.op = "init" /\ g.lib = f.lib
      BY <3>2
    <3> QED
      BY <2>1, <3>1, <3>2 DEF Calls
  <2>4. CASE i = n
    BY <2>2, <2>3, <2>4 DEF Under, f
  <2>5. CASE i # n
    <3>1. i < n
      BY <1>1, <2>5
    <3>2. Under(c[i], f)
      BY <2>0, <3>1 DEF StackOK, f
    <3> QED
      BY <2>2, <2>3, <3>2 DEF Under
  <2> QED
    BY <2>4, <2>5
<1>7. ASSUME NEW i \in 1..(n + 1), NEW j \in 1..(n + 1), i < j PROVE Under(d[i], d[j])
  <2>1. i \in 1..n
    BY <1>1, <1>7
  <2>2. CASE j \in 1..n
    BY <1>7, <2>1, <2>2 DEF StackOK
  <2>3. CASE j = n + 1
    BY <1>6, <2>1, <2>3
  <2> QED
    BY <1>2, <2>2, <2>3
<1>8. d[1].op # "init"
  <2>1. CASE c = <<>>
    <3>1. n + 1 = 1
      BY <1>1, <2>1, EmptySeq
    <3> QED
      BY <2>1, <3>1
  <2>2. CASE c # <<>>
    <3>1. 1 \in 1..n
      BY <1>1, <1>4, <2>2
    <3> QED
      BY <2>2, <3>1 DEF StackOK
  <2> QED
    BY <2>1, <2>2
<1> QED
  BY <1>3, <1>5, <1>7, <1>8 DEF StackOK

-----------------------------------------------------------------------------
(* What the calls on the stack count. *)
LEMMA FramesApart ==
  ASSUME NEW c, StackOK(c), NEW i \in 1..Len(c), NEW j \in 1..Len(c), i < j, c[i].step = "deps"
  PROVE  c[i].lib # c[j].lib
<1>1. Under(c[i], c[j])
  BY DEF StackOK
<1>2. c[i] \in LibFrame /\ c[j] \in LibFrame
  BY ElementOfSeq DEF StackOK
<1>3. Depth[c[i].lib] \in Nat /\ Depth[c[j].lib] \in Nat
  BY <1>2, FrameIsOne
<1> QED
  BY <1>1, <1>3 DEF Under

LEMMA EarlySame ==
  ASSUME NEW c \in Seq(LibFrame), NEW d \in Seq(LibFrame), NEW m \in Nat, m < Len(c), m < Len(d),
         \A j \in 1..m : d[j] = c[j],
         m >= 1 /\ c[m].op = "unload" => d[m + 1].step = c[m + 1].step
  PROVE  \A l, i : Among(d, m, l, i) <=> Among(c, m, l, i)
<1>1. Len(c) \in Nat /\ Len(d) \in Nat
  BY LenProperties
<1>2. ASSUME NEW l, NEW i, NEW j \in 1..m PROVE At(d, j, l, i) <=> At(c, j, l, i)
  <2>1. d[j] = c[j] /\ j # Len(c) /\ j # Len(d) /\ j < Len(c) /\ j < Len(d)
    BY <1>1
  <2>2. c[j].op = "unload" => d[j + 1].step = c[j + 1].step
    <3>1. CASE j = m
      BY <3>1
    <3>2. CASE j # m
      <4>1. j + 1 \in 1..m
        BY <3>2
      <4> QED
        BY <4>1
    <3> QED
      BY <3>1, <3>2
  <2> QED
    BY <2>1, <2>2, Zenon DEF At, CountedAt
<1> QED
  BY <1>2 DEF Among

LEMMA EarlyLast ==
  ASSUME NEW c, NEW m \in Nat, m >= 1
  PROVE  \A l, i : Among(c, m, l, i) <=> Among(c, m - 1, l, i) \/ At(c, m, l, i)
<1>1. \A j : j \in 1..m <=> j \in 1..(m - 1) \/ j = m
  OBVIOUS
<1> QED
  BY <1>1, Zenon DEF Among

\* A call that has only entered, or prepares, counts nothing.
LEMMA NothingAt ==
  ASSUME NEW c, NEW j, c[j].step # "deps" \/ c[j].op = "init"
  PROVE  \A l, i : ~At(c, j, l, i)
BY DEF At, CountedAt

\* The call that made the one at the top, unless that prepares a library.
LEMMA CallerOf ==
  ASSUME NEW c, StackOK(c), Len(c) >= 2
  PROVE  /\ Len(c) - 1 \in 1..Len(c) /\ Calls(c[Len(c) - 1], c[Len(c)])
         /\ c[Len(c) - 1].op = "unload" => c[Len(c)].op = "unload" /\ c[Len(c) - 1].step = "deps"
         /\ c[Len(c)].op # "init" =>
              /\ c[Len(c) - 1].step = "deps" /\ c[Len(c) - 1].op = c[Len(c)].op
              /\ Pos(c[Len(c) - 1]) \in 1..Len(Deps[c[Len(c) - 1].lib])
              /\ c[Len(c)].lib = Deps[c[Len(c) - 1].lib][Pos(c[Len(c) - 1])]
         /\ c[Len(c)].op = "init" => c[Len(c) - 1].step # "deps" \/ c[Len(c) - 1].op = "init"
<1>1. Len(c) \in Nat
  BY LenProperties DEF StackOK
<1>2. Len(c) - 1 \in 1..Len(c) /\ Len(c) - 1 < Len(c) /\ (Len(c) - 1) + 1 = Len(c)
  BY <1>1
<1>3. Calls(c[Len(c) - 1], c[Len(c)])
  BY <1>2 DEF StackOK
<1> QED
  BY <1>2, <1>3 DEF Calls

(* A library is to be prepared: a call is put on one that has only entered.    *)
LEMMA CountsPushed ==
  ASSUME NEW c, StackOK(c), c # <<>>, c[Len(c)].step # "deps",
         NEW d \in Seq(LibFrame), Len(d) = Len(c) + 1, \A i \in 1..Len(c) : d[i] = c[i],
         d[Len(d)].step # "deps"
  PROVE  \A l, i : CountedBy(d, l, i) <=> CountedBy(c, l, i)
<1> DEFINE n == Len(c)
<1>1. n \in Nat \ {0} /\ c \in Seq(LibFrame) /\ n - 1 \in Nat /\ n + 1 \in Nat /\ n \in 1..n
  BY TopOf
<1>2. \A l, i : Among(d, n - 1, l, i) <=> Among(c, n - 1, l, i)
  <2>1. \A j \in 1..(n - 1) : d[j] = c[j]
    BY <1>1
  <2>2. n - 1 < Len(c) /\ n - 1 < Len(d) /\ (n - 1) + 1 = n /\ d[n] = c[n]
    BY <1>1
  <2> HIDE DEF n
  <2> QED
    BY <1>1, <2>1, <2>2, EarlySame
<1>3. \A l, i : Among(c, n, l, i) <=> Among(c, n - 1, l, i) \/ At(c, n, l, i)
  BY <1>1, EarlyLast
<1>4. \A l, i : Among(d, n, l, i) <=> Among(d, n - 1, l, i) \/ At(d, n, l, i)
  BY <1>1, EarlyLast
<1>5. \A l, i : Among(d, n + 1, l, i) <=> Among(d, n, l, i) \/ At(d, n + 1, l, i)
  <2>1. n + 1 >= 1 /\ (n + 1) - 1 = n
    BY <1>1
  <2> QED
    BY <1>1, <2>1, EarlyLast
<1>6. \A l, i : ~At(c, n, l, i) /\ ~At(d, n, l, i) /\ ~At(d, n + 1, l, i)
  <2>1. d[n] = c[n]
    BY <1>1
  <2> QED
    BY <2>1, NothingAt
<1> QED
  BY <1>2, <1>3, <1>4, <1>5, <1>6, Zenon DEF CountedBy

(* A call that prepares a library goes on, or a load begins with the           *)
(* dependencies.                                                             *)
LEMMA CountsStepped ==
  ASSUME NEW c, StackOK(c), c # <<>>,
         NEW d \in Seq(LibFrame), Len(d) = Len(c), \A i \in 1..(Len(c) - 1) : d[i] = c[i],
         c[Len(c)].op # "unload",
         \A l \in Lib : \A i \in 1..Len(Deps[l]) : At(d, Len(c), l, i) <=> At(c, Len(c), l, i)
  PROVE  \A l \in Lib : \A i \in 1..Len(Deps[l]) : CountedBy(d, l, i) <=> CountedBy(c, l, i)
<1> DEFINE n == Len(c)
<1>1. n \in Nat \ {0} /\ c \in Seq(LibFrame) /\ n - 1 \in Nat
  BY TopOf
<1>2. \A l, i : Among(d, n - 1, l, i) <=> Among(c, n - 1, l, i)
  <2>1. n - 1 < Len(c) /\ n - 1 < Len(d) /\ (n - 1 >= 1 => Len(c) >= 2)
    BY <1>1
  <2>2. n - 1 >= 1 => c[n - 1].op # "unload"
    BY <2>1, CallerOf
  <2> HIDE DEF n
  <2> QED
    BY <1>1, <2>1, <2>2, EarlySame DEF n
<1>3. \A l, i : Among(c, n, l, i) <=> Among(c, n - 1, l, i) \/ At(c, n, l, i)
  BY <1>1, EarlyLast
<1>4. \A l, i : Among(d, n, l, i) <=> Among(d, n - 1, l, i) \/ At(d, n, l, i)
  BY <1>1, EarlyLast
<1> QED
  BY <1>2, <1>3, <1>4, Zenon DEF CountedBy

(* The call at the top returns: only what its caller counts may change.         *)
LEMMA CountsPopped ==
  ASSUME NEW c, StackOK(c), c # <<>>,
         NEW d \in Seq(LibFrame), Len(d) = Len(c) - 1, \A i \in 1..Len(d) : d[i] = c[i]
  PROVE  /\ Len(c) = 1 => \A l, i : /\ ~CountedBy(d, l, i)
                                    /\ CountedBy(c, l, i) <=> At(c, 1, l, i)
         /\ Len(c) >= 2 =>
              /\ \A l, i : Among(d, Len(c) - 2, l, i) <=> Among(c, Len(c) - 2, l, i)
              /\ \A l, i : CountedBy(d, l, i) <=>
                             Among(c, Len(c) - 2, l, i) \/ At(d, Len(c) - 1, l, i)
              /\ \A l, i : CountedBy(c, l, i) <=>
                             \/ Among(c, Len(c) - 2, l, i) \/ At(c, Len(c) - 1, l, i)
                             \/ At(c, Len(c), l, i)
<1> DEFINE n == Len(c)
<1>1. n \in Nat \ {0} /\ c \in Seq(LibFrame)
  BY TopOf
<1>2. \A l, i : Among(c, n, l, i) <=> Among(c, n - 1, l, i) \/ At(c, n, l, i)
  BY <1>1, EarlyLast
<1>3. CASE n = 1
  <2>1. \A m : m \notin 1..0
    OBVIOUS
  <2>2. \A x, l, i : ~Among(x, 0, l, i)
    BY <2>1, Zenon DEF Among
  <2>3. n - 1 = 0 /\ Len(d) = 0
    BY <1>3
  <2> QED
    BY <1>2, <1>3, <2>2, <2>3 DEF CountedBy
<1>4. CASE n >= 2
  <2>1. n - 1 \in Nat /\ n - 1 >= 1 /\ (n - 1) - 1 = n - 2 /\ n - 2 \in Nat /\ Len(d) = n - 1
    BY <1>1, <1>4
  <2>2. \A l, i : Among(c, n - 1, l, i) <=> Among(c, n - 2, l, i) \/ At(c, n - 1, l, i)
    BY <2>1, EarlyLast
  <2>3. \A l, i : Among(d, n - 1, l, i) <=> Among(d, n - 2, l, i) \/ At(d, n - 1, l, i)
    BY <2>1, EarlyLast
  <2>4. \A l, i : Among(d, n - 2, l, i) <=> Among(c, n - 2, l, i)
    <3>1. /\ n - 2 < Len(c) /\ n - 2 < Len(d) /\ (n - 2) + 1 = n - 1
          /\ (\A j \in 1..(n - 2) : d[j] = c[j]) /\ d[n - 1] = c[n - 1]
      BY <1>1, <1>4, <2>1
    <3> HIDE DEF n
    <3> QED
      BY <1>1, <2>1, <3>1, EarlySame
  <2> QED
    BY <1>2, <1>3, <2>1, <2>2, <2>3, <2>4 DEF CountedBy
<1>5. n = 1 \/ n >= 2
  BY <1>1
<1>6. n >= 2 => n # 1
  OBVIOUS
<1> QED
  BY <1>3, <1>4, <1>5, <1>6

-----------------------------------------------------------------------------
(* References that are held. *)
LEMMA ReferenceIs ==
  /\ \A u \in Users : /\ <<u, 0>> \in References /\ Target(<<u, 0>>) = Needs[u]
                      /\ <<u, 0>>[1] = u /\ <<u, 0>>[2] = 0
  /\ \A l \in Lib : \A i \in 1..Len(Deps[l]) :
       /\ <<l, i>> \in References /\ Target(<<l, i>>) = Deps[l][i]
       /\ <<l, i>>[1] = l /\ <<l, i>>[2] = i /\ i # 0
  /\ \A r \in References : \/ \E u \in Users : r = <<u, 0>>
                           \/ \E l \in Lib : \E i \in 1..Len(Deps[l]) : r = <<l, i>>
<1>1. ASSUME NEW u \in Users
      PROVE  <<u, 0>> \in References /\ Target(<<u, 0>>) = Needs[u] /\ <<u, 0>>[1] = u /\ <<u, 0>>[2] = 0
  BY DEF References, Target
<1>2. ASSUME NEW l \in Lib, NEW i \in 1..Len(Deps[l])
      PROVE  /\ <<l, i>> \in References /\ Target(<<l, i>>) = Deps[l][i]
             /\ <<l, i>>[1] = l /\ <<l, i>>[2] = i /\ i # 0
  <2>1. i \in Nat /\ i # 0
    BY DepsAre
  <2> QED
    BY <2>1 DEF References, Target
<1>3. ASSUME NEW r \in References
      PROVE  \/ \E u \in Users : r = <<u, 0>>
             \/ \E l \in Lib : \E i \in 1..Len(Deps[l]) : r = <<l, i>>
  <2>1. CASE r \in Users \X {0}
    BY <2>1
  <2>2. CASE r \in Lib \X Nat /\ r[2] \in 1..Len(Deps[r[1]])
    BY <2>2
  <2> QED
    BY <2>1, <2>2 DEF References
<1> QED
  BY <1>1, <1>2, <1>3

LEMMA CountedIs ==
  ASSUME NEW c, NEW o, NEW s
  PROVE  /\ \A u \in Users : RefHeld(c, o, s, <<u, 0>>) <=> HeldBy(c, s[u])
         /\ \A l \in Lib : \A i \in 1..Len(Deps[l]) :
              RefHeld(c, o, s, <<l, i>>) <=> o[l] \/ CountedBy(c, l, i)
BY ReferenceIs DEF RefHeld

LEMMA NoneChanges ==
  ASSUME NEW c, NEW o, NEW s, NEW d, NEW p, NEW t,
         \A l \in Lib : \A i \in 1..Len(Deps[l]) :
            p[l] \/ CountedBy(d, l, i) <=> o[l] \/ CountedBy(c, l, i),
         \A u \in Users : HeldBy(d, t[u]) <=> HeldBy(c, s[u])
  PROVE  SameRefs(c, o, s, d, p, t)
<1>1. ASSUME NEW r \in References PROVE RefHeld(d, p, t, r) <=> RefHeld(c, o, s, r)
  <2>1. CASE \E u \in Users : r = <<u, 0>>
    BY <2>1, CountedIs, Zenon
  <2>2. CASE \E l \in Lib : \E i \in 1..Len(Deps[l]) : r = <<l, i>>
    BY <2>2, CountedIs, Zenon
  <2> QED
    BY <2>1, <2>2, ReferenceIs
<1> QED
  BY <1>1, Zenon DEF Refs, SameRefs

\* The same for l, and one more for the target of q.
OneMore(R, S, q) == /\ q \notin R[Target(q)] /\ S[Target(q)] = R[Target(q)] \cup {q}
                    /\ \A l \in Lib : l # Target(q) => S[l] = R[l]
AllRefs(c, o, s) == [l \in Lib |-> Refs(c, o, s, l)]

LEMMA OneChanges ==
  ASSUME NEW c, NEW o, NEW s, NEW d, NEW p, NEW t, NEW q \in References, Target(q) \in Lib,
         ~RefHeld(c, o, s, q),
         \A r \in References : RefHeld(d, p, t, r) <=> RefHeld(c, o, s, r) \/ r = q
  PROVE  OneMore(AllRefs(c, o, s), AllRefs(d, p, t), q)
<1>1. q \notin Refs(c, o, s, Target(q))
  BY DEF Refs
<1>2. Refs(d, p, t, Target(q)) = Refs(c, o, s, Target(q)) \cup {q}
  BY DEF Refs
<1>3. ASSUME NEW l \in Lib, l # Target(q) PROVE Refs(d, p, t, l) = Refs(c, o, s, l)
  BY <1>3 DEF Refs
<1> QED
  BY <1>1, <1>2, <1>3 DEF OneMore, AllRefs

\* The app that waits, and the reference its call or the one under it is for.
CalledBy(c, s, u) ==
  /\ s[u] = (IF c[1].op = "load" THEN "loading" ELSE "unloading")
  /\ Needs[u] = c[1].lib /\ \A v \in Users : v # u => s[v] \in {"none", "holds"}
RefOf(c, u) == IF Len(c) = 1 THEN <<u, 0>> ELSE <<c[Len(c) - 1].lib, Pos(c[Len(c) - 1])>>

\* A library is not loaded until its call is through with the dependencies.
NotLoaded(c, o) == \A j \in 1..Len(c) : c[j].op # "init" /\ c[j].step = "deps" => ~o[c[j].lib]

LEMMA RefIs ==
  ASSUME NEW c, StackOK(c), c # <<>>, c[Len(c)].op # "init", NEW s,
         NEW u \in Users, CalledBy(c, s, u)
  PROVE  RefOf(c, u) \in References /\ Target(RefOf(c, u)) = c[Len(c)].lib /\ c[Len(c)].lib \in Lib
<1>1. Len(c) \in Nat \ {0} /\ c[Len(c)] \in LibFrame
  BY TopOf
<1>2. c[Len(c)].lib \in Lib
  BY <1>1, FrameIsOne
<1>3. CASE Len(c) = 1
  BY <1>2, <1>3, ReferenceIs DEF RefOf, CalledBy
<1>4. CASE Len(c) # 1
  <2>1. Len(c) >= 2
    <3>1. \A n \in Nat \ {0} : n # 1 => n >= 2
      OBVIOUS
    <3> QED
      BY <1>1, <1>4, <3>1, Zenon
  <2>2. /\ Len(c) - 1 \in 1..Len(c)
        /\ Pos(c[Len(c) - 1]) \in 1..Len(Deps[c[Len(c) - 1].lib])
        /\ c[Len(c)].lib = Deps[c[Len(c) - 1].lib][Pos(c[Len(c) - 1])]
    BY <2>1, CallerOf
  <2>3. c[Len(c) - 1].lib \in Lib
    BY <2>2, TopOf, FrameIsOne
  <2> QED
    BY <1>2, <1>4, <2>2, <2>3, ReferenceIs DEF RefOf
<1> QED
  BY <1>3, <1>4

\* Whoever called the top one has not counted it, except for what is said here.
LEMMA CallerAlone ==
  ASSUME NEW c, StackOK(c), Len(c) >= 2, c[Len(c)].op # "init", NEW o, NotLoaded(c, o)
  PROVE  LET k == c[Len(c) - 1].lib
         IN  k \in Lib /\ ~o[k] /\ c[Len(c)].lib # k /\ \A i : ~Among(c, Len(c) - 2, k, i)
<1> DEFINE n == Len(c)
           k == c[n - 1].lib
<1>1. n \in Nat /\ n - 1 \in 1..n /\ n \in 1..n /\ n - 1 < n /\ c # <<>>
  <2>1. n \in Nat
    BY LenProperties DEF StackOK
  <2>2. c # <<>>
    BY EmptySeq
  <2> QED
    BY <2>1, <2>2
<1>2. c[n - 1].step = "deps" /\ c[n - 1].op # "init"
  BY CallerOf
<1>3. k \in Lib
  BY <1>1, TopOf, FrameIsOne
<1>4. ~o[k]
  BY <1>1, <1>2 DEF NotLoaded
<1>5. c[n].lib # k
  BY <1>1, <1>2, FramesApart
<1>6. ASSUME NEW j \in 1..(n - 2), NEW i PROVE ~At(c, j, k, i)
  <2>1. j \in 1..n /\ j < n - 1
    BY <1>1
  <2>2. CASE c[j].step = "deps"
    BY <1>1, <2>1, <2>2, FramesApart DEF At
  <2> QED
    BY <2>2 DEF At
<1> QED
  BY <1>3, <1>4, <1>5, <1>6 DEF Among

(* A load returns: its target is counted for whoever called it.               *)
LEMMA LoadReturns ==
  ASSUME NEW c, StackOK(c), c # <<>>, c[Len(c)].op = "load",
         NEW d \in Seq(LibFrame), Len(d) = Len(c) - 1, \A i \in 1..Len(d) : d[i] = c[i],
         NEW o \in [Lib -> BOOLEAN], NotLoaded(c, o), NEW p \in [Lib -> BOOLEAN],
         \/ c[Len(c)].step = "enter" /\ p = o
         \/ /\ c[Len(c)].step = "deps" /\ Pos(c[Len(c)]) = Len(Deps[c[Len(c)].lib])
            /\ p = [o EXCEPT ![c[Len(c)].lib] = TRUE],
         NEW s, NEW u \in Users, CalledBy(c, s, u), NEW t,
         IF d = <<>> THEN t[u] = "holds" /\ \A v \in Users : v # u => t[v] = s[v]
         ELSE \A v \in Users : t[v] = s[v]
  PROVE  OneMore(AllRefs(c, o, s), AllRefs(d, p, t), RefOf(c, u))
<1> DEFINE n == Len(c)
           f == c[n]
           q == RefOf(c, u)
           \* what the call counts of its own dependencies
           Top1(l, i) == l = f.lib /\ f.step = "deps"
<1>1. n \in Nat \ {0} /\ f \in LibFrame /\ Len(d) = n - 1
  BY TopOf
<1>2. f.lib \in Lib /\ Len(Deps[f.lib]) \in Nat
  BY <1>1, FrameIsOne
<1>3. \A l \in Lib : \A i \in 1..Len(Deps[l]) : At(c, n, l, i) <=> Top1(l, i)
  <2>1. \A k \in Nat : \A i \in 1..k : i < k \/ i = k
    OBVIOUS
  <2>2. f.step = "deps" => Pos(f) = Len(Deps[f.lib])
    OBVIOUS
  <2> QED
    BY <1>2, <2>1, <2>2 DEF At, CountedAt
<1>4. \A l \in Lib : \A i \in 1..Len(Deps[l]) : o[l] \/ Top1(l, i) <=> p[l]
  BY <1>2
<1>5. q \in References /\ Target(q) \in Lib
  BY RefIs
<1>s. s[u] = "loading" \/ s[u] = "unloading"
  BY DEF CalledBy
<1> HIDE DEF f, Top1, q
<1>6. CASE n = 1
  <2>0. d = <<>> /\ Len(d) = 0
    BY <1>1, <1>6, EmptySeq
  <2>1. q = <<u, 0>>
    BY <1>6 DEF RefOf, q
  <2>2. \A l, i : /\ ~CountedBy(d, l, i)
                  /\ CountedBy(c, l, i) <=> At(c, 1, l, i)
    BY <1>6, CountsPopped
  <2>3. \A l \in Lib : \A i \in 1..Len(Deps[l]) :
           p[l] \/ CountedBy(d, l, i) <=> o[l] \/ CountedBy(c, l, i)
    BY <1>3, <1>4, <1>6, <2>2
  <2>4. ~HeldBy(c, s[u]) /\ HeldBy(d, t[u])
    <3>1. s[u] = "loading" /\ t[u] = "holds"
      BY <1>6, <2>0 DEF CalledBy
    <3> QED
      BY <3>1 DEF HeldBy
  <2>5. ASSUME NEW v \in Users, v # u PROVE HeldBy(d, t[v]) <=> HeldBy(c, s[v])
    BY <2>0, <2>5 DEF HeldBy, CalledBy
  <2>6. ~RefHeld(c, o, s, q)
    BY <2>1, <2>4, CountedIs
  <2>7. ASSUME NEW r \in References PROVE RefHeld(d, p, t, r) <=> RefHeld(c, o, s, r) \/ r = q
    <3>1. ASSUME NEW v \in Users, r = <<v, 0>>
          PROVE  RefHeld(d, p, t, r) <=> RefHeld(c, o, s, r) \/ r = q
      <4>1. CASE v = u
        BY <2>1, <2>4, <3>1, <4>1, CountedIs
      <4>2. CASE v # u
        <5>1. r # q
          BY <2>1, <3>1, <4>2
        <5> QED
          BY <2>5, <3>1, <4>2, <5>1, CountedIs
      <4> QED
        BY <4>1, <4>2
    <3>2. ASSUME NEW l \in Lib, NEW i \in 1..Len(Deps[l]), r = <<l, i>>
          PROVE  RefHeld(d, p, t, r) <=> RefHeld(c, o, s, r) \/ r = q
      <4>1. r # q
        BY <2>1, <3>2, ReferenceIs
      <4> QED
        BY <2>3, <3>2, <4>1, CountedIs
    <3> QED
      BY <3>1, <3>2, ReferenceIs
  <2> QED
    BY <1>5, <2>6, <2>7, OneChanges DEF q
<1>7. CASE n >= 2
  <2> DEFINE k == c[n - 1].lib
             m == Pos(c[n - 1])
  <2>0. d # <<>> /\ c # <<>> /\ d[1] = c[1]
    <3>1. 1 \in 1..Len(d)
      BY <1>1, <1>7
    <3> QED
      BY <3>1, EmptySeq
  <2>1. /\ q = <<k, m>> /\ k \in Lib /\ m \in 1..Len(Deps[k]) /\ ~o[k] /\ f.lib # k
        /\ \A i : ~Among(c, n - 2, k, i)
    <3>1. n # 1
      BY <1>7
    <3> QED
      BY <1>7, <3>1, CallerOf, CallerAlone DEF RefOf, q, f
  <2>2. c[n - 1].op = "load" /\ c[n - 1].step = "deps"
    BY <1>7, CallerOf
  <2>3. \A l, i : CountedBy(d, l, i) <=> Among(c, n - 2, l, i) \/ At(d, n - 1, l, i)
    BY <1>7, CountsPopped
  <2>4. \A l, i : CountedBy(c, l, i) <=> \/ Among(c, n - 2, l, i) \/ At(c, n - 1, l, i)
                                        \/ At(c, n, l, i)
    BY <1>7, CountsPopped
  <2>5. \A l, i : At(c, n - 1, l, i) <=> l = k /\ i < m
    <3>1. n - 1 # n
      BY <1>1
    <3> QED
      BY <2>2, <3>1 DEF At, CountedAt
  <2>6. \A l, i : At(d, n - 1, l, i) <=> l = k /\ (i < m \/ i = m)
    <3>1. d[n - 1] = c[n - 1] /\ n - 1 = Len(d)
      BY <1>1, <1>7
    <3> QED
      BY <2>2, <3>1 DEF At, CountedAt
  <2> HIDE DEF k, m, n
  <2>7. \A v \in Users : HeldBy(d, t[v]) <=> HeldBy(c, s[v])
    BY <2>0 DEF HeldBy
  <2>8. ~RefHeld(c, o, s, q)
    <3>1. ~At(c, n, k, m)
      BY <1>3, <2>1 DEF Top1
    <3>2. ~(m < m)
      BY <2>1, DepsAre
    <3>3. ~CountedBy(c, k, m)
      BY <2>1, <2>4, <2>5, <3>1, <3>2, Zenon
    <3> QED
      BY <2>1, <3>3, CountedIs, Zenon
  <2>9. ASSUME NEW r \in References PROVE RefHeld(d, p, t, r) <=> RefHeld(c, o, s, r) \/ r = q
    <3>1. ASSUME NEW v \in Users, r = <<v, 0>>
          PROVE  RefHeld(d, p, t, r) <=> RefHeld(c, o, s, r) \/ r = q
      <4>1. r # q
        BY <2>1, <3>1, ReferenceIs
      <4> QED
        BY <2>7, <3>1, <4>1, CountedIs
    <3>2. ASSUME NEW l \in Lib, NEW i \in 1..Len(Deps[l]), r = <<l, i>>
          PROVE  RefHeld(d, p, t, r) <=> RefHeld(c, o, s, r) \/ r = q
      <4>1. r = q <=> l = k /\ i = m
        BY <2>1, <3>2
      <4>2. RefHeld(d, p, t, r) <=> p[l] \/ Among(c, n - 2, l, i) \/ (l = k /\ (i < m \/ i = m))
        BY <2>3, <2>6, <3>2, CountedIs, Zenon
      <4>3. RefHeld(c, o, s, r) <=> o[l] \/ Among(c, n - 2, l, i) \/ (l = k /\ i < m) \/ Top1(l, i)
        BY <1>3, <2>4, <2>5, <3>2, CountedIs, Zenon
      <4> QED
        BY <1>4, <4>1, <4>2, <4>3, Zenon
    <3> QED
      BY <3>1, <3>2, ReferenceIs
  <2> QED
    BY <1>5, <2>8, <2>9, OneChanges DEF q
<1>8. n = 1 \/ n >= 2
  BY <1>1
<1> QED
  BY <1>6, <1>7, <1>8

LEMMA CountsOf ==
  ASSUME NEW c \in Seq(LibFrame)
  PROVE  /\ Len(c) = 1 => \A l, i : CountedBy(c, l, i) <=> At(c, 1, l, i)
         /\ Len(c) >= 2 => \A l, i : CountedBy(c, l, i) <=>
                             \/ Among(c, Len(c) - 2, l, i) \/ At(c, Len(c) - 1, l, i)
                             \/ At(c, Len(c), l, i)
<1> DEFINE n == Len(c)
<1>1. n \in Nat
  BY LenProperties
<1>2. ASSUME n >= 1 PROVE \A l, i : Among(c, n, l, i) <=> Among(c, n - 1, l, i) \/ At(c, n, l, i)
  BY <1>1, <1>2, EarlyLast
<1>3. ASSUME n = 1 PROVE \A l, i : CountedBy(c, l, i) <=> At(c, 1, l, i)
  <2>1. \A m : m \notin 1..0
    OBVIOUS
  <2>2. \A l, i : ~Among(c, 0, l, i)
    BY <2>1, Zenon DEF Among
  <2>3. n - 1 = 0 /\ n >= 1
    BY <1>3
  <2> QED
    BY <1>2, <1>3, <2>2, <2>3 DEF CountedBy
<1>4. ASSUME n >= 2
      PROVE  \A l, i : CountedBy(c, l, i) <=>
                Among(c, n - 2, l, i) \/ At(c, n - 1, l, i) \/ At(c, n, l, i)
  <2>1. n >= 1 /\ n - 1 \in Nat /\ n - 1 >= 1 /\ (n - 1) - 1 = n - 2
    BY <1>1, <1>4
  <2>2. \A l, i : Among(c, n - 1, l, i) <=> Among(c, n - 2, l, i) \/ At(c, n - 1, l, i)
    BY <2>1, EarlyLast
  <2> QED
    BY <1>2, <2>1, <2>2, Zenon DEF CountedBy
<1> QED
  BY <1>3, <1>4

(* An unload begins: its target is no longer counted for whoever called it, and *)
(* the call counts what the library did, if it was used no more.               *)
LEMMA UnloadBegins ==
  ASSUME NEW c, StackOK(c), c # <<>>, c[Len(c)].op = "unload", c[Len(c)].step = "enter",
         NEW d \in Seq(LibFrame), \A i \in 1..(Len(c) - 1) : d[i] = c[i],
         NEW o \in [Lib -> BOOLEAN], NotLoaded(c, o), NEW p \in [Lib -> BOOLEAN],
         NEW s, NEW u \in Users, CalledBy(c, s, u), NEW t,
         \/ /\ Len(d) = Len(c) - 1 /\ p = o
            /\ IF d = <<>> THEN t[u] = "none" /\ \A v \in Users : v # u => t[v] = s[v]
               ELSE \A v \in Users : t[v] = s[v]
         \/ /\ Len(d) = Len(c) /\ d[Len(c)].op = "unload" /\ d[Len(c)].step = "deps"
            /\ d[Len(c)].lib = c[Len(c)].lib /\ Pos(d[Len(c)]) = 0
            /\ o[c[Len(c)].lib] /\ p = [o EXCEPT ![c[Len(c)].lib] = FALSE]
            /\ \A v \in Users : t[v] = s[v]
  PROVE  OneMore(AllRefs(d, p, t), AllRefs(c, o, s), RefOf(c, u))
<1> DEFINE n == Len(c)
           f == c[n]
           q == RefOf(c, u)
           Rest(l, i) == Len(d) = n /\ At(d, n, l, i)
<1>1. n \in Nat \ {0} /\ f \in LibFrame /\ c \in Seq(LibFrame) /\ n \in 1..n
  BY TopOf
<1>2. f.lib \in Lib /\ Len(Deps[f.lib]) \in Nat
  BY <1>1, FrameIsOne
<1>3. \A l, i : ~At(c, n, l, i)
  BY NothingAt
<1>n. n - 1 # n
  BY <1>1
<1>4. \A l \in Lib : \A i \in 1..Len(Deps[l]) : p[l] \/ Rest(l, i) <=> o[l]
  <2>1. CASE Len(d) = n - 1 /\ p = o
    BY <1>n, <2>1
  <2>2. CASE /\ Len(d) = n /\ d[n].op = "unload" /\ d[n].step = "deps"
             /\ d[n].lib = f.lib /\ Pos(d[n]) = 0
             /\ o[f.lib] /\ p = [o EXCEPT ![f.lib] = FALSE]
    <3>1. ASSUME NEW l \in Lib, NEW i \in 1..Len(Deps[l]) PROVE Rest(l, i) <=> l = f.lib
      <4>1. i > 0
        BY DepsAre
      <4> QED
        BY <2>2, <4>1 DEF At, CountedAt
    <3>2. \A l \in Lib : p[l] \/ l = f.lib <=> o[l]
      BY <2>2
    <3> QED
      BY <3>1, <3>2
  <2> QED
    BY <2>1, <2>2
<1>5. q \in References /\ Target(q) \in Lib
  BY RefIs
<1>d. Len(d) = n - 1 \/ Len(d) = n
  OBVIOUS
<1>e. Len(d) = n - 1 => IF d = <<>> THEN t[u] = "none" /\ \A v \in Users : v # u => t[v] = s[v]
                        ELSE \A v \in Users : t[v] = s[v]
  BY <1>n
<1>f. Len(d) = n => d[n].step = "deps" /\ \A v \in Users : t[v] = s[v]
  BY <1>n
<1> HIDE DEF f, Rest, q
<1>6. CASE n = 1
  <2>0. s[u] = "unloading" /\ \A v \in Users : v # u => s[v] \in {"none", "holds"}
    BY <1>6 DEF CalledBy
  <2>1. q = <<u, 0>>
    BY <1>6 DEF RefOf, q
  <2>2. \A l, i : CountedBy(c, l, i) <=> At(c, 1, l, i)
    BY <1>1, <1>6, CountsOf
  <2>3. \A l, i : CountedBy(d, l, i) <=> Rest(l, i)
    <3>1. CASE Len(d) = n - 1
      <4>1. Len(d) = 0
        BY <1>6, <3>1
      <4>2. \A m : m \notin 1..0
        OBVIOUS
      <4>3. \A l, i : ~CountedBy(d, l, i)
        BY <4>1, <4>2, Zenon DEF CountedBy, Among
      <4> QED
        BY <1>n, <3>1, <4>3 DEF Rest
    <3>2. CASE Len(d) = n
      BY <1>6, <3>2, CountsOf DEF Rest
    <3> QED
      BY <1>d, <3>1, <3>2
  <2>4. \A l \in Lib : \A i \in 1..Len(Deps[l]) :
           o[l] \/ CountedBy(c, l, i) <=> p[l] \/ CountedBy(d, l, i)
    BY <1>3, <1>4, <1>6, <2>2, <2>3
  <2>5. HeldBy(c, s[u])
    BY <1>6, <2>0 DEF HeldBy, f
  <2>6. ~HeldBy(d, t[u]) /\ \A v \in Users : v # u => t[v] = s[v]
    <3>1. CASE Len(d) = n - 1
      <4>1. d = <<>>
        BY <1>6, <3>1, EmptySeq
      <4> QED
        BY <1>e, <3>1, <4>1 DEF HeldBy
    <3>2. CASE Len(d) = n
      BY <1>6, <1>f, <2>0, <3>2 DEF HeldBy
    <3> QED
      BY <1>d, <3>1, <3>2
  <2>7. ASSUME NEW v \in Users, v # u PROVE HeldBy(c, s[v]) <=> HeldBy(d, t[v])
    BY <2>0, <2>6, <2>7 DEF HeldBy
  <2>8. ~RefHeld(d, p, t, q)
    BY <2>1, <2>6, CountedIs
  <2>9. ASSUME NEW r \in References PROVE RefHeld(c, o, s, r) <=> RefHeld(d, p, t, r) \/ r = q
    <3>1. ASSUME NEW v \in Users, r = <<v, 0>>
          PROVE  RefHeld(c, o, s, r) <=> RefHeld(d, p, t, r) \/ r = q
      <4>1. CASE v = u
        BY <2>1, <2>5, <3>1, <4>1, CountedIs
      <4>2. CASE v # u
        <5>1. r # q
          BY <2>1, <3>1, <4>2
        <5> QED
          BY <2>7, <3>1, <4>2, <5>1, CountedIs
      <4> QED
        BY <4>1, <4>2
    <3>2. ASSUME NEW l \in Lib, NEW i \in 1..Len(Deps[l]), r = <<l, i>>
          PROVE  RefHeld(c, o, s, r) <=> RefHeld(d, p, t, r) \/ r = q
      <4>1. r # q
        BY <2>1, <3>2, ReferenceIs
      <4> QED
        BY <2>4, <3>2, <4>1, CountedIs
    <3> QED
      BY <3>1, <3>2, ReferenceIs
  <2> QED
    BY <1>5, <2>8, <2>9, OneChanges DEF q
<1>7. CASE n >= 2
  <2> DEFINE k == c[n - 1].lib
             m == Pos(c[n - 1])
  <2>0. d # <<>> /\ d[1] = c[1] /\ d[n - 1] = c[n - 1] /\ Len(d) \in Nat
    <3>1. 1 \in 1..(n - 1) /\ n - 1 \in 1..(n - 1) /\ Len(d) # 0
      BY <1>1, <1>7, <1>d
    <3> QED
      BY <3>1, EmptySeq, LenProperties
  <2>1. /\ q = <<k, m>> /\ k \in Lib /\ m \in 1..Len(Deps[k]) /\ ~o[k] /\ f.lib # k
        /\ \A i : ~Among(c, n - 2, k, i)
    <3>1. n # 1
      BY <1>7
    <3> QED
      BY <1>7, <3>1, CallerOf, CallerAlone DEF RefOf, q, f
  <2>2. c[n - 1].op = "unload" /\ c[n - 1].step = "deps"
    BY <1>7, CallerOf
  <2>3. \A l, i : CountedBy(c, l, i) <=> \/ Among(c, n - 2, l, i) \/ At(c, n - 1, l, i)
                                        \/ At(c, n, l, i)
    BY <1>1, <1>7, CountsOf
  <2>e. \A l, i : Among(d, n - 2, l, i) <=> Among(c, n - 2, l, i)
    <3> DEFINE b == n - 2
    <3>1. /\ b \in Nat /\ b < Len(c) /\ b < Len(d) /\ b + 1 = n - 1
          /\ \A j \in 1..b : d[j] = c[j]
      BY <1>1, <1>7, <1>d
    <3>2. d[b + 1].step = c[b + 1].step
      BY <2>0, <3>1
    <3> HIDE DEF b
    <3>3. \A l, i : Among(d, b, l, i) <=> Among(c, b, l, i)
      BY <1>1, <3>1, <3>2, EarlySame
    <3> QED
      BY <3>3 DEF b
  <2>4. \A l, i : CountedBy(d, l, i) <=>
                    Among(c, n - 2, l, i) \/ At(d, n - 1, l, i) \/ Rest(l, i)
    <3>1. CASE Len(d) = n - 1
      <4>1. \A l, i : Among(d, n - 1, l, i) <=> Among(d, (n - 1) - 1, l, i) \/ At(d, n - 1, l, i)
        <5>1. n - 1 \in Nat /\ n - 1 >= 1
          BY <1>1, <1>7
        <5> QED
          BY <5>1, EarlyLast
      <4>2. (n - 1) - 1 = n - 2
        BY <1>1
      <4> QED
        BY <1>n, <2>e, <3>1, <4>1, <4>2, Zenon DEF CountedBy, Rest
    <3>2. CASE Len(d) = n
      <4>1. \A l, i : CountedBy(d, l, i) <=> \/ Among(d, n - 2, l, i) \/ At(d, n - 1, l, i)
                                            \/ At(d, n, l, i)
        BY <1>7, <3>2, CountsOf
      <4> QED
        BY <2>e, <3>2, <4>1, Zenon DEF Rest
    <3> QED
      BY <1>d, <3>1, <3>2
  <2>5. \A l, i : At(c, n - 1, l, i) <=> l = k /\ (i > m \/ i = m)
    <3>1. n - 1 < Len(c) /\ (n - 1) + 1 = n /\ c[n].step = "enter"
      BY <1>1
    <3> QED
      BY <2>2, <3>1 DEF At, CountedAt
  <2>6. \A l, i : At(d, n - 1, l, i) <=> l = k /\ i > m
    <3>1. n - 1 < Len(d) => Len(d) = n /\ (n - 1) + 1 = n /\ d[n].step = "deps"
      BY <1>1, <1>d, <1>f
    <3> QED
      BY <2>0, <2>2, <3>1 DEF At, CountedAt
  <2>7. \A v \in Users : HeldBy(c, s[v]) <=> HeldBy(d, t[v])
    <3>1. \A v \in Users : t[v] = s[v]
      BY <1>d, <1>e, <1>f, <2>0
    <3> QED
      BY <2>0, <3>1 DEF HeldBy
  <2> HIDE DEF k, m, n
  <2>8. ~RefHeld(d, p, t, q)
    <3>1. ~(m > m)
      BY <2>1, DepsAre
    <3>2. ~p[k] /\ ~Rest(k, m)
      BY <1>4, <2>1
    <3>3. ~CountedBy(d, k, m)
      BY <2>1, <2>4, <2>6, <3>1, <3>2, Zenon
    <3> QED
      BY <2>1, <3>2, <3>3, CountedIs, Zenon
  <2>9. ASSUME NEW r \in References PROVE RefHeld(c, o, s, r) <=> RefHeld(d, p, t, r) \/ r = q
    <3>1. ASSUME NEW v \in Users, r = <<v, 0>>
          PROVE  RefHeld(c, o, s, r) <=> RefHeld(d, p, t, r) \/ r = q
      <4>1. r # q
        BY <2>1, <3>1, ReferenceIs
      <4> QED
        BY <2>7, <3>1, <4>1, CountedIs
    <3>2. ASSUME NEW l \in Lib, NEW i \in 1..Len(Deps[l]), r = <<l, i>>
          PROVE  RefHeld(c, o, s, r) <=> RefHeld(d, p, t, r) \/ r = q
      <4>1. r = q <=> l = k /\ i = m
        BY <2>1, <3>2
      <4>2. RefHeld(c, o, s, r) <=> o[l] \/ Among(c, n - 2, l, i) \/ (l = k /\ (i > m \/ i = m))
        BY <1>3, <2>3, <2>5, <3>2, CountedIs, Zenon
      <4>3. RefHeld(d, p, t, r) <=> p[l] \/ Among(c, n - 2, l, i) \/ (l = k /\ i > m) \/ Rest(l, i)
        BY <2>4, <2>6, <3>2, CountedIs, Zenon
      <4> QED
        BY <1>4, <3>2, <4>1, <4>2, <4>3, Zenon
    <3> QED
      BY <3>1, <3>2, ReferenceIs
  <2> QED
    BY <1>5, <2>8, <2>9, OneChanges DEF q
<1>8. n = 1 \/ n >= 2
  <2>1. \A m \in Nat \ {0} : m = 1 \/ m >= 2
    OBVIOUS
  <2> QED
    BY <1>1, <2>1, Zenon
<1> QED
  BY <1>6, <1>7, <1>8

(* The other steps leave every reference as it is. *)
LEMMA HeldSame ==
  ASSUME NEW c, NEW d, c # <<>>, d # <<>>, d[1].step = c[1].step
  PROVE  \A x : HeldBy(d, x) <=> HeldBy(c, x)
BY DEF HeldBy

LEMMA SomeLengths ==
  ASSUME NEW c, StackOK(c), c # <<>>, NEW d \in Seq(LibFrame), Len(d) >= Len(c) - 1
  PROVE  /\ Len(c) \in Nat \ {0} /\ Len(d) \in Nat /\ (Len(c) = 1 \/ Len(c) >= 2)
         /\ Len(c) >= 2 => d # <<>> /\ 1 \in 1..(Len(c) - 1) /\ 1 \in 1..Len(d)
         /\ Len(d) >= Len(c) => d # <<>>
<1>1. Len(c) \in Nat \ {0} /\ Len(d) \in Nat
  BY TopOf, LenProperties
<1>2. \A n \in Nat \ {0} : n = 1 \/ n >= 2
  OBVIOUS
<1>3. \A n \in Nat \ {0}, m \in Nat : m >= n - 1 /\ n >= 2 => m # 0 /\ 1 \in 1..(n - 1) /\ 1 \in 1..m
  OBVIOUS
<1>4. \A n \in Nat \ {0}, m \in Nat : m >= n => m # 0
  OBVIOUS
<1> QED
  BY <1>1, <1>2, <1>3, <1>4, EmptySeq, Zenon

LEMMA PreparesFirst ==
  ASSUME NEW c, StackOK(c), c # <<>>, c[Len(c)].step # "deps",
         NEW d \in Seq(LibFrame), Len(d) = Len(c) + 1, \A i \in 1..Len(c) : d[i] = c[i],
         d[Len(d)].step # "deps", NEW o, NEW s
  PROVE  SameRefs(c, o, s, d, o, s)
<1>1. \A l, i : CountedBy(d, l, i) <=> CountedBy(c, l, i)
  BY CountsPushed
<1>2. d[1] = c[1] /\ d # <<>>
  <2>1. Len(c) \in Nat \ {0} /\ 1 \in 1..Len(c)
    BY TopOf
  <2>2. Len(d) >= Len(c) /\ Len(d) >= Len(c) - 1
    BY <2>1
  <2> QED
    BY <2>1, <2>2, SomeLengths
<1>3. \A x : HeldBy(d, x) <=> HeldBy(c, x)
  BY <1>2, HeldSame
<1> QED
  BY <1>1, <1>3, NoneChanges

LEMMA GoesOn ==
  ASSUME NEW c, StackOK(c), c # <<>>,
         NEW d \in Seq(LibFrame), Len(d) = Len(c), \A i \in 1..(Len(c) - 1) : d[i] = c[i],
         \/ c[Len(c)].op = "init" /\ d[Len(c)].op = "init"
         \/ /\ c[Len(c)].op = "load" /\ c[Len(c)].step = "enter"
            /\ d[Len(c)].op = "load" /\ Pos(d[Len(c)]) = 0,
         NEW o, NEW s, NEW u \in Users, CalledBy(c, s, u)
  PROVE  SameRefs(c, o, s, d, o, s)
<1>1. \A l \in Lib : \A i \in 1..Len(Deps[l]) : ~At(c, Len(c), l, i) /\ ~At(d, Len(c), l, i)
  <2>1. CASE c[Len(c)].op = "init" /\ d[Len(c)].op = "init"
    BY <2>1, NothingAt
  <2>2. CASE /\ c[Len(c)].op = "load" /\ c[Len(c)].step = "enter"
             /\ d[Len(c)].op = "load" /\ Pos(d[Len(c)]) = 0
    <3>1. \A l, i : ~At(c, Len(c), l, i)
      BY <2>2, NothingAt
    <3>2. ASSUME NEW l \in Lib, NEW i \in 1..Len(Deps[l]) PROVE ~At(d, Len(c), l, i)
      <4>1. i > 0 /\ ~(i < 0) /\ i # 0
        BY DepsAre
      <4> QED
        BY <2>2, <4>1 DEF At, CountedAt
    <3> QED
      BY <3>1, <3>2
  <2> QED
    BY <2>1, <2>2
<1>2. c[Len(c)].op # "unload"
  OBVIOUS
<1>3. \A l \in Lib : \A i \in 1..Len(Deps[l]) : CountedBy(d, l, i) <=> CountedBy(c, l, i)
  BY <1>1, <1>2, CountsStepped
<1>4. \A v \in Users : HeldBy(d, s[v]) <=> HeldBy(c, s[v])
  <2>1. Len(c) \in Nat \ {0} /\ (Len(c) = 1 \/ Len(c) >= 2) /\ d # <<>>
        /\ (Len(c) >= 2 => 1 \in 1..(Len(c) - 1))
    <3>1. Len(c) \in Nat
      BY TopOf
    <3>2. Len(d) >= Len(c) /\ Len(d) >= Len(c) - 1
      BY <3>1
    <3> QED
      BY <3>2, SomeLengths
  <2>2. CASE Len(c) = 1
    <3>1. c[1].op = "load"
      BY <1>2, <2>2 DEF StackOK
    <3>2. \A v \in Users : s[v] # "unloading"
      BY <3>1 DEF CalledBy
    <3> QED
      BY <3>2 DEF HeldBy
  <2>3. CASE Len(c) >= 2
    BY <2>1, <2>3, HeldSame
  <2> QED
    BY <2>1, <2>2, <2>3
<1> QED
  BY <1>3, <1>4, NoneChanges

LEMMA Depends ==
  ASSUME NEW c, StackOK(c), c # <<>>, c[Len(c)].step = "deps",
         NEW d \in Seq(LibFrame), Len(d) = Len(c) + 1, \A i \in 1..(Len(c) - 1) : d[i] = c[i],
         d[Len(c)].op = c[Len(c)].op, d[Len(c)].lib = c[Len(c)].lib, d[Len(c)].step = "deps",
         Pos(d[Len(c)]) = Pos(c[Len(c)]) + 1, d[Len(c) + 1].step = "enter",
         NEW o, NEW s
  PROVE  SameRefs(c, o, s, d, o, s)
<1> DEFINE n == Len(c)
           f == c[n]
           g == d[n]
<1>1. /\ n \in Nat \ {0} /\ n - 1 \in Nat /\ n + 1 \in Nat /\ n \in 1..n /\ c \in Seq(LibFrame)
      /\ FrameOK(f) /\ f \in LibFrame /\ n < n + 1 /\ n # n + 1
  BY TopOf
<1>2. \A l, i : Among(d, n - 1, l, i) <=> Among(c, n - 1, l, i)
  <2>1. n - 1 < Len(c) /\ n - 1 < Len(d) /\ (n - 1) + 1 = n /\ d[n].step = c[n].step
    BY <1>1
  <2>2. \A j \in 1..(n - 1) : d[j] = c[j]
    OBVIOUS
  <2> HIDE DEF n
  <2> QED
    BY <1>1, <2>1, <2>2, EarlySame
<1>3. \A l, i : Among(c, n, l, i) <=> Among(c, n - 1, l, i) \/ At(c, n, l, i)
  BY <1>1, EarlyLast
<1>4. \A l, i : Among(d, n, l, i) <=> Among(d, n - 1, l, i) \/ At(d, n, l, i)
  BY <1>1, EarlyLast
<1>5. \A l, i : Among(d, n + 1, l, i) <=> Among(d, n, l, i) \/ At(d, n + 1, l, i)
  <2> DEFINE b == n + 1
  <2>1. b \in Nat /\ b >= 1 /\ b - 1 = n
    BY <1>1
  <2> HIDE DEF b
  <2>2. \A l, i : Among(d, b, l, i) <=> Among(d, b - 1, l, i) \/ At(d, b, l, i)
    BY <2>1, EarlyLast
  <2> QED
    BY <2>1, <2>2, Zenon DEF b
<1>6. \A l, i : ~At(d, n + 1, l, i)
  BY NothingAt
<1>p. Pos(f) \in Nat /\ Pos(g) = Pos(f) + 1
  <2>1. Len(Deps[f.lib]) \in Nat
    BY <1>1, FrameIsOne
  <2> QED
    BY <1>1, <2>1 DEF FrameOK
<1>7. ASSUME NEW l \in Lib, NEW i \in 1..Len(Deps[l]) PROVE At(d, n, l, i) <=> At(c, n, l, i)
  <2>1. i \in Nat
    BY DepsAre
  <2>2. \A a, b \in Nat : /\ (a < b + 1 \/ (a = b + 1 /\ FALSE)) <=> a < b \/ a = b
                          /\ (a > b + 1 \/ a = b + 1) <=> (a > b \/ (a = b /\ FALSE))
    OBVIOUS
  <2>3. CASE f.op = "load"
    <3>1. CountedAt(c, n, i) <=> i < Pos(f) \/ i = Pos(f)
      BY <2>3 DEF CountedAt
    <3>2. CountedAt(d, n, i) <=> i < Pos(f) + 1
      BY <1>1, <1>p, <2>3 DEF CountedAt
    <3>3. CountedAt(c, n, i) <=> CountedAt(d, n, i)
      BY <1>p, <2>1, <2>2, <3>1, <3>2, Zenon
    <3> QED
      BY <3>3 DEF At
  <2>4. CASE f.op = "unload"
    <3>1. CountedAt(c, n, i) <=> i > Pos(f)
      <4>1. ~(n < n)
        BY <1>1
      <4> QED
        BY <2>4, <4>1 DEF CountedAt
    <3>2. CountedAt(d, n, i) <=> i > Pos(f) + 1 \/ i = Pos(f) + 1
      BY <1>1, <1>p, <2>4 DEF CountedAt
    <3>3. CountedAt(c, n, i) <=> CountedAt(d, n, i)
      BY <1>p, <2>1, <2>2, <3>1, <3>2, Zenon
    <3> QED
      BY <3>3 DEF At
  <2>5. CASE f.op = "init"
    BY <2>5, NothingAt
  <2> QED
    BY <1>1, <2>3, <2>4, <2>5, FrameIsOne
<1>8. \A l \in Lib : \A i \in 1..Len(Deps[l]) : CountedBy(d, l, i) <=> CountedBy(c, l, i)
  BY <1>2, <1>3, <1>4, <1>5, <1>6, <1>7, Zenon DEF CountedBy
<1>9. \A x : HeldBy(d, x) <=> HeldBy(c, x)
  <2>1. Len(d) >= Len(c) /\ Len(d) >= Len(c) - 1
    BY <1>1
  <2>2. d # <<>> /\ (n = 1 \/ n >= 2) /\ (n >= 2 => 1 \in 1..(n - 1))
    BY <2>1, SomeLengths
  <2>3. d[1].step = c[1].step
    <3>1. n >= 2 => d[1] = c[1]
      BY <2>2
    <3> QED
      BY <2>2, <3>1
  <2> QED
    BY <2>2, <2>3, HeldSame
<1> QED
  BY <1>8, <1>9, NoneChanges

LEMMA PreparationReturns ==
  ASSUME NEW c, StackOK(c), c # <<>>, c[Len(c)].op = "init",
         NEW d \in Seq(LibFrame), Len(d) = Len(c) - 1, \A i \in 1..Len(d) : d[i] = c[i],
         NEW o, NEW s
  PROVE  d # <<>> /\ SameRefs(c, o, s, d, o, s)
<1> DEFINE n == Len(c)
<1>0. Len(d) >= Len(c) - 1 /\ n \in Nat \ {0}
  BY TopOf
<1>1. n = 1 \/ n >= 2
  BY <1>0, SomeLengths
<1>2. n # 1
  BY DEF StackOK
<1>3. n >= 2 /\ d # <<>> /\ d[1] = c[1]
  BY <1>0, <1>1, <1>2, SomeLengths
<1>4. \A l, i : ~At(c, n, l, i) /\ ~At(c, n - 1, l, i) /\ ~At(d, n - 1, l, i)
  <2>1. c[n - 1].step # "deps" \/ c[n - 1].op = "init"
    BY <1>3, CallerOf
  <2>2. d[n - 1] = c[n - 1]
    <3>1. n - 1 \in 1..Len(d)
      BY <1>0, <1>3
    <3> QED
      BY <3>1
  <2> QED
    BY <2>1, <2>2, NothingAt
<1>5. \A l, i : CountedBy(d, l, i) <=> CountedBy(c, l, i)
  BY <1>3, <1>4, CountsPopped
<1>6. \A x : HeldBy(d, x) <=> HeldBy(c, x)
  BY <1>3, HeldSame
<1> QED
  BY <1>3, <1>5, <1>6, NoneChanges

LEMMA UnloadReturns ==
  ASSUME NEW c, StackOK(c), c # <<>>, c[Len(c)].op = "unload", c[Len(c)].step = "deps",
         Pos(c[Len(c)]) = Len(Deps[c[Len(c)].lib]),
         NEW d \in Seq(LibFrame), Len(d) = Len(c) - 1, \A i \in 1..Len(d) : d[i] = c[i],
         NEW o, NEW s, NEW u \in Users, CalledBy(c, s, u), NEW t,
         IF d = <<>> THEN t[u] = "none" /\ \A v \in Users : v # u => t[v] = s[v]
         ELSE \A v \in Users : t[v] = s[v]
  PROVE  SameRefs(c, o, s, d, o, t)
<1> DEFINE n == Len(c)
           f == c[n]
<1>0. Len(d) >= Len(c) - 1 /\ n \in Nat \ {0} /\ f \in LibFrame /\ ~(n < n)
  BY TopOf
<1>1. n = 1 \/ n >= 2
  BY <1>0, SomeLengths
<1>2. ASSUME NEW l \in Lib, NEW i \in 1..Len(Deps[l]) PROVE ~At(c, n, l, i)
  <2>1. SUFFICES ASSUME l = f.lib PROVE ~CountedAt(c, n, i)
    BY DEF At
  <2>2. ~(i > Len(Deps[l]))
    BY DepsAre
  <2> QED
    BY <1>0, <2>1, <2>2 DEF CountedAt
<1>3. CASE n = 1
  <2>1. d = <<>>
    BY <1>3, EmptySeq
  <2>2. \A l, i : ~CountedBy(d, l, i) /\ (CountedBy(c, l, i) <=> At(c, 1, l, i))
    BY <1>3, CountsPopped
  <2>3. \A v \in Users : HeldBy(d, t[v]) <=> HeldBy(c, s[v])
    <3>1. s[u] = "unloading" /\ t[u] = "none" /\ c[1].step = "deps"
      BY <1>3, <2>1 DEF CalledBy
    <3>2. \A v \in Users : v # u => t[v] = s[v] /\ s[v] # "unloading"
      BY <2>1 DEF CalledBy
    <3> QED
      BY <3>1, <3>2 DEF HeldBy
  <2> QED
    BY <1>2, <1>3, <2>2, <2>3, NoneChanges
<1>4. CASE n >= 2
  <2>1. d # <<>> /\ d[1] = c[1] /\ d[n - 1] = c[n - 1] /\ ~(n - 1 < n - 1) /\ (n - 1) + 1 = n
    <3>1. n - 1 \in 1..Len(d)
      BY <1>0, <1>4
    <3> QED
      BY <1>0, <1>4, <3>1, SomeLengths
  <2>2. c[n - 1].op = "unload"
    BY <1>4, CallerOf
  <2>3. \A l, i : At(d, n - 1, l, i) <=> At(c, n - 1, l, i)
    BY <2>1, <2>2 DEF At, CountedAt
  <2>4. \A l \in Lib : \A i \in 1..Len(Deps[l]) : CountedBy(d, l, i) <=> CountedBy(c, l, i)
    BY <1>2, <1>4, <2>3, CountsPopped
  <2>5. \A v \in Users : HeldBy(d, t[v]) <=> HeldBy(c, s[v])
    BY <2>1, HeldSame
  <2> QED
    BY <2>4, <2>5, NoneChanges
<1> QED
  BY <1>1, <1>3, <1>4

(* A call of an app begins. *)
LEMMA AppCalls ==
  ASSUME NEW c \in Seq(LibFrame), Len(c) = 0,
         NEW d \in Seq(LibFrame), Len(d) = 1, d[1].step = "enter",
         NEW o, NEW s, NEW u \in Users, NEW t, \A v \in Users : v # u => t[v] = s[v],
         \/ s[u] = "none" /\ t[u] = "loading" /\ d[1].op = "load"
         \/ s[u] = "holds" /\ t[u] = "unloading" /\ d[1].op = "unload",
         \A v \in Users : s[v] \in {"none", "holds"}
  PROVE  SameRefs(c, o, s, d, o, t)
<1>1. d # <<>> /\ c = <<>>
  BY EmptySeq
<1>2. \A l, i : ~CountedBy(c, l, i) /\ ~CountedBy(d, l, i)
  <2>1. \A m : m \notin 1..0
    OBVIOUS
  <2>2. \A l, i : ~CountedBy(c, l, i)
    BY <2>1, Zenon DEF CountedBy, Among
  <2>3. \A l, i : ~At(d, 1, l, i)
    BY NothingAt
  <2> QED
    BY <2>2, <2>3, CountsOf
<1>3. ASSUME NEW v \in Users PROVE HeldBy(d, t[v]) <=> HeldBy(c, s[v])
  <2>1. CASE v = u
    <3>1. CASE s[u] = "none" /\ t[u] = "loading" /\ d[1].op = "load"
      BY <1>1, <2>1, <3>1 DEF HeldBy
    <3>2. CASE s[u] = "holds" /\ t[u] = "unloading" /\ d[1].op = "unload"
      BY <1>1, <2>1, <3>2 DEF HeldBy
    <3> QED
      BY <3>1, <3>2
  <2>2. CASE v # u
    BY <1>1, <2>2 DEF HeldBy
  <2> QED
    BY <2>1, <2>2
<1> QED
  BY <1>2, <1>3, NoneChanges

(* After an exception, or in a new process, no call counts anything. *)
LEMMA NoneMore ==
  ASSUME NEW c, NEW o, NEW s, NEW d, d = <<>>, NEW p, NEW t,
         \A l \in Lib : p[l] => o[l], \A v \in Users : t[v] \in {"none", "holds"},
         \A v \in Users : t[v] = "holds" => s[v] = "holds"
  PROVE  FewerRefs(c, o, s, d, p, t)
<1>1. \A l, i : ~CountedBy(d, l, i)
  <2>1. Len(d) = 0 /\ \A m : m \notin 1..0
    OBVIOUS
  <2> QED
    BY <2>1, Zenon DEF CountedBy, Among
<1>2. \A v \in Users : HeldBy(d, t[v]) => HeldBy(c, s[v])
  BY DEF HeldBy
<1>3. ASSUME NEW r \in References, RefHeld(d, p, t, r) PROVE RefHeld(c, o, s, r)
  <2>1. CASE \E u \in Users : r = <<u, 0>>
    BY <1>2, <1>3, <2>1, CountedIs, Zenon
  <2>2. ASSUME NEW l \in Lib, NEW i \in 1..Len(Deps[l]), r = <<l, i>> PROVE RefHeld(c, o, s, r)
    <3>1. p[l]
      BY <1>1, <1>3, <2>2, CountedIs
    <3> QED
      BY <2>2, <3>1, CountedIs
  <2> QED
    BY <2>1, <2>2, ReferenceIs
<1> QED
  BY <1>3, Zenon DEF Refs, FewerRefs

LEMMA NoneLeft ==
  ASSUME NEW d, d = <<>>, NEW p, NEW t, \A l \in Lib : ~p[l], \A v \in Users : t[v] = "none"
  PROVE  NoRefs(d, p, t)
<1>1. \A l, i : ~CountedBy(d, l, i)
  <2>1. Len(d) = 0 /\ \A m : m \notin 1..0
    OBVIOUS
  <2> QED
    BY <2>1, Zenon DEF CountedBy, Among
<1>2. \A v \in Users : ~HeldBy(d, t[v])
  BY DEF HeldBy
<1>3. ASSUME NEW r \in References PROVE ~RefHeld(d, p, t, r)
  <2>1. CASE \E u \in Users : r = <<u, 0>>
    BY <1>2, <2>1, CountedIs, Zenon
  <2>2. ASSUME NEW l \in Lib, NEW i \in 1..Len(Deps[l]), r = <<l, i>> PROVE ~RefHeld(d, p, t, r)
    BY <1>1, <2>2, CountedIs
  <2> QED
    BY <2>1, <2>2, ReferenceIs
<1> QED
  BY <1>3, Zenon DEF Refs, NoRefs

-----------------------------------------------------------------------------
(* The counts. *)
LEMMA CountsSame ==
  ASSUME NEW c, NEW o, NEW s, NEW n, NEW f, CountsOK(c, o, s, n, f), NEW d, NEW t,
         SameRefs(c, o, s, d, o, t)
  PROVE  CountsOK(d, o, t, n, f)
BY DEF CountsOK, SameRefs

LEMMA CountsUp ==
  ASSUME NEW c, NEW o \in [Lib -> BOOLEAN], NEW s, NEW n \in [Lib -> Nat], NEW f,
         CountsOK(c, o, s, n, f), NEW d, NEW p \in [Lib -> BOOLEAN], NEW t, NEW k \in Lib,
         p[k], \A l \in Lib : l # k => p[l] = o[l],
         NEW q, Target(q) = k, OneMore(AllRefs(c, o, s), AllRefs(d, p, t), q)
  PROVE  CountsOK(d, p, t, [n EXCEPT ![k] = n[k] + 1], f)
<1> DEFINE R(l) == Refs(c, o, s, l)
           S(l) == Refs(d, p, t, l)
           m == [n EXCEPT ![k] = n[k] + 1]
<1>1. /\ q \notin R(k) /\ S(k) = R(k) \cup {q} /\ \A l \in Lib : l # k => S(l) = R(l)
  BY DEF OneMore, AllRefs
<1>2. \A l \in Lib : LibCountOK(R(l), o[l], n[l], f)
  BY DEF CountsOK
<1> HIDE DEF R, S
<1>3. m[k] = n[k] + 1 /\ n[k] \in Nat /\ \A l \in Lib : l # k => m[l] = n[l]
  OBVIOUS
<1>4. LibCountOK(S(k), p[k], m[k], f)
  <2>1. IsFiniteSet(R(k)) /\ Cardinality(R(k)) <= n[k] /\ (f = 0 => Cardinality(R(k)) = n[k])
    BY <1>2 DEF LibCountOK
  <2>2. /\ IsFiniteSet(R(k) \cup {q}) /\ Cardinality(R(k) \cup {q}) = Cardinality(R(k)) + 1
        /\ Cardinality(R(k)) \in Nat
    BY <1>1, <2>1, FS_AddElement, FS_CardinalityType
  <2> DEFINE card == Cardinality(R(k))
  <2>3. card + 1 <= n[k] + 1 /\ n[k] + 1 > 0 /\ (f = 0 => card + 1 = n[k] + 1)
    <3>1. \A a, b \in Nat : b + 1 > 0 /\ (a <= b => a + 1 <= b + 1)
      OBVIOUS
    <3> QED
      BY <1>3, <2>1, <2>2, <3>1
  <2>4. IsFiniteSet(S(k)) /\ Cardinality(S(k)) = card + 1
    BY <1>1, <2>2
  <2> QED
    BY <1>3, <2>3, <2>4 DEF LibCountOK
<1>5. ASSUME NEW l \in Lib, l # k PROVE LibCountOK(S(l), p[l], m[l], f)
  <2>1. S(l) = R(l) /\ p[l] = o[l] /\ m[l] = n[l]
    BY <1>1, <1>3, <1>5
  <2> QED
    BY <1>2, <2>1
<1>6. \A l \in Lib : LibCountOK(S(l), p[l], m[l], f)
  BY <1>4, <1>5
<1> QED
  BY <1>6 DEF CountsOK, S

LEMMA CountsDown ==
  ASSUME NEW c, NEW o \in [Lib -> BOOLEAN], NEW s, NEW n \in [Lib -> Nat], NEW f,
         CountsOK(c, o, s, n, f), NEW d, NEW p \in [Lib -> BOOLEAN], NEW t, NEW k \in Lib,
         p[k] <=> n[k] # 1, \A l \in Lib : l # k => p[l] = o[l],
         NEW q, Target(q) = k, OneMore(AllRefs(d, p, t), AllRefs(c, o, s), q)
  PROVE  /\ [n EXCEPT ![k] = n[k] - 1] \in [Lib -> Nat]
         /\ CountsOK(d, p, t, [n EXCEPT ![k] = n[k] - 1], f)
<1> DEFINE R(l) == Refs(c, o, s, l)
           S(l) == Refs(d, p, t, l)
           m == [n EXCEPT ![k] = n[k] - 1]
           card == Cardinality(S(k))
<1>1. /\ q \notin S(k) /\ R(k) = S(k) \cup {q} /\ \A l \in Lib : l # k => S(l) = R(l)
  BY DEF OneMore, AllRefs
<1>2. \A l \in Lib : LibCountOK(R(l), o[l], n[l], f)
  BY DEF CountsOK
<1> HIDE DEF R, S
<1>3. m[k] = n[k] - 1 /\ n[k] \in Nat /\ \A l \in Lib : l # k => m[l] = n[l]
  OBVIOUS
<1>4. IsFiniteSet(R(k)) /\ Cardinality(R(k)) <= n[k] /\ (f = 0 => Cardinality(R(k)) = n[k])
  BY <1>2 DEF LibCountOK
<1>5. IsFiniteSet(S(k)) /\ Cardinality(R(k)) = card + 1 /\ card \in Nat
  <2>1. S(k) \subseteq R(k)
    BY <1>1
  <2>2. IsFiniteSet(S(k))
    BY <1>4, <2>1, FS_Subset
  <2>3. Cardinality(S(k) \cup {q}) = Cardinality(S(k)) + 1 /\ Cardinality(S(k)) \in Nat
    BY <1>1, <2>2, FS_AddElement, FS_CardinalityType
  <2> QED
    BY <1>1, <2>2, <2>3
<1>6. n[k] - 1 \in Nat /\ card <= n[k] - 1 /\ (f = 0 => card = n[k] - 1)
      /\ (n[k] # 1 <=> n[k] - 1 > 0)
  <2>1. \A a, b \in Nat : a + 1 <= b => b - 1 \in Nat /\ a <= b - 1 /\ (b # 1 <=> b - 1 > 0)
    OBVIOUS
  <2>2. \A a, b \in Nat : a + 1 = b => a = b - 1
    OBVIOUS
  <2> QED
    BY <1>3, <1>4, <1>5, <2>1, <2>2
<1>7. LibCountOK(S(k), p[k], m[k], f)
  BY <1>3, <1>5, <1>6 DEF LibCountOK
<1>8. ASSUME NEW l \in Lib, l # k PROVE LibCountOK(S(l), p[l], m[l], f)
  <2>1. S(l) = R(l) /\ p[l] = o[l] /\ m[l] = n[l]
    BY <1>1, <1>3, <1>8
  <2> QED
    BY <1>2, <2>1
<1>9. \A l \in Lib : LibCountOK(S(l), p[l], m[l], f)
  BY <1>7, <1>8
<1>10. m \in [Lib -> Nat]
  BY <1>6
<1> QED
  BY <1>9, <1>10 DEF CountsOK, S

LEMMA CountsFewer ==
  ASSUME NEW c, NEW o, NEW s, NEW n \in [Lib -> Nat], NEW f, CountsOK(c, o, s, n, f),
         NEW d, NEW t, NEW g, g # 0, FewerRefs(c, o, s, d, o, t)
  PROVE  CountsOK(d, o, t, n, g)
<1> SUFFICES ASSUME NEW l \in Lib PROVE LibCountOK(Refs(d, o, t, l), o[l], n[l], g)
  BY DEF CountsOK
<1> DEFINE R == Refs(c, o, s, l)
           S == Refs(d, o, t, l)
<1>1. IsFiniteSet(R) /\ Cardinality(R) <= n[l] /\ (o[l] <=> n[l] > 0)
  BY DEF CountsOK, LibCountOK
<1>2. S \subseteq R
  BY DEF FewerRefs
<1> HIDE DEF R, S
<1>3. IsFiniteSet(S) /\ Cardinality(S) <= Cardinality(R)
  BY <1>1, <1>2, FS_Subset
<1>4. Cardinality(S) \in Nat /\ Cardinality(R) \in Nat /\ n[l] \in Nat
  BY <1>1, <1>3, FS_CardinalityType
<1>5. Cardinality(S) <= n[l]
  BY <1>1, <1>3, <1>4
<1> QED
  BY <1>1, <1>3, <1>5 DEF LibCountOK, S

LEMMA CountsNone ==
  ASSUME NEW o, NEW n, NEW f, NEW d, NEW t,
         \A l \in Lib : ~o[l] /\ n[l] = 0, NoRefs(d, o, t)
  PROVE  CountsOK(d, o, t, n, f)
BY FS_EmptySet DEF CountsOK, LibCountOK, NoRefs

-----------------------------------------------------------------------------
(* The steps. *)
LEMMA TheStack ==
  ASSUME StackOK(calls), calls # <<>>
  PROVE  /\ Len(calls) \in Nat \ {0} /\ Top \in LibFrame /\ FrameOK(Top) /\ Top.lib \in Lib
         /\ Top.op \in {"load", "unload", "init"} /\ Len(Deps[Top.lib]) \in Nat
         /\ Top.left = <<>> => Pos(Top) = Len(Deps[Top.lib])
         /\ Below \in Seq(LibFrame) /\ Len(Below) = Len(calls) - 1
         /\ \A i \in 1..Len(Below) : Below[i] = calls[i]
         /\ StackOK(Below) /\ (Below = <<>> => Len(calls) = 1)
         /\ Below # <<>> => Below[1] = calls[1]
<1>1. Len(calls) \in Nat \ {0} /\ calls \in Seq(LibFrame) /\ Top \in LibFrame /\ FrameOK(Top)
  BY TopOf DEF Top
<1>2. Top.lib \in Lib /\ Top.op \in {"load", "unload", "init"} /\ Len(Deps[Top.lib]) \in Nat
  BY <1>1, FrameIsOne
<1>3. Top.left = <<>> => Pos(Top) = Len(Deps[Top.lib])
  BY <1>2, EmptySeq DEF Pos
<1>4. /\ Below \in Seq(LibFrame) /\ Len(Below) = Len(calls) - 1
      /\ \A i \in 1..Len(Below) : Below[i] = calls[i]
  <2> DEFINE n == Len(calls) - 1
  <2>0. \A k \in Nat \ {0} :
           /\ k - 1 \in Nat /\ 1 \in Int /\ k - 1 \in Int /\ k - 1 - 1 + 1 = k - 1
           /\ (IF 1 <= k - 1 THEN k - 1 - 1 + 1 ELSE 0) = k - 1
           /\ \A i \in 1..(k - 1) : i \in 1..k /\ 1 + i - 1 = i
    OBVIOUS
  <2>1. /\ n \in Nat /\ 1 \in Int /\ n \in Int /\ n - 1 + 1 = n
        /\ (IF 1 <= n THEN n - 1 + 1 ELSE 0) = n
        /\ \A i \in 1..n : i \in 1..Len(calls) /\ 1 + i - 1 = i
    BY <1>1, <2>0, Zenon
  <2>2. \A i \in 1..n : calls[i] \in LibFrame
    BY <1>1, <2>1, TopOf
  <2> HIDE DEF n
  <2>3. /\ SubSeq(calls, 1, n) \in Seq(LibFrame)
        /\ Len(SubSeq(calls, 1, n)) = (IF 1 <= n THEN n - 1 + 1 ELSE 0)
        /\ \A i \in 1..(n - 1 + 1) : SubSeq(calls, 1, n)[i] = calls[1 + i - 1]
    BY <2>1, <2>2, SubSeqProperties
  <2>4. Below = SubSeq(calls, 1, n)
    BY DEF Below, n
  <2>5. n = Len(calls) - 1
    BY DEF n
  <2> QED
    BY <2>1, <2>3, <2>4, <2>5
<1>5. StackOK(Below)
  BY <1>4, Popped
<1>6. Below = <<>> => Len(calls) = 1
  <2>1. Below = <<>> => Len(Below) = 0
    BY EmptySeq
  <2>2. \A n \in Nat : n - 1 = 0 => n = 1
    OBVIOUS
  <2> QED
    BY <1>1, <1>4, <2>1, <2>2
<1>7. Below # <<>> => Below[1] = calls[1]
  <2>1. Below # <<>> => 1 \in 1..Len(Below)
    BY <1>4, EmptySeq, LenProperties
  <2> QED
    BY <1>4, <2>1
<1> QED
  BY <1>1, <1>2, <1>3, <1>4, <1>5, <1>6, <1>7

LEMMA OnTop ==
  ASSUME NEW c \in Seq(LibFrame), NEW f \in LibFrame
  PROVE  /\ Append(c, f) \in Seq(LibFrame) /\ Len(Append(c, f)) = Len(c) + 1
         /\ \A i \in 1..Len(c) : Append(c, f)[i] = c[i]
         /\ Append(c, f)[Len(c) + 1] = f /\ Append(c, f) # <<>>
BY AppendProperties

LEMMA NewTop ==
  ASSUME StackOK(calls), calls # <<>>, NEW f \in LibFrame
  PROVE  LET d == Append(Below, f)
         IN  /\ d \in Seq(LibFrame) /\ Len(d) = Len(calls) /\ d # <<>>
             /\ \A i \in 1..(Len(calls) - 1) : d[i] = calls[i]
             /\ d[Len(calls)] = f
             /\ f.op = Top.op /\ f.lib = Top.lib => d[1].op = calls[1].op /\ d[1].lib = calls[1].lib
<1> DEFINE d == Append(Below, f)
<1>1. /\ Len(calls) \in Nat \ {0} /\ Below \in Seq(LibFrame) /\ Len(Below) = Len(calls) - 1
      /\ \A i \in 1..Len(Below) : Below[i] = calls[i]
      /\ (Below = <<>> => Len(calls) = 1)
  BY TheStack
<1>2. /\ d \in Seq(LibFrame) /\ Len(d) = Len(Below) + 1 /\ d # <<>>
      /\ \A i \in 1..Len(Below) : d[i] = Below[i]
      /\ d[Len(Below) + 1] = f
  BY <1>1, OnTop
<1>3. Len(Below) + 1 = Len(calls)
  BY <1>1
<1> HIDE DEF d
<1>4. ASSUME f.op = Top.op /\ f.lib = Top.lib PROVE d[1].op = calls[1].op /\ d[1].lib = calls[1].lib
  <2>1. CASE Len(calls) = 1
    BY <1>2, <1>3, <1>4, <2>1 DEF Top
  <2>2. CASE Len(calls) # 1
    <3>1. 1 \in 1..Len(Below)
      BY <1>1, <2>2
    <3> QED
      BY <1>1, <1>2, <3>1
  <2> QED
    BY <2>1, <2>2
<1> QED
  BY <1>1, <1>2, <1>3, <1>4 DEF d

LEMMA TheCaller ==
  ASSUME CallerOK, LibTypeOK, calls # <<>>
  PROVE  \E u \in Users : CalledBy(calls, user, u)
BY DEF CallerOK, LibTypeOK, CalledBy, Waiting

LEMMA CallerStays ==
  ASSUME CallerOK, UNCHANGED user, calls # <<>>, calls' # <<>>,
         calls'[1].op = calls[1].op, calls'[1].lib = calls[1].lib
  PROVE  CallerOK'
BY DEF CallerOK, Waiting

LEMMA CallReturns ==
  ASSUME CallerOK, LibTypeOK, StackOK(calls), calls # <<>>, Top.op # "init",
         calls' = Below, Returns(Below, FALSE), NEW u \in Users, CalledBy(calls, user, u)
  PROVE  /\ CallerOK' /\ user' \in [Users -> {"none", "loading", "holds", "unloading"}]
         /\ IF Below = <<>>
            THEN /\ user'[u] = (IF Top.op = "load" THEN "holds" ELSE "none")
                 /\ \A v \in Users : v # u => user'[v] = user[v]
            ELSE \A v \in Users : user'[v] = user[v]
<1>1. user \in [Users -> {"none", "loading", "holds", "unloading"}]
  BY DEF LibTypeOK
<1>2. CASE Below = <<>>
  <2>1. calls[1] = Top
    BY <1>2, TheStack DEF Top
  <2>2. user' = [v \in Users |-> CASE user[v] = "loading" /\ ~FALSE -> "holds"
                                   [] user[v] = "loading" /\ FALSE -> "none"
                                   [] user[v] = "unloading" -> "none"
                                   [] OTHER -> user[v]]
    BY <1>2 DEF Returns
  <2>3. user[u] = IF Top.op = "load" THEN "loading" ELSE "unloading"
    BY <2>1 DEF CalledBy
  <2>4. user'[u] = (IF Top.op = "load" THEN "holds" ELSE "none")
    BY <2>2, <2>3
  <2>5. ASSUME NEW v \in Users, v # u PROVE user'[v] = user[v] /\ user[v] \in {"none", "holds"}
    <3>1. user[v] \in {"none", "holds"}
      BY <2>5 DEF CalledBy
    <3> QED
      BY <2>2, <3>1
  <2>6. user' \in [Users -> {"none", "loading", "holds", "unloading"}]
    <3>1. \A v \in Users : user'[v] \in {"none", "loading", "holds", "unloading"}
      BY <2>4, <2>5
    <3> QED
      BY <2>2, <3>1
  <2>7. CallerOK'
    <3>1. \A v \in Users : user'[v] \notin {"loading", "unloading"}
      BY <2>4, <2>5
    <3> QED
      BY <1>2, <3>1 DEF CallerOK, Waiting
  <2> QED
    BY <1>2, <2>4, <2>5, <2>6, <2>7
<1>3. CASE Below # <<>>
  <2>1. user' = user
    BY <1>3 DEF Returns
  <2>2. calls'[1] = calls[1]
    BY <1>3, TheStack
  <2>3. CallerOK'
    BY <1>3, <2>1, <2>2, CallerStays
  <2> QED
    BY <1>1, <1>3, <2>1, <2>3
<1> QED
  BY <1>2, <1>3

LEMMA CallsKept ==
  ASSUME NEW c, StackOK(c), c # <<>>, NEW L, NEW o, NEW n, NEW m, NEW rel,
         CallsOK(c, L, o, n, m, rel),
         NEW d, \A i \in 1..(Len(c) - 1) : d[i] = c[i],
         NEW M, NEW p, NEW x, NEW y, NEW rel2,
         \A l \in Lib : l # c[Len(c)].lib =>
           p[l] = o[l] /\ (l \in M <=> l \in L) /\ x[l] = n[l] /\ y[l] = m[l],
         \A j \in 1..Len(d) : j \notin 1..(Len(c) - 1) => CallOK(d[j], M, p, x, y, rel2)
  PROVE  CallsOK(d, M, p, x, y, rel2)
<1>1. Len(c) \in Nat \ {0}
  BY TopOf
<1>2. ASSUME NEW j \in 1..(Len(c) - 1) PROVE CallOK(d[j], M, p, x, y, rel2)
  <2>1. j \in 1..Len(c) /\ Len(c) \in 1..Len(c) /\ j < Len(c)
    BY <1>1
  <2> DEFINE f == c[j]
  <2>2. CallOK(f, L, o, n, m, rel) /\ d[j] = f
    BY <2>1 DEF CallsOK
  <2>3. Calls(f, c[j + 1])
    BY <2>1 DEF StackOK
  <2>4. f \in LibFrame /\ f.lib \in Lib
    BY <2>1, TopOf, FrameIsOne
  <2>5. f.step = "deps" => f.lib # c[Len(c)].lib
    BY <2>1, FramesApart
  <2> HIDE DEF f
  <2>6. CASE f.step = "deps"
    <3>1. /\ p[f.lib] = o[f.lib] /\ (f.lib \in M <=> f.lib \in L) /\ x[f.lib] = n[f.lib]
          /\ y[f.lib] = m[f.lib]
      BY <2>4, <2>5, <2>6
    <3> QED
      BY <2>2, <2>6, <3>1 DEF CallOK
  <2>7. CASE f.op = "load" /\ f.step = "enter"
    BY <2>2, <2>7 DEF CallOK
  <2> QED
    BY <2>3, <2>6, <2>7 DEF Calls
<1> QED
  BY <1>2 DEF CallsOK

LEMMA NotLoadedNow ==
  ASSUME NEW c, NEW L, NEW o, NEW n, NEW m, NEW rel, CallsOK(c, L, o, n, m, rel)
  PROVE  NotLoaded(c, o)
BY DEF CallsOK, CallOK, NotLoaded

LEMMA EmptyIs ==
  \A c \in Seq(LibFrame) : /\ c = <<>> <=> Len(c) = 0
                           /\ Len(c) = 1 => c # <<>>
BY EmptySeq

LEMMA AppBegins ==
  ASSUME LibInv, Len(calls) = 0, NEW u \in Users, NEW op \in {"load", "unload"}, NEW w,
         \/ op = "load" /\ user[u] = "none" /\ w = "loading"
         \/ op = "unload" /\ user[u] = "holds" /\ w = "unloading",
         user' \in [Users -> {"none", "loading", "holds", "unloading"}], user'[u] = w,
         \A v \in Users : v # u => user'[v] = user[v],
         calls' \in Seq(LibFrame), Len(calls') = 1, calls'[1] = LibCall(op, Needs[u]),
         UNCHANGED <<libs, refcount, object, files, counters>>
  PROVE  LibInv'
<1> DEFINE g == LibCall(op, Needs[u])
<1>1. Needs[u] \in Lib
  BY LibAssumption
<1>2. /\ g \in LibFrame /\ FrameOK(g) /\ g.op = op /\ g.lib = Needs[u] /\ g.step = "enter"
  BY <1>1, NewFrame
<1>3. calls'[1] = g /\ calls' # <<>> /\ calls \in Seq(LibFrame)
  <2>1. calls' # <<>>
    BY EmptyIs, Zenon
  <2>2. calls \in Seq(LibFrame)
    BY DEF LibInv, StackOK
  <2> QED
    BY <2>1, <2>2
<1> HIDE DEF g
<1>4. UNCHANGED <<libs, refcount, object, release, recorded, content, failures, crashes>>
  BY DEF files, counters
<1>5. StackOK(calls')
  <2>1. \A i, j \in 1..Len(calls') : i = 1 /\ j = 1 /\ ~(i < j)
    OBVIOUS
  <2>2. FrameOK(calls'[1]) /\ calls'[1].op # "init"
    BY <1>2, <1>3
  <2>3. \A j \in 1..Len(calls') : FrameOK(calls'[j]) /\ ~(j < Len(calls'))
    BY <2>1, <2>2
  <2> QED
    BY <2>1, <2>2, <2>3 DEF StackOK
<1>6. \A v \in Users : user[v] \in {"none", "holds"}
  <2>1. calls = <<>>
    BY <1>3, EmptySeq
  <2> QED
    BY <2>1 DEF LibInv, LibTypeOK, CallerOK, Waiting
<1>8. CountsOK(calls', object, user', refcount, failures)
  <2>1. SameRefs(calls, object, user, calls', object, user')
    <3>1. calls'[1].step = "enter" /\ calls'[1].op = op
      BY <1>2, <1>3
    <3>2. \/ user[u] = "none" /\ user'[u] = "loading" /\ calls'[1].op = "load"
          \/ user[u] = "holds" /\ user'[u] = "unloading" /\ calls'[1].op = "unload"
      BY <3>1
    <3> QED
      BY <1>3, <1>6, <3>1, <3>2, AppCalls, Zenon
  <2>2. CountsOK(calls, object, user, refcount, failures)
    BY DEF LibInv
  <2> QED
    BY <2>1, <2>2, CountsSame
<1>9. CallsOK(calls', libs, object, content, recorded, release)
  BY <1>2, <1>3 DEF CallsOK, CallOK
<1>10. CallerOK'
  BY <1>2, <1>3, <1>6 DEF CallerOK, Waiting
<1>11. LibTypeOK' /\ FilesOK'
  BY <1>4 DEF LibInv, LibTypeOK, FilesOK
<1> QED
  BY <1>4, <1>5, <1>8, <1>9, <1>10, <1>11 DEF LibInv

LEMMA AppCallKeeps ==
  ASSUME LibInv, calls = <<>>, NEW u \in Users, NEW op \in {"load", "unload"}, NEW w,
         \/ op = "load" /\ user[u] = "none" /\ w = "loading"
         \/ op = "unload" /\ user[u] = "holds" /\ w = "unloading",
         user' = [user EXCEPT ![u] = w], calls' = <<LibCall(op, Needs[u])>>,
         UNCHANGED <<libs, refcount, object, files, counters>>
  PROVE  LibInv'
<1>1. Needs[u] \in Lib
  BY LibAssumption
<1>2. LibCall(op, Needs[u]) \in LibFrame
  BY <1>1, NewFrame
<1>3. calls' \in Seq(LibFrame) /\ Len(calls') = 1 /\ calls'[1] = LibCall(op, Needs[u])
  BY <1>2
<1>4. /\ user' \in [Users -> {"none", "loading", "holds", "unloading"}] /\ user'[u] = w
      /\ \A v \in Users : v # u => user'[v] = user[v]
  BY DEF LibInv, LibTypeOK
<1>5. Len(calls) = 0
  BY EmptySeq
<1> QED
  BY <1>3, <1>4, <1>5, AppBegins

LEMMA PrepareFirstKeeps ==
  ASSUME LibInv, PrepareFirst
  PROVE  LibInv'
<1> DEFINE g == LibCall("init", Top.lib)
<1>1. /\ calls # <<>> /\ Top.op = "load" /\ Top.step = "enter"
      /\ UNCHANGED <<libs, refcount, object, user, release, recorded, content, failures, crashes>>
  BY DEF PrepareFirst, In, files, counters
<1>a. calls' = Append(calls, g)
  BY DEF PrepareFirst
<1>2. StackOK(calls) /\ calls \in Seq(LibFrame)
  BY DEF LibInv, StackOK
<1>3. Len(calls) \in Nat \ {0} /\ Top.lib \in Lib
  BY <1>1, <1>2, TheStack
<1>4. g \in LibFrame /\ FrameOK(g) /\ g.op = "init" /\ g.lib = Top.lib /\ g.step = "enter"
  BY <1>3, NewFrame
<1> HIDE DEF g
<1>5. /\ calls' \in Seq(LibFrame) /\ Len(calls') = Len(calls) + 1 /\ calls' # <<>>
      /\ \A i \in 1..Len(calls) : calls'[i] = calls[i]
      /\ calls'[Len(calls) + 1] = g
  BY <1>a, <1>2, <1>4, OnTop
<1>6. StackOK(calls')
  <2>1. Calls(calls[Len(calls)], g)
    BY <1>1, <1>4 DEF Calls, Top
  <2> QED
    BY <1>1, <1>2, <1>4, <1>5, <2>1, Pushed
<1>7. CountsOK(calls', object, user, refcount, failures)
  <2>1. SameRefs(calls, object, user, calls', object, user)
    <3>1. calls[Len(calls)].step # "deps" /\ calls'[Len(calls')].step # "deps"
      BY <1>1, <1>4, <1>5 DEF Top
    <3> QED
      BY <1>1, <1>2, <1>5, <3>1, PreparesFirst
  <2> QED
    BY <2>1, CountsSame DEF LibInv
<1>8. CallsOK(calls', libs, object, content, recorded, release)
  <2>1. \A j \in 1..Len(calls') : j \in 1..Len(calls) \/ j = Len(calls) + 1
    BY <1>3, <1>5
  <2>2. CallOK(g, libs, object, content, recorded, release)
    BY <1>4 DEF CallOK
  <2> QED
    BY <1>5, <2>1, <2>2 DEF LibInv, CallsOK
<1>9. CallerOK'
  <2>1. 1 \in 1..Len(calls)
    BY <1>3
  <2> QED
    BY <1>1, <1>5, <2>1, CallerStays DEF LibInv
<1>10. LibTypeOK' /\ FilesOK'
  BY <1>1 DEF LibInv, LibTypeOK, FilesOK
<1> QED
  BY <1>1, <1>6, <1>7, <1>8, <1>9, <1>10 DEF LibInv

LEMMA GoesKeeps ==
  ASSUME LibInv, calls # <<>>, NEW step \in {"unzip", "record", "deps"}, calls' = Goes(step),
         Top.op = "init" \/ (Top.op = "load" /\ step = "deps"), Top.step # "deps",
         UNCHANGED <<libs, object, user>>,
         \A l \in Lib : l # Top.lib => content'[l] = content[l] /\ recorded'[l] = recorded[l],
         Top.op = "load" => Top.step = "enter",
         \A f \in LibFrame : f.op = Top.op /\ f.lib = Top.lib /\ f.step = step =>
           CallOK(f, libs, object, content', recorded', release)
  PROVE  /\ StackOK(calls') /\ CallerOK'
         /\ CountsOK(calls', object, user, refcount, failures)
         /\ CallsOK(calls', libs, object, content', recorded', release)
<1> DEFINE g == [Top EXCEPT !.step = step]
           n == Len(calls)
<1>0. StackOK(calls) /\ CallerOK /\ LibTypeOK
      /\ CountsOK(calls, object, user, refcount, failures)
      /\ CallsOK(calls, libs, object, content, recorded, release)
  BY DEF LibInv
<1>1. n \in Nat \ {0} /\ Top \in LibFrame /\ FrameOK(Top) /\ Top.lib \in Lib
  BY <1>0, TheStack
<1>2. Pos(Top) = 0
  BY <1>1 DEF FrameOK
<1>3. /\ g \in LibFrame /\ FrameOK(g) /\ g.op = Top.op /\ g.lib = Top.lib /\ g.step = step
      /\ Pos(g) = Pos(Top)
  <2>1. Top.op # "init" => step \in {"enter", "deps"}
    OBVIOUS
  <2>2. step \in {"enter", "unzip", "record", "deps"}
    OBVIOUS
  <2> QED
    BY <1>1, <1>2, <2>1, <2>2, StepFrame
<1>4. calls' = Append(Below, g)
  BY DEF Goes
<1> HIDE DEF g
<1>5. /\ calls' \in Seq(LibFrame) /\ Len(calls') = n /\ calls' # <<>>
      /\ \A i \in 1..(n - 1) : calls'[i] = calls[i]
      /\ calls'[n] = g /\ calls'[1].op = calls[1].op /\ calls'[1].lib = calls[1].lib
  BY <1>0, <1>3, <1>4, NewTop
<1>6. calls[n] = Top
  BY DEF Top
<1>7. StackOK(calls')
  BY <1>0, <1>3, <1>5, <1>6, Stepped
<1>8. CountsOK(calls', object, user, refcount, failures)
  <2>1. PICK u \in Users : CalledBy(calls, user, u)
    BY <1>0, TheCaller
  <2>2. \/ calls[n].op = "init" /\ calls'[n].op = "init"
        \/ /\ calls[n].op = "load" /\ calls[n].step = "enter"
           /\ calls'[n].op = "load" /\ Pos(calls'[n]) = 0
    BY <1>2, <1>3, <1>5, <1>6
  <2>3. SameRefs(calls, object, user, calls', object, user)
    BY <1>0, <1>5, <2>1, <2>2, GoesOn
  <2> QED
    BY <1>0, <2>3, CountsSame
<1>9. CallsOK(calls', libs, object, content', recorded', release)
  <2>1. CallOK(g, libs, object, content', recorded', release)
    BY <1>3
  <2>2. \A j \in 1..Len(calls') : j \notin 1..(n - 1) => j = n
    BY <1>1, <1>5
  <2>3. \A j \in 1..Len(calls') : j \notin 1..(n - 1) =>
           CallOK(calls'[j], libs, object, content', recorded', release)
    BY <1>5, <2>1, <2>2
  <2> QED
    BY <1>0, <1>5, <1>6, <2>3, CallsKept
<1>10. CallerOK'
  BY <1>0, <1>5, CallerStays
<1> QED
  BY <1>7, <1>8, <1>9, <1>10

LEMMA InitLibKeeps ==
  ASSUME LibInv, InitLib
  PROVE  LibInv'
<1> DEFINE l == Top.lib
           step == IF recorded[l] # release THEN "unzip" ELSE "deps"
<1>1. /\ calls # <<>> /\ Top.op = "init" /\ Top.step = "enter" /\ l \notin libs /\ calls' = Goes(step)
      /\ UNCHANGED <<libs, refcount, object, user, release, recorded, failures, crashes>>
      /\ content' = [content EXCEPT ![l] = IF recorded[l] # release THEN Mixed ELSE content[l]]
  BY DEF InitLib, In, counters
<1>2. l \in Lib /\ content \in [Lib -> Nat] /\ Mixed \in Nat
  BY <1>1, TheStack, LibAssumption DEF LibInv, LibTypeOK, Mixed
<1>3. /\ content' \in [Lib -> Nat] /\ \A k \in Lib : k # l => content'[k] = content[k]
      /\ recorded[l] = release => content'[l] = content[l]
  BY <1>1, <1>2
<1>4. recorded[l] = release => content[l] = release
  BY <1>2 DEF LibInv, FilesOK
<1>c. content' \in [Lib -> Nat]
  BY <1>3
<1>5. ASSUME NEW f \in LibFrame, f.op = Top.op, f.lib = l, f.step = step
      PROVE  CallOK(f, libs, object, content', recorded', release)
  BY <1>1, <1>3, <1>4, <1>5 DEF CallOK
<1>6. step \in {"unzip", "record", "deps"}
  OBVIOUS
<1> HIDE DEF step, l
<1>7. /\ StackOK(calls') /\ CallerOK'
      /\ CountsOK(calls', object, user, refcount, failures)
      /\ CallsOK(calls', libs, object, content', recorded', release)
  BY <1>1, <1>3, <1>5, <1>6, GoesKeeps DEF l
<1>8. FilesOK'
  <2>1. \A k \in libs : k \in Lib /\ content[k] = recorded[k] /\ content'[k] = content[k]
    BY <1>1, <1>3 DEF LibInv, LibTypeOK, FilesOK
  <2>2. \A k \in Lib : recorded[k] = release => content'[k] = release
    BY <1>3, <1>4 DEF LibInv, FilesOK
  <2> QED
    BY <1>1, <2>1, <2>2 DEF LibInv, FilesOK
<1>9. LibTypeOK'
  BY <1>1, <1>c DEF LibInv, LibTypeOK
<1> QED
  BY <1>1, <1>7, <1>8, <1>9 DEF LibInv

LEMMA UnzippedKeeps ==
  ASSUME LibInv, Unzipped
  PROVE  LibInv'
<1> DEFINE l == Top.lib
<1>1. /\ calls # <<>> /\ Top.op = "init" /\ Top.step = "unzip" /\ calls' = Goes("record")
      /\ UNCHANGED <<libs, refcount, object, user, release, recorded, failures, crashes>>
      /\ content' = [content EXCEPT ![l] = release]
  BY DEF Unzipped, In, counters
<1>2. l \in Lib /\ content \in [Lib -> Nat] /\ release \in Nat
  BY <1>1, TheStack DEF LibInv, LibTypeOK
<1>3. /\ content' \in [Lib -> Nat] /\ content'[l] = release
      /\ \A k \in Lib : k # l => content'[k] = content[k]
  BY <1>1, <1>2
<1>4. l \notin libs
  BY <1>1, TopOf DEF LibInv, CallsOK, CallOK, Top
<1>5. ASSUME NEW f \in LibFrame, f.op = Top.op, f.lib = l, f.step = "record"
      PROVE  CallOK(f, libs, object, content', recorded', release)
  BY <1>1, <1>3, <1>4, <1>5 DEF CallOK
<1> HIDE DEF l
<1>7. /\ StackOK(calls') /\ CallerOK'
      /\ CountsOK(calls', object, user, refcount, failures)
      /\ CallsOK(calls', libs, object, content', recorded', release)
  BY <1>1, <1>3, <1>5, GoesKeeps DEF l
<1>8. FilesOK'
  <2>1. \A k \in libs : k \in Lib /\ content[k] = recorded[k] /\ content'[k] = content[k]
    BY <1>1, <1>3, <1>4 DEF LibInv, LibTypeOK, FilesOK
  <2>2. \A k \in Lib : recorded[k] = release => content'[k] = release
    BY <1>3 DEF LibInv, FilesOK
  <2> QED
    BY <1>1, <2>1, <2>2 DEF LibInv, FilesOK
<1>9. LibTypeOK'
  BY <1>1, <1>3 DEF LibInv, LibTypeOK
<1> QED
  BY <1>1, <1>7, <1>8, <1>9 DEF LibInv

LEMMA SetAgentVersionKeeps ==
  ASSUME LibInv, SetAgentVersion
  PROVE  LibInv'
<1> DEFINE l == Top.lib
<1>1. /\ calls # <<>> /\ Top.op = "init" /\ Top.step = "record" /\ calls' = Goes("deps")
      /\ UNCHANGED <<libs, refcount, object, user, release, content, failures, crashes>>
      /\ recorded' = [recorded EXCEPT ![l] = release]
  BY DEF SetAgentVersion, In, counters
<1>2. l \in Lib /\ recorded \in [Lib -> Nat] /\ release \in Nat
  BY <1>1, TheStack DEF LibInv, LibTypeOK
<1>3. /\ recorded' \in [Lib -> Nat] /\ recorded'[l] = release
      /\ \A k \in Lib : k # l => recorded'[k] = recorded[k]
  BY <1>1, <1>2
<1>4. l \notin libs /\ content[l] = release
  BY <1>1, TopOf DEF LibInv, CallsOK, CallOK, Top
<1>5. ASSUME NEW f \in LibFrame, f.op = Top.op, f.lib = l, f.step = "deps"
      PROVE  CallOK(f, libs, object, content', recorded', release)
  BY <1>1, <1>3, <1>4, <1>5 DEF CallOK
<1> HIDE DEF l
<1>7. /\ StackOK(calls') /\ CallerOK'
      /\ CountsOK(calls', object, user, refcount, failures)
      /\ CallsOK(calls', libs, object, content', recorded', release)
  BY <1>1, <1>3, <1>5, GoesKeeps DEF l
<1>8. FilesOK'
  <2>1. \A k \in libs : k \in Lib /\ content[k] = recorded[k] /\ recorded'[k] = recorded[k]
    BY <1>1, <1>3, <1>4 DEF LibInv, LibTypeOK, FilesOK
  <2>2. \A k \in Lib : recorded'[k] <= release /\ (recorded'[k] = release => content[k] = release)
    BY <1>2, <1>3, <1>4 DEF LibInv, FilesOK
  <2> QED
    BY <1>1, <2>1, <2>2 DEF LibInv, FilesOK
<1>9. LibTypeOK'
  BY <1>1, <1>3 DEF LibInv, LibTypeOK
<1> QED
  BY <1>1, <1>7, <1>8, <1>9 DEF LibInv

LEMMA FirstLoadKeeps ==
  ASSUME LibInv, FirstLoad
  PROVE  LibInv'
<1>1. /\ calls # <<>> /\ Top.op = "load" /\ Top.step = "enter" /\ calls' = Goes("deps")
      /\ Top.lib \in libs /\ refcount[Top.lib] = 0
      /\ UNCHANGED <<libs, refcount, object, user, release, recorded, content, failures, crashes>>
  BY DEF FirstLoad, In, files, counters
<1>2. Top.lib \in Lib
  BY <1>1, TheStack DEF LibInv
<1>3. ~object[Top.lib]
  BY <1>1, <1>2 DEF LibInv, CountsOK, LibCountOK
<1>5. ASSUME NEW f \in LibFrame, f.op = Top.op, f.lib = Top.lib, f.step = "deps"
      PROVE  CallOK(f, libs, object, content', recorded', release)
  BY <1>1, <1>3, <1>5 DEF CallOK
<1>7. /\ StackOK(calls') /\ CallerOK'
      /\ CountsOK(calls', object, user, refcount, failures)
      /\ CallsOK(calls', libs, object, content', recorded', release)
  BY <1>1, <1>5, GoesKeeps
<1>8. LibTypeOK' /\ FilesOK'
  BY <1>1 DEF LibInv, LibTypeOK, FilesOK
<1> QED
  BY <1>1, <1>7, <1>8 DEF LibInv

LEMMA PreparedKeeps ==
  ASSUME LibInv, Prepared
  PROVE  LibInv'
<1> DEFINE n == Len(calls)
           l == Top.lib
<1>1. /\ calls # <<>> /\ Top.op = "init" /\ (Top.step = "deps" \/ l \in libs)
      /\ libs' = libs \cup {l} /\ calls' = Below
      /\ UNCHANGED <<refcount, object, user, release, recorded, content, failures, crashes>>
  BY DEF Prepared, In, files, counters
<1>2. StackOK(calls) /\ CallerOK /\ CountsOK(calls, object, user, refcount, failures)
      /\ CallsOK(calls, libs, object, content, recorded, release)
  BY DEF LibInv
<1>3. /\ n \in Nat \ {0} /\ l \in Lib /\ Below \in Seq(LibFrame) /\ Len(Below) = n - 1
      /\ \A i \in 1..Len(Below) : Below[i] = calls[i]
      /\ StackOK(Below) /\ (Below # <<>> => Below[1] = calls[1]) /\ calls[n] = Top
  BY <1>1, <1>2, TheStack DEF Top
<1>4. Below # <<>> /\ SameRefs(calls, object, user, Below, object, user)
  BY <1>1, <1>2, <1>3, PreparationReturns
<1>5. CountsOK(Below, object, user, refcount, failures)
  BY <1>2, <1>4, CountsSame
<1>6. CallsOK(Below, libs \cup {l}, object, content, recorded, release)
  <2>1. \A j \in 1..Len(Below) : j \in 1..(n - 1)
    BY <1>3
  <2>2. \A k \in Lib : k # calls[n].lib => (k \in libs \cup {l} <=> k \in libs)
    BY <1>3
  <2> QED
    BY <1>1, <1>2, <1>3, <2>1, <2>2, CallsKept
<1>7. CallerOK'
  BY <1>1, <1>2, <1>3, <1>4, CallerStays
<1>8. FilesOK'
  <2>1. content[l] = recorded[l]
    <3>1. CASE Top.step = "deps"
      <4>1. CallOK(Top, libs, object, content, recorded, release)
        BY <1>1, <1>2, <1>3, TopOf DEF CallsOK
      <4> QED
        BY <1>1, <3>1, <4>1 DEF CallOK
    <3>2. CASE l \in libs
      BY <3>2 DEF LibInv, FilesOK
    <3> QED
      BY <1>1, <3>1, <3>2
  <2> QED
    BY <1>1, <2>1 DEF LibInv, FilesOK
<1>9. LibTypeOK'
  BY <1>1, <1>3 DEF LibInv, LibTypeOK
<1> QED
  BY <1>1, <1>3, <1>5, <1>6, <1>7, <1>8, <1>9 DEF LibInv

\* What is left to show when a call of load_lib or unload_lib returns.
LEMMA ReturnKeeps ==
  ASSUME LibInv, calls # <<>>, Top.op # "init", calls' = Below,
         \A l \in Lib : l # Top.lib => object'[l] = object[l] /\ (l \in libs' <=> l \in libs),
         UNCHANGED <<content, recorded, release>>, LibTypeOK', FilesOK', CallerOK',
         CountsOK(Below, object', user', refcount', failures')
  PROVE  LibInv'
<1> DEFINE n == Len(calls)
<1>2. StackOK(calls) /\ CallsOK(calls, libs, object, content, recorded, release)
  BY DEF LibInv
<1>3. /\ n \in Nat \ {0} /\ Len(Below) = n - 1 /\ \A i \in 1..Len(Below) : Below[i] = calls[i]
      /\ StackOK(Below) /\ calls[n] = Top
  BY <1>2, TheStack DEF Top
<1>4. CallsOK(Below, libs', object', content, recorded, release)
  <2>1. \A j \in 1..Len(Below) : j \in 1..(n - 1)
    BY <1>3
  <2> QED
    BY <1>2, <1>3, <2>1, CallsKept
<1> QED
  BY <1>3, <1>4 DEF LibInv

LEMMA TheLoadReturns ==
  ASSUME LibInv, calls # <<>>, Top.op = "load", NEW p \in [Lib -> BOOLEAN],
         \/ Top.step = "enter" /\ p = object /\ object[Top.lib]
         \/ Top.step = "deps" /\ Top.left = <<>> /\ p = [object EXCEPT ![Top.lib] = TRUE],
         calls' = Below, Returns(Below, FALSE)
  PROVE  /\ CallerOK' /\ user' \in [Users -> {"none", "loading", "holds", "unloading"}]
         /\ CountsOK(Below, p, user', [refcount EXCEPT ![Top.lib] = refcount[Top.lib] + 1], failures)
<1> DEFINE n == Len(calls)
<1>1. StackOK(calls) /\ CallerOK /\ LibTypeOK
      /\ CountsOK(calls, object, user, refcount, failures)
      /\ CallsOK(calls, libs, object, content, recorded, release)
  BY DEF LibInv
<1>2. /\ n \in Nat \ {0} /\ Top.lib \in Lib /\ Below \in Seq(LibFrame) /\ Len(Below) = n - 1
      /\ \A i \in 1..Len(Below) : Below[i] = calls[i]
      /\ (Top.left = <<>> => Pos(Top) = Len(Deps[Top.lib])) /\ calls[n] = Top
  BY <1>1, TheStack DEF Top
<1>3. PICK u \in Users : CalledBy(calls, user, u)
  BY <1>1, TheCaller
<1>4. /\ CallerOK' /\ user' \in [Users -> {"none", "loading", "holds", "unloading"}]
      /\ IF Below = <<>> THEN user'[u] = "holds" /\ \A v \in Users : v # u => user'[v] = user[v]
         ELSE \A v \in Users : user'[v] = user[v]
  BY <1>1, <1>3, CallReturns
<1>5. object \in [Lib -> BOOLEAN] /\ refcount \in [Lib -> Nat] /\ NotLoaded(calls, object)
  BY <1>1, NotLoadedNow DEF LibTypeOK
<1> DEFINE q == RefOf(calls, u)
<1>6. OneMore(AllRefs(calls, object, user), AllRefs(Below, p, user'), q)
  <2>1. \/ calls[n].step = "enter" /\ p = object
        \/ /\ calls[n].step = "deps" /\ Pos(calls[n]) = Len(Deps[calls[n].lib])
           /\ p = [object EXCEPT ![calls[n].lib] = TRUE]
    BY <1>2
  <2>2. calls[n].op = "load"
    BY <1>2
  <2> HIDE DEF n
  <2> QED
    BY <1>1, <1>2, <1>3, <1>4, <1>5, <2>1, <2>2, LoadReturns DEF n
<1>7. Target(q) = Top.lib
  BY <1>1, <1>2, <1>3, RefIs
<1>8. p[Top.lib] /\ \A l \in Lib : l # Top.lib => p[l] = object[l]
  BY <1>2, <1>5
<1>9. CountsOK(Below, p, user', [refcount EXCEPT ![Top.lib] = refcount[Top.lib] + 1], failures)
  <2> HIDE DEF q
  <2> QED
    BY <1>1, <1>2, <1>5, <1>6, <1>7, <1>8, CountsUp
<1> QED
  BY <1>4, <1>9

LEMMA AddReferenceKeeps ==
  ASSUME LibInv, AddReference
  PROVE  LibInv'
<1> DEFINE l == Top.lib
<1>1. /\ calls # <<>> /\ Top.op = "load" /\ Top.step = "enter" /\ refcount[l] > 0
      /\ refcount' = [refcount EXCEPT ![l] = refcount[l] + 1]
      /\ calls' = Below /\ Returns(Below, FALSE)
      /\ UNCHANGED <<libs, object, release, recorded, content, failures, crashes>>
  BY DEF AddReference, In, files, counters
<1>2. l \in Lib /\ refcount \in [Lib -> Nat] /\ object \in [Lib -> BOOLEAN]
  BY <1>1, TheStack DEF LibInv, LibTypeOK
<1>3. object[l]
  BY <1>1, <1>2 DEF LibInv, CountsOK, LibCountOK
<1>4. /\ CallerOK' /\ user' \in [Users -> {"none", "loading", "holds", "unloading"}]
      /\ CountsOK(Below, object', user', refcount', failures')
  BY <1>1, <1>2, <1>3, TheLoadReturns
<1>5. LibTypeOK'
  <2>1. refcount' \in [Lib -> Nat]
    BY <1>1, <1>2
  <2> QED
    BY <1>1, <1>4, <2>1 DEF LibInv, LibTypeOK
<1>6. FilesOK'
  BY <1>1 DEF LibInv, FilesOK
<1>7. Top.op # "init"
  BY <1>1
<1>8. \A k \in Lib : k # Top.lib => object'[k] = object[k] /\ (k \in libs' <=> k \in libs)
  BY <1>1
<1> QED
  BY <1>1, <1>4, <1>5, <1>6, <1>7, <1>8, ReturnKeeps

LEMMA LoadObjectKeeps ==
  ASSUME LibInv, LoadObject
  PROVE  LibInv'
<1> DEFINE l == Top.lib
<1>1. /\ calls # <<>> /\ Top.op = "load" /\ Top.step = "deps" /\ Top.left = <<>>
      /\ object' = [object EXCEPT ![l] = TRUE]
      /\ refcount' = [refcount EXCEPT ![l] = refcount[l] + 1]
      /\ calls' = Below /\ Returns(Below, FALSE)
      /\ UNCHANGED <<libs, release, recorded, content, failures, crashes>>
  BY DEF LoadObject, In, files, counters
<1>2. l \in Lib /\ refcount \in [Lib -> Nat] /\ object \in [Lib -> BOOLEAN]
  BY <1>1, TheStack DEF LibInv, LibTypeOK
<1>3. object' \in [Lib -> BOOLEAN] /\ \A k \in Lib : k # l => object'[k] = object[k]
  BY <1>1, <1>2
<1>4. /\ CallerOK' /\ user' \in [Users -> {"none", "loading", "holds", "unloading"}]
      /\ CountsOK(Below, object', user', refcount', failures')
  BY <1>1, <1>2, <1>3, TheLoadReturns
<1>5. LibTypeOK'
  <2>1. refcount' \in [Lib -> Nat]
    BY <1>1, <1>2
  <2> QED
    BY <1>1, <1>3, <1>4, <2>1 DEF LibInv, LibTypeOK
<1>6. FilesOK'
  <2>1. CallOK(Top, libs, object, content, recorded, release)
    BY <1>1, TopOf DEF LibInv, CallsOK, Top
  <2>2. l \in libs
    BY <1>1, <2>1 DEF CallOK
  <2> QED
    BY <1>1, <1>3, <2>2 DEF LibInv, FilesOK
<1>7. Top.op # "init"
  BY <1>1
<1>8. \A k \in Lib : k # Top.lib => object'[k] = object[k] /\ (k \in libs' <=> k \in libs)
  BY <1>1, <1>3
<1> QED
  BY <1>1, <1>4, <1>5, <1>6, <1>7, <1>8, ReturnKeeps

\* What unload_lib takes from the count.
LEMMA TheUnloadBegins ==
  ASSUME LibInv, calls # <<>>, Top.op = "unload", Top.step = "enter",
         NEW d \in Seq(LibFrame), \A i \in 1..(Len(calls) - 1) : d[i] = calls[i],
         NEW p \in [Lib -> BOOLEAN], NEW u \in Users, CalledBy(calls, user, u), NEW t,
         \/ /\ Len(d) = Len(calls) - 1 /\ p = object /\ refcount[Top.lib] # 1
            /\ IF d = <<>> THEN t[u] = "none" /\ \A v \in Users : v # u => t[v] = user[v]
               ELSE \A v \in Users : t[v] = user[v]
         \/ /\ Len(d) = Len(calls) /\ d[Len(calls)].op = "unload"
            /\ d[Len(calls)].step = "deps" /\ d[Len(calls)].lib = Top.lib
            /\ Pos(d[Len(calls)]) = 0 /\ refcount[Top.lib] = 1
            /\ p = [object EXCEPT ![Top.lib] = FALSE] /\ \A v \in Users : t[v] = user[v]
  PROVE  /\ [refcount EXCEPT ![Top.lib] = refcount[Top.lib] - 1] \in [Lib -> Nat]
         /\ CountsOK(d, p, t, [refcount EXCEPT ![Top.lib] = refcount[Top.lib] - 1], failures)
<1> DEFINE n == Len(calls)
           q == RefOf(calls, u)
<1>1. StackOK(calls) /\ CallerOK /\ LibTypeOK
      /\ CountsOK(calls, object, user, refcount, failures)
      /\ CallsOK(calls, libs, object, content, recorded, release)
  BY DEF LibInv
<1>2. n \in Nat \ {0} /\ Top.lib \in Lib /\ calls[n] = Top
  BY <1>1, TheStack DEF Top
<1>3. object \in [Lib -> BOOLEAN] /\ refcount \in [Lib -> Nat] /\ NotLoaded(calls, object)
  BY <1>1, NotLoadedNow DEF LibTypeOK
<1>4. refcount[Top.lib] = 1 => object[Top.lib]
  BY <1>1, <1>2 DEF CountsOK, LibCountOK
<1>5. OneMore(AllRefs(d, p, t), AllRefs(calls, object, user), q)
  <2>1. calls[n].op = "unload" /\ calls[n].step = "enter"
    BY <1>2
  <2>2. \/ /\ Len(d) = n - 1 /\ p = object
           /\ IF d = <<>> THEN t[u] = "none" /\ \A v \in Users : v # u => t[v] = user[v]
              ELSE \A v \in Users : t[v] = user[v]
        \/ /\ Len(d) = n /\ d[n].op = "unload" /\ d[n].step = "deps"
           /\ d[n].lib = calls[n].lib /\ Pos(d[n]) = 0
           /\ object[calls[n].lib] /\ p = [object EXCEPT ![calls[n].lib] = FALSE]
           /\ \A v \in Users : t[v] = user[v]
    BY <1>2, <1>4
  <2> HIDE DEF q
  <2> QED
    BY <1>1, <1>3, <2>1, <2>2, UnloadBegins DEF q
<1>6. Target(q) = Top.lib
  BY <1>1, <1>2, RefIs
<1>7. (p[Top.lib] <=> refcount[Top.lib] # 1) /\ \A l \in Lib : l # Top.lib => p[l] = object[l]
  <2>1. CASE p = object /\ refcount[Top.lib] # 1
    <3>1. object[Top.lib] <=> refcount[Top.lib] > 0
      BY <1>1, <1>2 DEF CountsOK, LibCountOK
    <3>2. q \in Refs(calls, object, user, Top.lib)
      BY <1>2, <1>5, <1>6 DEF OneMore, AllRefs
    <3>3. IsFiniteSet(Refs(calls, object, user, Top.lib))
          /\ Cardinality(Refs(calls, object, user, Top.lib)) <= refcount[Top.lib]
      BY <1>1, <1>2 DEF CountsOK, LibCountOK
    <3> DEFINE R == Refs(calls, object, user, Top.lib)
    <3> HIDE DEF R, q
    <3>4. q \in R /\ IsFiniteSet(R) /\ Cardinality(R) <= refcount[Top.lib]
      BY <3>2, <3>3 DEF R
    <3>5. Cardinality(R) \in Nat /\ Cardinality(R) # 0
      BY <3>4, FS_CardinalityType, FS_EmptySet
    <3>6. refcount[Top.lib] > 0
      BY <1>2, <1>3, <3>4, <3>5
    <3> QED
      BY <2>1, <3>1, <3>6
  <2>2. CASE p = [object EXCEPT ![Top.lib] = FALSE] /\ refcount[Top.lib] = 1
    BY <1>2, <1>3, <2>2
  <2> QED
    BY <2>1, <2>2
<1> HIDE DEF q
<1> QED
  BY <1>1, <1>2, <1>3, <1>5, <1>6, <1>7, CountsDown

LEMMA RemoveReferenceKeeps ==
  ASSUME LibInv, RemoveReference
  PROVE  LibInv'
<1> DEFINE n == Len(calls)
           l == Top.lib
           g == [Top EXCEPT !.step = "deps"]
<1>1. /\ calls # <<>> /\ Top.op = "unload" /\ Top.step = "enter" /\ Top.op # "init"
      /\ refcount' = [refcount EXCEPT ![l] = refcount[l] - 1]
      /\ UNCHANGED <<libs, release, recorded, content, failures, crashes>>
  BY DEF RemoveReference, In, files, counters
<1>2. \/ /\ refcount[l] = 1 /\ object' = [object EXCEPT ![l] = FALSE]
         /\ calls' = Append(Below, g) /\ user' = user
      \/ refcount[l] # 1 /\ object' = object /\ calls' = Below /\ Returns(Below, FALSE)
  BY DEF RemoveReference, Goes
<1>3. StackOK(calls) /\ CallerOK /\ LibTypeOK /\ object \in [Lib -> BOOLEAN]
      /\ CallsOK(calls, libs, object, content, recorded, release)
  BY DEF LibInv, LibTypeOK
<1>4. /\ n \in Nat \ {0} /\ l \in Lib /\ Below \in Seq(LibFrame) /\ Len(Below) = n - 1
      /\ \A i \in 1..Len(Below) : Below[i] = calls[i]
      /\ Top \in LibFrame /\ FrameOK(Top) /\ calls[n] = Top
  BY <1>1, <1>3, TheStack DEF Top
<1>5. PICK u \in Users : CalledBy(calls, user, u)
  BY <1>1, <1>3, TheCaller
<1>6. CASE refcount[l] # 1 /\ object' = object /\ calls' = Below /\ Returns(Below, FALSE)
  <2>1. /\ CallerOK' /\ user' \in [Users -> {"none", "loading", "holds", "unloading"}]
        /\ IF Below = <<>> THEN user'[u] = "none" /\ \A v \in Users : v # u => user'[v] = user[v]
           ELSE \A v \in Users : user'[v] = user[v]
    BY <1>1, <1>3, <1>5, <1>6, CallReturns
  <2>2. refcount' \in [Lib -> Nat] /\ CountsOK(Below, object', user', refcount', failures')
    <3>1. \A i \in 1..(n - 1) : Below[i] = calls[i]
      BY <1>4
    <3>2. /\ Len(Below) = n - 1 /\ object = object /\ refcount[l] # 1
          /\ IF Below = <<>> THEN user'[u] = "none" /\ \A v \in Users : v # u => user'[v] = user[v]
             ELSE \A v \in Users : user'[v] = user[v]
      BY <1>4, <1>6, <2>1
    <3>3. /\ [refcount EXCEPT ![l] = refcount[l] - 1] \in [Lib -> Nat]
          /\ CountsOK(Below, object, user', [refcount EXCEPT ![l] = refcount[l] - 1], failures)
      BY <1>1, <1>3, <1>4, <1>5, <3>1, <3>2, TheUnloadBegins
    <3> QED
      BY <1>1, <1>6, <3>3
  <2>3. LibTypeOK' /\ FilesOK'
    BY <1>1, <1>6, <2>1, <2>2 DEF LibInv, LibTypeOK, FilesOK
  <2>4. \A k \in Lib : k # Top.lib => object'[k] = object[k] /\ (k \in libs' <=> k \in libs)
    BY <1>1, <1>6
  <2> QED
    BY <1>1, <1>6, <2>1, <2>2, <2>3, <2>4, ReturnKeeps
<1>7. CASE /\ refcount[l] = 1 /\ object' = [object EXCEPT ![l] = FALSE]
           /\ calls' = Append(Below, g) /\ user' = user
  <2>0. Pos(Top) = 0
    BY <1>1, <1>4 DEF FrameOK
  <2>1. /\ g \in LibFrame /\ FrameOK(g) /\ g.op = Top.op /\ g.lib = l /\ g.step = "deps"
        /\ Pos(g) = Pos(Top)
    BY <1>1, <1>4, <2>0, StepFrame
  <2> HIDE DEF g
  <2>2. /\ calls' \in Seq(LibFrame) /\ Len(calls') = n /\ calls' # <<>>
        /\ \A i \in 1..(n - 1) : calls'[i] = calls[i]
        /\ calls'[n] = g /\ calls'[1].op = calls[1].op /\ calls'[1].lib = calls[1].lib
    BY <1>1, <1>3, <1>7, <2>1, NewTop
  <2>3. StackOK(calls')
    BY <1>1, <1>3, <1>4, <2>1, <2>2, Stepped
  <2>4. CallerOK'
    BY <1>1, <1>3, <1>7, <2>2, CallerStays
  <2>5. object' \in [Lib -> BOOLEAN] /\ ~object'[l] /\ \A k \in Lib : k # l => object'[k] = object[k]
    BY <1>3, <1>4, <1>7
  <2>6. refcount' \in [Lib -> Nat] /\ CountsOK(calls', object', user', refcount', failures')
    BY <1>1, <1>5, <1>7, <2>0, <2>1, <2>2, <2>5, TheUnloadBegins
  <2>7. CallsOK(calls', libs', object', content', recorded', release')
    <3>1. CallOK(g, libs, object', content, recorded, release)
      BY <1>1, <2>1, <2>5 DEF CallOK
    <3>2. \A j \in 1..Len(calls') : j \notin 1..(n - 1) => j = n
      BY <1>4, <2>2
    <3>3. \A j \in 1..Len(calls') : j \notin 1..(n - 1) =>
             CallOK(calls'[j], libs, object', content, recorded, release)
      BY <2>2, <3>1, <3>2
    <3>4. \A k \in Lib : k # calls[n].lib => object'[k] = object[k]
      BY <1>4, <2>5
    <3>5. CallsOK(calls', libs, object', content, recorded, release)
      BY <1>1, <1>3, <2>2, <3>3, <3>4, CallsKept
    <3> QED
      BY <1>1, <3>5
  <2>8. LibTypeOK' /\ FilesOK'
    BY <1>1, <1>7, <2>5, <2>6 DEF LibInv, LibTypeOK, FilesOK
  <2> QED
    BY <2>3, <2>4, <2>6, <2>7, <2>8 DEF LibInv
<1> QED
  BY <1>2, <1>6, <1>7

LEMMA UnloadedKeeps ==
  ASSUME LibInv, Unloaded
  PROVE  LibInv'
<1> DEFINE n == Len(calls)
           l == Top.lib
<1>1. /\ calls # <<>> /\ Top.op = "unload" /\ Top.step = "deps" /\ Top.left = <<>>
      /\ libs' = libs \ {l} /\ calls' = Below /\ Returns(Below, FALSE) /\ Top.op # "init"
      /\ UNCHANGED <<refcount, object, release, recorded, content, failures, crashes>>
  BY DEF Unloaded, In, files, counters
<1>2. StackOK(calls) /\ CallerOK /\ LibTypeOK
      /\ CountsOK(calls, object, user, refcount, failures)
      /\ CallsOK(calls, libs, object, content, recorded, release)
  BY DEF LibInv
<1>3. /\ n \in Nat \ {0} /\ l \in Lib /\ Below \in Seq(LibFrame) /\ Len(Below) = n - 1
      /\ \A i \in 1..Len(Below) : Below[i] = calls[i]
      /\ Pos(Top) = Len(Deps[Top.lib]) /\ calls[n] = Top
  BY <1>1, <1>2, TheStack DEF Top
<1>4. PICK u \in Users : CalledBy(calls, user, u)
  BY <1>1, <1>2, TheCaller
<1>5. /\ CallerOK' /\ user' \in [Users -> {"none", "loading", "holds", "unloading"}]
      /\ IF Below = <<>> THEN user'[u] = "none" /\ \A v \in Users : v # u => user'[v] = user[v]
         ELSE \A v \in Users : user'[v] = user[v]
  BY <1>1, <1>2, <1>4, CallReturns
<1>6. SameRefs(calls, object, user, Below, object, user')
  <2>1. calls[n].op = "unload" /\ calls[n].step = "deps" /\ Pos(calls[n]) = Len(Deps[calls[n].lib])
    BY <1>1, <1>3
  <2> QED
    BY <1>1, <1>2, <1>3, <1>4, <1>5, <2>1, UnloadReturns
<1>7. CountsOK(Below, object', user', refcount', failures')
  BY <1>1, <1>2, <1>6, CountsSame
<1>8. ~object[l]
  <2>1. CallOK(Top, libs, object, content, recorded, release)
    BY <1>1, <1>2, TopOf DEF CallsOK, Top
  <2> QED
    BY <1>1, <2>1 DEF CallOK
<1>9. LibTypeOK' /\ FilesOK'
  BY <1>1, <1>5, <1>8 DEF LibInv, LibTypeOK, FilesOK
<1>10. \A k \in Lib : k # Top.lib => object'[k] = object[k] /\ (k \in libs' <=> k \in libs)
  BY <1>1
<1> QED
  BY <1>1, <1>5, <1>7, <1>9, <1>10, ReturnKeeps

LEMMA DependencyKeeps ==
  ASSUME LibInv, Dependency
  PROVE  LibInv'
<1> DEFINE n == Len(calls)
           g == [Top EXCEPT !.left = Tail(Top.left)]
           h == LibCall(Top.op, Head(Top.left))
           c == Append(Below, g)
<1>1. /\ calls # <<>> /\ Top.step = "deps" /\ Top.left # <<>>
      /\ UNCHANGED <<libs, refcount, object, user, release, recorded, content, failures, crashes>>
  BY DEF Dependency, files, counters
<1>a. calls' = Append(c, h)
  BY DEF Dependency
<1>2. StackOK(calls) /\ CallerOK /\ CountsOK(calls, object, user, refcount, failures)
      /\ CallsOK(calls, libs, object, content, recorded, release)
  BY DEF LibInv
<1>3. /\ n \in Nat \ {0} /\ Top.lib \in Lib /\ Top \in LibFrame /\ FrameOK(Top)
      /\ Top.op \in {"load", "unload", "init"} /\ calls[n] = Top
  BY <1>1, <1>2, TheStack DEF Top
<1>4. /\ g \in LibFrame /\ FrameOK(g) /\ g.op = Top.op /\ g.lib = Top.lib /\ g.step = "deps"
      /\ Pos(g) = Pos(Top) + 1 /\ Pos(g) \in 1..Len(Deps[Top.lib])
      /\ Head(Top.left) = Deps[Top.lib][Pos(g)]
  BY <1>1, <1>3, NextFrame
<1>5. Head(Top.left) \in Lib
  BY <1>3, <1>4, DepsAre
<1>6. /\ h \in LibFrame /\ FrameOK(h) /\ h.op = Top.op /\ h.lib = Deps[Top.lib][Pos(g)]
      /\ h.step = "enter"
  BY <1>3, <1>4, <1>5, NewFrame
<1> HIDE DEF g, h
<1>7. /\ c \in Seq(LibFrame) /\ Len(c) = n /\ c # <<>>
      /\ \A i \in 1..(n - 1) : c[i] = calls[i]
      /\ c[n] = g /\ c[1].op = calls[1].op /\ c[1].lib = calls[1].lib
  BY <1>1, <1>2, <1>4, NewTop
<1> HIDE DEF c
<1>8. StackOK(c)
  BY <1>1, <1>2, <1>3, <1>4, <1>7, Stepped
<1>9. /\ calls' \in Seq(LibFrame) /\ Len(calls') = n + 1 /\ calls' # <<>>
      /\ \A i \in 1..n : calls'[i] = c[i]
      /\ calls'[n + 1] = h
  BY <1>a, <1>6, <1>7, OnTop
<1>10. /\ \A i \in 1..(n - 1) : calls'[i] = calls[i]
       /\ calls'[n] = g /\ calls'[1] = c[1]
  <2>1. n \in 1..n /\ 1 \in 1..n /\ \A i \in 1..(n - 1) : i \in 1..n
    BY <1>3
  <2> QED
    BY <1>7, <1>9, <2>1
<1>11. StackOK(calls')
  <2>1. Calls(c[Len(c)], calls'[Len(c) + 1])
    BY <1>4, <1>6, <1>7, <1>9 DEF Calls
  <2> QED
    BY <1>6, <1>7, <1>8, <1>9, <2>1, Pushed
<1>12. CountsOK(calls', object, user, refcount, failures)
  <2>1. SameRefs(calls, object, user, calls', object, user)
    BY <1>1, <1>2, <1>3, <1>4, <1>6, <1>9, <1>10, Depends
  <2> QED
    BY <1>2, <2>1, CountsSame
<1>13. CallsOK(calls', libs, object, content, recorded, release)
  <2>1. CallOK(Top, libs, object, content, recorded, release)
    BY <1>1, <1>2, <1>3, TopOf DEF CallsOK
  <2>2. CallOK(g, libs, object, content, recorded, release)
    BY <1>1, <1>4, <2>1 DEF CallOK
  <2>3. CallOK(h, libs, object, content, recorded, release)
    BY <1>6 DEF CallOK
  <2>4. \A j \in 1..Len(calls') : j \notin 1..(n - 1) => j = n \/ j = n + 1
    BY <1>3, <1>9
  <2>5. \A j \in 1..Len(calls') : j \notin 1..(n - 1) =>
           CallOK(calls'[j], libs, object, content, recorded, release)
    BY <1>9, <1>10, <2>2, <2>3, <2>4
  <2> QED
    BY <1>1, <1>2, <1>10, <2>5, CallsKept
<1>14. CallerOK'
  BY <1>1, <1>2, <1>7, <1>9, <1>10, CallerStays
<1>15. LibTypeOK' /\ FilesOK'
  BY <1>1 DEF LibInv, LibTypeOK, FilesOK
<1> QED
  BY <1>1, <1>11, <1>12, <1>13, <1>14, <1>15 DEF LibInv

LEMMA NoCalls ==
  ASSUME NEW c, c = <<>>
  PROVE  StackOK(c) /\ \A L, o, n, m, rel : CallsOK(c, L, o, n, m, rel)
<1>1. Len(c) = 0 /\ c \in Seq(LibFrame) /\ \A j : j \notin 1..0
  BY EmptySeq
<1> QED
  BY <1>1 DEF StackOK, CallsOK

LEMMA LoadObjectFailsKeeps ==
  ASSUME LibInv, LoadObjectFails
  PROVE  LibInv'
<1>1. /\ failures' = failures + 1 /\ calls' = <<>> /\ Returns(<<>>, TRUE)
      /\ UNCHANGED <<libs, refcount, object, release, recorded, content, crashes>>
  BY DEF LoadObjectFails, files
<1>2. LibTypeOK /\ CountsOK(calls, object, user, refcount, failures)
  BY DEF LibInv
<1>3. user' = [u \in Users |-> CASE user[u] = "loading" /\ ~TRUE -> "holds"
                                 [] user[u] = "loading" /\ TRUE -> "none"
                                 [] user[u] = "unloading" -> "none"
                                 [] OTHER -> user[u]]
  BY <1>1 DEF Returns
<1>4. \A u \in Users : user'[u] \in {"none", "holds"} /\ (user'[u] = "holds" => user[u] = "holds")
  BY <1>2, <1>3 DEF LibTypeOK
<1>5. user' \in [Users -> {"none", "loading", "holds", "unloading"}]
  BY <1>3, <1>4
<1>6. FewerRefs(calls, object, user, calls', object, user')
  BY <1>1, <1>4, NoneMore
<1>7. failures' # 0 /\ failures' \in Nat /\ refcount \in [Lib -> Nat]
  BY <1>1, <1>2 DEF LibTypeOK
<1>8. CountsOK(calls', object, user', refcount, failures')
  BY <1>2, <1>6, <1>7, CountsFewer
<1>9. StackOK(calls') /\ CallsOK(calls', libs, object, content, recorded, release)
  BY <1>1, NoCalls
<1>10. CallerOK'
  BY <1>1, <1>4 DEF CallerOK, Waiting
<1>11. LibTypeOK' /\ FilesOK'
  BY <1>1, <1>2, <1>5, <1>7 DEF LibInv, LibTypeOK, FilesOK
<1> QED
  BY <1>1, <1>8, <1>9, <1>10, <1>11 DEF LibInv

LEMMA ProcessRestartsKeeps ==
  ASSUME LibInv, ProcessRestarts
  PROVE  LibInv'
<1>1. /\ crashes' = crashes + 1 /\ libs' = {} /\ refcount' = [l \in Lib |-> 0]
      /\ object' = [l \in Lib |-> FALSE] /\ calls' = <<>> /\ user' = [u \in Users |-> "none"]
      /\ (release' = release \/ release' = release + 1)
      /\ UNCHANGED <<recorded, content, failures>>
  BY DEF ProcessRestarts
<1>2. LibTypeOK /\ FilesOK
  BY DEF LibInv
<1>3. NoRefs(calls', object', user')
  BY <1>1, NoneLeft
<1>4. CountsOK(calls', object', user', refcount', failures')
  <2>1. \A l \in Lib : ~object'[l] /\ refcount'[l] = 0
    BY <1>1
  <2> QED
    BY <1>3, <2>1, CountsNone
<1>5. StackOK(calls') /\ CallsOK(calls', libs', object', content', recorded', release')
  BY <1>1, NoCalls
<1>6. CallerOK'
  BY <1>1 DEF CallerOK, Waiting
<1>7. LibTypeOK'
  BY <1>1, <1>2 DEF LibTypeOK
<1>8. FilesOK'
  <2>1. release \in Nat /\ \A l \in Lib : recorded[l] \in Nat
    BY <1>2 DEF LibTypeOK
  <2>2. \A l \in Lib : recorded[l] <= release' /\ (recorded[l] = release' => content[l] = release')
    BY <1>1, <1>2, <2>1 DEF FilesOK
  <2>3. \A l \in Lib : ~object'[l]
    BY <1>1
  <2> QED
    BY <1>1, <2>2, <2>3 DEF FilesOK
<1> QED
  BY <1>4, <1>5, <1>6, <1>7, <1>8 DEF LibInv

LEMMA LibInvStarts == LibInit => LibInv
<1> SUFFICES ASSUME LibInit PROVE LibInv
  OBVIOUS
<1>1. NoRefs(calls, object, user)
  BY NoneLeft DEF LibInit
<1>2. CountsOK(calls, object, user, refcount, failures)
  BY <1>1, CountsNone DEF LibInit
<1>3. StackOK(calls) /\ CallsOK(calls, libs, object, content, recorded, release)
  BY NoCalls DEF LibInit
<1>4. CallerOK /\ LibTypeOK /\ FilesOK
  BY DEF LibInit, CallerOK, Waiting, LibTypeOK, FilesOK
<1> QED
  BY <1>2, <1>3, <1>4 DEF LibInv

LEMMA LibInvStays ==
  ASSUME LibInv, [LibNext]_libVars
  PROVE  LibInv'
<1>1. ASSUME NEW u \in Users, Loads(u) PROVE LibInv'
  <2>1. /\ calls = <<>> /\ user[u] = "none" /\ user' = [user EXCEPT ![u] = "loading"]
        /\ calls' = <<LibCall("load", Needs[u])>>
        /\ UNCHANGED <<libs, refcount, object, files, counters>>
    BY <1>1 DEF Loads
  <2> QED
    BY <2>1, AppCallKeeps
<1>2. ASSUME NEW u \in Users, Unloads(u) PROVE LibInv'
  <2>1. /\ calls = <<>> /\ user[u] = "holds" /\ user' = [user EXCEPT ![u] = "unloading"]
        /\ calls' = <<LibCall("unload", Needs[u])>>
        /\ UNCHANGED <<libs, refcount, object, files, counters>>
    BY <1>2 DEF Unloads
  <2> QED
    BY <2>1, AppCallKeeps
<1>3. CASE UNCHANGED libVars
  <2>1. UNCHANGED <<libs, refcount, object, calls, user, release, recorded, content, failures, crashes>>
    BY <1>3 DEF libVars, files, counters
  <2> QED
    BY <2>1 DEF LibInv, LibTypeOK, CallerOK, Waiting, FilesOK
<1> QED
  BY <1>1, <1>2, <1>3, PrepareFirstKeeps, InitLibKeeps, UnzippedKeeps, SetAgentVersionKeeps,
     PreparedKeeps, AddReferenceKeeps, FirstLoadKeeps, DependencyKeeps, LoadObjectKeeps,
     LoadObjectFailsKeeps, RemoveReferenceKeeps, UnloadedKeeps, ProcessRestartsKeeps DEF LibNext

\* Between calls every reference is that of an app or of a library that is loaded.
LEMMA CountedIsUsed == LibInv => LoadedWhenUsed
<1> SUFFICES ASSUME LibInv PROVE LoadedWhenUsed
  OBVIOUS
<1>1. LibTypeOK /\ FilesOK /\ CountsOK(calls, object, user, refcount, failures)
  BY DEF LibInv
<1>2. LoadsWholeFiles
  BY <1>1 DEF FilesOK, LoadsWholeFiles
<1>3. ASSUME calls = <<>>, NEW l \in Lib
      PROVE  (Used(l) => object[l]) /\ (failures = 0 /\ object[l] => Used(l))
  <2> DEFINE R == Refs(calls, object, user, l)
  <2>1. /\ IsFiniteSet(R) /\ Cardinality(R) <= refcount[l] /\ (object[l] <=> refcount[l] > 0)
        /\ failures = 0 => Cardinality(R) = refcount[l]
    BY <1>1 DEF CountsOK, LibCountOK
  <2>2. \A k, i : ~CountedBy(calls, k, i)
    <3>1. Len(calls) = 0 /\ \A m : m \notin 1..0
      BY <1>3
    <3> QED
      BY <3>1, Zenon DEF CountedBy, Among
  <2>3. \A x : HeldBy(calls, x) <=> x = "holds"
    BY <1>3 DEF HeldBy
  <2>4. Used(l) <=> R # {}
    <3>1. ASSUME NEW u \in Users, user[u] = "holds", Needs[u] = l PROVE <<u, 0>> \in R
      <4>1. RefHeld(calls, object, user, <<u, 0>>)
        BY <2>3, <3>1, CountedIs
      <4> QED
        BY <3>1, <4>1, ReferenceIs DEF Refs
    <3>2. ASSUME NEW k \in Lib, object[k], NEW i \in 1..Len(Deps[k]), Deps[k][i] = l
          PROVE  <<k, i>> \in R
      <4>1. RefHeld(calls, object, user, <<k, i>>)
        BY <3>2, CountedIs
      <4> QED
        BY <3>2, <4>1, ReferenceIs DEF Refs
    <3>3. ASSUME NEW u \in Users, <<u, 0>> \in R PROVE Used(l)
      <4>1. RefHeld(calls, object, user, <<u, 0>>) /\ Needs[u] = l
        BY <3>3, ReferenceIs DEF Refs
      <4>2. user[u] = "holds"
        BY <2>3, <4>1, CountedIs
      <4> QED
        BY <4>1, <4>2 DEF Used
    <3>4. ASSUME NEW k \in Lib, NEW i \in 1..Len(Deps[k]), <<k, i>> \in R PROVE Used(l)
      <4>1. RefHeld(calls, object, user, <<k, i>>) /\ Deps[k][i] = l
        BY <3>4, ReferenceIs DEF Refs
      <4>2. object[k]
        BY <2>2, <4>1, CountedIs
      <4>3. i \in DOMAIN Deps[k]
        BY DepsAre, LenProperties
      <4> QED
        BY <4>1, <4>2, <4>3 DEF Used, DepSet
    <3>5. R \subseteq References
      BY DEF Refs
    <3>6. ASSUME R # {} PROVE Used(l)
      <4>1. PICK r \in References : r \in R
        BY <3>5, <3>6
      <4> HIDE DEF R
      <4> QED
        BY <3>3, <3>4, <4>1, ReferenceIs
    <3>7. ASSUME Used(l) PROVE R # {}
      <4>1. \A k \in Lib : DOMAIN Deps[k] = 1..Len(Deps[k])
        BY DepsAre, LenProperties
      <4>2. \/ \E u \in Users : user[u] = "holds" /\ Needs[u] = l
            \/ \E k \in Lib : \E i \in 1..Len(Deps[k]) : object[k] /\ Deps[k][i] = l
        BY <3>7, <4>1 DEF Used, DepSet
      <4> HIDE DEF R
      <4> QED
        BY <3>1, <3>2, <4>2
    <3> QED
      BY <3>6, <3>7
  <2> HIDE DEF R
  <2>5. Cardinality(R) \in Nat /\ (Cardinality(R) = 0 <=> R = {}) /\ refcount[l] \in Nat
    BY <1>1, <2>1, FS_CardinalityType, FS_EmptySet DEF LibTypeOK
  <2> QED
    BY <2>1, <2>4, <2>5
<1> QED
  BY <1>2, <1>3 DEF LoadedWhenUsed, LoadedIfUsed

\* A library is loaded while an app, or a library that is loaded, uses it and, until a
\* load fails, no longer, whatever the libraries depend on; and it is loaded from files
\* of the version recorded for it, wherever the process stopped before.
THEOREM LibrariesAreLoaded == LibSpec => []LoadedWhenUsed
<1>1. LibInit => LibInv
  BY LibInvStarts
<1>2. LibInv /\ [LibNext]_libVars => LibInv'
  BY LibInvStays
<1>3. LibInv => LoadedWhenUsed
  BY CountedIsUsed
<1> QED
  BY <1>1, <1>2, <1>3, PTL DEF LibSpec
=============================================================================
