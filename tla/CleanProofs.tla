----------------------------- MODULE CleanProofs -----------------------------
(***************************************************************************)
(* Proofs about the file system: for every tree of paths, clean removes no *)
(* file that it was not asked to remove, leaves no empty directory above   *)
(* those it cleaned, and writing fails only where it must.                 *)
(***************************************************************************)
EXTENDS Clean, SequenceTheorems, WellFoundedInduction, NaturalsInduction, TLAPS

-----------------------------------------------------------------------------
(* The invariant *)

(* Which variables are in use in which phase. *)
PhasesApart ==
    /\ phase # "clean" => climb = Nil
    /\ phase \in {"idle", "write"} => left = {}
    /\ phase = "write" => out \in Outputs /\ part \in 1 .. Len(out) /\ asked = {}

(* os.mkdir: what it has passed are directories, and it changes nothing but *)
(* to make those that were missing.                                        *)
PassedAreDirs ==
    phase = "write" => \A i \in 0 .. part - 1 : isdir(fs, SubSeq(out, 1, i))
MakesMissing ==
    phase = "write" =>
        \A n \in Node :
            \/ fs[n] = before[n]
            \/ n \in Above(out) /\ before[n] = "none" /\ fs[n] = "dir"

(* A directory above a cleaned one is empty only while the climb is on its *)
(* way to it.                                                              *)
EmptyAhead ==
    ~dryrun =>
        \A d \in asked \ left : \A a \in Above(d) :
            (isdir(fs, a) /\ Children(fs, a) = {}) => climb # Nil /\ Within(climb, a)

CleanInv ==
    /\ TypeOK /\ PhasesApart /\ OthersStand
    /\ PassedAreDirs /\ MakesMissing /\ ErrorHasCause
    /\ EmptyAhead

-----------------------------------------------------------------------------
(* Paths *)

(* The beginnings of a path are paths. *)
LEMMA Prefixes ==
    ASSUME NEW n \in Node, NEW i \in 0 .. Len(n)
    PROVE  /\ n \in Seq(Name) /\ Len(n) \in Nat
           /\ SubSeq(n, 1, i) \in Node /\ Len(SubSeq(n, 1, i)) = i
           /\ \A j \in 0 .. i : SubSeq(SubSeq(n, 1, i), 1, j) = SubSeq(n, 1, j)
  <1>1. n \in Seq(Name) /\ Len(n) \in Nat /\ \A j \in 1 .. Len(n) : n[j] \in Name
    BY PathsAssumption, LenProperties
  <1>2. SubSeq(n, 1, i) \in Node
    <2>1. CASE i = Len(n)
      BY <1>1, <2>1, SubSeqFull
    <2>2. CASE i < Len(n)
      <3>1. i \in 0 .. Len(n) - 1
        BY <1>1, <2>2
      <3>2. SubSeq(n, 1, i) \in Above(n)
        BY <3>1 DEF Above
      <3> QED
        BY <3>2, PathsAssumption
    <2> QED
      BY <1>1, <2>1, <2>2
  <1>3. ASSUME NEW k \in 0 .. Len(n)
        PROVE  /\ SubSeq(n, 1, k) \in Seq(Name) /\ Len(SubSeq(n, 1, k)) = k
               /\ \A j \in 1 .. k : SubSeq(n, 1, k)[j] = n[j]
    BY <1>1
  <1>4. ASSUME NEW j \in 0 .. i
        PROVE  SubSeq(SubSeq(n, 1, i), 1, j) = SubSeq(n, 1, j)
    <2> DEFINE u == SubSeq(n, 1, i)
               s == SubSeq(u, 1, j)
               t == SubSeq(n, 1, j)
    <2>1. u \in Seq(Name) /\ Len(u) = i /\ \A k \in 1 .. i : u[k] = n[k]
      BY <1>3
    <2>2. t \in Seq(Name) /\ Len(t) = j /\ \A k \in 1 .. j : t[k] = n[k]
      BY <1>1, <1>3
    <2> HIDE DEF u
    <2>3. s \in Seq(Name) /\ Len(s) = j /\ \A k \in 1 .. j : s[k] = u[k]
      BY <1>1, <2>1
    <2>4. \A k \in 1 .. j : s[k] = t[k]
      BY <1>1, <2>1, <2>2, <2>3
    <2> HIDE DEF s, t
    <2>5. s = t
      BY <2>2, <2>3, <2>4, SeqEqual
    <2> QED
      BY <2>5 DEF s, t, u
  <1> QED
    BY <1>1, <1>2, <1>3, <1>4

(* The directory a path is in is the innermost of those above it. *)
LEMMA ParentFacts ==
    ASSUME NEW n \in Node, n # Top
    PROVE  /\ Len(n) \in Nat \ {0} /\ Parent(n) \in Node
           /\ Len(Parent(n)) = Len(n) - 1
           /\ Above(n) = Above(Parent(n)) \cup {Parent(n)}
  <1>1. Len(n) \in Nat \ {0}
    BY PathsAssumption, EmptySeq DEF Top
  <1>2. Len(n) - 1 \in 0 .. Len(n)
    BY <1>1
  <1>3. /\ Parent(n) \in Node /\ Len(Parent(n)) = Len(n) - 1
        /\ \A j \in 0 .. Len(n) - 1 : SubSeq(Parent(n), 1, j) = SubSeq(n, 1, j)
    BY <1>2, Prefixes DEF Parent
  <1>4. Above(Parent(n)) = {SubSeq(n, 1, j) : j \in 0 .. Len(n) - 2}
    BY <1>1, <1>3 DEF Above
  <1>5. Above(n) = {SubSeq(n, 1, j) : j \in 0 .. Len(n) - 2} \cup {Parent(n)}
    BY <1>1 DEF Above, Parent
  <1> QED
    BY <1>1, <1>3, <1>4, <1>5

(* Being within a directory. *)
LEMMA WithinFacts ==
    ASSUME NEW n \in Node
    PROVE  /\ Above(n) \subseteq Node /\ n \notin Above(n) /\ Within(n, Top)
           /\ \A i \in 0 .. Len(n) - 1 : SubSeq(n, 1, i) \in Above(n)
           /\ n # Top => \A d : Within(n, d) <=> (n = d \/ Within(Parent(n), d))
           /\ n = Top => Above(n) = {}
  <1>1. Len(n) \in Nat /\ n \in Seq(Name) /\ Above(n) \subseteq Node
    BY PathsAssumption, LenProperties
  <1>2. n \notin Above(n)
    <2> SUFFICES ASSUME NEW i \in 0 .. Len(n) - 1, n = SubSeq(n, 1, i) PROVE FALSE
      BY DEF Above
    <2>1. Len(SubSeq(n, 1, i)) = i
      BY <1>1, Prefixes
    <2> QED
      BY <1>1, <2>1
  <1>3. Within(n, Top)
    <2>1. CASE n = Top
      BY <2>1 DEF Within
    <2>2. CASE n # Top
      <3>1. 0 \in 0 .. Len(n) - 1
        BY <2>2, ParentFacts
      <3>2. SubSeq(n, 1, 0) = Top
        BY SubSeqEmpty DEF Top
      <3> QED
        BY <3>1, <3>2 DEF Within, Above
    <2> QED
      BY <2>1, <2>2
  <1>4. \A i \in 0 .. Len(n) - 1 : SubSeq(n, 1, i) \in Above(n)
    BY DEF Above
  <1>5. n # Top => \A d : Within(n, d) <=> (n = d \/ Within(Parent(n), d))
    BY ParentFacts DEF Within
  <1>6. n = Top => Above(n) = {}
    BY EmptySeq DEF Above, Top
  <1> QED
    BY <1>1, <1>2, <1>3, <1>4, <1>5, <1>6

(* A set of natural numbers has a least one. *)
LEMMA LeastOf ==
    ASSUME NEW T \in SUBSET Nat, T # {}
    PROVE  \E x \in T : \A y \in T : x <= y
  <1>1. PICK x \in T : \A y \in T : ~(<<y, x>> \in OpToRel(<, Nat))
    BY NatLessThanWellFounded, WFMin, Zenon
  <1>2. ASSUME NEW y \in T PROVE x <= y
    <2>1. ~(y < x)
      BY <1>1 DEF OpToRel
    <2> QED
      BY <2>1
  <1> QED
    BY <1>2

(* Above a directory are directories, and none of them is empty. *)
LEMMA AboveDirs ==
    ASSUME NEW t \in FileSystem, Tree(t), NEW c \in Node, t[c] = "dir",
           NEW a \in Above(c)
    PROVE  Children(t, a) # {}
  <1> DEFINE n == Len(c)
             u(i) == SubSeq(c, 1, i)
             T == {k \in 0 .. n : t[u(n - k)] # "dir"}
  <1>1. n \in Nat /\ c \in Seq(Name) /\ u(n) = c
    BY PathsAssumption, LenProperties, SubSeqFull
  <1>2. \A i \in 0 .. n : u(i) \in Node /\ Len(u(i)) = i
    BY Prefixes
  <1>3. \A i \in 1 .. n : Parent(u(i)) = u(i - 1) /\ u(i) # Top
    <2> SUFFICES ASSUME NEW i \in 1 .. n PROVE Parent(u(i)) = u(i - 1) /\ u(i) # Top
      OBVIOUS
    <2>1. i \in 0 .. n /\ i - 1 \in 0 .. i /\ i # 0
      BY <1>1
    <2>2. Len(u(i)) = i /\ SubSeq(u(i), 1, i - 1) = u(i - 1)
      BY <2>1, Prefixes
    <2> QED
      BY <2>1, <2>2, EmptySeq DEF Parent, Top
  <1> HIDE DEF u
  <1>4. T = {}
    <2> SUFFICES ASSUME T # {} PROVE FALSE
      OBVIOUS
    <2>1. T \in SUBSET Nat
      BY <1>1
    <2>2. PICK k \in T : \A l \in T : k <= l
      BY <2>1, LeastOf
    <2>3. k # 0 /\ k \in 1 .. n
      BY <1>1, <2>2
    <2>4. k - 1 \in 0 .. n /\ k - 1 \notin T
      BY <1>1, <2>2, <2>3
    <2>5. n - k + 1 \in 1 .. n /\ n - (k - 1) = n - k + 1 /\ (n - k + 1) - 1 = n - k
      BY <1>1, <2>3
    <2>6. t[u(n - k + 1)] = "dir"
      BY <2>4, <2>5
    <2>7. t[u(n - k)] = "dir"
      BY <1>2, <1>3, <2>5, <2>6 DEF Tree
    <2> QED
      BY <2>2, <2>7
  <1>5. PICK i \in 0 .. n - 1 : a = u(i)
    BY DEF Above, u
  <1>6. /\ i + 1 \in 1 .. n /\ i + 1 \in 0 .. n /\ n - (i + 1) \in 0 .. n
        /\ n - (n - (i + 1)) = i + 1 /\ (i + 1) - 1 = i
    BY <1>1
  <1>7. t[u(i + 1)] = "dir"
    BY <1>4, <1>6
  <1>8. u(i + 1) \in Children(t, a)
    BY <1>2, <1>3, <1>5, <1>6, <1>7 DEF Children
  <1> QED
    BY <1>8

-----------------------------------------------------------------------------
(* What the host functions do to a tree *)

(* A directory made, or a file written, in one that exists. *)
LEMMA PutInTree ==
    ASSUME NEW t \in FileSystem, Tree(t), NEW p \in Node, p # Top,
           t[p] # "dir", t[Parent(p)] = "dir", NEW x \in {"dir", "file"}
    PROVE  [t EXCEPT ![p] = x] \in FileSystem /\ Tree([t EXCEPT ![p] = x])
  <1> DEFINE u == [t EXCEPT ![p] = x]
  <1>1. u \in FileSystem /\ u[p] = x /\ \A n \in Node : n # p => u[n] = t[n]
    BY DEF FileSystem
  <1>2. Top \in Node
    BY PathsAssumption
  <1> HIDE DEF u
  <1>3. ASSUME NEW n \in Node, n # Top, u[n] # "none" PROVE u[Parent(n)] = "dir"
    <2>1. Parent(n) \in Node
      BY <1>3, ParentFacts
    <2>2. CASE n = p
      <3>1. Parent(n) # p
        BY <2>2, WithinFacts, ParentFacts
      <3> QED
        BY <1>1, <2>1, <2>2, <3>1
    <2>3. CASE n # p
      <3>1. t[Parent(n)] = "dir"
        BY <1>1, <1>3, <2>3 DEF Tree
      <3> QED
        BY <1>1, <2>1, <3>1
    <2> QED
      BY <2>2, <2>3
  <1>4. Tree(u)
    BY <1>1, <1>2, <1>3 DEF Tree
  <1> QED
    BY <1>1, <1>4 DEF u

(* rm -rf of a directory, and everything in it. *)
LEMMA RemoveTree ==
    ASSUME NEW t \in FileSystem, Tree(t), NEW d \in Node, d # Top
    PROVE  rmTree(t, d) \in FileSystem /\ Tree(rmTree(t, d))
  <1> DEFINE u == rmTree(t, d)
  <1>1. /\ u \in FileSystem
        /\ \A n \in Node : u[n] = IF Within(n, d) THEN "none" ELSE t[n]
    BY DEF FileSystem, rmTree
  <1>2. Top \in Node /\ ~Within(Top, d)
    BY PathsAssumption, WithinFacts DEF Within
  <1> HIDE DEF u
  <1>3. ASSUME NEW n \in Node, n # Top, u[n] # "none" PROVE u[Parent(n)] = "dir"
    <2>1. ~Within(n, d) /\ t[n] # "none"
      BY <1>1, <1>3
    <2>2. Parent(n) \in Node /\ ~Within(Parent(n), d) /\ t[Parent(n)] = "dir"
      BY <1>3, <2>1, ParentFacts, WithinFacts DEF Tree
    <2> QED
      BY <1>1, <2>2
  <1>4. Tree(u)
    BY <1>1, <1>2, <1>3 DEF Tree
  <1> QED
    BY <1>1, <1>4 DEF u

(* rmdir of a directory without entries. *)
LEMMA RemoveEmpty ==
    ASSUME NEW t \in FileSystem, Tree(t), NEW p \in Node, p # Top, Children(t, p) = {}
    PROVE  [t EXCEPT ![p] = "none"] \in FileSystem /\ Tree([t EXCEPT ![p] = "none"])
  <1> DEFINE u == [t EXCEPT ![p] = "none"]
  <1>1. u \in FileSystem /\ u[p] = "none" /\ \A n \in Node : n # p => u[n] = t[n]
    BY DEF FileSystem
  <1>2. Top \in Node
    BY PathsAssumption
  <1> HIDE DEF u
  <1>3. ASSUME NEW n \in Node, n # Top, u[n] # "none" PROVE u[Parent(n)] = "dir"
    <2>1. n # p /\ t[n] # "none"
      BY <1>1, <1>3
    <2>2. Parent(n) \in Node /\ Parent(n) # p /\ t[Parent(n)] = "dir"
      BY <1>3, <2>1, ParentFacts DEF Tree, Children
    <2> QED
      BY <1>1, <2>2
  <1>4. Tree(u)
    BY <1>1, <1>2, <1>3 DEF Tree
  <1> QED
    BY <1>1, <1>4 DEF u

-----------------------------------------------------------------------------
(* The steps *)

(* The invariant holds before premake is first started. *)
LEMMA CleanInit == Init => CleanInv
  <1> SUFFICES ASSUME Init PROVE CleanInv
    OBVIOUS
  <1>1. fs \in FileSystem /\ Tree(fs) /\ before = fs
    BY RunsAssumption DEF Init
  <1>2. TypeOK
    <2>1. 0 \in 0 .. MaxRuns
      BY RunsAssumption
    <2>2. dryrun \in BOOLEAN
      BY DEF Init
    <2> QED
      BY <1>1, <2>1, <2>2 DEF Init, TypeOK
  <1>3. PhasesApart /\ PassedAreDirs /\ MakesMissing /\ ErrorHasCause /\ EmptyAhead
    BY DEF Init, PhasesApart, PassedAreDirs, MakesMissing, ErrorHasCause, EmptyAhead
  <1>4. OthersStand
    BY <1>1 DEF OthersStand
  <1> QED
    BY <1>2, <1>3, <1>4 DEF CleanInv

(* An action starts to write a file. *)
LEMMA OpenInv ==
    ASSUME CleanInv, NEW f \in Outputs, NEW dry \in BOOLEAN, open(f, dry)
    PROVE  CleanInv'
  <1>1. /\ fs \in FileSystem /\ Tree(fs) /\ fs' = fs /\ before' = fs /\ asked' = {}
        /\ left = {} /\ climb = Nil /\ UNCHANGED <<cwd, left, climb>>
        /\ runs' \in 0 .. MaxRuns /\ dryrun' \in BOOLEAN /\ removeList' = {}
        /\ phase = "idle"
    BY RunsAssumption DEF CleanInv, TypeOK, PhasesApart, open
  <1>2. f \in Node /\ f # Top /\ Len(f) \in Nat \ {0}
    BY RunsAssumption, ParentFacts
  <1>3. OthersStand' /\ EmptyAhead'
    BY <1>1 DEF OthersStand, EmptyAhead
  <1>4. CASE phase' = "idle" /\ UNCHANGED writing
    <2>1. TypeOK'
      BY <1>1, <1>4 DEF CleanInv, TypeOK, writing
    <2> QED
      BY <1>1, <1>3, <1>4, <2>1
         DEF CleanInv, PhasesApart, PassedAreDirs, MakesMissing, ErrorHasCause
  <1>5. CASE phase' = "write" /\ out' = f /\ part' = 1
    <2>1. TypeOK'
      BY <1>1, <1>5 DEF CleanInv, TypeOK
    <2>2. PhasesApart'
      BY <1>1, <1>2, <1>5 DEF PhasesApart
    <2>3. PassedAreDirs'
      <3>1. SubSeq(f, 1, 0) = Top /\ fs[Top] = "dir"
        BY <1>1, SubSeqEmpty DEF Top, Tree
      <3>2. \A i \in 0 .. part' - 1 : i = 0
        BY <1>5
      <3> QED
        BY <1>1, <1>5, <3>1, <3>2 DEF PassedAreDirs, isdir
    <2>4. MakesMissing' /\ ErrorHasCause'
      BY <1>1, <1>5 DEF MakesMissing, ErrorHasCause
    <2> QED
      BY <1>3, <2>1, <2>2, <2>3, <2>4 DEF CleanInv
  <1> QED
    BY <1>1, <1>4, <1>5 DEF open, firstPart

(* os.mkdir at one part of the path. *)
LEMMA MkdirPartInv ==
    ASSUME CleanInv, mkdirPart
    PROVE  CleanInv'
  <1> DEFINE dir == SubSeq(out, 1, part)
  <1>1. /\ fs \in FileSystem /\ Tree(fs) /\ before \in FileSystem
        /\ phase = "write" /\ left = {} /\ climb = Nil /\ asked = {}
        /\ out \in Outputs /\ part \in 1 .. Len(out) /\ part < Len(out)
        /\ part' = part + 1
        /\ UNCHANGED <<cwd, dryrun, out, asked, left, climb, removeList, before, runs>>
    BY DEF CleanInv, TypeOK, PhasesApart, mkdirPart
  <1>2. out \in Node /\ out # Top /\ Len(out) \in Nat \ {0}
    BY <1>1, RunsAssumption, ParentFacts
  <1>3. /\ dir \in Node /\ dir # Top /\ dir \in Above(out)
        /\ Parent(dir) = SubSeq(out, 1, part - 1)
    <2>1. /\ part \in 0 .. Len(out) /\ part \in 0 .. Len(out) - 1
          /\ part - 1 \in 0 .. part /\ part # 0
      BY <1>1, <1>2
    <2>2. /\ dir \in Node /\ Len(dir) = part
          /\ SubSeq(dir, 1, part - 1) = SubSeq(out, 1, part - 1)
      BY <1>2, <2>1, Prefixes
    <2> QED
      BY <1>2, <2>1, <2>2, WithinFacts, EmptySeq DEF Parent, Top
  <1>4. isdir(fs, Parent(dir))
    <2>1. part - 1 \in 0 .. part - 1
      BY <1>1, <1>2
    <2> QED
      BY <1>1, <1>3, <2>1 DEF CleanInv, PassedAreDirs
  <1>5. EmptyAhead'
    BY <1>1 DEF EmptyAhead
  <1>6. part' \in 1 .. Len(out) /\ part' \in Nat /\ part' - 1 = part
    BY <1>1, <1>2
  <1> HIDE DEF dir
  <1>7. ASSUME phase' = "write", fs' \in FileSystem, Tree(fs'), isdir(fs', dir),
               \A n \in Node : fs'[n] = fs[n] \/ (n = dir /\ fs[n] = "none")
        PROVE  CleanInv'
    <2>1. TypeOK'
      BY <1>1, <1>6, <1>7 DEF CleanInv, TypeOK
    <2>2. PhasesApart' /\ ErrorHasCause'
      BY <1>1, <1>6, <1>7 DEF PhasesApart, ErrorHasCause
    <2>3. OthersStand'
      BY <1>1, <1>7 DEF CleanInv, OthersStand
    <2>4. PassedAreDirs'
      <3> SUFFICES ASSUME NEW i \in 0 .. part PROVE isdir(fs', SubSeq(out, 1, i))
        BY <1>1, <1>6 DEF PassedAreDirs, isdir
      <3>1. CASE i = part
        BY <1>7, <3>1 DEF dir
      <3>2. CASE i # part
        <4>1. i \in 0 .. part - 1 /\ i \in 0 .. Len(out)
          BY <1>1, <1>2, <3>2
        <4>2. isdir(fs, SubSeq(out, 1, i)) /\ SubSeq(out, 1, i) \in Node
          BY <1>1, <1>2, <4>1, Prefixes DEF CleanInv, PassedAreDirs
        <4> QED
          BY <1>7, <4>2 DEF isdir
      <3> QED
        BY <3>1, <3>2
    <2>5. MakesMissing'
      BY <1>1, <1>3, <1>7 DEF CleanInv, MakesMissing, isdir
    <2> QED
      BY <1>5, <2>1, <2>2, <2>3, <2>4, <2>5 DEF CleanInv
  <1>8. CASE isdir(fs, dir) /\ UNCHANGED <<fs, phase>>
    BY <1>1, <1>7, <1>8 DEF isdir
  <1>9. CASE /\ ~isdir(fs, dir) /\ builtin_mkdir(dir)
             /\ fs' = [fs EXCEPT ![dir] = "dir"] /\ UNCHANGED phase
    <2>1. fs[dir] = "none" /\ fs[Parent(dir)] = "dir"
      BY <1>9 DEF builtin_mkdir, isdir
    <2>2. fs' \in FileSystem /\ Tree(fs')
      BY <1>1, <1>3, <1>9, <2>1, PutInTree
    <2>3. fs'[dir] = "dir" /\ \A n \in Node : n # dir => fs'[n] = fs[n]
      BY <1>1, <1>3, <1>9 DEF FileSystem
    <2> QED
      BY <1>1, <1>7, <1>9, <2>1, <2>2, <2>3 DEF isdir
  <1>10. CASE /\ ~isdir(fs, dir) /\ ~builtin_mkdir(dir)
              /\ phase' = "error" /\ UNCHANGED fs
    <2>1. fs[dir] = "file"
      BY <1>1, <1>3, <1>4, <1>10 DEF builtin_mkdir, isdir, FileSystem
    <2>2. before[dir] = "file"
      BY <1>1, <1>3, <2>1 DEF CleanInv, OthersStand, MakesMissing
    <2>3. ErrorHasCause'
      BY <1>1, <1>3, <2>2 DEF ErrorHasCause
    <2>4. TypeOK'
      BY <1>1, <1>6, <1>10 DEF CleanInv, TypeOK
    <2>5. PhasesApart' /\ PassedAreDirs' /\ MakesMissing'
      BY <1>1, <1>10 DEF PhasesApart, PassedAreDirs, MakesMissing
    <2>6. OthersStand'
      BY <1>1, <1>10 DEF CleanInv, OthersStand
    <2> QED
      BY <1>5, <2>3, <2>4, <2>5, <2>6 DEF CleanInv
  <1> QED
    BY <1>8, <1>9, <1>10 DEF mkdirPart, dir

(* The file is opened, once its directory is there. *)
LEMMA BuiltinOpenInv ==
    ASSUME CleanInv, builtin_open
    PROVE  CleanInv'
  <1>1. /\ fs \in FileSystem /\ Tree(fs) /\ before \in FileSystem
        /\ phase = "write" /\ left = {} /\ climb = Nil /\ asked = {}
        /\ out \in Outputs /\ part \in 1 .. Len(out) /\ part >= Len(out)
        /\ out' = Nil /\ part' = 0
        /\ UNCHANGED <<cwd, dryrun, asked, left, climb, removeList, before, runs>>
    BY DEF CleanInv, TypeOK, PhasesApart, builtin_open
  <1>2. out \in Node /\ out # Top /\ Len(out) \in Nat \ {0}
    BY <1>1, RunsAssumption, ParentFacts
  <1>3. isdir(fs, Parent(out))
    <2>1. Len(out) - 1 \in 0 .. part - 1
      BY <1>1, <1>2
    <2> QED
      BY <1>1, <2>1 DEF CleanInv, PassedAreDirs, Parent
  <1>4. EmptyAhead'
    BY <1>1 DEF EmptyAhead
  <1>5. ASSUME phase' \in {"idle", "error"}
        PROVE  PhasesApart' /\ PassedAreDirs' /\ MakesMissing'
    BY <1>1, <1>5 DEF PhasesApart, PassedAreDirs, MakesMissing
  <1>6. CASE isdir(fs, out) /\ phase' = "error" /\ UNCHANGED fs
    <2>1. before[out] = "dir"
      BY <1>1, <1>2, <1>6, WithinFacts DEF CleanInv, MakesMissing, isdir
    <2>2. ErrorHasCause'
      BY <1>1, <2>1 DEF ErrorHasCause
    <2>3. TypeOK'
      BY <1>1, <1>6 DEF CleanInv, TypeOK
    <2>4. OthersStand'
      BY <1>1, <1>6 DEF CleanInv, OthersStand
    <2> QED
      BY <1>4, <1>5, <1>6, <2>2, <2>3, <2>4 DEF CleanInv
  <1>7. CASE ~isdir(fs, out) /\ phase' = "idle" /\ fs' = [fs EXCEPT ![out] = "file"]
    <2>1. fs[out] # "dir" /\ fs[Parent(out)] = "dir"
      BY <1>3, <1>7 DEF isdir
    <2>2. fs' \in FileSystem /\ Tree(fs')
      BY <1>1, <1>2, <1>7, <2>1, PutInTree
    <2>3. fs'[out] = "file" /\ \A n \in Node : n # out => fs'[n] = fs[n]
      BY <1>1, <1>2, <1>7 DEF FileSystem
    <2>4. TypeOK'
      BY <1>1, <1>7, <2>2 DEF CleanInv, TypeOK
    <2>5. OthersStand'
      BY <1>1, <2>3 DEF CleanInv, OthersStand
    <2>6. ErrorHasCause'
      BY <1>7 DEF ErrorHasCause
    <2> QED
      BY <1>4, <1>5, <1>7, <2>4, <2>5, <2>6 DEF CleanInv
  <1> QED
    BY <1>3, <1>6, <1>7 DEF builtin_open

(* The clean action starts. *)
LEMMA StartCleanInv ==
    ASSUME CleanInv, NEW ds \in Dirs, NEW dry \in BOOLEAN, StartClean(ds, dry)
    PROVE  CleanInv'
  <1>1. /\ fs \in FileSystem /\ Tree(fs) /\ fs' = fs /\ before' = fs
        /\ asked' = ds /\ left' = ds /\ phase' = "clean" /\ climb = Nil
        /\ UNCHANGED <<cwd, writing, climb>> /\ ds \subseteq Node
        /\ runs' \in 0 .. MaxRuns /\ dryrun' \in BOOLEAN /\ removeList' = {}
    BY RunsAssumption DEF CleanInv, TypeOK, PhasesApart, StartClean
  <1>2. TypeOK'
    BY <1>1 DEF CleanInv, TypeOK, writing
  <1>3. OthersStand' /\ EmptyAhead'
    BY <1>1 DEF OthersStand, EmptyAhead
  <1>4. PhasesApart' /\ PassedAreDirs' /\ MakesMissing' /\ ErrorHasCause'
    BY <1>1 DEF PhasesApart, PassedAreDirs, MakesMissing, ErrorHasCause
  <1> QED
    BY <1>2, <1>3, <1>4 DEF CleanInv

(* While it cleans, only the file system and the climb are at stake. *)
LEMMA CleaningInv ==
    ASSUME CleanInv, phase = "clean", phase' = "clean", fs' \in FileSystem, Tree(fs'),
           climb' \in Node \cup {Nil}, removeList' \subseteq Node, left' \subseteq left,
           UNCHANGED <<cwd, dryrun, writing, asked, before, runs>>,
           OthersStand', EmptyAhead'
    PROVE  CleanInv'
  <1>1. TypeOK'
    BY DEF CleanInv, TypeOK, writing
  <1>2. PhasesApart' /\ PassedAreDirs' /\ MakesMissing' /\ ErrorHasCause'
    BY DEF PhasesApart, PassedAreDirs, MakesMissing, ErrorHasCause
  <1> QED
    BY <1>1, <1>2 DEF CleanInv

(* A directory cleaned. *)
LEMMA CleanDirectoryInv ==
    ASSUME CleanInv, NEW d \in left, cleanDirectory(d)
    PROVE  CleanInv'
  <1>1. /\ fs \in FileSystem /\ Tree(fs) /\ phase = "clean" /\ climb = Nil
        /\ d \in Node /\ d \in asked /\ left' = left \ {d} /\ left \subseteq asked
        /\ asked \subseteq Node /\ cwd \in Node
        /\ UNCHANGED <<cwd, dryrun, writing, asked, before, runs>>
        /\ removeList \subseteq Node
    BY RunsAssumption DEF CleanInv, TypeOK, cleanDirectory
  <1>2. ~isRepoRoot(d)
    BY DEF isRepoRoot, readlink, repoRoot
  <1>3. CASE dryrun /\ climb' = d /\ UNCHANGED <<fs, phase>>
             /\ removeList' \subseteq Node
    <2>1. EmptyAhead'
      BY <1>1, <1>3 DEF EmptyAhead
    <2>2. OthersStand'
      BY <1>1, <1>3 DEF CleanInv, OthersStand
    <2> QED
      BY <1>1, <1>3, <2>1, <2>2, CleaningInv
  <1>4. CASE ~dryrun /\ climb' = d /\ UNCHANGED <<phase, removeList>>
             /\ fs' = IF Refused(d) THEN fs ELSE rmTree(fs, d)
    <2>1. \A n \in Node : ~Within(n, d) => fs'[n] = fs[n]
      BY <1>1, <1>4 DEF rmTree, FileSystem
    <2>2. fs' \in FileSystem /\ Tree(fs')
      <3>1. d = Top => Refused(d)
        BY <1>1, WithinFacts DEF Refused
      <3> QED
        BY <1>1, <1>4, <3>1, RemoveTree
    <2>3. \A n \in Node : fs'[n] = fs[n] \/ fs'[n] = "none"
      BY <1>1, <1>4 DEF rmTree, FileSystem
    <2>4. OthersStand'
      BY <1>1, <2>1 DEF CleanInv, OthersStand
    <2>5. ASSUME NEW b \in asked \ left', NEW a \in Above(b), fs'[a] = "dir",
                 Children(fs', a) = {}
          PROVE  Within(d, a)
      <3>1. CASE b = d
        BY <3>1 DEF Within
      <3>2. CASE b # d
        <4>1. b \in asked \ left /\ b \in Node /\ a \in Node
          BY <1>1, <3>2, WithinFacts
        <4>2. fs[a] = "dir"
          BY <2>3, <2>5, <4>1
        <4>3. Children(fs, a) # {}
          BY <1>1, <1>4, <4>1, <4>2 DEF CleanInv, EmptyAhead, isdir
        <4>4. PICK n \in Node \ {Top} : Parent(n) = a /\ fs[n] # "none"
          BY <4>3 DEF Children
        <4>5. fs'[n] = "none"
          BY <2>5, <4>4 DEF Children
        <4>6. Within(n, d)
          BY <2>1, <4>4, <4>5
        <4>7. CASE n = d
          BY <4>4, <4>7, ParentFacts DEF Within
        <4>8. CASE n # d
          <5>1. Within(a, d) /\ ~Refused(d)
            BY <1>4, <4>4, <4>5, <4>6, <4>8, WithinFacts
          <5>2. fs'[a] = "none"
            BY <1>4, <4>1, <5>1 DEF rmTree
          <5> QED
            BY <2>5, <5>2
        <4> QED
          BY <4>7, <4>8
      <3> QED
        BY <3>1, <3>2
    <2>6. EmptyAhead'
      <3>1. climb' # Nil
        BY <1>1, <1>4, PathsAssumption
      <3> QED
        BY <1>1, <1>4, <2>5, <3>1 DEF EmptyAhead, isdir
    <2> QED
      BY <1>1, <1>4, <2>2, <2>4, <2>6, CleaningInv
  <1> QED
    BY <1>1, <1>2, <1>3, <1>4 DEF cleanDirectory

(* The climb to the parents. *)
LEMMA ClimbInv ==
    ASSUME CleanInv, rmdirParentsIfEmpty
    PROVE  CleanInv'
  <1> DEFINE c == climb
  <1>1. /\ fs \in FileSystem /\ Tree(fs) /\ phase = "clean" /\ c \in Node
        /\ asked \subseteq Node /\ removeList \subseteq Node /\ cwd \in Node
        /\ UNCHANGED <<cwd, dryrun, phase, writing, asked, left, before, runs>>
    BY RunsAssumption DEF CleanInv, TypeOK, PhasesApart, rmdirParentsIfEmpty
  <1>2. parent(c) \in Node /\ parent(c) # Nil
    BY <1>1, ParentFacts, PathsAssumption DEF parent
  <1>3. \A b \in asked : Above(b) \subseteq Node
    BY <1>1, WithinFacts
  <1>4. ASSUME UNCHANGED fs PROVE OthersStand'
    BY <1>1, <1>4 DEF CleanInv, OthersStand
  <1>5. CASE dryrun /\ UNCHANGED fs /\ climb' \in Node \cup {Nil} /\ removeList' \subseteq Node
    <2>1. EmptyAhead'
      BY <1>1, <1>5 DEF EmptyAhead
    <2> QED
      BY <1>1, <1>4, <1>5, <2>1, CleaningInv
  <1>6. CASE ~looksEmpty(c) /\ climb' = Nil /\ UNCHANGED <<fs, removeList>>
    <2>1. fs[c] = "dir" /\ Children(fs, c) # {}
      BY <1>6 DEF looksEmpty, matches, isdir
    <2>2. \A a \in Above(c) : Children(fs, a) # {}
      BY <1>1, <2>1, AboveDirs
    <2>3. EmptyAhead'
      BY <1>1, <1>6, <2>1, <2>2 DEF CleanInv, EmptyAhead, isdir, Within
    <2> QED
      BY <1>1, <1>4, <1>6, <2>3, CleaningInv
  <1>7. CASE /\ ~dryrun /\ fs' = builtin_rmdir(c)
             /\ climb' = parent(c) /\ UNCHANGED removeList
    <2> DEFINE Removes == isdir(fs, c) /\ Children(fs, c) = {} /\ c # Top
    <2>1. CASE Removes
      <3>1. fs' = [fs EXCEPT ![c] = "none"] /\ c # Top /\ fs[c] = "dir"
        BY <1>7, <2>1 DEF builtin_rmdir, isdir
      <3>2. fs' \in FileSystem /\ Tree(fs')
        BY <1>1, <2>1, <3>1, RemoveEmpty
      <3>3. fs'[c] = "none" /\ \A n \in Node : n # c => fs'[n] = fs[n]
        BY <1>1, <3>1 DEF FileSystem
      <3>4. OthersStand'
        BY <1>1, <3>1, <3>3 DEF CleanInv, OthersStand
      <3>5. ASSUME NEW b \in asked \ left, NEW a \in Above(b), fs'[a] = "dir",
                   Children(fs', a) = {}
            PROVE  Within(Parent(c), a)
        <4>1. a \in Node /\ a # c /\ fs[a] = "dir"
          BY <1>3, <3>3, <3>5
        <4>2. CASE Children(fs, a) = {}
          <5>1. Within(c, a)
            BY <1>7, <4>1, <4>2 DEF CleanInv, EmptyAhead, isdir
          <5> QED
            BY <1>1, <3>1, <4>1, <5>1, WithinFacts
        <4>3. CASE Children(fs, a) # {}
          <5>1. PICK n \in Node \ {Top} : Parent(n) = a /\ fs[n] # "none"
            BY <4>3 DEF Children
          <5>2. fs'[n] = "none"
            BY <3>5, <5>1 DEF Children
          <5>3. n = c
            BY <3>3, <5>1, <5>2
          <5> QED
            BY <5>1, <5>3 DEF Within
        <4> QED
          BY <4>2, <4>3
      <3>6. EmptyAhead'
        <4>1. parent(c) = Parent(c)
          BY <3>1 DEF parent
        <4> QED
          BY <1>1, <1>2, <1>7, <3>5, <4>1 DEF EmptyAhead, isdir
      <3> QED
        BY <1>1, <1>2, <1>7, <3>2, <3>4, <3>6, CleaningInv
    <2>2. CASE ~Removes
      <3>1. fs' = fs
        BY <1>7, <2>2 DEF builtin_rmdir
      <3>2. ASSUME NEW b \in asked \ left, NEW a \in Above(b), fs[a] = "dir",
                   Children(fs, a) = {}
            PROVE  Within(parent(c), a)
        <4>1. Within(c, a)
          BY <1>7, <3>2 DEF CleanInv, EmptyAhead, isdir
        <4>2. CASE c = Top
          <5>1. a = Top
            BY <1>1, <4>1, <4>2, WithinFacts DEF Within
          <5> QED
            BY <1>1, <4>2, <5>1, WithinFacts DEF parent
        <4>3. CASE c # Top
          <5>1. c # a
            BY <2>2, <3>2, <4>3 DEF isdir
          <5> QED
            BY <1>1, <4>1, <4>3, <5>1, WithinFacts DEF parent
        <4> QED
          BY <4>2, <4>3
      <3>3. EmptyAhead'
        BY <1>1, <1>2, <1>7, <3>1, <3>2 DEF EmptyAhead, isdir
      <3> QED
        BY <1>1, <1>2, <1>4, <1>7, <3>1, <3>3, CleaningInv
    <2> QED
      BY <2>1, <2>2
  <1> QED
    BY <1>1, <1>2, <1>5, <1>6, <1>7 DEF rmdirParentsIfEmpty

(* Every step keeps the invariant. *)
LEMMA CleanStep == CleanInv /\ [Next]_vars => CleanInv'
  <1> SUFFICES ASSUME CleanInv, [Next]_vars PROVE CleanInv'
    OBVIOUS
  <1>1. ASSUME NEW f \in Outputs, NEW dry \in BOOLEAN, open(f, dry) PROVE CleanInv'
    BY <1>1, OpenInv
  <1>2. ASSUME NEW ds \in Dirs, NEW dry \in BOOLEAN, StartClean(ds, dry)
        PROVE  CleanInv'
    BY <1>2, StartCleanInv
  <1>3. ASSUME NEW d \in left, cleanDirectory(d) PROVE CleanInv'
    BY <1>3, CleanDirectoryInv
  <1>4. CASE rmdirParentsIfEmpty
    BY <1>4, ClimbInv
  <1>5. CASE CleanDone
    <2>1. /\ fs' = fs /\ phase' = "idle" /\ climb = Nil /\ left = {}
          /\ UNCHANGED <<cwd, dryrun, writing, asked, left, climb, removeList,
                         before, runs>>
      BY <1>5 DEF CleanDone
    <2>2. TypeOK' /\ OthersStand' /\ EmptyAhead'
      BY <2>1 DEF CleanInv, TypeOK, OthersStand, EmptyAhead, writing
    <2>3. PhasesApart' /\ PassedAreDirs' /\ MakesMissing' /\ ErrorHasCause'
      BY <2>1 DEF PhasesApart, PassedAreDirs, MakesMissing, ErrorHasCause
    <2> QED
      BY <2>2, <2>3 DEF CleanInv
  <1>6. CASE mkdirPart
    BY <1>6, MkdirPartInv
  <1>7. CASE builtin_open
    BY <1>7, BuiltinOpenInv
  <1>8. CASE UNCHANGED vars
    BY <1>8 DEF vars, writing, CleanInv, TypeOK, PhasesApart, OthersStand,
                PassedAreDirs, MakesMissing, ErrorHasCause, EmptyAhead
  <1> QED
    BY <1>1, <1>2, <1>3, <1>4, <1>5, <1>6, <1>7, <1>8 DEF Next, Step, Over

(* The invariant holds throughout. *)
LEMMA CleanAlways == Spec => []CleanInv
  BY CleanInit, CleanStep, PTL DEF Spec

-----------------------------------------------------------------------------
(* Results *)

(* For every tree of paths and any number of invocations: everything       *)
(* stands in a directory, clean removes no file outside the directories it *)
(* was asked to clean although hidden entries make a directory look empty  *)
(* (os.rmdirParentsIfEmpty), and writing fails only where a file and a     *)
(* directory are in each other's place (os.mkdir, io.open).                *)
THEOREM CleanKeepsFiles == Spec => []FilesSound
  <1>1. CleanInv => FilesSound
    BY DEF CleanInv, FilesSound
  <1> QED
    BY <1>1, CleanAlways, PTL

(* When clean is over no directory above a cleaned one is empty, also      *)
(* where the cleaned directories lie in one another or share their parents *)
(* (os.rmdirParentsIfEmpty).                                               *)
THEOREM CleanLeavesNoEmptyParents == Spec => []NoEmptyParents
  <1>1. CleanInv => NoEmptyParents
    BY DEF CleanInv, NoEmptyParents, EmptyAhead, PhasesApart
  <1> QED
    BY <1>1, CleanAlways, PTL
=============================================================================
