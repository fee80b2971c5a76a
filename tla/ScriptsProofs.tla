--------------------------- MODULE ScriptsProofs ---------------------------
(***************************************************************************)
(* Proofs about Scripts: whatever scripts, directories and solutions there *)
(* are and whatever the scripts say, the scope stays one, include restores *)
(* it, a chunk runs in its own directory and in the solution it belongs    *)
(* to, and include loads a file once.                                      *)
(***************************************************************************)
EXTENDS Scripts, SequenceTheorems, FiniteSetTheorems, TLAPS

-----------------------------------------------------------------------------
(* The types of scopes and activations *)

Solutions == Sln \cup {None}
Scopes == [solution : Sln \cup {Global}, project : Containers \cup {None},
           namespace : Solutions, configuration : Containers]
SavedScopes == [scope : Scopes, container : Containers]
DofileFrames == [fn : {"dofile"}, oldcwd : Dir, oldfile : File \cup {None},
                 file : File, pushed : Nat, moved : BOOLEAN, home : Solutions]
IncludeFrames == [fn : {"include"}, left : Seq(File), saved : SavedScopes]
Frames == DofileFrames \cup IncludeFrames

Types ==
    /\ cwd \in Dir /\ running \in File \cup {None}
    /\ scope \in Scopes /\ container \in Containers
    /\ scopeStack \in Seq(SavedScopes)
    /\ slnScope \in [Dir -> Solutions]
    /\ includedFiles \subseteq File
    /\ loads \in [File -> Nat]
    /\ calls \in Seq(Frames)
    /\ usages \subseteq Sln \cup {Global}
    /\ \A p \in declared : p.sln \in Sln \cup {Global}

(* A scope whose records agree, and one that is in the solution h. *)
Agrees(sc, ct) ==
    /\ sc.configuration = ct
    /\ sc.project = IF ct.kind = "solution" THEN None ELSE ct
    /\ ct.under = sc.solution
    /\ ct.kind = "solution" => SlnOf(ct) = sc.solution
AtHome(sc, h) == sc.solution = h /\ sc.namespace = h

(* A chunk that is still bound to be in the solution it belongs to. *)
Unmoved(c) == c.fn = "dofile" /\ c.home # None /\ ~c.moved

(* The chunk that runs, or waits, at activation i. *)
Chunk(cs, i) == IF cs[i].fn = "dofile" THEN cs[i] ELSE cs[i - 1]

(* What holds of activation i of cs when st is the stack of scopes: an     *)
(* include was called by a chunk and its scope is on the stack at its      *)
(* place; a chunk will restore the directory of the one that called it;    *)
(* the scopes that an unmoved chunk pushed are those of its solution, and  *)
(* above it is at most an include that saved such a scope.                 *)
FrameSound(cs, st, i) ==
    /\ cs[i].fn = "include" =>
          /\ i > 1 /\ cs[i - 1].fn = "dofile"
          /\ st[Heights(cs)[i]] = cs[i].saved
    /\ i > 1 /\ cs[i].fn = "dofile" =>
          /\ Chunk(cs, i - 1).fn = "dofile"
          /\ cs[i].oldcwd = DirOf[Chunk(cs, i - 1).file]
          /\ cs[i].oldfile = Chunk(cs, i - 1).file
    /\ Unmoved(cs[i]) =>
          \A j \in (Heights(cs)[i - 1] + 1)..Heights(cs)[i] :
              AtHome(st[j].scope, cs[i].home)
    /\ i > 1 /\ Unmoved(cs[i - 1]) =>
          cs[i].fn = "include" /\ AtHome(cs[i].saved.scope, cs[i - 1].home)

(* The inductive invariant. *)
FramesSound == \A i \in 1..Len(calls) : FrameSound(calls, scopeStack, i)
TopSound ==
    calls # <<>> =>
        LET c == Chunk(calls, Len(calls))
        IN  /\ cwd = DirOf[c.file] /\ running = c.file
            /\ Unmoved(calls[Len(calls)]) => AtHome(scope, calls[Len(calls)].home)
ScopesAgree ==
    /\ Agrees(scope, container)
    /\ \A j \in 1..Len(scopeStack) :
          Agrees(scopeStack[j].scope, scopeStack[j].container)
Loaded == \A f \in File : loads[f] <= 1 /\ (loads[f] # 0 => f \in includedFiles)

Inv ==
    /\ Types /\ StackAccounted /\ FramesSound /\ TopSound /\ ScopesAgree
    /\ Loaded /\ SubdirsInSolution

-----------------------------------------------------------------------------
(* Heights of the stack *)

(* A set of naturals that is not empty has a least element. *)
LEMMA LeastNatural ==
    ASSUME NEW T \in SUBSET Nat, T # {}
    PROVE  \E x \in T : \A y \in T : x <= y
  <1>1. PICK x \in T : \A y \in T : ~(<<y, x>> \in OpToRel(<, Nat))
    BY NatLessThanWellFounded, WFMin, Zenon
  <1>2. ASSUME NEW y \in T PROVE x <= y
    <2>1. ~(y < x)
      BY <1>1 DEF OpToRel
    <2> QED BY <2>1
  <1> QED BY <1>2

(* Heights is defined for every sequence: the equation of its recursion    *)
(* has a solution on 0..m for each m, or there were a least m without one. *)
LEMMA HeightsEquation ==
    ASSUME NEW cs, Len(cs) \in Nat
    PROVE  Heights(cs) = [i \in 0..Len(cs) |->
                            IF i = 0 THEN 0 ELSE Heights(cs)[i - 1] + Owns(cs[i])]
  <1> DEFINE E(m) == \E h : h = [i \in 0..m |->
                                   IF i = 0 THEN 0 ELSE h[i - 1] + Owns(cs[i])]
             T == {m \in Nat : ~E(m)}
  <1>1. T = {}
    <2> SUFFICES ASSUME T # {} PROVE FALSE
      OBVIOUS
    <2>1. PICK m \in T : \A k \in T : m <= k
      <3> HIDE DEF E
      <3>1. T \in SUBSET Nat
        OBVIOUS
      <3> QED BY <3>1, LeastNatural
    <2>2. CASE m = 0
      <3>1. [i \in 0..0 |-> 0] =
              [i \in 0..0 |-> IF i = 0 THEN 0
                              ELSE [j \in 0..0 |-> 0][i - 1] + Owns(cs[i])]
        OBVIOUS
      <3>2. E(0)
        BY <3>1
      <3> QED BY <2>2, <3>2
    <2>3. CASE m # 0
      <3>1. m \in Nat /\ m - 1 \in Nat
        BY <2>3
      <3>2. E(m - 1)
        <4> HIDE DEF E
        <4> QED BY <2>1, <3>1
      <3>3. PICK h : h = [i \in 0..(m - 1) |->
                            IF i = 0 THEN 0 ELSE h[i - 1] + Owns(cs[i])]
        BY <3>2
      <3> DEFINE g == [i \in 0..m |-> IF i = m THEN h[m - 1] + Owns(cs[m]) ELSE h[i]]
      <3>4. \A i \in 0..m : g[i] = IF i = 0 THEN 0 ELSE g[i - 1] + Owns(cs[i])
        BY <3>1, <3>3, <2>3
      <3>5. g = [i \in 0..m |-> IF i = 0 THEN 0 ELSE g[i - 1] + Owns(cs[i])]
        BY <3>4
      <3>6. E(m)
        BY <3>5, Zenon
      <3> QED BY <3>6
    <2> QED BY <2>2, <2>3
  <1>2. E(Len(cs))
    BY <1>1
  <1> DEFINE P(h) == h = [i \in 0..Len(cs) |->
                            IF i = 0 THEN 0 ELSE h[i - 1] + Owns(cs[i])]
  <1>3. Heights(cs) = CHOOSE h : P(h)
    BY DEF Heights
  <1>4. \E h : P(h)
    BY <1>2
  <1>5. P(CHOOSE h : P(h))
    <2> HIDE DEF P
    <2> QED BY <1>4
  <1> QED BY <1>3, <1>5

LEMMA OwnsType == ASSUME NEW c \in Frames PROVE Owns(c) \in Nat
  BY DEF Frames, DofileFrames, IncludeFrames, Owns

(* The heights of a stack of activations are naturals that do not fall. *)
LEMMA HeightsOfStack ==
    ASSUME NEW cs \in Seq(Frames)
    PROVE  /\ \A i \in 0..Len(cs) : Heights(cs)[i] \in Nat
           /\ Heights(cs)[0] = 0
           /\ \A i \in 1..Len(cs) :
                 Heights(cs)[i] = Heights(cs)[i - 1] + Owns(cs[i])
           /\ \A i \in 0..Len(cs) : Heights(cs)[i] <= Heights(cs)[Len(cs)]
  <1>1. Len(cs) \in Nat /\ \A i \in 1..Len(cs) : cs[i] \in Frames
    OBVIOUS
  <1>2. /\ Heights(cs)[0] = 0
        /\ \A i \in 1..Len(cs) : Heights(cs)[i] = Heights(cs)[i - 1] + Owns(cs[i])
    BY <1>1, HeightsEquation
  <1>3. \A i \in 1..Len(cs) : Owns(cs[i]) \in Nat
    BY <1>1, OwnsType
  <1> DEFINE h == Heights(cs)
             T == {i \in 0..Len(cs) : h[i] \notin Nat}
  <1> HIDE DEF h
  <1>4. T = {}
    <2> SUFFICES ASSUME T # {} PROVE FALSE
      OBVIOUS
    <2>1. T \in SUBSET Nat
      BY <1>1
    <2>2. PICK m \in T : \A k \in T : m <= k
      BY <2>1, LeastNatural
    <2>3. m # 0
      BY <1>2 DEF h
    <2>4. m - 1 \in 0..Len(cs) /\ m \in 1..Len(cs) /\ m - 1 \notin T
      BY <1>1, <2>1, <2>2, <2>3
    <2>5. h[m - 1] \in Nat
      BY <2>4
    <2>6. h[m] \in Nat
      BY <1>2, <1>3, <2>4, <2>5 DEF h
    <2> QED BY <2>6
  <1> DEFINE U == {k \in 0..Len(cs) : ~(h[Len(cs) - k] <= h[Len(cs)])}
  <1>5. U = {}
    <2> SUFFICES ASSUME U # {} PROVE FALSE
      OBVIOUS
    <2>1. U \in SUBSET Nat
      BY <1>1
    <2>2. PICK k \in U : \A l \in U : k <= l
      BY <2>1, LeastNatural
    <2>3. h[Len(cs)] \in Nat
      BY <1>1, <1>4
    <2>4. k # 0
      BY <1>1, <2>3
    <2>5. k - 1 \in 0..Len(cs) /\ k - 1 \notin U
      <3>1. k \in Nat /\ k \in 0..Len(cs)
        BY <2>1
      <3>2. k - 1 \in 0..Len(cs) /\ ~(k <= k - 1)
        BY <1>1, <2>4, <3>1
      <3> QED BY <2>2, <3>2
    <2>6. h[Len(cs) - (k - 1)] <= h[Len(cs)]
      BY <2>5
    <2> DEFINE i == Len(cs) - k
    <2>7. i \in 0..Len(cs) /\ i + 1 \in 1..Len(cs) /\ (i + 1) - 1 = i /\ Len(cs) - (k - 1) = i + 1
      BY <1>1, <2>4
    <2>8. h[i] \in Nat /\ h[i + 1] = h[i] + Owns(cs[i + 1]) /\ Owns(cs[i + 1]) \in Nat
      <3> HIDE DEF i
      <3>1. h[i] \in Nat
        BY <1>4, <2>7
      <3>2. h[i + 1] = h[(i + 1) - 1] + Owns(cs[i + 1])
        BY <1>2, <2>7 DEF h
      <3> QED BY <1>3, <2>7, <3>1, <3>2
    <2>9. h[i] <= h[Len(cs)]
      BY <2>3, <2>6, <2>7, <2>8
    <2> QED BY <2>9
  <1>6. ASSUME NEW i \in 0..Len(cs) PROVE h[i] \in Nat /\ h[i] <= h[Len(cs)]
    <2>1. h[i] \in Nat
      BY <1>4
    <2>2. Len(cs) - i \in 0..Len(cs) /\ Len(cs) - (Len(cs) - i) = i
      BY <1>1
    <2> QED BY <1>5, <2>1, <2>2
  <1> QED BY <1>2, <1>6 DEF h

(* Stacks that begin alike have the same heights as far as they do. *)
LEMMA HeightsPrefix ==
    ASSUME NEW cs \in Seq(Frames), NEW ds \in Seq(Frames), NEW m \in 0..Len(cs),
           m <= Len(ds), \A i \in 1..m : ds[i] = cs[i]
    PROVE  \A i \in 0..m : Heights(ds)[i] = Heights(cs)[i]
  <1> DEFINE T == {i \in 0..m : Heights(ds)[i] # Heights(cs)[i]}
  <1>1. Len(cs) \in Nat /\ Len(ds) \in Nat /\ m \in Nat
    OBVIOUS
  <1> SUFFICES ASSUME T # {} PROVE FALSE
    OBVIOUS
  <1>2. T \in SUBSET Nat
    BY <1>1
  <1>3. PICK k \in T : \A l \in T : k <= l
    BY <1>2, LeastNatural
  <1>4. k # 0
    BY HeightsOfStack
  <1>5. k \in 1..m /\ k - 1 \in 0..m /\ ~(k <= k - 1)
    BY <1>1, <1>2, <1>4
  <1>6. Heights(ds)[k - 1] = Heights(cs)[k - 1]
    BY <1>3, <1>5
  <1>7. k \in 1..Len(cs) /\ k \in 1..Len(ds)
    BY <1>1, <1>5
  <1>8. Heights(ds)[k] = Heights(cs)[k]
    BY <1>5, <1>6, <1>7, HeightsOfStack
  <1> QED BY <1>8

(* All but the last of a stack. *)
LEMMA FrontOfStack ==
    ASSUME NEW S, NEW s \in Seq(S), s # <<>>
    PROVE  /\ SubSeq(s, 1, Len(s) - 1) \in Seq(S)
           /\ Len(SubSeq(s, 1, Len(s) - 1)) = Len(s) - 1
           /\ \A i \in 1..(Len(s) - 1) : SubSeq(s, 1, Len(s) - 1)[i] = s[i]
           /\ Len(s) \in Nat \ {0}
           /\ s[Len(s)] \in S
  <1>1. Len(s) \in Nat \ {0}
    BY EmptySeq
  <1>2. \A i \in 1 .. Len(s) : s[i] \in S
    BY ElementOfSeq
  <1> DEFINE n == Len(s) - 1
  <1>3. n \in Int /\ 1 \in Int /\ n >= 0 /\ \A i \in 1 .. n : s[i] \in S
    BY <1>1, <1>2
  <1> HIDE DEF n
  <1>4. /\ SubSeq(s, 1, n) \in Seq(S)
        /\ Len(SubSeq(s, 1, n)) = IF 1 <= n THEN n - 1 + 1 ELSE 0
        /\ \A i \in 1 .. n - 1 + 1 : SubSeq(s, 1, n)[i] = s[1 + i - 1]
    BY <1>3, SubSeqProperties
  <1>5. Len(SubSeq(s, 1, n)) = n
    BY <1>3, <1>4
  <1>6. \A i \in 1 .. n : SubSeq(s, 1, n)[i] = s[i]
    BY <1>3, <1>4
  <1> QED
    BY <1>1, <1>2, <1>4, <1>5, <1>6 DEF n

(* What holds of an activation depends on the activations up to it and on  *)
(* the scopes up to its height.                                            *)
LEMMA FrameKept ==
    ASSUME NEW cs \in Seq(Frames), NEW ds \in Seq(Frames), NEW st, NEW tt,
           NEW m \in 0..Len(cs), m <= Len(ds),
           \A i \in 1..m : ds[i] = cs[i],
           \A j \in 1..Heights(cs)[m] : tt[j] = st[j],
           \A i \in 1..m : FrameSound(cs, st, i)
    PROVE  \A i \in 1..m : FrameSound(ds, tt, i)
  <1> SUFFICES ASSUME NEW i \in 1..m PROVE FrameSound(ds, tt, i)
    OBVIOUS
  <1>1. Len(cs) \in Nat /\ Len(ds) \in Nat /\ m \in Nat
    OBVIOUS
  <1>2. i \in 0..m /\ i - 1 \in 0..m /\ i \in 0..Len(cs) /\ i - 1 \in 0..Len(cs) /\ i \in Nat
    BY <1>1
  <1>3. Heights(ds)[i] = Heights(cs)[i] /\ Heights(ds)[i - 1] = Heights(cs)[i - 1]
    BY <1>2, HeightsPrefix
  <1>4. /\ Heights(cs)[i] \in Nat /\ Heights(cs)[i - 1] \in Nat
        /\ Heights(cs)[i] <= Heights(cs)[m]
        /\ Heights(cs)[m] \in Nat
        /\ Heights(cs)[i] = Heights(cs)[i - 1] + Owns(cs[i])
    <2> DEFINE ps == SubSeq(cs, 1, m)
    <2>1. ps \in Seq(Frames) /\ Len(ps) = m /\ \A l \in 1..m : ps[l] = cs[l]
      BY <1>1, SubSeqProperties
    <2> HIDE DEF ps
    <2>2. \A l \in 0..m : Heights(ps)[l] = Heights(cs)[l]
      BY <1>1, <2>1, HeightsPrefix
    <2>3. Heights(ps)[i] <= Heights(ps)[m]
      BY <1>2, <2>1, HeightsOfStack
    <2>4. i \in 1..Len(cs)
      BY <1>1
    <2> QED BY <1>1, <1>2, <2>2, <2>3, <2>4, HeightsOfStack
  <1>5. ds[i] = cs[i] /\ (i > 1 => ds[i - 1] = cs[i - 1])
    BY <1>1
  <1>6. i > 1 => Chunk(ds, i - 1) = Chunk(cs, i - 1)
    <2> SUFFICES ASSUME i > 1 PROVE Chunk(ds, i - 1) = Chunk(cs, i - 1)
      OBVIOUS
    <2>1. CASE cs[i - 1].fn = "dofile"
      BY <1>5, <2>1 DEF Chunk
    <2>2. CASE cs[i - 1].fn # "dofile"
      <3>1. i - 1 \in 1..m /\ cs[i - 1] \in Frames
        BY <1>1, <1>2
      <3>2. cs[i - 1].fn = "include"
        BY <2>2, <3>1 DEF Frames, DofileFrames, IncludeFrames
      <3>3. i - 1 > 1
        BY <3>1, <3>2 DEF FrameSound
      <3>4. ds[(i - 1) - 1] = cs[(i - 1) - 1]
        BY <1>1, <1>2, <3>3
      <3> QED BY <1>5, <2>2, <3>4 DEF Chunk
    <2> QED BY <2>1, <2>2
  <1>7. FrameSound(cs, st, i)
    OBVIOUS
  <1>8. cs[i].fn = "include" => tt[Heights(cs)[i]] = st[Heights(cs)[i]]
    <2>1. cs[i].fn = "include" => Owns(cs[i]) = 1
      BY DEF Owns
    <2> QED BY <1>4, <2>1
  <1>9. \A j \in (Heights(cs)[i - 1] + 1)..Heights(cs)[i] : tt[j] = st[j]
    BY <1>4
  <1>10. ds[i].fn = "include" =>
            /\ i > 1 /\ ds[i - 1].fn = "dofile"
            /\ tt[Heights(ds)[i]] = ds[i].saved
    BY <1>3, <1>5, <1>7, <1>8 DEF FrameSound
  <1>11. i > 1 /\ ds[i].fn = "dofile" =>
            /\ Chunk(ds, i - 1).fn = "dofile"
            /\ ds[i].oldcwd = DirOf[Chunk(ds, i - 1).file]
            /\ ds[i].oldfile = Chunk(ds, i - 1).file
    BY <1>5, <1>6, <1>7 DEF FrameSound
  <1>12. Unmoved(ds[i]) =>
            \A j \in (Heights(ds)[i - 1] + 1)..Heights(ds)[i] :
                AtHome(tt[j].scope, ds[i].home)
    BY <1>3, <1>5, <1>7, <1>9 DEF FrameSound
  <1>13. i > 1 /\ Unmoved(ds[i - 1]) =>
            ds[i].fn = "include" /\ AtHome(ds[i].saved.scope, ds[i - 1].home)
    BY <1>5, <1>7 DEF FrameSound
  <1> QED BY <1>10, <1>11, <1>12, <1>13, Zenon DEF FrameSound

-----------------------------------------------------------------------------
(* Pushing, replacing and popping an activation *)

AllSound(cs, st) == \A i \in 1..Len(cs) : FrameSound(cs, st, i)

LEMMA PushedStack ==
    ASSUME NEW cs \in Seq(Frames), NEW x \in Frames
    PROVE  /\ Append(cs, x) \in Seq(Frames)
           /\ Len(Append(cs, x)) = Len(cs) + 1
           /\ Append(cs, x)[Len(cs) + 1] = x
           /\ \A i \in 1..Len(cs) : Append(cs, x)[i] = cs[i]
           /\ \A i \in 0..Len(cs) : Heights(Append(cs, x))[i] = Heights(cs)[i]
           /\ Heights(Append(cs, x))[Len(cs) + 1] = Heights(cs)[Len(cs)] + Owns(x)
  <1> DEFINE ds == Append(cs, x)
  <1>1. /\ ds \in Seq(Frames) /\ Len(ds) = Len(cs) + 1 /\ ds[Len(cs) + 1] = x
        /\ \A i \in 1..Len(cs) : ds[i] = cs[i]
        /\ Len(cs) \in Nat
    OBVIOUS
  <1> HIDE DEF ds
  <1>2. Len(cs) \in 0..Len(cs) /\ Len(cs) <= Len(ds)
    BY <1>1
  <1>3. \A i \in 0..Len(cs) : Heights(ds)[i] = Heights(cs)[i]
    BY <1>1, <1>2, HeightsPrefix
  <1>4. Len(cs) + 1 \in 1..Len(ds) /\ (Len(cs) + 1) - 1 = Len(cs)
    BY <1>1
  <1>5. Heights(ds)[Len(cs) + 1] = Heights(ds)[Len(cs)] + Owns(x)
    BY <1>1, <1>4, HeightsOfStack
  <1> QED BY <1>1, <1>2, <1>3, <1>5 DEF ds

LEMMA PoppedStack ==
    ASSUME NEW cs \in Seq(Frames), cs # <<>>
    PROVE  LET r == SubSeq(cs, 1, Len(cs) - 1)
           IN  /\ r \in Seq(Frames) /\ Len(r) = Len(cs) - 1
               /\ \A i \in 1..(Len(cs) - 1) : r[i] = cs[i]
               /\ \A i \in 0..(Len(cs) - 1) : Heights(r)[i] = Heights(cs)[i]
               /\ Len(cs) \in Nat \ {0} /\ cs[Len(cs)] \in Frames
               /\ Heights(cs)[Len(cs)] = Heights(cs)[Len(cs) - 1] + Owns(cs[Len(cs)])
               /\ Heights(cs)[Len(cs) - 1] \in Nat
  <1> DEFINE r == SubSeq(cs, 1, Len(cs) - 1)
  <1>1. /\ r \in Seq(Frames) /\ Len(r) = Len(cs) - 1
        /\ \A i \in 1..(Len(cs) - 1) : r[i] = cs[i]
        /\ Len(cs) \in Nat \ {0} /\ cs[Len(cs)] \in Frames
    BY FrontOfStack
  <1> HIDE DEF r
  <1>2. Len(cs) - 1 \in 0..Len(cs) /\ Len(cs) - 1 <= Len(r) /\ Len(cs) \in 1..Len(cs)
    BY <1>1
  <1>3. \A i \in 0..(Len(cs) - 1) : Heights(r)[i] = Heights(cs)[i]
    BY <1>1, <1>2, HeightsPrefix
  <1> QED BY <1>1, <1>2, <1>3, HeightsOfStack DEF r

LEMMA ReplacedStack ==
    ASSUME NEW cs \in Seq(Frames), cs # <<>>, NEW x \in Frames
    PROVE  LET ds == Append(SubSeq(cs, 1, Len(cs) - 1), x)
           IN  /\ ds \in Seq(Frames) /\ Len(ds) = Len(cs) /\ ds # <<>>
               /\ ds[Len(cs)] = x
               /\ \A i \in 1..(Len(cs) - 1) : ds[i] = cs[i]
               /\ \A i \in 0..(Len(cs) - 1) : Heights(ds)[i] = Heights(cs)[i]
               /\ Heights(ds)[Len(cs)] = Heights(cs)[Len(cs) - 1] + Owns(x)
  <1> DEFINE r == SubSeq(cs, 1, Len(cs) - 1)
  <1>1. /\ r \in Seq(Frames) /\ Len(r) = Len(cs) - 1
        /\ \A i \in 1..(Len(cs) - 1) : r[i] = cs[i]
        /\ \A i \in 0..(Len(cs) - 1) : Heights(r)[i] = Heights(cs)[i]
        /\ Len(cs) \in Nat \ {0}
    BY PoppedStack
  <1> HIDE DEF r
  <1> DEFINE ds == Append(r, x)
  <1>2. /\ ds \in Seq(Frames) /\ Len(ds) = Len(r) + 1 /\ ds[Len(r) + 1] = x
        /\ \A i \in 1..Len(r) : ds[i] = r[i]
        /\ \A i \in 0..Len(r) : Heights(ds)[i] = Heights(r)[i]
        /\ Heights(ds)[Len(r) + 1] = Heights(r)[Len(r)] + Owns(x)
    BY <1>1, PushedStack
  <1>3. ds # <<>>
    BY <1>1
  <1> HIDE DEF ds
  <1>4. Len(r) + 1 = Len(cs) /\ Len(r) \in 0..(Len(cs) - 1)
    BY <1>1
  <1> QED BY <1>1, <1>2, <1>3, <1>4 DEF r, ds

(* A new activation: one of dofile that will restore the directory of the  *)
(* chunk below it, or an include with its scope on top of the stack.       *)
LEMMA FramePushed ==
    ASSUME NEW cs \in Seq(Frames), NEW x \in Frames, NEW st, NEW tt,
           cs # <<>>, AllSound(cs, st),
           \A j \in 1..Heights(cs)[Len(cs)] : tt[j] = st[j],
           x.fn = "include" => /\ cs[Len(cs)].fn = "dofile"
                               /\ tt[Heights(cs)[Len(cs)] + 1] = x.saved,
           x.fn = "dofile" => /\ x.pushed = 0
                              /\ x.oldcwd = DirOf[Chunk(cs, Len(cs)).file]
                              /\ x.oldfile = Chunk(cs, Len(cs)).file,
           Unmoved(cs[Len(cs)]) =>
              x.fn = "include" /\ AtHome(x.saved.scope, cs[Len(cs)].home)
    PROVE  AllSound(Append(cs, x), tt)
  <1> DEFINE n == Len(cs)
             ds == Append(cs, x)
  <1>1. /\ ds \in Seq(Frames) /\ Len(ds) = n + 1 /\ ds[n + 1] = x
        /\ \A i \in 1..n : ds[i] = cs[i]
        /\ \A i \in 0..n : Heights(ds)[i] = Heights(cs)[i]
        /\ Heights(ds)[n + 1] = Heights(cs)[n] + Owns(x)
    BY PushedStack
  <1>2. n \in Nat \ {0} /\ cs[n] \in Frames /\ n \in 0..Len(cs) /\ Heights(cs)[n] \in Nat
    BY EmptySeq, HeightsOfStack
  <1> HIDE DEF ds
  <1>3. \A i \in 1..n : FrameSound(ds, tt, i)
    <2>1. n <= Len(ds) /\ \A i \in 1..n : FrameSound(cs, st, i)
      BY <1>1, <1>2 DEF AllSound
    <2> HIDE DEF n
    <2> QED BY <1>1, <1>2, <2>1, FrameKept DEF n
  <1>4. (n + 1) - 1 = n /\ n \in 0..n /\ n \in 1..n /\ n + 1 > 1 /\ ds[n] = cs[n]
    BY <1>1, <1>2
  <1>5. Chunk(ds, n) = Chunk(cs, n) /\ Chunk(cs, n).fn = "dofile"
    <2>1. CASE cs[n].fn = "dofile"
      BY <1>4, <2>1 DEF Chunk
    <2>2. CASE cs[n].fn # "dofile"
      <3>1. cs[n].fn = "include"
        BY <1>2, <2>2 DEF Frames, DofileFrames, IncludeFrames
      <3>2. n > 1 /\ cs[n - 1].fn = "dofile"
        BY <1>4, <3>1 DEF AllSound, FrameSound
      <3>3. n - 1 \in 1..n
        BY <1>2, <3>2
      <3> QED BY <1>1, <1>4, <2>2, <3>2, <3>3 DEF Chunk
    <2> QED BY <2>1, <2>2
  <1>6. FrameSound(ds, tt, n + 1)
    <2>1. x.fn = "include" => Heights(ds)[n + 1] = Heights(cs)[n] + 1
      BY <1>1 DEF Owns
    <2>2. x.fn = "include" =>
             /\ n + 1 > 1 /\ ds[(n + 1) - 1].fn = "dofile"
             /\ tt[Heights(ds)[n + 1]] = ds[n + 1].saved
      BY <1>1, <1>4, <2>1
    <2>3. x.fn = "dofile" =>
             /\ Chunk(ds, (n + 1) - 1).fn = "dofile"
             /\ ds[n + 1].oldcwd = DirOf[Chunk(ds, (n + 1) - 1).file]
             /\ ds[n + 1].oldfile = Chunk(ds, (n + 1) - 1).file
      BY <1>1, <1>4, <1>5
    <2>4. Unmoved(x) => (Heights(ds)[(n + 1) - 1] + 1)..Heights(ds)[n + 1] = {}
      <3>1. Unmoved(x) => Owns(x) = 0
        BY DEF Unmoved, Owns
      <3> QED BY <1>1, <1>2, <1>4, <3>1
    <2>5. Unmoved(ds[(n + 1) - 1]) =>
             ds[n + 1].fn = "include" /\ AtHome(ds[n + 1].saved.scope, ds[(n + 1) - 1].home)
      BY <1>1, <1>4
    <2>6. ds[n + 1] = x
      BY <1>1
    <2> HIDE DEF n
    <2> QED BY <2>2, <2>3, <2>4, <2>5, <2>6 DEF FrameSound
  <1>7. \A i \in 1..Len(ds) : i \in 1..n \/ i = n + 1
    BY <1>1, <1>2
  <1> QED BY <1>3, <1>6, <1>7 DEF AllSound, ds

(* The innermost activation after a step of its own. *)
Continues(c, x) ==
    /\ x.fn = c.fn
    /\ c.fn = "include" => x.saved = c.saved
    /\ c.fn = "dofile" => /\ x.oldcwd = c.oldcwd /\ x.oldfile = c.oldfile
                          /\ x.file = c.file /\ x.home = c.home
                          /\ c.moved => x.moved

LEMMA FrameReplaced ==
    ASSUME NEW cs \in Seq(Frames), NEW x \in Frames, NEW st, NEW tt,
           cs # <<>>, AllSound(cs, st), Continues(cs[Len(cs)], x),
           \A j \in 1..Heights(cs)[Len(cs) - 1] : tt[j] = st[j],
           x.fn = "include" => tt[Heights(cs)[Len(cs)]] = st[Heights(cs)[Len(cs)]],
           Unmoved(x) =>
             \A j \in (Heights(cs)[Len(cs) - 1] + 1)..(Heights(cs)[Len(cs) - 1] + Owns(x)) :
                AtHome(tt[j].scope, x.home)
    PROVE  LET ds == Append(SubSeq(cs, 1, Len(cs) - 1), x)
           IN  /\ AllSound(ds, tt)
               /\ Chunk(ds, Len(ds)).file = Chunk(cs, Len(cs)).file
  <1> DEFINE n == Len(cs)
             ds == Append(SubSeq(cs, 1, n - 1), x)
  <1>1. /\ ds \in Seq(Frames) /\ Len(ds) = n /\ ds[n] = x
        /\ \A i \in 1..(n - 1) : ds[i] = cs[i]
        /\ \A i \in 0..(n - 1) : Heights(ds)[i] = Heights(cs)[i]
        /\ Heights(ds)[n] = Heights(cs)[n - 1] + Owns(x)
    BY ReplacedStack
  <1>2. /\ n \in Nat \ {0} /\ cs[n] \in Frames /\ n - 1 \in 0..n /\ n \in 1..n
        /\ n - 1 \in 0..(n - 1) /\ Len(cs) = n
        /\ Heights(cs)[n] = Heights(cs)[n - 1] + Owns(cs[n])
    BY PoppedStack
  <1> HIDE DEF ds, n
  <1>3. \A i \in 1..(n - 1) : FrameSound(ds, tt, i)
    <2>1. n - 1 <= Len(ds) /\ \A i \in 1..(n - 1) : FrameSound(cs, st, i)
      BY <1>1, <1>2 DEF AllSound
    <2>2. \A j \in 1..Heights(cs)[n - 1] : tt[j] = st[j]
      BY DEF n
    <2> QED BY <1>1, <1>2, <2>1, <2>2, FrameKept
  <1>4. FrameSound(cs, st, n) /\ Continues(cs[n], x)
    BY <1>2 DEF AllSound, n
  <1>5. n > 1 => ds[n - 1] = cs[n - 1]
    BY <1>1, <1>2
  <1>6. n > 1 => Chunk(ds, n - 1) = Chunk(cs, n - 1)
    <2> SUFFICES ASSUME n > 1 PROVE Chunk(ds, n - 1) = Chunk(cs, n - 1)
      OBVIOUS
    <2>1. n - 1 \in 1..n /\ cs[n - 1] \in Frames
      BY <1>2
    <2>2. CASE cs[n - 1].fn = "dofile"
      BY <1>5, <2>2 DEF Chunk
    <2>3. CASE cs[n - 1].fn # "dofile"
      <3>1. cs[n - 1].fn = "include"
        BY <2>1, <2>3 DEF Frames, DofileFrames, IncludeFrames
      <3>2. n - 1 > 1
        BY <1>2, <2>1, <3>1 DEF AllSound, FrameSound
      <3>3. ds[(n - 1) - 1] = cs[(n - 1) - 1]
        BY <1>1, <1>2, <3>2
      <3> QED BY <1>5, <2>3, <3>3 DEF Chunk
    <2> QED BY <2>2, <2>3
  <1>7. FrameSound(ds, tt, n)
    <2>1. x.fn = "include" =>
             /\ n > 1 /\ ds[n - 1].fn = "dofile"
             /\ tt[Heights(ds)[n]] = ds[n].saved
      <3>1. x.fn = "include" => Heights(ds)[n] = Heights(cs)[n]
        BY <1>1, <1>2, <1>4 DEF Owns, Continues
      <3> QED BY <1>1, <1>4, <1>5, <3>1 DEF FrameSound, Continues, n
    <2>2. n > 1 /\ x.fn = "dofile" =>
             /\ Chunk(ds, n - 1).fn = "dofile"
             /\ ds[n].oldcwd = DirOf[Chunk(ds, n - 1).file]
             /\ ds[n].oldfile = Chunk(ds, n - 1).file
      BY <1>1, <1>4, <1>6 DEF FrameSound, Continues
    <2>3. Unmoved(x) =>
             \A j \in (Heights(ds)[n - 1] + 1)..Heights(ds)[n] : AtHome(tt[j].scope, x.home)
      BY <1>1, <1>2 DEF n
    <2>4. n > 1 /\ Unmoved(ds[n - 1]) =>
             ds[n].fn = "include" /\ AtHome(ds[n].saved.scope, ds[n - 1].home)
      BY <1>1, <1>4, <1>5 DEF FrameSound, Continues
    <2>5. ds[n] = x
      BY <1>1
    <2> QED BY <2>1, <2>2, <2>3, <2>4, <2>5, Zenon DEF FrameSound
  <1>8. AllSound(ds, tt)
    <2>1. \A i \in 1..Len(ds) : i \in 1..(n - 1) \/ i = n
      BY <1>1, <1>2
    <2> QED BY <1>3, <1>7, <2>1 DEF AllSound
  <1>9. Chunk(ds, n).file = Chunk(cs, n).file
    <2>1. CASE cs[n].fn = "dofile"
      BY <1>1, <1>4, <2>1 DEF Chunk, Continues
    <2>2. CASE cs[n].fn # "dofile"
      <3>1. cs[n].fn = "include"
        BY <1>2, <2>2 DEF Frames, DofileFrames, IncludeFrames
      <3>2. n > 1
        BY <1>4, <3>1 DEF FrameSound
      <3> QED BY <1>1, <1>4, <1>5, <2>2, <3>2 DEF Chunk, Continues
    <2> QED BY <2>1, <2>2
  <1> QED BY <1>1, <1>8, <1>9 DEF ds, n

LEMMA FramePopped ==
    ASSUME NEW cs \in Seq(Frames), NEW st, NEW tt, cs # <<>>, AllSound(cs, st),
           \A j \in 1..Heights(cs)[Len(cs) - 1] : tt[j] = st[j]
    PROVE  AllSound(SubSeq(cs, 1, Len(cs) - 1), tt)
  <1> DEFINE r == SubSeq(cs, 1, Len(cs) - 1)
             m == Len(cs) - 1
  <1>1. /\ r \in Seq(Frames) /\ Len(r) = m /\ \A i \in 1..m : r[i] = cs[i]
        /\ m \in 0..Len(cs) /\ m <= Len(r) /\ m \in Nat
    BY PoppedStack
  <1>2. \A i \in 1..m : FrameSound(cs, st, i)
    BY <1>1 DEF AllSound
  <1>3. \A j \in 1..Heights(cs)[m] : tt[j] = st[j]
    OBVIOUS
  <1> HIDE DEF r, m
  <1>4. \A i \in 1..m : FrameSound(r, tt, i)
    BY <1>1, <1>2, <1>3, FrameKept
  <1> QED BY <1>1, <1>4 DEF AllSound, r

-----------------------------------------------------------------------------
(* The solution and the scope of a chunk *)

LEMMA NearestType ==
    ASSUME slnScope \in [Dir -> Solutions], NEW d
    PROVE  NearestSln(d, slnScope) \in Solutions
  <1> DEFINE homes == {e \in Dir : e \in Above[d] /\ slnScope[e] # None}
             nearest == {e \in homes : homes \subseteq Above[e] \cup {e}}
  <1>1. CASE nearest = {}
    BY <1>1 DEF NearestSln, Solutions
  <1>2. CASE nearest # {}
    <2>1. (CHOOSE e \in nearest : TRUE) \in nearest
      BY <1>2
    <2>2. (CHOOSE e \in nearest : TRUE) \in Dir
      BY <2>1
    <2> QED BY <1>2, <2>2 DEF NearestSln
  <1> QED BY <1>1, <1>2

LEMMA OfType ==
    ASSUME NEW k \in {"solution", "project", "usage"}, NEW t \in Sln \cup {Global},
           NEW u \in Sln \cup {Global}
    PROVE  /\ Of(k, t, u) \in Containers /\ Of(k, t, u).kind = k
           /\ SlnOf(Of(k, t, u)) = t /\ Of(k, t, u).under = u
           /\ Of(k, t, u) # None
  BY ScriptsAssumption DEF Of, Containers, SlnOf

LEMMA SolutionScope ==
    ASSUME NEW t \in Sln \cup {Global}
    PROVE  /\ ScopeOfSolution(t) \in Scopes
           /\ Of("solution", t, t) \in Containers
           /\ Agrees(ScopeOfSolution(t), Of("solution", t, t))
           /\ t \in Sln => AtHome(ScopeOfSolution(t), t)
  <1> DEFINE c == Of("solution", t, t)
  <1>1. c \in Containers /\ c.kind = "solution" /\ SlnOf(c) = t /\ c.under = t
    BY OfType
  <1>2. t \in Sln => t # Global
    BY ScriptsAssumption
  <1>3. ScopeOfSolution(t) =
          [solution |-> t, project |-> None,
           namespace |-> IF t = Global THEN None ELSE t, configuration |-> c]
    BY DEF ScopeOfSolution
  <1> HIDE DEF c
  <1>4. ScopeOfSolution(t) \in Scopes
    BY <1>1, <1>3 DEF Scopes, Solutions
  <1>5. Agrees(ScopeOfSolution(t), c)
    BY <1>1, <1>3 DEF Agrees
  <1>6. t \in Sln => AtHome(ScopeOfSolution(t), t)
    BY <1>2, <1>3 DEF AtHome
  <1> QED BY <1>1, <1>4, <1>5, <1>6 DEF c

(* setup leaves a scope whose records agree, in the chunk's own solution. *)
LEMMA SetupSound ==
    ASSUME Types, Agrees(scope, container), NEW f \in File, setup(f)
    PROVE  /\ cwd' = DirOf[f] /\ DirOf[f] \in Dir /\ running' = f
           /\ scope' \in Scopes /\ container' \in Containers
           /\ Agrees(scope', container')
           /\ NearestSln(DirOf[f], slnScope) # None =>
                 AtHome(scope', NearestSln(DirOf[f], slnScope))
  <1> DEFINE t == NearestSln(DirOf[f], slnScope)
  <1>1. t \in Solutions /\ DirOf[f] \in Dir
    BY NearestType, ScriptsAssumption DEF Types
  <1>2. cwd' = DirOf[f] /\ running' = f
    BY DEF setup
  <1>3. scope \in Scopes /\ container \in Containers
    BY DEF Types
  <1>4. CASE t \notin {None, scope.solution}
    <2>1. t \in Sln /\ t # None
      BY <1>1, <1>4 DEF Solutions
    <2>2. scope' = [ScopeOfSolution(t) EXCEPT !.namespace = t] /\ container' = Of("solution", t, t)
      BY <1>4 DEF setup
    <2> HIDE DEF t
    <2>3. scope' = ScopeOfSolution(t)
      BY <2>1, <2>2, ScriptsAssumption DEF ScopeOfSolution
    <2>4. container' \in Containers
      BY <2>1, <2>2, SolutionScope
    <2> QED BY <1>1, <1>2, <2>1, <2>2, <2>3, <2>4, SolutionScope DEF t
  <1>5. CASE t \in {None, scope.solution}
    <2>1. scope' = [scope EXCEPT !.namespace = t] /\ container' = container
      BY <1>5 DEF setup
    <2> HIDE DEF t
    <2>2. scope' \in Scopes
      BY <1>1, <1>3, <2>1 DEF Scopes
    <2>3. /\ scope'.solution = scope.solution /\ scope'.project = scope.project
          /\ scope'.configuration = scope.configuration /\ scope'.namespace = t
      BY <1>3, <2>1 DEF Scopes
    <2>4. Agrees(scope', container')
      BY <2>1, <2>3 DEF Agrees
    <2>5. t # None => AtHome(scope', t)
      BY <1>5, <2>3 DEF AtHome
    <2> QED BY <1>1, <1>2, <1>3, <2>1, <2>2, <2>4, <2>5 DEF t
  <1> QED BY <1>4, <1>5

(* The activations of cs are sound, cs accounts for the scopes, and the    *)
(* chunk that runs, or waits, is in its directory.                         *)
Ready(cs) ==
    /\ cs \in Seq(Frames) /\ cs # <<>>
    /\ AllSound(cs, scopeStack)
    /\ Heights(cs)[Len(cs)] = Len(scopeStack)
    /\ cwd = DirOf[Chunk(cs, Len(cs)).file] /\ running = Chunk(cs, Len(cs)).file

(* A call of dofile by something that is not bound to stay where it is. *)
LEMMA DofileSound ==
    ASSUME Types, Agrees(scope, container), NEW f \in File, NEW cs,
           Ready(cs), ~Unmoved(cs[Len(cs)]), Dofile(f, cs), scopeStack' = scopeStack
    PROVE  /\ cwd' \in Dir /\ running' \in File \cup {None}
           /\ scope' \in Scopes /\ container' \in Containers
           /\ Agrees(scope', container')
           /\ calls' \in Seq(Frames)
           /\ StackAccounted' /\ FramesSound' /\ TopSound'
  <1>0. Len(cs) \in Nat \ {0} /\ Heights(cs)[Len(cs)] \in Nat
    BY EmptySeq, HeightsOfStack DEF Ready
  <1>1. CASE calls' = cs /\ UNCHANGED <<cwd, running, scope, container>>
    <2>1. StackAccounted'
      BY <1>1 DEF StackAccounted, Ready
    <2>2. FramesSound'
      BY <1>1 DEF FramesSound, Ready, AllSound
    <2>3. TopSound'
      BY <1>1 DEF TopSound, Ready
    <2> QED BY <1>1, <2>1, <2>2, <2>3 DEF Types, Ready
  <1>2. CASE calls' = Append(cs, DofileCall(f)) /\ setup(f)
    <2> DEFINE x == DofileCall(f)
               t == NearestSln(DirOf[f], slnScope)
    <2>1. /\ x \in Frames /\ x.fn = "dofile" /\ x.pushed = 0 /\ x.home = t
          /\ x.oldcwd = cwd /\ x.oldfile = running /\ x.file = f
      <3>1. t \in Solutions
        BY NearestType DEF Types
      <3>2. x \in DofileFrames
        BY <3>1 DEF DofileCall, DofileFrames, Types
      <3> QED BY <3>2 DEF DofileCall, Frames
    <2> HIDE DEF x, t
    <2>2. /\ calls' \in Seq(Frames) /\ Len(calls') = Len(cs) + 1
          /\ calls'[Len(cs) + 1] = x
          /\ Heights(calls')[Len(cs) + 1] = Heights(cs)[Len(cs)] + Owns(x)
      BY <1>2, <2>1, PushedStack DEF x, Ready
    <2>3. AllSound(Append(cs, x), scopeStack)
      <3>1. cs \in Seq(Frames) /\ cs # <<>> /\ AllSound(cs, scopeStack)
            /\ x.oldcwd = DirOf[Chunk(cs, Len(cs)).file]
            /\ x.oldfile = Chunk(cs, Len(cs)).file
        BY <2>1 DEF Ready
      <3>2. x.fn # "include"
        BY <2>1
      <3> QED BY <2>1, <3>1, <3>2, FramePushed
    <2>4. Owns(x) = 0
      BY <2>1 DEF Owns
    <2>5. StackAccounted'
      BY <1>0, <2>2, <2>4 DEF StackAccounted, Ready
    <2>6. FramesSound'
      BY <1>2, <2>3 DEF FramesSound, AllSound, x
    <2>7. /\ cwd' = DirOf[f] /\ DirOf[f] \in Dir /\ running' = f
          /\ scope' \in Scopes /\ container' \in Containers
          /\ Agrees(scope', container')
          /\ t # None => AtHome(scope', t)
      BY <1>2, SetupSound DEF t
    <2>8. TopSound'
      <3>1. calls'[Len(calls')] = x /\ Chunk(calls', Len(calls')) = x
        BY <2>1, <2>2 DEF Chunk
      <3>2. Unmoved(x) => AtHome(scope', x.home)
        BY <2>1, <2>7 DEF Unmoved
      <3> QED BY <2>1, <2>7, <3>1, <3>2 DEF TopSound
    <2> QED BY <2>2, <2>5, <2>6, <2>7, <2>8
  <1> QED BY <1>1, <1>2 DEF Dofile

-----------------------------------------------------------------------------
(* The steps preserve the invariant *)

LEMMA TopFacts ==
    ASSUME Inv, calls # <<>>
    PROVE  /\ Ready(calls)
           /\ Len(calls) \in Nat \ {0} /\ Top \in Frames
           /\ Heights(calls)[Len(calls) - 1] \in Nat
           /\ Owns(Top) \in Nat
           /\ Len(scopeStack) = Heights(calls)[Len(calls) - 1] + Owns(Top)
           /\ Unmoved(Top) => AtHome(scope, Top.home)
           /\ FrameSound(calls, scopeStack, Len(calls))
  <1>1. calls \in Seq(Frames) /\ scopeStack \in Seq(SavedScopes)
    BY DEF Inv, Types
  <1>2. /\ Len(calls) \in Nat \ {0} /\ Top \in Frames
        /\ Heights(calls)[Len(calls)] = Heights(calls)[Len(calls) - 1] + Owns(Top)
        /\ Heights(calls)[Len(calls) - 1] \in Nat
    <2>1. Len(calls) \in Nat \ {0}
      BY <1>1, EmptySeq
    <2>2. Len(calls) \in 1..Len(calls) /\ Len(calls) - 1 \in 0..Len(calls)
      BY <2>1
    <2> QED BY <1>1, <2>1, <2>2, HeightsOfStack DEF Top
  <1>3. Owns(Top) \in Nat
    BY <1>2, OwnsType
  <1>4. Len(scopeStack) = Heights(calls)[Len(calls)]
    BY DEF Inv, StackAccounted
  <1>5. AllSound(calls, scopeStack)
    BY DEF Inv, FramesSound, AllSound
  <1>6. /\ cwd = DirOf[Chunk(calls, Len(calls)).file]
        /\ running = Chunk(calls, Len(calls)).file
        /\ Unmoved(Top) => AtHome(scope, Top.home)
    BY DEF Inv, TopSound, Top
  <1>7. Ready(calls)
    BY <1>1, <1>4, <1>5, <1>6 DEF Ready
  <1>8. FrameSound(calls, scopeStack, Len(calls))
    BY <1>2, <1>5 DEF AllSound
  <1> QED BY <1>2, <1>3, <1>4, <1>6, <1>7, <1>8

(* The innermost activation takes a step, in its own directory. *)
LEMMA TopContinues ==
    ASSUME Inv, calls # <<>>, NEW x \in Frames, Continues(Top, x),
           calls' = Append(Rest, x), UNCHANGED <<cwd, running>>,
           Len(scopeStack') = Heights(calls)[Len(calls) - 1] + Owns(x),
           \A j \in 1..Heights(calls)[Len(calls) - 1] : scopeStack'[j] = scopeStack[j],
           x.fn = "include" => scopeStack' = scopeStack,
           Unmoved(x) =>
             /\ AtHome(scope', x.home)
             /\ \A j \in (Heights(calls)[Len(calls) - 1] + 1)..Len(scopeStack') :
                   AtHome(scopeStack'[j].scope, x.home)
    PROVE  calls' \in Seq(Frames) /\ StackAccounted' /\ FramesSound' /\ TopSound'
  <1> DEFINE n == Len(calls)
  <1>1. /\ calls \in Seq(Frames) /\ AllSound(calls, scopeStack)
        /\ cwd = DirOf[Chunk(calls, n).file] /\ running = Chunk(calls, n).file
    BY TopFacts DEF Ready
  <1>2. /\ calls' \in Seq(Frames) /\ Len(calls') = n /\ calls'[n] = x
        /\ Heights(calls')[n] = Heights(calls)[n - 1] + Owns(x)
    BY <1>1, ReplacedStack DEF Rest
  <1>3. AllSound(calls', scopeStack') /\ Chunk(calls', Len(calls')).file = Chunk(calls, n).file
    BY <1>1, FrameReplaced DEF Rest, Top
  <1>4. StackAccounted'
    BY <1>2 DEF StackAccounted
  <1>5. FramesSound'
    BY <1>3 DEF FramesSound, AllSound
  <1>6. TopSound'
    BY <1>1, <1>2, <1>3 DEF TopSound
  <1> QED BY <1>2, <1>4, <1>5, <1>6

(* The types of the records of a running chunk. *)
LEMMA RunningTop ==
    ASSUME Inv, Running
    PROVE  /\ calls # <<>> /\ Top \in DofileFrames /\ Owns(Top) = Top.pushed
           /\ cwd = DirOf[Top.file] /\ running = Top.file
  <1>1. calls # <<>> /\ Top.fn = "dofile"
    BY DEF Running
  <1>2. Top \in DofileFrames
    BY <1>1, TopFacts DEF Frames, DofileFrames, IncludeFrames
  <1>3. Chunk(calls, Len(calls)) = Top
    BY <1>1 DEF Chunk, Top
  <1> QED BY <1>1, <1>2, <1>3, TopFacts DEF Ready, Owns

LEMMA InitInv == Init => Inv
  <1> SUFFICES ASSUME Init PROVE Inv
    OBVIOUS
  <1> DEFINE x == [fn |-> "dofile", oldcwd |-> DirOf[Main], oldfile |-> None,
                   file |-> Main, pushed |-> 0, moved |-> FALSE, home |-> None]
  <1>1. DirOf[Main] \in Dir /\ Main \in File
    BY ScriptsAssumption
  <1>2. x \in Frames
    BY <1>1 DEF Frames, DofileFrames, Solutions
  <1>3. calls = <<x>> /\ x.fn = "dofile" /\ x.home = None /\ x.file = Main /\ x.pushed = 0
    BY DEF Init
  <1> HIDE DEF x
  <1>4. calls \in Seq(Frames) /\ Len(calls) = 1 /\ calls[1] = x
    BY <1>2, <1>3
  <1>5. scope \in Scopes /\ container \in Containers /\ Agrees(scope, container)
    BY SolutionScope DEF Init
  <1>6. usages = {} /\ declared = {}
    BY DEF Init
  <1>7. Types
    BY <1>1, <1>4, <1>5, <1>6 DEF Init, Types, Solutions
  <1>8. StackAccounted
    <2>1. Heights(calls)[1] = Heights(calls)[1 - 1] + Owns(calls[1]) /\ Heights(calls)[0] = 0
      BY <1>4, HeightsOfStack
    <2> QED BY <1>3, <1>4, <2>1 DEF StackAccounted, Init, Owns
  <1>9. FramesSound
    <2>1. FrameSound(calls, scopeStack, 1)
      BY <1>3, <1>4 DEF FrameSound, Unmoved
    <2> QED BY <1>4, <2>1 DEF FramesSound
  <1>10. TopSound
    BY <1>3, <1>4 DEF TopSound, Chunk, Unmoved, Init
  <1>11. ScopesAgree
    BY <1>5 DEF ScopesAgree, Init
  <1>12. Loaded /\ SubdirsInSolution
    BY DEF Loaded, SubdirsInSolution, Init
  <1> QED BY <1>7, <1>8, <1>9, <1>10, <1>11, <1>12 DEF Inv

LEMMA SolutionInv == ASSUME Inv, NEW t \in Sln \cup {Global}, solution(t) PROVE Inv'
  <1> DEFINE x == [Top EXCEPT !.moved = TRUE]
             h == Heights(calls)[Len(calls) - 1]
  <1>1. Running /\ calls' = Append(Rest, x)
    BY DEF solution, Statement
  <1>2. calls # <<>> /\ Top \in DofileFrames /\ Owns(Top) = Top.pushed
    BY <1>1, RunningTop
  <1>3. x \in Frames /\ Continues(Top, x) /\ ~Unmoved(x) /\ Owns(x) = Owns(Top) /\ x.fn = "dofile"
    BY <1>2 DEF DofileFrames, Frames, Continues, Unmoved, Owns
  <1>4. UNCHANGED <<cwd, running, includedFiles, loads, scopeStack, declared, usages>>
    BY DEF solution, Files, Declarations
  <1>5. Len(scopeStack') = h + Owns(x) /\ \A j \in 1..h : scopeStack'[j] = scopeStack[j]
    BY <1>2, <1>3, <1>4, TopFacts
  <1>6. calls' \in Seq(Frames) /\ StackAccounted' /\ FramesSound' /\ TopSound'
    <2> HIDE DEF x
    <2> QED BY <1>1, <1>2, <1>3, <1>4, <1>5, TopContinues
  <1>7. scope' \in Scopes /\ container' \in Containers /\ Agrees(scope', container')
    BY SolutionScope DEF solution
  <1>8. slnScope' \in [Dir -> Solutions]
    <2>1. slnScope \in [Dir -> Solutions]
      BY DEF Inv, Types
    <2>2. CASE t = Global
      BY <2>1, <2>2 DEF solution
    <2>3. CASE t # Global
      BY <2>1, <2>3 DEF solution, Solutions
    <2> QED BY <2>2, <2>3
  <1>9. Types'
    BY <1>4, <1>6, <1>7, <1>8 DEF Types, Inv
  <1>10. ScopesAgree' /\ Loaded' /\ SubdirsInSolution'
    BY <1>4, <1>7 DEF ScopesAgree, Loaded, SubdirsInSolution, Inv
  <1> QED BY <1>6, <1>9, <1>10 DEF Inv

(* A statement that stays in the solution in scope. *)
LEMMA StaysInScope ==
    ASSUME Inv, UNCHANGED <<cwd, running, scopeStack, calls>>,
           scope'.solution = scope.solution, scope'.namespace = scope.namespace
    PROVE  StackAccounted' /\ FramesSound' /\ TopSound'
  <1>1. StackAccounted' /\ FramesSound'
    BY DEF Inv, StackAccounted, FramesSound
  <1>2. TopSound'
    BY DEF Inv, TopSound, AtHome
  <1> QED BY <1>1, <1>2

(* The scope enters a project or a usage, of whatever solution. *)
LEMMA EntersProject ==
    ASSUME Types, NEW k \in {"project", "usage"}, NEW t \in Sln \cup {Global},
           Enter(Of(k, t, scope.solution))
    PROVE  /\ scope' \in Scopes /\ container' \in Containers
           /\ Agrees(scope', container')
           /\ scope'.solution = scope.solution /\ scope'.namespace = scope.namespace
  <1>1. scope \in Scopes /\ scope.solution \in Sln \cup {Global}
    BY DEF Types, Scopes
  <1>2. /\ container' \in Containers /\ container'.kind = k
        /\ container'.under = scope.solution
    BY <1>1, OfType DEF Enter
  <1>3. scope' = [scope EXCEPT !.project = container', !.configuration = container']
    BY DEF Enter
  <1>4. /\ scope' \in Scopes
        /\ scope'.solution = scope.solution /\ scope'.namespace = scope.namespace
        /\ scope'.project = container' /\ scope'.configuration = container'
    BY <1>1, <1>2, <1>3 DEF Scopes
  <1> QED BY <1>2, <1>4 DEF Agrees

(* A project that is new is in the solution in scope; one that exists is   *)
(* entered where it is.                                                    *)
LEMMA ProjectInv == ASSUME Inv, project PROVE Inv'
  <1>1. UNCHANGED <<cwd, running, includedFiles, loads, scopeStack, slnScope, calls>>
    BY DEF project, Files
  <1>2. /\ Running /\ scope.solution \in Sln
        /\ \A p \in declared : p.sln \in Sln \cup {Global}
        /\ usages \subseteq Sln \cup {Global}
    BY DEF project, Statement, Inv, Types
  <1>3. \E t \in Sln \cup {Global} : Enter(Of("project", t, scope.solution))
    BY <1>2 DEF project
  <1>4. /\ scope' \in Scopes /\ container' \in Containers
        /\ Agrees(scope', container')
        /\ scope'.solution = scope.solution /\ scope'.namespace = scope.namespace
    BY <1>3, EntersProject DEF Inv
  <1>5. StackAccounted' /\ FramesSound' /\ TopSound'
    BY <1>1, <1>4, StaysInScope
  <1> DEFINE q == [sln |-> scope.solution, namespace |-> scope.namespace,
                   home |-> Top.home, moved |-> Top.moved]
  <1>6. declared' \subseteq declared \cup {q} /\ usages' \subseteq Sln \cup {Global}
    BY <1>2 DEF project, Declarations
  <1>7. q.sln = scope.solution
    OBVIOUS
  <1>8. q.home # None /\ ~q.moved => q.sln = q.home /\ q.namespace = q.home
    <2>1. Top.home # None /\ ~Top.moved => Unmoved(Top)
      BY <1>2 DEF Running, Unmoved
    <2>2. Unmoved(Top) => AtHome(scope, Top.home)
      BY <1>2, RunningTop, TopFacts
    <2> QED BY <2>1, <2>2 DEF AtHome
  <1> HIDE DEF q
  <1>9. Types'
    <2>1. \A p \in declared' : p.sln \in Sln \cup {Global}
      BY <1>2, <1>6, <1>7
    <2> QED BY <1>1, <1>4, <1>6, <2>1 DEF Types, Inv
  <1>10. ScopesAgree' /\ Loaded'
    BY <1>1, <1>4 DEF ScopesAgree, Loaded, Inv
  <1>11. SubdirsInSolution'
    <2>1. \A p \in declared : p.home # None /\ ~p.moved => p.sln = p.home /\ p.namespace = p.home
      BY DEF Inv, SubdirsInSolution
    <2> QED BY <1>6, <1>8, <2>1 DEF SubdirsInSolution
  <1> QED BY <1>5, <1>9, <1>10, <1>11 DEF Inv

LEMMA UsageInv == ASSUME Inv, usage PROVE Inv'
  <1>1. UNCHANGED <<cwd, running, includedFiles, loads, scopeStack, slnScope, calls, declared>>
    BY DEF usage, Files
  <1>2. /\ SlnOf(container) \in Sln \cup {Global}
        /\ usages \subseteq Sln \cup {Global}
    BY DEF Inv, Types, Containers, SlnOf
  <1>3. PICK t \in Sln \cup {Global} :
            Enter(Of("usage", t, scope.solution)) /\ usages' = usages \cup {t}
    BY <1>2 DEF usage
  <1>4. /\ scope' \in Scopes /\ container' \in Containers
        /\ Agrees(scope', container')
        /\ scope'.solution = scope.solution /\ scope'.namespace = scope.namespace
    BY <1>3, EntersProject DEF Inv
  <1>5. StackAccounted' /\ FramesSound' /\ TopSound'
    BY <1>1, <1>4, StaysInScope
  <1>6. Types'
    BY <1>1, <1>2, <1>3, <1>4 DEF Types, Inv
  <1>7. ScopesAgree' /\ Loaded' /\ SubdirsInSolution'
    BY <1>1, <1>4 DEF ScopesAgree, Loaded, SubdirsInSolution, Inv
  <1> QED BY <1>5, <1>6, <1>7 DEF Inv

LEMMA ScopepushInv == ASSUME Inv, scopepush PROVE Inv'
  <1> DEFINE x == [Top EXCEPT !.pushed = @ + 1]
             h == Heights(calls)[Len(calls) - 1]
             k == Len(scopeStack)
  <1>1. Running /\ calls' = Append(Rest, x) /\ scopeStack' = Append(scopeStack, Saved)
    BY DEF scopepush, Statement
  <1>2. calls # <<>> /\ Top \in DofileFrames /\ Owns(Top) = Top.pushed
    BY <1>1, RunningTop
  <1>3. /\ x \in Frames /\ Continues(Top, x) /\ Owns(x) = Owns(Top) + 1 /\ x.fn = "dofile"
        /\ x.home = Top.home /\ (Unmoved(x) => Unmoved(Top))
    BY <1>2 DEF DofileFrames, Frames, Continues, Unmoved, Owns
  <1>4. UNCHANGED <<cwd, running, includedFiles, loads, scope, container, slnScope, declared, usages>>
    BY DEF scopepush, Files, Declarations
  <1>5. k = h + Owns(Top) /\ h \in Nat /\ Owns(Top) \in Nat
    BY <1>2, TopFacts
  <1>6. /\ scopeStack \in Seq(SavedScopes) /\ Saved \in SavedScopes
        /\ Saved.scope = scope /\ Saved.container = container
    BY DEF Inv, Types, Saved, SavedScopes
  <1>7. /\ scopeStack' \in Seq(SavedScopes) /\ Len(scopeStack') = k + 1
        /\ \A j \in 1..k : scopeStack'[j] = scopeStack[j]
        /\ scopeStack'[k + 1] = Saved
    BY <1>1, <1>6
  <1> HIDE DEF x, h, k
  <1>8. /\ Len(scopeStack') = h + Owns(x)
        /\ \A j \in 1..h : scopeStack'[j] = scopeStack[j]
        /\ \A j \in (h + 1)..(k + 1) : j \in (h + 1)..k \/ j = k + 1
        /\ \A j \in (h + 1)..k : scopeStack'[j] = scopeStack[j]
        /\ \A j \in 1..(k + 1) : j \in 1..k \/ j = k + 1
    BY <1>3, <1>5, <1>7
  <1>9. ASSUME Unmoved(x)
        PROVE  /\ AtHome(scope', x.home)
               /\ \A j \in (h + 1)..Len(scopeStack') : AtHome(scopeStack'[j].scope, x.home)
    <2>1. Unmoved(Top) /\ AtHome(scope, x.home)
      BY <1>2, <1>3, <1>9, TopFacts
    <2>2. Heights(calls)[Len(calls)] = k
      BY <1>2, TopFacts DEF Ready, k
    <2>3. \A j \in (h + 1)..k : AtHome(scopeStack[j].scope, x.home)
      BY <1>2, <1>3, <2>1, <2>2, TopFacts DEF FrameSound, Top, h
    <2> QED BY <1>4, <1>6, <1>7, <1>8, <2>1, <2>3
  <1>10. calls' \in Seq(Frames) /\ StackAccounted' /\ FramesSound' /\ TopSound'
    BY <1>1, <1>2, <1>3, <1>4, <1>8, <1>9, TopContinues DEF x, h
  <1>11. Types'
    BY <1>4, <1>7, <1>10 DEF Types, Inv
  <1>12. ScopesAgree'
    BY <1>4, <1>6, <1>7, <1>8 DEF ScopesAgree, Inv, k
  <1>13. Loaded' /\ SubdirsInSolution'
    BY <1>4 DEF Loaded, SubdirsInSolution, Inv
  <1> QED BY <1>10, <1>11, <1>12, <1>13 DEF Inv

(* scopepop and the end of an include: what the last scope gives back. *)
LEMMA PopScopeSound ==
    ASSUME Inv, PopScope, Len(scopeStack) > 0
    PROVE  /\ scopeStack' \in Seq(SavedScopes)
           /\ Len(scopeStack') = Len(scopeStack) - 1
           /\ \A j \in 1..(Len(scopeStack) - 1) : scopeStack'[j] = scopeStack[j]
           /\ scope' = scopeStack[Len(scopeStack)].scope
           /\ container' = scopeStack[Len(scopeStack)].container
           /\ scope' \in Scopes /\ container' \in Containers
           /\ ScopesAgree'
  <1> DEFINE k == Len(scopeStack)
  <1>1. scopeStack \in Seq(SavedScopes) /\ scopeStack # <<>>
    BY DEF Inv, Types
  <1>2. /\ scopeStack' = SubSeq(scopeStack, 1, k - 1)
        /\ scope' = scopeStack[k].scope /\ container' = scopeStack[k].container
    BY DEF PopScope, Front, Last
  <1>3. /\ scopeStack' \in Seq(SavedScopes) /\ Len(scopeStack') = k - 1
        /\ \A j \in 1..(k - 1) : scopeStack'[j] = scopeStack[j]
        /\ k \in Nat \ {0} /\ scopeStack[k] \in SavedScopes
    BY <1>1, <1>2, FrontOfStack
  <1>4. scope' \in Scopes /\ container' \in Containers
    BY <1>2, <1>3 DEF SavedScopes
  <1>5. ScopesAgree'
    <2>1. \A j \in 1..k : Agrees(scopeStack[j].scope, scopeStack[j].container)
      BY DEF Inv, ScopesAgree
    <2> HIDE DEF k
    <2>2. k \in 1..k /\ \A j \in 1..(k - 1) : j \in 1..k
      BY <1>3
    <2> QED BY <1>2, <1>3, <2>1, <2>2 DEF ScopesAgree
  <1> QED BY <1>2, <1>3, <1>4, <1>5

LEMMA ScopepopInv == ASSUME Inv, scopepop PROVE Inv'
  <1> DEFINE x == [Top EXCEPT !.pushed = @ - 1]
             h == Heights(calls)[Len(calls) - 1]
             k == Len(scopeStack)
  <1>1. Running /\ Top.pushed > 0 /\ calls' = Append(Rest, x) /\ PopScope
    BY DEF scopepop
  <1>2. calls # <<>> /\ Top \in DofileFrames /\ Owns(Top) = Top.pushed
    BY <1>1, RunningTop
  <1>3. /\ x \in Frames /\ Continues(Top, x) /\ Owns(x) = Owns(Top) - 1 /\ x.fn = "dofile"
        /\ x.home = Top.home /\ (Unmoved(x) => Unmoved(Top))
    BY <1>1, <1>2 DEF DofileFrames, Frames, Continues, Unmoved, Owns
  <1>4. UNCHANGED <<cwd, running, includedFiles, loads, slnScope, declared, usages>>
    BY DEF scopepop, Files, Declarations
  <1>5. k = h + Owns(Top) /\ h \in Nat /\ Owns(Top) \in Nat /\ Owns(Top) > 0
    BY <1>1, <1>2, TopFacts
  <1>6. k > 0
    BY <1>5
  <1>7. /\ scopeStack' \in Seq(SavedScopes) /\ Len(scopeStack') = k - 1
        /\ \A j \in 1..(k - 1) : scopeStack'[j] = scopeStack[j]
        /\ scope' = scopeStack[k].scope
        /\ scope' \in Scopes /\ container' \in Containers
        /\ ScopesAgree'
    BY <1>1, <1>6, PopScopeSound
  <1> HIDE DEF x, h, k
  <1>8. /\ Len(scopeStack') = h + Owns(x)
        /\ \A j \in 1..h : scopeStack'[j] = scopeStack[j]
        /\ \A j \in (h + 1)..(k - 1) : scopeStack'[j] = scopeStack[j] /\ j \in (h + 1)..k
        /\ k \in (h + 1)..k
    BY <1>3, <1>5, <1>7
  <1>9. ASSUME Unmoved(x)
        PROVE  /\ AtHome(scope', x.home)
               /\ \A j \in (h + 1)..Len(scopeStack') : AtHome(scopeStack'[j].scope, x.home)
    <2>1. Unmoved(Top)
      BY <1>3, <1>9
    <2>2. Heights(calls)[Len(calls)] = k
      BY <1>2, TopFacts DEF Ready, k
    <2>3. \A j \in (h + 1)..k : AtHome(scopeStack[j].scope, x.home)
      BY <1>2, <1>3, <2>1, <2>2, TopFacts DEF FrameSound, Top, h
    <2> QED BY <1>7, <1>8, <2>3
  <1>10. calls' \in Seq(Frames) /\ StackAccounted' /\ FramesSound' /\ TopSound'
    BY <1>1, <1>2, <1>3, <1>4, <1>8, <1>9, TopContinues DEF x, h
  <1>11. Types'
    BY <1>4, <1>7, <1>10 DEF Types, Inv
  <1>12. Loaded' /\ SubdirsInSolution'
    BY <1>4 DEF Loaded, SubdirsInSolution, Inv
  <1> QED BY <1>7, <1>10, <1>11, <1>12 DEF Inv

(* A chunk that loads a single file is no longer bound to its solution. *)
LEMMA MovedReady ==
    ASSUME Inv, Running
    PROVE  Ready(Moved) /\ ~Unmoved(Moved[Len(Moved)])
  <1> DEFINE x == [Top EXCEPT !.moved = TRUE]
             n == Len(calls)
  <1>1. calls # <<>> /\ Top \in DofileFrames
    BY RunningTop
  <1>2. x \in Frames /\ Continues(Top, x) /\ ~Unmoved(x) /\ Owns(x) = Owns(Top) /\ x.fn = "dofile"
    BY <1>1 DEF DofileFrames, Frames, Continues, Unmoved, Owns
  <1>3. /\ calls \in Seq(Frames) /\ AllSound(calls, scopeStack)
        /\ cwd = DirOf[Chunk(calls, n).file] /\ running = Chunk(calls, n).file
        /\ Len(scopeStack) = Heights(calls)[n - 1] + Owns(Top)
        /\ n \in Nat \ {0}
    BY <1>1, TopFacts DEF Ready
  <1> HIDE DEF x
  <1>4. /\ Moved \in Seq(Frames) /\ Len(Moved) = n /\ Moved[n] = x /\ Moved # <<>>
        /\ Heights(Moved)[n] = Heights(calls)[n - 1] + Owns(x)
    BY <1>1, <1>2, <1>3, ReplacedStack DEF Moved, Rest, x
  <1>5. /\ AllSound(Moved, scopeStack)
        /\ Chunk(Moved, Len(Moved)).file = Chunk(calls, n).file
    <2>1. Continues(calls[Len(calls)], x)
      BY <1>2 DEF Top
    <2> QED BY <1>1, <1>2, <1>3, <2>1, FrameReplaced DEF Moved, Rest, x
  <1> QED BY <1>2, <1>3, <1>4, <1>5 DEF Ready

LEMMA DofileInv == ASSUME Inv, NEW f \in File, dofile(f) PROVE Inv'
  <1>1. Running /\ Dofile(f, Moved)
        /\ UNCHANGED <<includedFiles, loads, scopeStack, slnScope, declared, usages>>
    BY DEF dofile, Statement, Declarations
  <1>2. Types /\ Agrees(scope, container)
    BY DEF Inv, ScopesAgree
  <1>3. /\ cwd' \in Dir /\ running' \in File \cup {None}
        /\ scope' \in Scopes /\ container' \in Containers
        /\ Agrees(scope', container')
        /\ calls' \in Seq(Frames)
        /\ StackAccounted' /\ FramesSound' /\ TopSound'
    BY <1>1, <1>2, MovedReady, DofileSound
  <1>4. Types'
    BY <1>1, <1>3 DEF Types, Inv
  <1>5. ScopesAgree' /\ Loaded' /\ SubdirsInSolution'
    BY <1>1, <1>3 DEF ScopesAgree, Loaded, SubdirsInSolution, Inv
  <1> QED BY <1>3, <1>4, <1>5 DEF Inv

(* include hands a file to dofile the first time it meets it. *)
LEMMA LoadedOnce ==
    ASSUME Types, Loaded, NEW f \in File, f \notin includedFiles,
           includedFiles' = includedFiles \cup {f},
           loads' = [loads EXCEPT ![f] = @ + 1]
    PROVE  loads' \in [File -> Nat] /\ Loaded'
  <1>1. loads \in [File -> Nat] /\ loads[f] = 0
    BY DEF Types, Loaded
  <1>2. loads' \in [File -> Nat]
    BY <1>1
  <1>3. ASSUME NEW g \in File
        PROVE  loads'[g] <= 1 /\ (loads'[g] # 0 => g \in includedFiles')
    <2>1. CASE g = f
      BY <1>1, <2>1
    <2>2. CASE g # f
      BY <1>1, <2>2 DEF Loaded
    <2> QED BY <2>1, <2>2
  <1> QED BY <1>2, <1>3 DEF Loaded

LEMMA IncludeFileInv == ASSUME Inv, NEW f \in File, includeFile(f) PROVE Inv'
  <1>1. /\ Running /\ includedFiles' = includedFiles \cup {f}
        /\ UNCHANGED <<scopeStack, slnScope, declared, usages>>
    BY DEF includeFile, Statement, Declarations
  <1>2. Types /\ Agrees(scope, container) /\ Loaded
    BY DEF Inv, ScopesAgree
  <1>3. CASE f \in includedFiles
    <2>1. UNCHANGED <<cwd, running, scope, container, calls, loads>>
      BY <1>3 DEF includeFile
    <2>2. StackAccounted' /\ FramesSound' /\ TopSound'
      BY <1>1, <2>1, StaysInScope
    <2>3. Types'
      BY <1>1, <2>1 DEF Types, Inv
    <2>4. ScopesAgree' /\ Loaded' /\ SubdirsInSolution'
      BY <1>1, <2>1 DEF ScopesAgree, Loaded, SubdirsInSolution, Inv
    <2> QED BY <2>2, <2>3, <2>4 DEF Inv
  <1>4. CASE f \notin includedFiles
    <2>1. Dofile(f, Moved) /\ loads' = [loads EXCEPT ![f] = @ + 1]
      BY <1>4 DEF includeFile, IncludeFirst
    <2>2. /\ cwd' \in Dir /\ running' \in File \cup {None}
          /\ scope' \in Scopes /\ container' \in Containers
          /\ Agrees(scope', container')
          /\ calls' \in Seq(Frames)
          /\ StackAccounted' /\ FramesSound' /\ TopSound'
      BY <1>1, <1>2, <2>1, MovedReady, DofileSound
    <2>3. loads' \in [File -> Nat] /\ Loaded'
      BY <1>1, <1>2, <1>4, <2>1, LoadedOnce
    <2>4. Types'
      BY <1>1, <1>2, <2>2, <2>3 DEF Types
    <2>5. ScopesAgree' /\ SubdirsInSolution'
      BY <1>1, <2>2 DEF ScopesAgree, SubdirsInSolution, Inv
    <2> QED BY <2>2, <2>3, <2>4, <2>5 DEF Inv
  <1> QED BY <1>3, <1>4

(* include of a directory visits scripts. *)
LEMMA ScriptsInType ==
    ASSUME NEW d \in Dir, NEW fs \in ScriptsIn(d)
    PROVE  fs \in Seq(File)
  <1>1. CASE isExcludeDir(d)
    BY <1>1 DEF ScriptsIn
  <1>2. CASE ~isExcludeDir(d)
    <2>1. fs \in SetToSeqs(Under(d))
      BY <1>2 DEF ScriptsIn, matchfiles
    <2>2. fs \in [1..Cardinality(Under(d)) -> Under(d)]
      BY <2>1 DEF SetToSeqs
    <2>3. Under(d) \in SUBSET File
      BY DEF Under
    <2>4. Cardinality(Under(d)) \in Nat
      BY <2>3, FS_Subset, FS_CardinalityType, ScriptsAssumption
    <2> QED BY <2>2, <2>3, <2>4
  <1> QED BY <1>1, <1>2

LEMMA IncludeDirInv == ASSUME Inv, NEW d \in Dir, includeDir(d) PROVE Inv'
  <1>1. /\ Running /\ scopeStack' = Append(scopeStack, Saved)
        /\ UNCHANGED <<cwd, running, includedFiles, loads, scope, container, slnScope, declared, usages>>
    BY DEF includeDir, Statement, Files, Declarations
  <1>2. PICK fs \in ScriptsIn(d) : calls' = Append(calls, IncludeCall(fs))
    BY DEF includeDir
  <1> DEFINE x == IncludeCall(fs)
             n == Len(calls)
             k == Len(scopeStack)
  <1>3. /\ scopeStack \in Seq(SavedScopes) /\ Saved \in SavedScopes
        /\ Saved.scope = scope /\ Saved.container = container
    BY DEF Inv, Types, Saved, SavedScopes
  <1>4. x \in Frames /\ x.fn = "include" /\ x.saved = Saved /\ Owns(x) = 1
    BY <1>3, ScriptsInType DEF IncludeCall, IncludeFrames, Frames, Owns
  <1> HIDE DEF x
  <1>5. /\ scopeStack' \in Seq(SavedScopes) /\ Len(scopeStack') = k + 1 /\ k \in Nat
        /\ \A j \in 1..k : scopeStack'[j] = scopeStack[j]
        /\ scopeStack'[k + 1] = Saved
    BY <1>1, <1>3
  <1>6. /\ calls # <<>> /\ calls \in Seq(Frames) /\ AllSound(calls, scopeStack)
        /\ Heights(calls)[n] = k /\ n \in Nat \ {0}
        /\ calls[n].fn = "dofile" /\ Chunk(calls, n) = calls[n]
        /\ cwd = DirOf[calls[n].file] /\ running = calls[n].file
        /\ (Unmoved(calls[n]) => AtHome(scope, calls[n].home))
    <2>1. calls # <<>> /\ Top = calls[n] /\ Top.fn = "dofile"
      BY <1>1 DEF Running, Top
    <2>2. Chunk(calls, n) = calls[n]
      BY <2>1 DEF Chunk
    <2> QED BY <2>1, <2>2, TopFacts DEF Ready
  <1>7. /\ calls' \in Seq(Frames) /\ Len(calls') = n + 1 /\ calls'[n + 1] = x
        /\ \A i \in 1..n : calls'[i] = calls[i]
        /\ Heights(calls')[n + 1] = k + 1
    BY <1>2, <1>4, <1>6, PushedStack DEF x
  <1>8. AllSound(calls', scopeStack')
    <2> HIDE DEF k
    <2>1. calls' = Append(calls, x)
      BY <1>2 DEF x
    <2>2. /\ \A j \in 1..Heights(calls)[Len(calls)] : scopeStack'[j] = scopeStack[j]
          /\ scopeStack'[Heights(calls)[Len(calls)] + 1] = x.saved
      BY <1>4, <1>5, <1>6 DEF k
    <2>3. Unmoved(calls[Len(calls)]) => AtHome(x.saved.scope, calls[Len(calls)].home)
      BY <1>3, <1>4, <1>6
    <2> QED BY <1>4, <1>6, <2>1, <2>2, <2>3, FramePushed
  <1>9. StackAccounted' /\ FramesSound'
    BY <1>5, <1>7, <1>8 DEF StackAccounted, FramesSound, AllSound
  <1>10. TopSound'
    <2>1. Len(calls') - 1 = n /\ calls'[n] = calls[n] /\ calls'[Len(calls')] = x
      BY <1>6, <1>7
    <2>2. Chunk(calls', Len(calls')) = calls[n] /\ ~Unmoved(x)
      BY <1>4, <2>1 DEF Chunk, Unmoved
    <2> QED BY <1>1, <1>6, <2>1, <2>2 DEF TopSound
  <1>11. Types'
    BY <1>1, <1>5, <1>7 DEF Types, Inv
  <1>12. ScopesAgree'
    <2>1. \A j \in 1..(k + 1) : j \in 1..k \/ j = k + 1
      BY <1>5
    <2> QED BY <1>1, <1>3, <1>5, <2>1 DEF ScopesAgree, Inv
  <1>13. Loaded' /\ SubdirsInSolution'
    BY <1>1 DEF Loaded, SubdirsInSolution, Inv
  <1> QED BY <1>9, <1>10, <1>11, <1>12, <1>13 DEF Inv

LEMMA IncludeNextInv == ASSUME Inv, includeNext PROVE Inv'
  <1> DEFINE f == Head(Top.left)
             x == [Top EXCEPT !.left = Tail(@)]
             cs == Append(Rest, x)
             n == Len(calls)
  <1>1. /\ calls # <<>> /\ Top.fn = "include" /\ Top.left # <<>>
        /\ includedFiles' = includedFiles \cup {f}
        /\ UNCHANGED <<scopeStack, slnScope, declared, usages>>
    BY DEF includeNext, Track, Declarations
  <1>2. Top \in IncludeFrames
    BY <1>1, TopFacts DEF Frames, DofileFrames, IncludeFrames
  <1>3. f \in File /\ Tail(Top.left) \in Seq(File)
    BY <1>1, <1>2 DEF IncludeFrames
  <1>4. /\ x \in Frames /\ Continues(Top, x) /\ ~Unmoved(x)
        /\ x.fn = "include" /\ Owns(x) = Owns(Top)
    BY <1>2, <1>3 DEF IncludeFrames, Frames, Continues, Unmoved, Owns
  <1> HIDE DEF x, f
  <1>5. /\ calls \in Seq(Frames) /\ AllSound(calls, scopeStack)
        /\ cwd = DirOf[Chunk(calls, n).file] /\ running = Chunk(calls, n).file
        /\ Len(scopeStack) = Heights(calls)[n - 1] + Owns(Top)
        /\ n \in Nat \ {0}
    BY <1>1, TopFacts DEF Ready
  <1>6. /\ cs \in Seq(Frames) /\ Len(cs) = n /\ cs[n] = x /\ cs # <<>>
        /\ Heights(cs)[n] = Heights(calls)[n - 1] + Owns(x)
    BY <1>1, <1>4, <1>5, ReplacedStack DEF Rest
  <1>7. AllSound(cs, scopeStack) /\ Chunk(cs, Len(cs)).file = Chunk(calls, n).file
    <2>1. Continues(calls[Len(calls)], x)
      BY <1>4 DEF Top
    <2> QED BY <1>1, <1>4, <1>5, <2>1, FrameReplaced DEF Rest
  <1>8. Types /\ Agrees(scope, container) /\ Loaded
    BY DEF Inv, ScopesAgree
  <1>9. CASE f \in includedFiles
    <2>1. calls' = cs /\ UNCHANGED <<cwd, running, scope, container, loads>>
      BY <1>9 DEF includeNext, f, x
    <2>2. calls' \in Seq(Frames) /\ StackAccounted' /\ FramesSound' /\ TopSound'
      <3> HIDE DEF cs
      <3>1. StackAccounted' /\ FramesSound'
        BY <1>1, <1>4, <1>5, <1>6, <1>7, <2>1 DEF StackAccounted, FramesSound, AllSound
      <3>2. TopSound'
        BY <1>4, <1>5, <1>6, <1>7, <2>1 DEF TopSound
      <3> QED BY <1>6, <2>1, <3>1, <3>2
    <2>3. Types'
      BY <1>1, <1>3, <1>8, <2>1, <2>2 DEF Types
    <2>4. ScopesAgree' /\ Loaded' /\ SubdirsInSolution'
      BY <1>1, <2>1 DEF ScopesAgree, Loaded, SubdirsInSolution, Inv
    <2> QED BY <2>2, <2>3, <2>4 DEF Inv
  <1>10. CASE f \notin includedFiles
    <2>1. Dofile(f, cs) /\ loads' = [loads EXCEPT ![f] = @ + 1]
      BY <1>10 DEF includeNext, IncludeFirst, f, x
    <2> HIDE DEF cs
    <2>2. Ready(cs) /\ ~Unmoved(cs[Len(cs)])
      BY <1>4, <1>5, <1>6, <1>7 DEF Ready
    <2>3. /\ cwd' \in Dir /\ running' \in File \cup {None}
          /\ scope' \in Scopes /\ container' \in Containers
          /\ Agrees(scope', container')
          /\ calls' \in Seq(Frames)
          /\ StackAccounted' /\ FramesSound' /\ TopSound'
      BY <1>1, <1>3, <1>8, <2>1, <2>2, DofileSound
    <2>4. loads' \in [File -> Nat] /\ Loaded'
      BY <1>1, <1>3, <1>8, <1>10, <2>1, LoadedOnce
    <2>5. Types'
      BY <1>1, <1>3, <1>8, <2>3, <2>4 DEF Types
    <2>6. ScopesAgree' /\ SubdirsInSolution'
      BY <1>1, <2>3 DEF ScopesAgree, SubdirsInSolution, Inv
    <2> QED BY <2>3, <2>4, <2>5, <2>6 DEF Inv
  <1> QED BY <1>9, <1>10

(* The scope that the end of an include takes from the stack is the one    *)
(* that the include saved.                                                 *)
LEMMA IncludeRestores ==
    ASSUME Inv, includeDone
    PROVE  /\ Len(scopeStack) > 0
           /\ scopeStack[Len(scopeStack)] = Top.saved
           /\ scope' = Top.saved.scope /\ container' = Top.saved.container
  <1>1. calls # <<>> /\ Top.fn = "include" /\ PopScope
    BY DEF includeDone
  <1>2. /\ Len(scopeStack) = Heights(calls)[Len(calls) - 1] + 1
        /\ Heights(calls)[Len(calls) - 1] \in Nat
        /\ Len(scopeStack) = Heights(calls)[Len(calls)]
    BY <1>1, TopFacts DEF Owns, Ready
  <1>3. scopeStack[Heights(calls)[Len(calls)]] = Top.saved
    BY <1>1, TopFacts DEF FrameSound, Top
  <1> QED BY <1>1, <1>2, <1>3, PopScopeSound

LEMMA IncludeDoneInv == ASSUME Inv, includeDone PROVE Inv'
  <1> DEFINE n == Len(calls)
             k == Len(scopeStack)
  <1>1. /\ calls # <<>> /\ Top.fn = "include" /\ PopScope
        /\ calls' = SubSeq(calls, 1, n - 1)
        /\ UNCHANGED <<cwd, running, includedFiles, loads, slnScope, declared, usages>>
    BY DEF includeDone, Files, Rest, Declarations
  <1>2. /\ scopeStack' \in Seq(SavedScopes) /\ Len(scopeStack') = k - 1
        /\ \A j \in 1..(k - 1) : scopeStack'[j] = scopeStack[j]
        /\ scope' = Top.saved.scope
        /\ scope' \in Scopes /\ container' \in Containers
        /\ ScopesAgree'
    BY <1>1, IncludeRestores, PopScopeSound
  <1>3. /\ calls \in Seq(Frames) /\ AllSound(calls, scopeStack)
        /\ cwd = DirOf[Chunk(calls, n).file] /\ running = Chunk(calls, n).file
        /\ k = Heights(calls)[n - 1] + 1 /\ Heights(calls)[n - 1] \in Nat
        /\ n \in Nat \ {0} /\ FrameSound(calls, scopeStack, n)
        /\ Top = calls[n]
    BY <1>1, TopFacts DEF Ready, Owns, Top
  <1>4. n > 1 /\ calls[n - 1].fn = "dofile"
        /\ (Unmoved(calls[n - 1]) => AtHome(Top.saved.scope, calls[n - 1].home))
    BY <1>1, <1>3 DEF FrameSound
  <1>5. /\ calls' \in Seq(Frames) /\ Len(calls') = n - 1
        /\ \A i \in 1..(n - 1) : calls'[i] = calls[i]
        /\ \A i \in 0..(n - 1) : Heights(calls')[i] = Heights(calls)[i]
    BY <1>1, <1>3, PoppedStack
  <1>6. AllSound(calls', scopeStack')
    BY <1>1, <1>2, <1>3, FramePopped
  <1>7. StackAccounted' /\ FramesSound'
    BY <1>2, <1>3, <1>4, <1>5, <1>6 DEF StackAccounted, FramesSound, AllSound
  <1>8. TopSound'
    <2>1. calls'[n - 1] = calls[n - 1]
      BY <1>3, <1>4, <1>5
    <2>2. Chunk(calls', Len(calls')) = calls[n - 1] /\ Chunk(calls, n) = calls[n - 1]
      BY <1>1, <1>3, <1>4, <1>5, <2>1 DEF Chunk
    <2> QED BY <1>1, <1>2, <1>3, <1>4, <1>5, <2>1, <2>2 DEF TopSound
  <1>9. Types'
    BY <1>1, <1>2, <1>5 DEF Types, Inv
  <1>10. Loaded' /\ SubdirsInSolution'
    BY <1>1 DEF Loaded, SubdirsInSolution, Inv
  <1> QED BY <1>2, <1>7, <1>8, <1>9, <1>10 DEF Inv

LEMMA DofileDoneInv == ASSUME Inv, dofileDone PROVE Inv'
  <1> DEFINE n == Len(calls)
  <1>1. /\ Running /\ Top.pushed = 0 /\ cwd' = Top.oldcwd /\ running' = Top.oldfile
        /\ calls' = SubSeq(calls, 1, n - 1)
        /\ UNCHANGED <<scope, container, scopeStack, slnScope, includedFiles,
                       loads, declared, usages>>
    BY DEF dofileDone, Restore, Rest, Declarations
  <1>2. /\ calls # <<>> /\ Top \in DofileFrames /\ Top = calls[n]
        /\ Top.fn = "dofile" /\ Owns(Top) = 0
    BY <1>1, RunningTop DEF Running, Top
  <1>3. /\ calls \in Seq(Frames) /\ AllSound(calls, scopeStack)
        /\ Len(scopeStack) = Heights(calls)[n - 1] /\ Heights(calls)[n - 1] \in Nat
        /\ n \in Nat \ {0} /\ FrameSound(calls, scopeStack, n)
    BY <1>2, TopFacts DEF Ready
  <1>4. /\ calls' \in Seq(Frames) /\ Len(calls') = n - 1
        /\ \A i \in 1..(n - 1) : calls'[i] = calls[i]
        /\ \A i \in 0..(n - 1) : Heights(calls')[i] = Heights(calls)[i]
    BY <1>1, <1>2, <1>3, PoppedStack
  <1>5. AllSound(calls', scopeStack')
    BY <1>1, <1>2, <1>3, FramePopped
  <1>6. StackAccounted' /\ FramesSound'
    BY <1>1, <1>3, <1>4, <1>5 DEF StackAccounted, FramesSound, AllSound
  <1>7. TopSound'
    <2> SUFFICES ASSUME calls' # <<>> PROVE TopSound'
      BY DEF TopSound
    <2>1. n - 1 \in Nat \ {0}
      BY <1>4, EmptySeq
    <2>2. n > 1 /\ n - 1 \in 1..(n - 1) /\ n - 1 \in 1..n
      <3>1. n \in Nat
        BY <1>3
      <3> HIDE DEF n
      <3> QED BY <2>1, <3>1
    <2>3. /\ cwd' = DirOf[Chunk(calls, n - 1).file]
          /\ running' = Chunk(calls, n - 1).file
          /\ ~Unmoved(calls[n - 1])
      BY <1>1, <1>2, <1>3, <2>2 DEF FrameSound
    <2>4. Chunk(calls', n - 1) = Chunk(calls, n - 1)
      <3>1. CASE calls[n - 1].fn = "dofile"
        BY <1>4, <2>2, <3>1 DEF Chunk
      <3>2. CASE calls[n - 1].fn # "dofile"
        <4>1. calls[n - 1] \in Frames
          BY <1>3, <2>2
        <4>2. calls[n - 1].fn = "include"
          BY <3>2, <4>1 DEF Frames, DofileFrames, IncludeFrames
        <4>3. n - 1 > 1
          BY <1>3, <2>2, <4>2 DEF AllSound, FrameSound
        <4>4. (n - 1) - 1 \in 1..(n - 1)
          BY <1>3, <4>3
        <4> QED BY <1>4, <2>2, <3>2, <4>4 DEF Chunk
      <3> QED BY <3>1, <3>2
    <2> QED BY <1>4, <2>2, <2>3, <2>4 DEF TopSound
  <1>8. Types'
    BY <1>1, <1>2, <1>4 DEF Types, Inv, DofileFrames
  <1>9. ScopesAgree' /\ Loaded' /\ SubdirsInSolution'
    BY <1>1 DEF ScopesAgree, Loaded, SubdirsInSolution, Inv
  <1> QED BY <1>6, <1>7, <1>8, <1>9 DEF Inv

LEMMA StutterInv == ASSUME Inv, UNCHANGED vars PROVE Inv'
  BY DEF vars, Inv, Types, StackAccounted, FramesSound, TopSound, ScopesAgree,
         Loaded, SubdirsInSolution

LEMMA NextInv == Inv /\ [Next]_vars => Inv'
  <1> SUFFICES ASSUME Inv, [Next]_vars PROVE Inv'
    OBVIOUS
  <1>1. ASSUME NEW t \in Sln \cup {Global}, solution(t) PROVE Inv'
    BY <1>1, SolutionInv
  <1>2. CASE project
    BY <1>2, ProjectInv
  <1>3. CASE usage
    BY <1>3, UsageInv
  <1>4. CASE scopepush
    BY <1>4, ScopepushInv
  <1>5. CASE scopepop
    BY <1>5, ScopepopInv
  <1>6. ASSUME NEW f \in File, dofile(f) PROVE Inv'
    BY <1>6, DofileInv
  <1>7. ASSUME NEW f \in File, includeFile(f) PROVE Inv'
    BY <1>7, IncludeFileInv
  <1>8. ASSUME NEW d \in Dir, includeDir(d) PROVE Inv'
    BY <1>8, IncludeDirInv
  <1>9. CASE includeNext
    BY <1>9, IncludeNextInv
  <1>10. CASE includeDone
    BY <1>10, IncludeDoneInv
  <1>11. CASE dofileDone
    BY <1>11, DofileDoneInv
  <1>12. CASE Done \/ UNCHANGED vars
    BY <1>12, StutterInv DEF Done
  <1> QED
    BY <1>1, <1>2, <1>3, <1>4, <1>5, <1>6, <1>7, <1>8, <1>9, <1>10, <1>11, <1>12
    DEF Next

-----------------------------------------------------------------------------
(* The results *)

LEMMA Invariance == Spec => []Inv
  BY InitInv, NextInv, PTL DEF Spec

(* api.scope, premake.CurrentContainer and the configuration that fields   *)
(* go to belong together (ScopeAgrees says how far), and the stack of      *)
(* scopes holds what the activations under way have pushed, however        *)
(* scripts nest scopes, includes and solutions.                            *)
THEOREM ScopeStaysSound == Spec => []ScopeSound
  <1>1. Inv => ScopeSound
    <2> SUFFICES ASSUME Inv PROVE ScopeSound
      OBVIOUS
    <2>1. TypeOK
      BY DEF Inv, Types, TypeOK, Scopes, Solutions
    <2>2. ScopeAgrees
      BY DEF Inv, ScopesAgree, Agrees, ScopeAgrees
    <2> QED BY <2>1, <2>2 DEF ScopeSound, Inv
  <1> QED BY <1>1, Invariance, PTL

(* A chunk runs in the directory of its script and under its name, and     *)
(* include hands a file to dofile once.                                    *)
THEOREM ScriptsRunOnceAtHome == Spec => []RunsOnceAtHome
  <1>1. Inv => RunsOnceAtHome
    BY RunningTop DEF RunsOnceAtHome, RunsAtHome, IncludedOnce, Inv, Loaded
  <1> QED BY <1>1, Invariance, PTL

(* Projects of a script below a solution's directory are that solution's,  *)
(* unless the script itself left it.                                       *)
THEOREM ScriptsStayInSolution == Spec => []SubdirsInSolution
  <1>1. Inv => SubdirsInSolution
    BY DEF Inv
  <1> QED BY <1>1, Invariance, PTL

(* include of a directory gives back the scope and the container that were *)
(* current when it was called.                                             *)
THEOREM IncludeRestoresScope == Spec => IncludeKeepsScope
  <1> DEFINE A == calls # <<>> /\ Top.fn = "include" /\ calls' = Rest
                    => /\ scope' = Top.saved.scope
                       /\ container' = Top.saved.container
  <1>1. Inv /\ [Next]_vars => [A]_vars
    <2> SUFFICES ASSUME Inv, Next, calls # <<>>, Top.fn = "include", calls' = Rest
                 PROVE  /\ scope' = Top.saved.scope
                        /\ container' = Top.saved.container
      BY DEF vars
    <2>1. ~Running
      BY DEF Running
    <2>2. includeNext \/ includeDone
      BY <2>1 DEF Next, solution, project, usage, scopepush, scopepop, dofile,
                  includeFile, includeDir, dofileDone, Statement, Done
    <2>3. ~includeNext
      <3> SUFFICES ASSUME includeNext PROVE FALSE
        OBVIOUS
      <3> DEFINE x == [Top EXCEPT !.left = Tail(@)]
                 cs == Append(Rest, x)
      <3>1. calls' = cs \/ calls' = Append(cs, DofileCall(Head(Top.left)))
        BY DEF includeNext, IncludeFirst, Dofile
      <3>2. Rest \in Seq(Frames)
        BY PoppedStack DEF Inv, Types, Rest
      <3>3. Rest \in Seq(UNION {Frames, {x, DofileCall(Head(Top.left))}})
        BY <3>2
      <3> HIDE DEF x
      <3>4. Len(calls') > Len(Rest)
        BY <3>1, <3>3
      <3> QED BY <3>4, <3>3
    <2> QED BY <2>2, <2>3, IncludeRestores
  <1> QED BY <1>1, Invariance, PTL DEF Spec, IncludeKeepsScope
=============================================================================
