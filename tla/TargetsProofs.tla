--------------------------- MODULE TargetsProofs ---------------------------
(***************************************************************************)
(* Proofs about Targets: for all solutions, namespaces and names, and      *)
(* declarations in any order, a name leads to one project and its usage,   *)
(* what is named on the command line is built, and the baked lists hold    *)
(* what the solutions declare.                                             *)
(***************************************************************************)
EXTENDS Targets, SequenceTheorems, WellFoundedInduction, NaturalsInduction, TLAPS

-----------------------------------------------------------------------------
(* The inductive invariant *)

Entry == [name : Path, isUsage : BOOLEAN]
Declaration == [given : Given, sln : Sln, space : Path, full : Path,
                isUsage : BOOLEAN, late : BOOLEAN]

(* What the variables hold; a declaration got the name that its kind gets. *)
Types ==
    /\ allReal \subseteq Path
    /\ projects \in [Sln -> Seq(Entry)]
    /\ declared \subseteq Declaration
    /\ keys \in [Sln -> SUBSET [abs : BOOLEAN, path : Path]]
NamedByKind ==
    \A d \in declared :
        /\ d.space \in AllSpaces
        /\ d.full = IF d.isUsage THEN usageName(d.given, d.space)
                    ELSE fullname(d.given, d.space)

(* The projects are those declared, each by one solution. *)
Projects == {d \in declared : ~d.isUsage}
RealDeclared ==
    /\ allReal = {d.full : d \in Projects}
    /\ \A d \in Projects : owner[d.full] = d.sln
UsagesKnown == \A d \in declared : d.isUsage => d.full \in allUsage

(* What stands in a solution's list until it is baked was declared in the  *)
(* solution; a usage may also be the one that comes with a project.        *)
EntriesDeclared ==
    phase # "baked" =>
        \A s \in Sln : \A e \in ToSet(projects[s]) :
            \E d \in declared :
                /\ d.sln = s
                /\ \/ e = Of(d.full, d.isUsage)
                   \/ ~d.isUsage /\ e = Of(usageName(Relative(d.full), d.space), TRUE)

(* A name that is taken in the list belongs to a declaration that the list *)
(* has an entry for, and every declared project has taken its name.        *)
Has(l, f) == \E e \in ToSet(l) : e.name = f
KeysHeld ==
    phase # "baked" =>
        /\ \A s \in Sln : \A k \in keys[s] :
              \E d \in declared :
                  Takes(d, s, k) /\ (Rooted(d.given) \/ Has(projects[s], d.full))
        /\ \A d \in Projects : d.given \in keys[d.sln]

(* A project is missing in the list of projects only if it was late. *)
OnlyLateMissing ==
    phase # "baked" => \A d \in Projects : d.late \/ d.full \in Listed(d.sln)

(* What was named so far is to be built; nothing is before the filter. *)
NothingChosen == phase = "declare" => asked = {} /\ prjToBuild = {} /\ slnToBuild = {}
SolutionsSoFar ==
    \A d \in Projects : ~d.late /\ <<d.sln>> \in asked => d.full \in prjToBuild
NamedSoFar ==
    \A v \in asked, f \in allReal :
        \/ v = f
        \/ v \notin allReal /\ f \in LeadsTo(v) \ DOMAIN aliases
        \/ v = <<Last(f)>> /\ v \notin allReal \cup allUsage \cup DOMAIN aliases
             /\ Solution(v) = {}
        => f \in prjToBuild

Inv ==
    /\ TypeOK /\ Types /\ NamedByKind /\ RealDeclared /\ UsagesKnown
    /\ RealHasUsage /\ EntriesDeclared /\ KeysHeld /\ OnlyLateMissing
    /\ NothingChosen /\ SolutionsSoFar /\ NamedSoFar /\ BakedListsExact

-----------------------------------------------------------------------------
(* Chains of aliases *)

(* A set of naturals that is not empty has a least element. *)
LEMMA LeastNatural ==
    ASSUME NEW T \in SUBSET Nat, T # {}
    PROVE  \E x \in T : \A y \in T : x <= y
  <1>1. PICK x \in T : \A y \in T : ~(<<y, x>> \in OpToRel(<, Nat))
    BY NatLessThanWellFounded, WFMin, Zenon
  <1>2. ASSUME NEW y \in T PROVE x <= y
    <2>1. ~(y < x)
      BY <1>1 DEF OpToRel
    <2> QED BY <2>1
  <1> QED BY <1>2

(* What an alias leads to in one step; other names lead to themselves. *)
Follow(m) == IF m \in DOMAIN aliases THEN aliases[m] ELSE m

(* The recursion in Chain is defined for every number of steps. *)
LEMMA ChainLinks ==
    ASSUME NEW v
    PROVE  \E h : /\ h = [i \in 0..MaxAliases |-> IF i = 0 THEN v ELSE Follow(h[i - 1])]
                  /\ Chain(v) = h[MaxAliases]
  <1> DEFINE E(m) == \E h : h = [i \in 0..m |-> IF i = 0 THEN v ELSE Follow(h[i - 1])]
             T == {m \in Nat : ~E(m)}
  <1>1. T = {}
    <2> SUFFICES ASSUME T # {} PROVE FALSE
      OBVIOUS
    <2>1. PICK m \in T : \A k \in T : m <= k
      <3> HIDE DEF E
      <3>1. T \in SUBSET Nat
        OBVIOUS
      <3> QED BY <3>1, LeastNatural
    <2>2. CASE m = 0
      <3>1. [i \in 0..0 |-> v] =
              [i \in 0..0 |-> IF i = 0 THEN v ELSE Follow([j \in 0..0 |-> v][i - 1])]
        OBVIOUS
      <3>2. E(0)
        BY <3>1
      <3> QED BY <2>2, <3>2
    <2>3. CASE m # 0
      <3>1. m \in Nat /\ m - 1 \in Nat
        BY <2>3
      <3>2. E(m - 1)
        <4> HIDE DEF E
        <4> QED BY <2>1, <3>1
      <3>3. PICK h : h = [i \in 0..(m - 1) |-> IF i = 0 THEN v ELSE Follow(h[i - 1])]
        BY <3>2
      <3> DEFINE g == [i \in 0..m |-> IF i = m THEN Follow(h[m - 1]) ELSE h[i]]
      <3>4. \A i \in 0..m : g[i] = IF i = 0 THEN v ELSE Follow(g[i - 1])
        BY <3>1, <3>3, <2>3
      <3>5. g = [i \in 0..m |-> IF i = 0 THEN v ELSE Follow(g[i - 1])]
        BY <3>4
      <3>6. E(m)
        BY <3>5, Zenon
      <3> QED BY <3>6
    <2> QED BY <2>2, <2>3
  <1>2. E(MaxAliases)
    BY <1>1, TargetsAssumption
  <1> DEFINE P(h) == h = [i \in 0..MaxAliases |-> IF i = 0 THEN v ELSE Follow(h[i - 1])]
  <1>3. Chain(v) = (CHOOSE h : P(h))[MaxAliases]
    BY DEF Chain, Follow
  <1>4. P(CHOOSE h : P(h))
    <2>1. \E h : P(h)
      BY <1>2
    <2> HIDE DEF P
    <2> QED BY <2>1
  <1> QED BY <1>3, <1>4

(* The chain ends where there is no alias, and stays there. *)
LEMMA ChainStays ==
    ASSUME NEW h, NEW v, NEW i \in 0..MaxAliases,
           h = [k \in 0..MaxAliases |-> IF k = 0 THEN v ELSE Follow(h[k - 1])],
           h[i] \notin DOMAIN aliases
    PROVE  h[MaxAliases] = h[i]
  <1> DEFINE T == {k \in 0..MaxAliases : k >= i /\ h[k] # h[i]}
  <1>1. MaxAliases \in Nat
    BY TargetsAssumption
  <1>2. T = {}
    <2> SUFFICES ASSUME T # {} PROVE FALSE
      OBVIOUS
    <2>1. T \in SUBSET Nat
      BY <1>1
    <2>2. PICK m \in T : \A k \in T : m <= k
      BY <2>1, LeastNatural
    <2>3. m \in 1..MaxAliases /\ m - 1 \in 0..MaxAliases /\ m - 1 >= i /\ m - 1 \notin T
      BY <1>1, <2>1, <2>2
    <2>4. h[m - 1] = h[i]
      BY <2>3
    <2>5. h[m] = Follow(h[m - 1])
      BY <1>1, <2>3
    <2> QED BY <2>2, <2>4, <2>5 DEF Follow
  <1> QED BY <1>1, <1>2

LEMMA ChainOfNoAlias ==
    ASSUME NEW v, v \notin DOMAIN aliases
    PROVE  Chain(v) = v
  <1>1. PICK h : /\ h = [i \in 0..MaxAliases |-> IF i = 0 THEN v ELSE Follow(h[i - 1])]
                 /\ Chain(v) = h[MaxAliases]
    BY ChainLinks
  <1>2. 0 \in 0..MaxAliases
    BY TargetsAssumption
  <1>3. h[0] = v
    BY <1>1, <1>2
  <1> QED BY <1>1, <1>2, <1>3, ChainStays

(* A chain that ends does so at whatever name without an alias it leads to. *)
LEMMA ChainReaches ==
    ASSUME NEW v, Chain(v) \notin DOMAIN aliases,
           NEW f \in LeadsTo(v), f \notin DOMAIN aliases
    PROVE  Chain(v) = f
  <1>1. PICK h : /\ h = [i \in 0..MaxAliases |-> IF i = 0 THEN v ELSE Follow(h[i - 1])]
                 /\ Chain(v) = h[MaxAliases]
    BY ChainLinks
  <1>2. MaxAliases \in Nat
    BY TargetsAssumption
  <1> DEFINE names == {v} \cup {aliases[n] : n \in DOMAIN aliases}
             S == names \cap {h[i] : i \in 0..MaxAliases}
  <1>3. v \in S
    <2>1. 0 \in 0..MaxAliases /\ h[0] = v
      BY <1>1, <1>2
    <2> QED BY <2>1
  <1>4. ASSUME NEW n \in S \cap DOMAIN aliases PROVE aliases[n] \in S
    <2>1. PICK i \in 0..MaxAliases : n = h[i]
      OBVIOUS
    <2>2. i # MaxAliases
      BY <1>1, <2>1
    <2>3. i + 1 \in 0..MaxAliases /\ (i + 1) - 1 = i /\ i + 1 # 0
      BY <1>2, <2>1, <2>2
    <2>4. h[i + 1] = aliases[n]
      BY <1>1, <2>1, <2>3 DEF Follow
    <2> QED BY <2>3, <2>4
  <1>5. f \in S
    BY <1>3, <1>4 DEF LeadsTo
  <1>6. PICK i \in 0..MaxAliases : f = h[i]
    BY <1>5
  <1> QED BY <1>1, <1>6, ChainStays

-----------------------------------------------------------------------------
(* The baked list *)

(* The list prjList after the next entry, x. *)
Baked(l, x) ==
    LET new == getRealProject(x.name) \ {e.name : e \in ToSet(l)}
    IN  IF new = {} THEN l ELSE Append(l, Of(CHOOSE f \in new : TRUE, FALSE))

(* The recursion in BakedList is defined for every list. *)
LEMMA BakedListSteps ==
    ASSUME NEW s, Len(projects[s]) \in Nat
    PROVE  \E h : /\ h = [i \in 0..Len(projects[s]) |->
                            IF i = 0 THEN <<>> ELSE Baked(h[i - 1], projects[s][i])]
                  /\ BakedList(s) = h[Len(projects[s])]
  <1> DEFINE E(m) == \E h : h = [i \in 0..m |->
                           IF i = 0 THEN <<>> ELSE Baked(h[i - 1], projects[s][i])]
             T == {m \in Nat : ~E(m)}
  <1>1. T = {}
    <2> SUFFICES ASSUME T # {} PROVE FALSE
      OBVIOUS
    <2>1. PICK m \in T : \A k \in T : m <= k
      <3> HIDE DEF E
      <3>1. T \in SUBSET Nat
        OBVIOUS
      <3> QED BY <3>1, LeastNatural
    <2>2. CASE m = 0
      <3>1. [i \in 0..0 |-> <<>>] =
              [i \in 0..0 |-> IF i = 0 THEN <<>>
                              ELSE Baked([j \in 0..0 |-> <<>>][i - 1], projects[s][i])]
        OBVIOUS
      <3>2. E(0)
        BY <3>1
      <3> QED BY <2>2, <3>2
    <2>3. CASE m # 0
      <3>1. m \in Nat /\ m - 1 \in Nat
        BY <2>3
      <3>2. E(m - 1)
        <4> HIDE DEF E
        <4> QED BY <2>1, <3>1
      <3>3. PICK h : h = [i \in 0..(m - 1) |->
                            IF i = 0 THEN <<>> ELSE Baked(h[i - 1], projects[s][i])]
        BY <3>2
      <3> DEFINE g == [i \in 0..m |-> IF i = m THEN Baked(h[m - 1], projects[s][m]) ELSE h[i]]
      <3>4. \A i \in 0..m : g[i] = IF i = 0 THEN <<>> ELSE Baked(g[i - 1], projects[s][i])
        BY <3>1, <3>3, <2>3
      <3>5. g = [i \in 0..m |-> IF i = 0 THEN <<>> ELSE Baked(g[i - 1], projects[s][i])]
        BY <3>4
      <3>6. E(m)
        BY <3>5, Zenon
      <3> QED BY <3>6
    <2> QED BY <2>2, <2>3
  <1>2. E(Len(projects[s]))
    BY <1>1
  <1> DEFINE P(h) == h = [i \in 0..Len(projects[s]) |->
                            IF i = 0 THEN <<>> ELSE Baked(h[i - 1], projects[s][i])]
  <1>3. BakedList(s) = (CHOOSE h : P(h))[Len(projects[s])]
    BY DEF BakedList, Baked
  <1>4. P(CHOOSE h : P(h))
    <2>1. \E h : P(h)
      BY <1>2
    <2> HIDE DEF P
    <2> QED BY <2>1
  <1> QED BY <1>3, <1>4

(* A list of distinct projects that are behind the first n entries. *)
RealList(l, s, n) ==
    /\ l \in Seq(Entry)
    /\ \A i \in 1..Len(l) :
          /\ ~l[i].isUsage
          /\ \E k \in 1..n : l[i].name \in getRealProject(projects[s][k].name)
    /\ \A k \in 1..n : \A f \in getRealProject(projects[s][k].name) : Has(l, f)
    /\ \A i, j \in 1..Len(l) : i # j => l[i] # l[j]

(* What getProject finds exists, and is one at most. *)
LEMMA RealFacts ==
    ASSUME NEW v
    PROVE  /\ getRealProject(v) \subseteq allReal
           /\ \A f, g \in getRealProject(v) : f = g
  BY DEF getRealProject, getProject

LEMMA BakedStep ==
    ASSUME NEW s \in Sln, Types, NEW n \in 1..Len(projects[s]),
           NEW l, RealList(l, s, n - 1)
    PROVE  RealList(Baked(l, projects[s][n]), s, n)
  <1> DEFINE x == projects[s][n]
             real == getRealProject(x.name)
             new == real \ {e.name : e \in ToSet(l)}
  <1>0. /\ Len(projects[s]) \in Nat /\ n \in Nat /\ n - 1 \in Nat
        /\ l \in Seq(Entry) /\ Len(l) \in Nat /\ DOMAIN l = 1..Len(l)
    BY DEF Types, RealList
  <1>1. CASE new = {}
    <2>1. Baked(l, x) = l
      BY <1>1 DEF Baked
    <2>2. ASSUME NEW f \in real PROVE Has(l, f)
      <3>1. f \in {e.name : e \in ToSet(l)}
        BY <1>1
      <3> QED BY <1>0, <3>1 DEF Has, ToSet
    <2>3. \A k \in 1..n : k \in 1..(n - 1) \/ k = n
      BY <1>0
    <2>4. 1..(n - 1) \subseteq 1..n
      BY <1>0
    <2> QED BY <1>0, <2>1, <2>2, <2>3, <2>4 DEF RealList
  <1>2. CASE new # {}
    <2> DEFINE f == CHOOSE g \in new : TRUE
               m == Append(l, Of(f, FALSE))
    <2>1. f \in new /\ Baked(l, x) = m
      BY <1>2 DEF Baked
    <2>2. f \in real /\ f \in allReal /\ Of(f, FALSE) \in Entry
      <3>1. f \in allReal
        BY <2>1, RealFacts
      <3> QED BY <2>1, <3>1 DEF Types, Entry, Of
    <2>3. /\ m \in Seq(Entry) /\ Len(m) = Len(l) + 1
          /\ \A i \in 1..Len(l) : m[i] = l[i]
          /\ m[Len(l) + 1] = Of(f, FALSE)
      <3> DEFINE z == Of(f, FALSE)
      <3>1. z \in Entry /\ m = Append(l, z)
        BY <2>2
      <3> HIDE DEF z
      <3>2. /\ Append(l, z) \in Seq(Entry) /\ Len(Append(l, z)) = Len(l) + 1
            /\ \A i \in 1..Len(l) : Append(l, z)[i] = l[i]
            /\ Append(l, z)[Len(l) + 1] = z
        BY <1>0, <3>1
      <3> QED BY <3>1, <3>2 DEF z
    <2>4. \A i \in 1..Len(l) : l[i].name # f
      BY <1>0, <2>1 DEF ToSet
    <2>5. \A g \in real : g = f
      BY <2>2, RealFacts
    <2> HIDE DEF f, m
    <2>6. n \in 1..n /\ 1..(n - 1) \subseteq 1..n /\ \A k \in 1..n : k \in 1..(n - 1) \/ k = n
      BY <1>0
    <2>7. \A i \in 1..Len(m) : i \in 1..Len(l) \/ i = Len(l) + 1
      BY <1>0, <2>3
    <2>8. 1..Len(l) \subseteq 1..Len(m) /\ Len(l) + 1 \in 1..Len(m)
      BY <1>0, <2>3
    <2>9. Of(f, FALSE).name = f /\ Of(f, FALSE).isUsage = FALSE
      BY DEF Of
    <2>10. \A i \in 1..Len(m) :
              /\ ~m[i].isUsage
              /\ \E k \in 1..n : m[i].name \in getRealProject(projects[s][k].name)
      <3> SUFFICES ASSUME NEW i \in 1..Len(m)
                   PROVE  /\ ~m[i].isUsage
                          /\ \E k \in 1..n : m[i].name \in getRealProject(projects[s][k].name)
        OBVIOUS
      <3>1. CASE i \in 1..Len(l)
        BY <2>3, <2>6, <3>1 DEF RealList
      <3>2. CASE i = Len(l) + 1
        BY <2>2, <2>3, <2>6, <2>9, <3>2
      <3> QED BY <2>7, <3>1, <3>2
    <2>11. \A k \in 1..n : \A g \in getRealProject(projects[s][k].name) : Has(m, g)
      <3> SUFFICES ASSUME NEW k \in 1..n, NEW g \in getRealProject(projects[s][k].name)
                   PROVE  Has(m, g)
        OBVIOUS
      <3>1. CASE k \in 1..(n - 1)
        <4>1. Has(l, g)
          BY <1>0, <3>1 DEF RealList
        <4>2. PICK i \in 1..Len(l) : l[i].name = g
          BY <4>1 DEF Has, ToSet
        <4> QED BY <2>3, <2>8, <4>2 DEF Has, ToSet
      <3>2. CASE k = n
        <4>1. DOMAIN m = 1..Len(m)
          BY <2>3
        <4>2. Of(f, FALSE) \in ToSet(m)
          BY <2>3, <2>8, <4>1 DEF ToSet
        <4> QED BY <2>5, <2>9, <3>2, <4>2 DEF Has
      <3> QED BY <2>6, <3>1, <3>2
    <2>12. \A i, j \in 1..Len(m) : i # j => m[i] # m[j]
      <3> SUFFICES ASSUME NEW i \in 1..Len(m), NEW j \in 1..Len(m), i # j
                   PROVE  m[i] # m[j]
        OBVIOUS
      <3>1. CASE i \in 1..Len(l) /\ j \in 1..Len(l)
        BY <2>3, <3>1 DEF RealList
      <3>2. CASE i \in 1..Len(l) /\ j = Len(l) + 1
        BY <2>3, <2>4, <2>9, <3>2
      <3>3. CASE i = Len(l) + 1 /\ j \in 1..Len(l)
        BY <2>3, <2>4, <2>9, <3>3
      <3> QED BY <2>7, <3>1, <3>2, <3>3
    <2> QED BY <2>1, <2>3, <2>10, <2>11, <2>12 DEF RealList
  <1> QED BY <1>1, <1>2

LEMMA BakedListFacts ==
    ASSUME NEW s \in Sln, Types
    PROVE  RealList(BakedList(s), s, Len(projects[s]))
  <1> DEFINE n == Len(projects[s])
  <1>1. n \in Nat
    BY DEF Types
  <1>2. PICK h : /\ h = [i \in 0..n |-> IF i = 0 THEN <<>> ELSE Baked(h[i - 1], projects[s][i])]
                 /\ BakedList(s) = h[n]
    BY <1>1, BakedListSteps
  <1> DEFINE T == {i \in 0..n : ~RealList(h[i], s, i)}
  <1> HIDE DEF n
  <1>3. T = {}
    <2> SUFFICES ASSUME T # {} PROVE FALSE
      OBVIOUS
    <2>1. T \in SUBSET Nat
      BY <1>1
    <2>2. PICK m \in T : \A k \in T : m <= k
      BY <2>1, LeastNatural
    <2>3. CASE m = 0
      <3>1. h[0] = <<>>
        BY <1>1, <1>2
      <3>2. RealList(<<>>, s, 0)
        BY DEF RealList
      <3> QED BY <2>2, <2>3, <3>1, <3>2
    <2>4. CASE m # 0
      <3>1. m \in 1..n /\ m - 1 \in 0..n /\ m - 1 \notin T
        BY <1>1, <2>1, <2>2, <2>4
      <3>2. RealList(h[m - 1], s, m - 1)
        BY <3>1
      <3>3. h[m] = Baked(h[m - 1], projects[s][m])
        BY <1>1, <1>2, <3>1
      <3>4. RealList(h[m], s, m)
        BY <3>1, <3>2, <3>3, BakedStep DEF n
      <3> QED BY <2>2, <3>4
    <2> QED BY <2>3, <2>4
  <1>4. n \in 0..n
    BY <1>1
  <1>5. RealList(h[n], s, n)
    BY <1>3, <1>4
  <1> QED BY <1>2, <1>5 DEF n

-----------------------------------------------------------------------------
(* Names and lists *)

LEMMA NameTypes ==
    ASSUME NEW g \in Given, NEW n \in AllSpaces
    PROVE  /\ n \in Path /\ g.path \in Path /\ g \in [abs : BOOLEAN, path : Path]
           /\ fullname(g, n) \in Path /\ usageName(g, n) \in Path
  <1>1. n \in Path /\ g \in [abs : BOOLEAN, path : Path]
    BY TargetsAssumption DEF AllSpaces
  <1>2. n \o g.path \in Path
    BY <1>1 DEF Path
  <1> QED BY <1>1, <1>2 DEF fullname, usageName

LEMMA UsageNameType ==
    ASSUME NEW f \in Path, NEW n \in Path
    PROVE  usageName(Relative(f), n) \in Path
  <1>1. n \o f \in Path
    BY DEF Path
  <1>2. Relative(f).path = f /\ ~Relative(f).abs
    BY DEF Relative
  <1> QED BY <1>1, <1>2 DEF usageName, fullname

(* A project asks for its usage by its own full name. *)
LEMMA OwnUsageName ==
    ASSUME NEW g \in Given, NEW n \in AllSpaces, ~Rooted(g)
    PROVE  usageName(Relative(fullname(g, n)), n) = fullname(g, n)
  <1>1. n \in Path /\ g.path \in Path /\ g.path # <<>> /\ g.abs \in BOOLEAN
    BY TargetsAssumption DEF AllSpaces
  <1> DEFINE f == fullname(g, n)
  <1>2. f \in Path /\ Relative(f).path = f /\ ~Relative(f).abs
    BY NameTypes DEF Relative
  <1>3. Len(f) > 1 \/ n = <<>>
    BY <1>1 DEF fullname, Rooted, Path
  <1>4. n = <<>> => n \o f = f
    BY <1>2 DEF Path
  <1> HIDE DEF f
  <1>5. usageName(Relative(f), n) = f
    BY <1>2, <1>3, <1>4 DEF usageName, fullname
  <1> QED BY <1>5 DEF f

LEMMA InsertFacts ==
    ASSUME NEW l \in Seq(Entry), NEW k, NEW held, NEW e \in Entry
    PROVE  /\ Insert(l, k, held, e) \in Seq(Entry)
           /\ ToSet(Insert(l, k, held, e)) = ToSet(l) \cup (IF k \in held THEN {} ELSE {e})
  <1> DEFINE m == Append(l, e)
  <1>0. /\ Len(l) \in Nat /\ DOMAIN l = 1..Len(l) /\ DOMAIN m = 1..(Len(l) + 1)
        /\ \A i \in 1..Len(l) : m[i] = l[i] /\ m[Len(l) + 1] = e
        /\ m[Len(l) + 1] = e /\ m \in Seq(Entry)
    OBVIOUS
  <1> HIDE DEF m
  <1>1. ToSet(m) = ToSet(l) \cup {e}
    <2>1. \A i \in 1..(Len(l) + 1) : i \in 1..Len(l) \/ i = Len(l) + 1
      BY <1>0
    <2>2. \A i \in 1..Len(l) : i \in 1..(Len(l) + 1)
      BY <1>0
    <2>3. Len(l) + 1 \in 1..(Len(l) + 1)
      BY <1>0
    <2> QED BY <1>0, <2>1, <2>2, <2>3 DEF ToSet
  <1> QED BY <1>0, <1>1 DEF Insert, m

LEMMA ListedEntries ==
    ASSUME NEW s \in Sln, Types
    PROVE  Listed(s) = {e.name : e \in {x \in ToSet(projects[s]) : ~x.isUsage}}
  <1> DEFINE l == projects[s]
  <1>1. DOMAIN l = 1..Len(l)
    BY DEF Types
  <1>2. ToSet(l) = {l[i] : i \in 1..Len(l)}
    BY <1>1 DEF ToSet
  <1>3. Listed(s) = {l[i].name : i \in {j \in 1..Len(l) : ~l[j].isUsage}}
    BY DEF Listed
  <1> HIDE DEF l
  <1>4. {l[i].name : i \in {j \in 1..Len(l) : ~l[j].isUsage}}
          = {e.name : e \in {x \in {l[i] : i \in 1..Len(l)} : ~x.isUsage}}
    OBVIOUS
  <1> QED BY <1>2, <1>3, <1>4 DEF l

(* The part of TypeOK that is about lists. *)
Exists(e, us, rs) == e.name \in IF e.isUsage THEN us ELSE rs
EntriesExist(p, us, rs) == \A s \in Sln : \A e \in ToSet(p[s]) : Exists(e, us, rs)
LEMMA EntriesIndexed ==
    ASSUME NEW p \in [Sln -> Seq(Entry)], NEW us, NEW rs
    PROVE  EntriesExist(p, us, rs) <=>
             \A s \in Sln : \A i \in 1..Len(p[s]) :
                p[s][i].name \in IF p[s][i].isUsage THEN us ELSE rs
  <1>1. ASSUME NEW s \in Sln
        PROVE  (\A e \in ToSet(p[s]) : Exists(e, us, rs)) <=>
                 (\A i \in 1..Len(p[s]) : Exists(p[s][i], us, rs))
    <2>1. DOMAIN p[s] = 1..Len(p[s])
      OBVIOUS
    <2> QED BY <2>1 DEF ToSet
  <1> QED BY <1>1 DEF EntriesExist, Exists

-----------------------------------------------------------------------------
(* project() *)

NewProject(g, s, n) ==
    [given |-> g, sln |-> s, space |-> n, full |-> fullname(g, n),
     isUsage |-> FALSE, late |-> \E d \in declared : Takes(d, s, g)]

LEMMA ProjectLists ==
    ASSUME Inv, NEW s \in Sln, NEW g \in Given, NEW n \in Spaces[s],
           project(g, s, n)
    PROVE  LET full == fullname(g, n)
               u == usageName(Relative(full), n)
           IN  /\ projects' \in [Sln -> Seq(Entry)]
               /\ \A t \in Sln \ {s} : projects'[t] = projects[t] /\ keys'[t] = keys[t]
               /\ ToSet(projects[s]) \subseteq ToSet(projects'[s])
               /\ \A e \in ToSet(projects'[s]) \ ToSet(projects[s]) :
                     e = Of(full, FALSE) \/ (e = Of(u, TRUE) /\ u \in allUsage')
               /\ g \in keys[s] \/ Of(full, FALSE) \in ToSet(projects'[s])
               /\ keys' \in [Sln -> SUBSET [abs : BOOLEAN, path : Path]]
               /\ keys[s] \cup {g} \subseteq keys'[s]
               /\ \A k \in keys'[s] \ (keys[s] \cup {g}) :
                     k = Relative(full) /\ Of(u, TRUE) \in ToSet(projects'[s])
               /\ allUsage \subseteq allUsage'
               /\ ~Rooted(g) => full \in allUsage'
  <1> DEFINE full == fullname(g, n)
             u == usageName(Relative(full), n)
             more == DefaultUsage(full, n) \ allUsage
             key == Relative(full)
             e1 == Of(full, FALSE)
             e2 == Of(u, TRUE)
             list == Insert(projects[s], g, keys[s], e1)
  <1>1. n \in AllSpaces /\ full \in Path /\ u \in Path
        /\ g \in [abs : BOOLEAN, path : Path] /\ key \in [abs : BOOLEAN, path : Path]
    <2>1. n \in AllSpaces
      BY DEF AllSpaces
    <2> QED BY <2>1, NameTypes, UsageNameType DEF Relative
  <1>2. e1 \in Entry /\ e2 \in Entry
    BY <1>1 DEF Of, Entry
  <1>3. more = {} \/ (more = {u} /\ u \notin allUsage /\ full \notin allUsage)
    BY DEF DefaultUsage
  <1>4. /\ projects[s] \in Seq(Entry) /\ projects \in [Sln -> Seq(Entry)]
        /\ keys \in [Sln -> SUBSET [abs : BOOLEAN, path : Path]]
    BY DEF Inv, Types
  <1>5. /\ list \in Seq(Entry)
        /\ ToSet(list) = ToSet(projects[s]) \cup (IF g \in keys[s] THEN {} ELSE {e1})
    <2> HIDE DEF e1
    <2> QED BY <1>2, <1>4, InsertFacts
  <1>6. /\ allUsage' = allUsage \cup more
        /\ projects' = [projects EXCEPT ![s] =
             IF more = {} THEN list
             ELSE Insert(list, key, keys[s] \cup {g}, Of(CHOOSE x \in more : TRUE, TRUE))]
        /\ keys' = [keys EXCEPT ![s] = @ \cup {g} \cup {k \in {key} : more # {}}]
    BY DEF project
  <1> HIDE DEF full, u, more, key, e1, list
  <1>7. ~Rooted(g) => full \in allUsage'
    <2> SUFFICES ASSUME ~Rooted(g) PROVE full \in allUsage'
      OBVIOUS
    <2>1. u = full
      BY <1>1, OwnUsageName DEF full, u
    <2>2. full \in allUsage \/ u \in allUsage \/ more = {u}
      BY DEF more, DefaultUsage, u
    <2> QED BY <1>6, <2>1, <2>2
  <1>8. CASE more = {}
    <2>1. projects' = [projects EXCEPT ![s] = list] /\ keys' = [keys EXCEPT ![s] = @ \cup {g}]
      BY <1>6, <1>8
    <2>2. projects'[s] = list /\ keys'[s] = keys[s] \cup {g}
      BY <1>4, <2>1
    <2>3. projects' \in [Sln -> Seq(Entry)]
          /\ keys' \in [Sln -> SUBSET [abs : BOOLEAN, path : Path]]
      BY <1>1, <1>4, <1>5, <2>1
    <2>4. \A t \in Sln \ {s} : projects'[t] = projects[t] /\ keys'[t] = keys[t]
      BY <1>4, <2>1
    <2>5. /\ ToSet(projects[s]) \subseteq ToSet(projects'[s])
          /\ \A e \in ToSet(projects'[s]) \ ToSet(projects[s]) : e = e1
          /\ g \in keys[s] \/ e1 \in ToSet(projects'[s])
      BY <1>5, <2>2
    <2> QED BY <1>6, <1>7, <2>2, <2>3, <2>4, <2>5 DEF full, e1
  <1>9. CASE more = {u}
    <2> DEFINE two == Insert(list, key, keys[s] \cup {g}, e2)
    <2>1. (CHOOSE x \in more : TRUE) = u
      BY <1>9
    <2>2. projects' = [projects EXCEPT ![s] = two]
          /\ keys' = [keys EXCEPT ![s] = @ \cup {g} \cup {key}]
      BY <1>6, <1>9, <2>1
    <2> HIDE DEF e2
    <2>3. /\ two \in Seq(Entry)
          /\ ToSet(two) = ToSet(list) \cup (IF key \in keys[s] \cup {g} THEN {} ELSE {e2})
      BY <1>2, <1>5, InsertFacts
    <2> HIDE DEF two
    <2>4. projects'[s] = two /\ keys'[s] = keys[s] \cup {g} \cup {key}
      BY <1>4, <2>2
    <2>5. u \in allUsage'
      BY <1>6, <1>9
    <2>6. projects' \in [Sln -> Seq(Entry)]
          /\ keys' \in [Sln -> SUBSET [abs : BOOLEAN, path : Path]]
      BY <1>1, <1>4, <2>2, <2>3
    <2>7. \A t \in Sln \ {s} : projects'[t] = projects[t] /\ keys'[t] = keys[t]
      BY <1>4, <2>2
    <2>8. /\ ToSet(projects[s]) \subseteq ToSet(projects'[s])
          /\ \A e \in ToSet(projects'[s]) \ ToSet(projects[s]) : e = e1 \/ e = e2
          /\ g \in keys[s] \/ e1 \in ToSet(projects'[s])
          /\ \A k \in keys'[s] \ (keys[s] \cup {g}) : k = key /\ e2 \in ToSet(projects'[s])
      BY <1>5, <2>3, <2>4
    <2> QED BY <1>6, <1>7, <2>4, <2>5, <2>6, <2>7, <2>8 DEF full, e1, e2, key, u
  <1> QED BY <1>3, <1>8, <1>9

(* A project is declared: the tables and the lists. *)
LEMMA ProjectInv ==
    ASSUME Inv, NEW s \in Sln, NEW g \in Given, NEW n \in Spaces[s],
           project(g, s, n)
    PROVE  Inv'
  <1> DEFINE full == fullname(g, n)
             u == usageName(Relative(full), n)
             new == NewProject(g, s, n)
  <1>1. /\ phase = "declare" /\ phase' = "declare"
        /\ declared' = declared \cup {new}
        /\ full \notin allReal /\ allReal' = allReal \cup {full}
        /\ owner' = [f \in DOMAIN owner \cup {full} |-> IF f = full THEN s ELSE owner[f]]
        /\ UNCHANGED <<aliases, args, asked, slnToBuild, prjToBuild>>
    <2>1. [given |-> g, sln |-> s, space |-> n, full |-> full, isUsage |-> FALSE,
           late |-> ~FALSE /\ \E d \in declared : Takes(d, s, g)] = new
      BY DEF NewProject
    <2>2. Declare(g, s, n, full, FALSE)
      BY DEF project
    <2>3. declared' = declared \cup {new} /\ phase = "declare" /\ phase' = "declare"
      BY <2>1, <2>2 DEF Declare
    <2> QED BY <2>2, <2>3 DEF project, Declare, choice
  <1>2. n \in AllSpaces /\ full \in Path /\ u \in Path /\ n \in Path
    <2>1. n \in AllSpaces
      BY DEF AllSpaces
    <2> QED BY <2>1, NameTypes, UsageNameType
  <1>3. /\ new \in Declaration /\ new.given = g /\ new.sln = s /\ new.space = n
        /\ new.full = full /\ ~new.isUsage /\ new.isUsage = FALSE
        /\ new.late <=> \E d \in declared : Takes(d, s, g)
    BY <1>2 DEF NewProject, Declaration
  <1>4. /\ projects' \in [Sln -> Seq(Entry)]
        /\ \A t \in Sln \ {s} : projects'[t] = projects[t] /\ keys'[t] = keys[t]
        /\ ToSet(projects[s]) \subseteq ToSet(projects'[s])
        /\ \A e \in ToSet(projects'[s]) \ ToSet(projects[s]) :
              e = Of(full, FALSE) \/ (e = Of(u, TRUE) /\ u \in allUsage')
        /\ g \in keys[s] \/ Of(full, FALSE) \in ToSet(projects'[s])
        /\ keys' \in [Sln -> SUBSET [abs : BOOLEAN, path : Path]]
        /\ keys[s] \cup {g} \subseteq keys'[s]
        /\ \A k \in keys'[s] \ (keys[s] \cup {g}) :
              k = Relative(full) /\ Of(u, TRUE) \in ToSet(projects'[s])
        /\ allUsage \subseteq allUsage'
        /\ ~Rooted(g) => full \in allUsage'
    BY ProjectLists
  <1>5. ~Rooted(g) => u = full
    BY <1>2, OwnUsageName
  <1> HIDE DEF full, u, new
  <1>6. Projects' = Projects \cup {new}
    BY <1>1, <1>3 DEF Projects
  <1>7. Of(full, FALSE).name = full /\ Of(full, FALSE).isUsage = FALSE
        /\ Of(u, TRUE).name = u /\ Of(u, TRUE).isUsage = TRUE
    BY DEF Of
  <1>8. \A t \in Sln : ToSet(projects[t]) \subseteq ToSet(projects'[t])
    BY <1>4
  <1>9. Types'
    <2>1. declared' \subseteq Declaration
      BY <1>1, <1>3 DEF Inv, Types
    <2> QED BY <1>1, <1>2, <1>4, <2>1 DEF Inv, Types
  <1>10. NamedByKind'
    BY <1>1, <1>2, <1>3 DEF Inv, NamedByKind, full, usageName, fullname
  <1>11. RealDeclared'
    <2>1. allReal = {d.full : d \in Projects}
      BY DEF Inv, RealDeclared
    <2>2. allReal' = {d.full : d \in Projects'}
      BY <1>1, <1>3, <1>6, <2>1
    <2>3. ASSUME NEW d \in Projects' PROVE owner'[d.full] = d.sln
      <3>1. CASE d = new
        BY <1>1, <1>3, <3>1
      <3>2. CASE d \in Projects
        <4>1. d.full \in allReal /\ d.full # full /\ d.full \in DOMAIN owner
          BY <1>1, <2>1, <3>2 DEF Inv, TypeOK
        <4>2. owner[d.full] = d.sln
          BY <3>2 DEF Inv, RealDeclared
        <4> QED BY <1>1, <4>1, <4>2
      <3> QED BY <1>6, <3>1, <3>2
    <2> QED BY <2>2, <2>3 DEF RealDeclared
  <1>12. UsagesKnown' /\ RealHasUsage'
    BY <1>1, <1>3, <1>4 DEF Inv, UsagesKnown, RealHasUsage, Rooted
  <1>13. EntriesDeclared'
    <2> SUFFICES ASSUME NEW t \in Sln, NEW e \in ToSet(projects'[t])
                 PROVE  \E d \in declared' :
                          /\ d.sln = t
                          /\ \/ e = Of(d.full, d.isUsage)
                             \/ /\ ~d.isUsage
                                /\ e = Of(usageName(Relative(d.full), d.space), TRUE)
      BY DEF EntriesDeclared, usageName, fullname
    <2>1. CASE e \in ToSet(projects[t])
      <3>1. \E d \in declared :
               /\ d.sln = t
               /\ \/ e = Of(d.full, d.isUsage)
                  \/ ~d.isUsage /\ e = Of(usageName(Relative(d.full), d.space), TRUE)
        BY <1>1, <2>1 DEF Inv, EntriesDeclared
      <3> QED BY <1>1, <3>1
    <2>2. CASE e \notin ToSet(projects[t])
      <3>1. t = s /\ (e = Of(full, FALSE) \/ e = Of(u, TRUE))
        BY <1>4, <2>2
      <3> QED BY <1>1, <1>3, <3>1 DEF u
    <2> QED BY <2>1, <2>2
  <1>14. KeysHeld'
    <2>1. ASSUME NEW t \in Sln, NEW k \in keys'[t]
          PROVE  \E d \in declared' :
                    Takes(d, t, k) /\ (Rooted(d.given) \/ Has(projects'[t], d.full))
      <3>1. CASE k \in keys[t]
        <4>1. PICK d \in declared :
                  Takes(d, t, k) /\ (Rooted(d.given) \/ Has(projects[t], d.full))
          BY <1>1, <3>1 DEF Inv, KeysHeld
        <4> QED BY <1>1, <1>8, <4>1 DEF Has
      <3>2. CASE k \notin keys[t]
        <4>1. t = s
          BY <1>4, <3>2
        <4>2. CASE k = g
          <5>1. Has(projects'[s], full)
            BY <1>4, <1>7, <3>2, <4>1, <4>2 DEF Has
          <5> QED BY <1>1, <1>3, <4>1, <4>2, <5>1 DEF Takes
        <4>3. CASE k # g
          <5>1. k = Relative(full) /\ Of(u, TRUE) \in ToSet(projects'[s])
            BY <1>4, <3>2, <4>1, <4>3
          <5>2. Rooted(g) \/ Has(projects'[s], full)
            BY <1>5, <1>7, <5>1 DEF Has
          <5> QED BY <1>1, <1>3, <4>1, <5>1, <5>2 DEF Takes
        <4> QED BY <4>2, <4>3
      <3> QED BY <3>1, <3>2
    <2>2. ASSUME NEW d \in Projects' PROVE d.given \in keys'[d.sln]
      <3>1. CASE d = new
        BY <1>3, <1>4, <3>1
      <3>2. CASE d \in Projects
        <4>1. d.given \in keys[d.sln] /\ d.sln \in Sln
          BY <1>1, <3>2 DEF Inv, KeysHeld, Types, Projects, Declaration
        <4> QED BY <1>4, <4>1
      <3> QED BY <1>6, <3>1, <3>2
    <2> QED BY <2>1, <2>2 DEF KeysHeld, Takes, Relative, Rooted, Has
  <1>15. OnlyLateMissing'
    <2> SUFFICES ASSUME NEW d \in Projects' PROVE d.late \/ d.full \in Listed(d.sln)'
      BY DEF OnlyLateMissing
    <2>0. \A t \in Sln : Listed(t)' = {e.name : e \in {x \in ToSet(projects'[t]) : ~x.isUsage}}
      BY <1>4 DEF Listed, ToSet
    <2>1. CASE d = new
      <3>1. CASE g \in keys[s]
        BY <1>1, <1>3, <2>1, <3>1 DEF Inv, KeysHeld
      <3>2. CASE g \notin keys[s]
        <4>1. Of(full, FALSE) \in ToSet(projects'[s]) /\ ~Of(full, FALSE).isUsage
          BY <1>4, <1>7, <3>2
        <4>2. full \in {e.name : e \in {x \in ToSet(projects'[s]) : ~x.isUsage}}
          BY <1>7, <4>1
        <4> QED BY <1>3, <2>0, <2>1, <4>2
      <3> QED BY <3>1, <3>2
    <2>2. CASE d \in Projects
      <3>1. d.sln \in Sln /\ (d.late \/ d.full \in Listed(d.sln))
        BY <1>1, <2>2 DEF Inv, OnlyLateMissing, Types, Projects, Declaration
      <3>2. Listed(d.sln) = {e.name : e \in {x \in ToSet(projects[d.sln]) : ~x.isUsage}}
        BY <3>1, ListedEntries DEF Inv
      <3> QED BY <1>8, <2>0, <3>1, <3>2
    <2> QED BY <1>6, <2>1, <2>2
  <1>16. TypeOK'
    <2>1. DOMAIN owner' = allReal' /\ \A f \in allReal' : owner'[f] \in Sln
      BY <1>1 DEF Inv, TypeOK
    <2>2. EntriesExist(projects', allUsage', allReal')
      <3> SUFFICES ASSUME NEW t \in Sln, NEW e \in ToSet(projects'[t])
                   PROVE  Exists(e, allUsage', allReal')
        BY DEF EntriesExist
      <3>1. CASE e \in ToSet(projects[t])
        <4>1. EntriesExist(projects, allUsage, allReal)
          BY EntriesIndexed DEF Inv, TypeOK, Types
        <4> QED BY <1>1, <1>4, <3>1, <4>1 DEF EntriesExist, Exists
      <3>2. CASE e \notin ToSet(projects[t])
        <4>1. t = s /\ (e = Of(full, FALSE) \/ (e = Of(u, TRUE) /\ u \in allUsage'))
          BY <1>4, <3>2
        <4>2. full \in allReal'
          BY <1>1
        <4> QED BY <1>7, <4>1, <4>2 DEF Exists
      <3> QED BY <3>1, <3>2
    <2>3. \A t \in Sln : \A i \in 1..Len(projects'[t]) :
             projects'[t][i].name \in IF projects'[t][i].isUsage THEN allUsage' ELSE allReal'
      BY <1>4, <2>2, EntriesIndexed
    <2> QED BY <1>1, <2>1, <2>3 DEF Inv, TypeOK
  <1>17. NothingChosen' /\ SolutionsSoFar' /\ NamedSoFar' /\ BakedListsExact'
    <2>1. asked = {} /\ asked' = {}
      BY <1>1 DEF Inv, NothingChosen
    <2> QED BY <1>1, <2>1 DEF Inv, NothingChosen, SolutionsSoFar, NamedSoFar, BakedListsExact
  <1> QED
    BY <1>9, <1>10, <1>11, <1>12, <1>13, <1>14, <1>15, <1>16, <1>17 DEF Inv

-----------------------------------------------------------------------------
(* usage() *)

NewUsage(g, s, n) ==
    [given |-> g, sln |-> s, space |-> n, full |-> usageName(g, n),
     isUsage |-> TRUE, late |-> FALSE]

LEMMA UsageInv ==
    ASSUME Inv, NEW s \in Sln, NEW g \in Given, NEW n \in Spaces[s],
           usage(g, s, n)
    PROVE  Inv'
  <1> DEFINE full == usageName(g, n)
             new == NewUsage(g, s, n)
             e1 == Of(full, TRUE)
             list == Insert(projects[s], g, keys[s], e1)
  <1>1. /\ phase = "declare" /\ phase' = "declare"
        /\ declared' = declared \cup {new}
        /\ allUsage' = allUsage \cup {full}
        /\ UNCHANGED <<allReal, owner, aliases, args, asked, slnToBuild, prjToBuild>>
    <2>1. [given |-> g, sln |-> s, space |-> n, full |-> full, isUsage |-> TRUE,
           late |-> ~TRUE /\ \E d \in declared : Takes(d, s, g)] = new
      BY DEF NewUsage
    <2>2. Declare(g, s, n, full, TRUE)
      BY DEF usage
    <2>3. declared' = declared \cup {new} /\ phase = "declare" /\ phase' = "declare"
      BY <2>1, <2>2 DEF Declare
    <2> QED BY <2>2, <2>3 DEF usage, Declare, choice
  <1>2. n \in AllSpaces /\ full \in Path /\ n \in Path /\ g \in [abs : BOOLEAN, path : Path]
    <2>1. n \in AllSpaces
      BY DEF AllSpaces
    <2> QED BY <2>1, NameTypes
  <1>3. /\ new \in Declaration /\ new.given = g /\ new.sln = s /\ new.space = n
        /\ new.full = full /\ new.isUsage = TRUE
    BY <1>2 DEF NewUsage, Declaration
  <1>4. e1 \in Entry /\ e1.name = full /\ e1.isUsage = TRUE
    BY <1>2 DEF Of, Entry
  <1>5. /\ projects \in [Sln -> Seq(Entry)]
        /\ keys \in [Sln -> SUBSET [abs : BOOLEAN, path : Path]]
    BY DEF Inv, Types
  <1>6. /\ list \in Seq(Entry)
        /\ ToSet(list) = ToSet(projects[s]) \cup (IF g \in keys[s] THEN {} ELSE {e1})
    <2> HIDE DEF e1
    <2> QED BY <1>4, <1>5, InsertFacts
  <1>7. \/ full \in allUsage /\ projects' = projects /\ keys' = keys
        \/ /\ projects' = [projects EXCEPT ![s] = list]
           /\ keys' = [keys EXCEPT ![s] = @ \cup {g}]
    BY <1>5 DEF usage
  <1> HIDE DEF full, new, e1, list
  <1>8. /\ projects' \in [Sln -> Seq(Entry)]
        /\ keys' \in [Sln -> SUBSET [abs : BOOLEAN, path : Path]]
        /\ \A t \in Sln \ {s} : projects'[t] = projects[t] /\ keys'[t] = keys[t]
        /\ ToSet(projects[s]) \subseteq ToSet(projects'[s])
        /\ ToSet(projects'[s]) \subseteq ToSet(projects[s]) \cup {e1}
        /\ keys[s] \subseteq keys'[s]
        /\ \A k \in keys'[s] \ keys[s] : k = g /\ e1 \in ToSet(projects'[s])
    <2>1. CASE projects' = projects /\ keys' = keys
      BY <1>5, <2>1
    <2>2. CASE /\ projects' = [projects EXCEPT ![s] = list]
               /\ keys' = [keys EXCEPT ![s] = @ \cup {g}]
      <3>1. projects'[s] = list /\ keys'[s] = keys[s] \cup {g}
        BY <1>5, <2>2
      <3> QED BY <1>2, <1>5, <1>6, <2>2, <3>1
    <2> QED BY <1>7, <2>1, <2>2
  <1>9. Projects' = Projects
    BY <1>1, <1>3 DEF Projects
  <1>10. \A t \in Sln : ToSet(projects[t]) \subseteq ToSet(projects'[t])
    BY <1>8
  <1>11. Types'
    BY <1>1, <1>3, <1>8 DEF Inv, Types
  <1>12. NamedByKind'
    BY <1>1, <1>2, <1>3 DEF Inv, NamedByKind, full, usageName, fullname
  <1>13. RealDeclared' /\ UsagesKnown' /\ RealHasUsage'
    BY <1>1, <1>3, <1>9 DEF Inv, RealDeclared, UsagesKnown, RealHasUsage, Rooted
  <1>14. EntriesDeclared'
    <2> SUFFICES ASSUME NEW t \in Sln, NEW e \in ToSet(projects'[t])
                 PROVE  \E d \in declared' :
                          /\ d.sln = t
                          /\ \/ e = Of(d.full, d.isUsage)
                             \/ /\ ~d.isUsage
                                /\ e = Of(usageName(Relative(d.full), d.space), TRUE)
      BY DEF EntriesDeclared, usageName, fullname
    <2>1. CASE e \in ToSet(projects[t])
      <3>1. \E d \in declared :
               /\ d.sln = t
               /\ \/ e = Of(d.full, d.isUsage)
                  \/ ~d.isUsage /\ e = Of(usageName(Relative(d.full), d.space), TRUE)
        BY <1>1, <2>1 DEF Inv, EntriesDeclared
      <3> QED BY <1>1, <3>1
    <2>2. CASE e \notin ToSet(projects[t])
      <3>1. t = s /\ e = e1
        BY <1>8, <2>2
      <3> QED BY <1>1, <1>3, <3>1 DEF e1
    <2> QED BY <2>1, <2>2
  <1>15. KeysHeld'
    <2>1. ASSUME NEW t \in Sln, NEW k \in keys'[t]
          PROVE  \E d \in declared' :
                    Takes(d, t, k) /\ (Rooted(d.given) \/ Has(projects'[t], d.full))
      <3>1. CASE k \in keys[t]
        <4>1. PICK d \in declared :
                  Takes(d, t, k) /\ (Rooted(d.given) \/ Has(projects[t], d.full))
          BY <1>1, <3>1 DEF Inv, KeysHeld
        <4> QED BY <1>1, <1>10, <4>1 DEF Has
      <3>2. CASE k \notin keys[t]
        <4>1. t = s /\ k = g /\ e1 \in ToSet(projects'[s])
          BY <1>8, <3>2
        <4> QED BY <1>1, <1>3, <1>4, <4>1 DEF Takes, Has
      <3> QED BY <3>1, <3>2
    <2>2. ASSUME NEW d \in Projects' PROVE d.given \in keys'[d.sln]
      <3>1. d.given \in keys[d.sln] /\ d.sln \in Sln
        BY <1>1, <1>9 DEF Inv, KeysHeld, Types, Projects, Declaration
      <3> QED BY <1>8, <3>1
    <2> QED BY <2>1, <2>2 DEF KeysHeld, Takes, Relative, Rooted, Has
  <1>16. OnlyLateMissing'
    <2> SUFFICES ASSUME NEW d \in Projects PROVE d.late \/ d.full \in Listed(d.sln)'
      BY <1>9 DEF OnlyLateMissing
    <2>1. d.sln \in Sln /\ (d.late \/ d.full \in Listed(d.sln))
      BY <1>1 DEF Inv, OnlyLateMissing, Types, Projects, Declaration
    <2>2. Listed(d.sln) = {e.name : e \in {x \in ToSet(projects[d.sln]) : ~x.isUsage}}
      BY <2>1, ListedEntries DEF Inv
    <2>3. Listed(d.sln)' = {e.name : e \in {x \in ToSet(projects'[d.sln]) : ~x.isUsage}}
      BY <1>8, <2>1 DEF Listed, ToSet
    <2> QED BY <1>10, <2>1, <2>2, <2>3
  <1>17. TypeOK'
    <2>1. EntriesExist(projects', allUsage', allReal')
      <3> SUFFICES ASSUME NEW t \in Sln, NEW e \in ToSet(projects'[t])
                   PROVE  Exists(e, allUsage', allReal')
        BY DEF EntriesExist
      <3>1. CASE e \in ToSet(projects[t])
        <4>1. EntriesExist(projects, allUsage, allReal)
          BY EntriesIndexed DEF Inv, TypeOK, Types
        <4> QED BY <1>1, <3>1, <4>1 DEF EntriesExist, Exists
      <3>2. CASE e \notin ToSet(projects[t])
        <4>1. e = e1
          BY <1>8, <3>2
        <4> QED BY <1>1, <1>4, <4>1 DEF Exists
      <3> QED BY <3>1, <3>2
    <2>2. \A t \in Sln : \A i \in 1..Len(projects'[t]) :
             projects'[t][i].name \in IF projects'[t][i].isUsage THEN allUsage' ELSE allReal'
      BY <1>8, <2>1, EntriesIndexed
    <2> QED BY <1>1, <2>2 DEF Inv, TypeOK
  <1>18. NothingChosen' /\ SolutionsSoFar' /\ NamedSoFar' /\ BakedListsExact'
    <2>1. asked = {} /\ asked' = {}
      BY <1>1 DEF Inv, NothingChosen
    <2> QED BY <1>1, <2>1 DEF Inv, NothingChosen, SolutionsSoFar, NamedSoFar, BakedListsExact
  <1> QED
    BY <1>11, <1>12, <1>13, <1>14, <1>15, <1>16, <1>17, <1>18 DEF Inv

-----------------------------------------------------------------------------
(* The other actions *)

(* What depends on the declarations and the lists alone. *)
Declared ==
    /\ Types /\ NamedByKind /\ RealDeclared /\ UsagesKnown /\ RealHasUsage
LEMMA DeclaredStays ==
    ASSUME Declared, UNCHANGED declarations
    PROVE  Declared'
  BY DEF Declared, declarations, Types, NamedByKind, RealDeclared, UsagesKnown,
         RealHasUsage, Projects, Rooted, usageName, fullname

(* Nothing in the lists is touched before they are baked. *)
Lists == EntriesDeclared /\ KeysHeld /\ OnlyLateMissing
LEMMA ListsStay ==
    ASSUME Lists, UNCHANGED declarations, phase # "baked", phase' # "baked"
    PROVE  Lists'
  <1>1. projects' = projects /\ keys' = keys /\ declared' = declared
    BY DEF declarations
  <1>2. Projects' = Projects
    BY <1>1 DEF Projects
  <1>3. EntriesDeclared'
    BY <1>1 DEF Lists, EntriesDeclared, usageName, fullname
  <1>4. KeysHeld'
    BY <1>1, <1>2 DEF Lists, KeysHeld, Takes, Relative, Rooted, Has
  <1>5. \A s : Listed(s)' = Listed(s)
    BY <1>1 DEF Listed
  <1>6. OnlyLateMissing'
    BY <1>2, <1>5 DEF Lists, OnlyLateMissing
  <1> QED BY <1>3, <1>4, <1>6 DEF Lists

LEMMA AliasInv ==
    ASSUME Inv, NEW a \in AliasNames, NEW f, NEW s \in Sln, alias(a, f, s)
    PROVE  Inv'
  <1>1. phase = "declare" /\ phase' = "declare" /\ UNCHANGED <<declarations, choice>>
    BY DEF alias
  <1>2. Declared' /\ Lists'
    BY <1>1, DeclaredStays, ListsStay DEF Inv, Declared, Lists
  <1>3. TypeOK' /\ NothingChosen'
    BY <1>1 DEF Inv, TypeOK, NothingChosen, declarations, choice
  <1>4. asked' = {}
    BY <1>1 DEF Inv, NothingChosen, choice
  <1>5. SolutionsSoFar' /\ NamedSoFar' /\ BakedListsExact'
    BY <1>1, <1>4 DEF SolutionsSoFar, NamedSoFar, BakedListsExact
  <1> QED BY <1>2, <1>3, <1>5 DEF Inv, Declared, Lists

LEMMA StartFilterInv ==
    ASSUME Inv, StartFilter
    PROVE  Inv'
  <1>1. /\ phase = "declare" /\ phase' = "filter"
        /\ UNCHANGED <<declarations, aliases, asked, slnToBuild, prjToBuild>>
    BY DEF StartFilter
  <1>2. Declared' /\ Lists'
    BY <1>1, DeclaredStays, ListsStay DEF Inv, Declared, Lists
  <1>3. TypeOK' /\ NothingChosen'
    BY <1>1 DEF Inv, TypeOK, NothingChosen, declarations
  <1>4. asked' = {}
    BY <1>1 DEF Inv, NothingChosen
  <1>5. SolutionsSoFar' /\ NamedSoFar' /\ BakedListsExact'
    BY <1>1, <1>4 DEF SolutionsSoFar, NamedSoFar, BakedListsExact
  <1> QED BY <1>2, <1>3, <1>5 DEF Inv, Declared, Lists

(* Whatever is found exists. *)
LEMMA FoundFacts ==
    ASSUME Inv, NEW v
    PROVE  /\ Found(v) \subseteq allReal
           /\ \A s \in Solution(v) : Listed(s) \subseteq allReal
  <1>1. Found(v) \subseteq allReal
    BY RealFacts DEF Found
  <1>2. ASSUME NEW s \in Solution(v), NEW f \in Listed(s) PROVE f \in allReal
    <2>1. s \in Sln
      BY DEF Solution
    <2>2. PICK e \in ToSet(projects[s]) : ~e.isUsage /\ f = e.name
      BY <1>2, <2>1, ListedEntries DEF Inv
    <2>3. EntriesExist(projects, allUsage, allReal)
      BY EntriesIndexed DEF Inv, TypeOK, Types
    <2> QED BY <2>1, <2>2, <2>3 DEF EntriesExist, Exists
  <1> QED BY <1>1, <1>2

(* What the argument v names is found. *)
LEMMA NamedIsFound ==
    ASSUME Inv, NEW v, ~Recursive(v), NEW f \in allReal,
           \/ v = f
           \/ v \notin allReal /\ f \in LeadsTo(v) \ DOMAIN aliases
           \/ v = <<Last(f)>> /\ v \notin allReal \cup allUsage \cup DOMAIN aliases
                /\ Solution(v) = {}
    PROVE  f \in Found(v)
  <1>1. CASE v = f
    <2>1. getRealProject(v) = {v}
      BY <1>1 DEF getRealProject, getProject
    <2> QED BY <1>1, <2>1 DEF Found
  <1>2. CASE v \notin allReal /\ f \in LeadsTo(v) \ DOMAIN aliases
    <2>1. Chain(v) \notin DOMAIN aliases
      BY <1>2 DEF Recursive
    <2>2. Chain(v) = f
      BY <1>2, <2>1, ChainReaches
    <2>3. getRealProject(v) = {f}
      BY <1>2, <2>2 DEF getRealProject, getProject
    <2> QED BY <2>3 DEF Found
  <1>3. CASE v = <<Last(f)>> /\ v \notin allReal \cup allUsage \cup DOMAIN aliases
               /\ Solution(v) = {}
    <2>1. Chain(v) = v
      BY <1>3, ChainOfNoAlias
    <2>2. getRealProject(v) = {} /\ getProject(allUsage, v) = {}
      BY <1>3, <2>1 DEF getRealProject, getProject
    <2> QED BY <1>3, <2>2 DEF Found
  <1> QED BY <1>1, <1>2, <1>3

LEMMA FindInv ==
    ASSUME Inv, NEW v \in args, findBuildTarget(v)
    PROVE  Inv'
  <1>1. /\ phase = "filter" /\ phase' = "filter" /\ ~Recursive(v)
        /\ asked' = asked \cup {v}
        /\ slnToBuild' = slnToBuild \cup Solution(v)
        /\ prjToBuild' = prjToBuild \cup Found(v) \cup UNION {Listed(s) : s \in Solution(v)}
        /\ UNCHANGED <<declarations, aliases>>
    BY DEF findBuildTarget
  <1>2. Declared' /\ Lists'
    BY <1>1, DeclaredStays, ListsStay DEF Inv, Declared, Lists
  <1>3. TypeOK' /\ NothingChosen'
    <2>1. prjToBuild' \subseteq allReal
      BY <1>1, FoundFacts DEF Inv, TypeOK
    <2>2. slnToBuild' \subseteq Sln
      BY <1>1 DEF Inv, TypeOK, Solution
    <2> QED BY <1>1, <2>1, <2>2 DEF Inv, TypeOK, NothingChosen, declarations
  <1>4. SolutionsSoFar'
    <2> SUFFICES ASSUME NEW d \in Projects, ~d.late, <<d.sln>> \in asked'
                 PROVE  d.full \in prjToBuild'
      BY <1>1 DEF SolutionsSoFar, Projects, declarations
    <2>1. CASE <<d.sln>> \in asked
      BY <1>1, <2>1 DEF Inv, SolutionsSoFar
    <2>2. CASE <<d.sln>> = v
      <3>1. d.sln \in Solution(v)
        BY <2>2 DEF Solution, Inv, Types, Declaration, Projects
      <3>2. d.full \in Listed(d.sln)
        BY <1>1 DEF Inv, OnlyLateMissing
      <3> QED BY <1>1, <3>1, <3>2
    <2> QED BY <1>1, <2>1, <2>2
  <1>5. NamedSoFar'
    <2> SUFFICES ASSUME NEW w \in asked', NEW f \in allReal,
                        \/ w = f
                        \/ w \notin allReal /\ f \in LeadsTo(w) \ DOMAIN aliases
                        \/ w = <<Last(f)>> /\ w \notin allReal \cup allUsage \cup DOMAIN aliases
                             /\ Solution(w) = {}
                 PROVE  f \in prjToBuild'
      BY <1>1 DEF NamedSoFar, declarations, LeadsTo, Solution
    <2>1. CASE w \in asked
      BY <1>1, <2>1 DEF Inv, NamedSoFar
    <2>2. CASE w = v
      BY <1>1, <2>2, NamedIsFound
    <2> QED BY <1>1, <2>1, <2>2
  <1>6. BakedListsExact'
    BY <1>1 DEF BakedListsExact
  <1> QED BY <1>2, <1>3, <1>4, <1>5, <1>6 DEF Inv, Declared, Lists

LEMMA AliasErrorInv ==
    ASSUME Inv, NEW v \in args, AliasError(v)
    PROVE  Inv'
  <1>1. phase = "filter" /\ phase' = "error" /\ UNCHANGED <<declarations, aliases, choice>>
    BY DEF AliasError
  <1>2. Declared' /\ Lists'
    BY <1>1, DeclaredStays, ListsStay DEF Inv, Declared, Lists
  <1>3. TypeOK' /\ NothingChosen' /\ SolutionsSoFar' /\ BakedListsExact'
    BY <1>1 DEF Inv, TypeOK, NothingChosen, SolutionsSoFar, BakedListsExact,
                declarations, choice, Projects
  <1>4. NamedSoFar'
    BY <1>1 DEF Inv, NamedSoFar, declarations, choice, LeadsTo, Solution
  <1> QED BY <1>2, <1>3, <1>4 DEF Inv, Declared, Lists

LEMMA FilterInv ==
    ASSUME Inv, filterTargets
    PROVE  Inv'
  <1>1. /\ phase = "filter" /\ phase' \in {"nothing", "bake"}
        /\ slnToBuild' \in {Sln, slnToBuild}
        /\ prjToBuild' \in {allReal, prjToBuild}
        /\ UNCHANGED <<declarations, aliases, asked>>
    BY DEF filterTargets
  <1>2. Declared' /\ Lists'
    BY <1>1, DeclaredStays, ListsStay DEF Inv, Declared, Lists
  <1>3. TypeOK' /\ NothingChosen' /\ BakedListsExact'
    BY <1>1 DEF Inv, TypeOK, NothingChosen, BakedListsExact, declarations
  <1>4. prjToBuild \subseteq prjToBuild'
    BY <1>1 DEF Inv, TypeOK
  <1>5. SolutionsSoFar'
    BY <1>1, <1>4 DEF Inv, SolutionsSoFar, declarations, Projects
  <1>6. NamedSoFar'
    BY <1>1, <1>4 DEF Inv, NamedSoFar, declarations, LeadsTo, Solution
  <1> QED BY <1>2, <1>3, <1>5, <1>6 DEF Inv, Declared, Lists

-----------------------------------------------------------------------------
(* solution.bake *)

(* An entry of a list that is not baked has the name of a declaration.     *)
LEMMA EntryNamed ==
    ASSUME Inv, phase # "baked", NEW s \in Sln, NEW e \in ToSet(projects[s]),
           \A d \in declared : ~Rooted(d.given)
    PROVE  \E d \in declared : d.sln = s /\ e.name = d.full
  <1>1. PICK d \in declared :
            /\ d.sln = s
            /\ \/ e = Of(d.full, d.isUsage)
               \/ ~d.isUsage /\ e = Of(usageName(Relative(d.full), d.space), TRUE)
    BY DEF Inv, EntriesDeclared
  <1>2. \A f, u : Of(f, u).name = f
    BY DEF Of
  <1>3. CASE e = Of(d.full, d.isUsage)
    BY <1>1, <1>2, <1>3
  <1>4. CASE ~d.isUsage /\ e = Of(usageName(Relative(d.full), d.space), TRUE)
    <2>1. d.full = fullname(d.given, d.space) /\ d.space \in AllSpaces
      BY <1>4 DEF Inv, NamedByKind
    <2>2. d.given \in Given /\ ~Rooted(d.given)
      BY DEF Inv, Types, Declaration
    <2>3. usageName(Relative(d.full), d.space) = d.full
      BY <2>1, <2>2, OwnUsageName
    <2> QED BY <1>1, <1>2, <1>4, <2>3
  <1> QED BY <1>1, <1>3, <1>4

(* A declared name that no alias has stands for the project of that name.  *)
LEMMA DeclaredReal ==
    ASSUME Inv, DOMAIN aliases \cap allUsage = {}, NEW d \in declared
    PROVE  /\ getRealProject(d.full) \subseteq {d.full}
           /\ ~d.isUsage => d.full \in getRealProject(d.full)
  <1>1. CASE d.full \in allReal
    BY <1>1 DEF getRealProject, getProject
  <1>2. CASE d.full \notin allReal
    <2>1. d.isUsage
      BY <1>2 DEF Inv, RealDeclared, Projects
    <2>2. d.full \notin DOMAIN aliases
      BY <2>1 DEF Inv, UsagesKnown
    <2>3. Chain(d.full) = d.full
      BY <2>2, ChainOfNoAlias
    <2> QED BY <1>2, <2>1, <2>3 DEF getRealProject, getProject
  <1> QED BY <1>1, <1>2

LEMMA BakeInv ==
    ASSUME Inv, bakeSolutions
    PROVE  Inv'
  <1>1. /\ phase = "bake" /\ phase' = "baked"
        /\ projects' = [s \in Sln |-> BakedList(s)]
        /\ UNCHANGED <<allReal, allUsage, owner, keys, declared, aliases,
                       args, asked, slnToBuild, prjToBuild>>
    BY DEF bakeSolutions, choice
  <1>2. \A s \in Sln : projects'[s] = BakedList(s) /\ RealList(BakedList(s), s, Len(projects[s]))
    BY <1>1, BakedListFacts DEF Inv
  <1>3. projects' \in [Sln -> Seq(Entry)]
    <2>1. \A s \in Sln : BakedList(s) \in Seq(Entry)
      BY <1>2 DEF RealList
    <2> QED BY <1>1, <2>1
  <1>4. Types'
    BY <1>1, <1>3 DEF Inv, Types
  <1>5. NamedByKind' /\ RealDeclared' /\ UsagesKnown' /\ RealHasUsage'
    BY <1>1 DEF Inv, NamedByKind, RealDeclared, UsagesKnown, RealHasUsage, Projects,
                Rooted, usageName, fullname
  <1>6. EntriesDeclared' /\ KeysHeld' /\ OnlyLateMissing' /\ NothingChosen'
    BY <1>1 DEF EntriesDeclared, KeysHeld, OnlyLateMissing, NothingChosen
  <1>7. SolutionsSoFar' /\ NamedSoFar'
    BY <1>1 DEF Inv, SolutionsSoFar, NamedSoFar, Projects, LeadsTo, Solution
  <1>8. TypeOK'
    <2>1. ASSUME NEW s \in Sln, NEW i \in 1..Len(projects'[s])
          PROVE  ~projects'[s][i].isUsage /\ projects'[s][i].name \in allReal
      <3>1. /\ ~projects'[s][i].isUsage
            /\ \E k \in 1..Len(projects[s]) :
                  projects'[s][i].name \in getRealProject(projects[s][k].name)
        BY <1>2, <2>1 DEF RealList
      <3> QED BY <3>1, RealFacts
    <2> QED BY <1>1, <2>1 DEF Inv, TypeOK
  <1>9. BakedListsExact'
    <2> SUFFICES ASSUME DOMAIN aliases \cap allUsage = {},
                        \A d \in declared : ~Rooted(d.given),
                        NEW s \in Sln
                 PROVE  /\ \A i \in 1..Len(projects'[s]) :
                              projects'[s][i].name \in
                                allReal \cap {d.full : d \in {e \in declared : e.sln = s}}
                        /\ \A d \in declared :
                              /\ ~d.isUsage /\ d.sln = s
                              /\ \A e \in declared : Takes(e, s, d.given) => e.full = d.full
                              => \E i \in 1..Len(projects'[s]) : projects'[s][i].name = d.full
                        /\ \A i, j \in 1..Len(projects'[s]) :
                              i # j => projects'[s][i] # projects'[s][j]
      BY <1>1 DEF BakedListsExact, Rooted, Takes, Relative
    <2> DEFINE L == projects'[s]
    <2>0. /\ RealList(L, s, Len(projects[s])) /\ DOMAIN L = 1..Len(L)
          /\ DOMAIN projects[s] = 1..Len(projects[s])
      BY <1>2, <1>3 DEF Inv, Types
    <2> HIDE DEF L
    <2>1. ASSUME NEW i \in 1..Len(L)
          PROVE  L[i].name \in allReal \cap {d.full : d \in {e \in declared : e.sln = s}}
      <3>1. PICK k \in 1..Len(projects[s]) : L[i].name \in getRealProject(projects[s][k].name)
        BY <2>0 DEF RealList
      <3>2. projects[s][k] \in ToSet(projects[s])
        BY <2>0 DEF ToSet
      <3>3. PICK d \in declared : d.sln = s /\ projects[s][k].name = d.full
        BY <1>1, <3>2, EntryNamed
      <3>4. L[i].name = d.full
        BY <3>1, <3>3, DeclaredReal
      <3>5. L[i].name \in allReal
        BY <3>1, RealFacts
      <3> QED BY <3>3, <3>4, <3>5
    <2>2. ASSUME NEW d \in declared, ~d.isUsage, d.sln = s,
                 \A e \in declared : Takes(e, s, d.given) => e.full = d.full
          PROVE  \E i \in 1..Len(L) : L[i].name = d.full
      <3>1. d.given \in keys[s]
        BY <1>1, <2>2 DEF Inv, KeysHeld, Projects
      <3>2. PICK e \in declared :
                Takes(e, s, d.given) /\ (Rooted(e.given) \/ Has(projects[s], e.full))
        BY <1>1, <3>1 DEF Inv, KeysHeld
      <3>3. Has(projects[s], d.full)
        BY <2>2, <3>2
      <3>4. PICK k \in 1..Len(projects[s]) : projects[s][k].name = d.full
        BY <2>0, <3>3 DEF Has, ToSet
      <3>5. d.full \in getRealProject(projects[s][k].name)
        BY <2>2, <3>4, DeclaredReal
      <3>6. Has(L, d.full)
        BY <2>0, <3>5 DEF RealList
      <3> QED BY <2>0, <3>6 DEF Has, ToSet
    <2>3. \A i, j \in 1..Len(L) : i # j => L[i] # L[j]
      BY <2>0 DEF RealList
    <2> QED BY <2>1, <2>2, <2>3 DEF L
  <1> QED BY <1>4, <1>5, <1>6, <1>7, <1>8, <1>9 DEF Inv

-----------------------------------------------------------------------------
(* The theorems *)

LEMMA InitInv == Init => Inv
  <1> SUFFICES ASSUME Init PROVE Inv
    OBVIOUS
  <1>1. /\ allReal = {} /\ allUsage = {} /\ declared = {} /\ phase = "declare"
        /\ projects = [s \in Sln |-> <<>>] /\ keys = [s \in Sln |-> {}]
        /\ owner = [f \in {} |-> {}] /\ asked = {} /\ slnToBuild = {} /\ prjToBuild = {}
    BY DEF Init
  <1>2. Projects = {}
    BY <1>1 DEF Projects
  <1>3. \A s \in Sln : projects[s] = <<>> /\ keys[s] = {}
    BY <1>1
  <1>4. <<>> \in Seq(Entry) /\ Len(<<>>) = 0 /\ ToSet(<<>>) = {}
    BY DEF ToSet
  <1>5. Types
    BY <1>1, <1>4 DEF Types
  <1>6. TypeOK
    BY <1>1, <1>3, <1>4 DEF TypeOK
  <1>7. NamedByKind /\ UsagesKnown /\ RealHasUsage /\ NothingChosen
    BY <1>1 DEF NamedByKind, UsagesKnown, RealHasUsage, NothingChosen
  <1>8. RealDeclared /\ SolutionsSoFar /\ OnlyLateMissing
    BY <1>1, <1>2 DEF RealDeclared, SolutionsSoFar, OnlyLateMissing
  <1>9. EntriesDeclared /\ KeysHeld
    BY <1>2, <1>3, <1>4 DEF EntriesDeclared, KeysHeld
  <1>10. NamedSoFar /\ BakedListsExact
    BY <1>1 DEF NamedSoFar, BakedListsExact
  <1> QED BY <1>5, <1>6, <1>7, <1>8, <1>9, <1>10 DEF Inv

LEMMA StutterInv ==
    ASSUME Inv, UNCHANGED vars
    PROVE  Inv'
  <1>1. /\ UNCHANGED <<declarations, aliases, phase, choice>>
        /\ allReal' = allReal /\ allUsage' = allUsage /\ owner' = owner
        /\ projects' = projects /\ keys' = keys /\ declared' = declared
        /\ asked' = asked /\ slnToBuild' = slnToBuild /\ prjToBuild' = prjToBuild
    BY DEF vars, declarations, choice
  <1>2. Declared'
    BY <1>1, DeclaredStays DEF Inv, Declared
  <1>3. Lists'
    <2>1. CASE phase = "baked"
      BY <1>1, <2>1 DEF Lists, EntriesDeclared, KeysHeld, OnlyLateMissing
    <2>2. CASE phase # "baked"
      BY <1>1, <2>2, ListsStay DEF Inv, Lists
    <2> QED BY <2>1, <2>2
  <1>4. TypeOK' /\ NothingChosen' /\ SolutionsSoFar'
    BY <1>1 DEF Inv, TypeOK, NothingChosen, SolutionsSoFar, Projects
  <1>5. NamedSoFar'
    BY <1>1 DEF Inv, NamedSoFar, LeadsTo, Solution
  <1>6. BakedListsExact'
    BY <1>1 DEF Inv, BakedListsExact, Takes, Relative, Rooted
  <1> QED BY <1>2, <1>3, <1>4, <1>5, <1>6 DEF Inv, Declared, Lists

LEMMA NextInv == Inv /\ [Next]_vars => Inv'
  <1> SUFFICES ASSUME Inv, [Next]_vars PROVE Inv'
    OBVIOUS
  <1>1. ASSUME NEW s \in Sln, NEW g \in Given, NEW n \in Spaces[s], project(g, s, n)
        PROVE  Inv'
    BY <1>1, ProjectInv
  <1>2. ASSUME NEW s \in Sln, NEW g \in Given, NEW n \in Spaces[s], usage(g, s, n)
        PROVE  Inv'
    BY <1>2, UsageInv
  <1>3. ASSUME NEW s \in Sln, NEW a \in AliasNames, NEW f, alias(a, f, s)
        PROVE  Inv'
    BY <1>3, AliasInv
  <1>4. CASE StartFilter
    BY <1>4, StartFilterInv
  <1>5. ASSUME NEW v \in args, findBuildTarget(v) PROVE Inv'
    BY <1>5, FindInv
  <1>6. ASSUME NEW v \in args, AliasError(v) PROVE Inv'
    BY <1>6, AliasErrorInv
  <1>7. CASE filterTargets
    BY <1>7, FilterInv
  <1>8. CASE bakeSolutions
    BY <1>8, BakeInv
  <1>9. CASE Ended \/ UNCHANGED vars
    BY <1>9, StutterInv DEF Ended
  <1> QED
    BY <1>1, <1>2, <1>3, <1>4, <1>5, <1>6, <1>7, <1>8, <1>9 DEF Next

LEMMA InvHolds == Spec => []Inv
  BY InitInv, NextInv, PTL DEF Spec

LEMMA NotEmpty ==
    ASSUME NEW p \in Seq(STRING), p # <<>>
    PROVE  Len(p) = 1 \/ Len(p) > 1
  <1>1. Len(p) \in Nat /\ Len(p) # 0
    BY EmptySeq
  <1>2. \A n \in Nat : n # 0 => n = 1 \/ n > 1
    OBVIOUS
  <1> QED BY <1>1, <1>2

(* The usage of a name is that of the project of that name: both were      *)
(* named in the same way.                                                  *)
LEMMA UsageProjects == Inv => UsageIsProjects
  <1> SUFFICES ASSUME Inv, NEW u \in declared, NEW d \in declared,
                      u.isUsage, ~d.isUsage, u.given = d.given, u.space = d.space,
                      Len(u.given.path) = 1 => u.given.path \notin Begins[u.space]
               PROVE  u.full = d.full
    BY DEF UsageIsProjects
  <1>1. u.full = usageName(u.given, u.space) /\ d.full = fullname(u.given, u.space)
    BY DEF Inv, NamedByKind
  <1>2. u.given \in Given
    BY DEF Inv, Types, Declaration
  <1>3. u.given.path \in Seq(STRING) /\ u.given.path # <<>>
    BY <1>2, TargetsAssumption DEF Path
  <1>4. Len(u.given.path) = 1 \/ Len(u.given.path) > 1
    BY <1>3, NotEmpty
  <1> QED BY <1>1, <1>4 DEF usageName, fullname

(* createproject and getNameParts: whatever the order of declarations, a   *)
(* project has a usage under its own name, and usage(name) is that of the  *)
(* project that project(name) declares.                                    *)
THEOREM TargetsNamesSound == Spec => []NamesSound
  <1>1. Inv => NamesSound
    BY UsageProjects DEF Inv, NamesSound
  <1> QED BY <1>1, InvHolds, PTL

(* filterTargets: a solution named on the command line brings every        *)
(* project it declared, if its name was free in the list.                  *)
THEOREM SolutionsBuildAll == Spec => []SolutionBuildsAll
  <1>1. Inv => SolutionBuildsAll
    BY DEF Inv, SolutionBuildsAll, SolutionsSoFar, RealDeclared, Projects
  <1> QED BY <1>1, InvHolds, PTL

(* findBuildTarget: a project is built when it is named by its full name,  *)
(* by aliases of any number that lead to it, or by a short name.           *)
THEOREM NamedAreBuilt == Spec => []NamedIsBuilt
  <1>1. Inv => NamedIsBuilt
    BY DEF Inv, NamedIsBuilt, NamedSoFar
  <1> QED BY <1>1, InvHolds, PTL

(* solution.bake: the baked list of a solution holds the projects that it  *)
(* declared and those it declares usages for, each once.                   *)
THEOREM BakedListsAreExact == Spec => []BakedListsExact
  <1>1. Inv => BakedListsExact
    BY DEF Inv
  <1> QED BY <1>1, InvHolds, PTL
=============================================================================
