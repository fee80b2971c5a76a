---------------------------- MODULE FilterProofs ----------------------------
(***************************************************************************)
(* Proofs about Filter: for all blocks and build variants, and whatever    *)
(* order pairs() walks in, the filter that getfilter returns is closed     *)
(* under the blocks it selects, holds nothing without a source, and is     *)
(* refused only for a cause.                                               *)
(***************************************************************************)
EXTENDS Filter, SequenceTheorems, FiniteSetTheorems, WellFoundedInduction,
        NaturalsInduction, TLAPS

-----------------------------------------------------------------------------
(* The inductive invariant *)

Filters == UNION {[D -> DOMAIN Lower] : D \in SUBSET STRING}
LowerCase(f) == \A k \in DOMAIN f : Lower[f[k]] = f[k]
Added(f, v) == DOMAIN f \ DOMAIN v

(* What the variables hold; an error comes after LoopMax iterations. *)
Types ==
    /\ blocks \in Projects /\ variant \in Variants
    /\ filter \in Filters /\ filterList \in Seq(Filters)
    /\ DOMAIN variant \subseteq DOMAIN filter
    /\ phase \in {"repeat", "done", "error"}
    /\ Len(filterList) <= LoopMax + 1
    /\ phase = "repeat" => Len(filterList) <= LoopMax
    /\ phase = "error" => Len(filterList) >= LoopMax

(* The last iteration changed nothing. *)
Settled ==
    phase = "done" =>
        \E o \in Orders(SelectedBlocks(filter)) : filter = Applied(filter, Merged(o))

(* The n-th iteration makes filter g from f, for build variant v: it keeps *)
(* the keys, and there is another one only if something changed.           *)
Onward(n, f, g, v, ph) ==
    /\ DOMAIN v \subseteq DOMAIN f /\ DOMAIN f \subseteq DOMAIN g
    /\ ph = "repeat" => g # f /\ LowerCase(g)
    /\ n >= 2 => LowerCase(f)

(* Unless a keyword changes its value, every iteration but the first adds  *)
(* a keyword, so the n-th starts with n - 2 of them at least.              *)
Growing ==
    /\ IsFiniteSet(Added(filter, variant))
    /\ Len(filterList) > 0 =>
         Onward(Len(filterList), filterList[Len(filterList)], filter, variant, phase)
    /\ Len(filterList) > 0 /\ ~Changed =>
         Cardinality(Added(filterList[Len(filterList)], variant)) >= Len(filterList) - 2

Inv == Types /\ KeywordsHaveASource /\ Settled /\ Growing

-----------------------------------------------------------------------------
(* Merging the blocks' keywords *)

(* A set of naturals that is not empty has a least element. *)
LEMMA LeastNatural ==
    ASSUME NEW T \in SUBSET Nat, T # {}
    PROVE  \E x \in T : \A y \in T : x <= y
  <1>1. PICK x \in T : \A y \in T : ~(<<y, x>> \in OpToRel(<, Nat))
    BY NatLessThanWellFounded, WFMin, Zenon
  <1>2. ASSUME NEW y \in T PROVE x <= y
    <2>1. ~(y < x)
      BY <1>1 DEF OpToRel
    <2> QED BY <2>1
  <1> QED BY <1>2

NoKeywords == [k \in {} |-> ""]

(* The recursion in Merged is defined for every sequence of blocks. *)
LEMMA MergedSteps ==
    ASSUME NEW o, Len(o) \in Nat
    PROVE  \E h : /\ h = [i \in 0..Len(o) |->
                            IF i = 0 THEN NoKeywords ELSE Update(h[i - 1], usesconfig(o[i]))]
                  /\ Merged(o) = h[Len(o)]
  <1> DEFINE E(m) == \E h : h = [i \in 0..m |->
                           IF i = 0 THEN NoKeywords ELSE Update(h[i - 1], usesconfig(o[i]))]
             T == {m \in Nat : ~E(m)}
  <1>1. T = {}
    <2> SUFFICES ASSUME T # {} PROVE FALSE
      OBVIOUS
    <2>1. PICK m \in T : \A k \in T : m <= k
      <3> HIDE DEF E
      <3>1. T \in SUBSET Nat
        OBVIOUS
      <3> QED BY <3>1, LeastNatural
    <2>2. CASE m = 0
      <3>1. [i \in 0..0 |-> NoKeywords] =
              [i \in 0..0 |-> IF i = 0 THEN NoKeywords
                              ELSE Update([j \in 0..0 |-> NoKeywords][i - 1], usesconfig(o[i]))]
        OBVIOUS
      <3>2. E(0)
        BY <3>1
      <3> QED BY <2>2, <3>2
    <2>3. CASE m # 0
      <3>1. m \in Nat /\ m - 1 \in Nat
        BY <2>3
      <3>2. E(m - 1)
        <4> HIDE DEF E
        <4> QED BY <2>1, <3>1
      <3>3. PICK h : h = [i \in 0..(m - 1) |->
                            IF i = 0 THEN NoKeywords ELSE Update(h[i - 1], usesconfig(o[i]))]
        BY <3>2
      <3> DEFINE g == [i \in 0..m |-> IF i = m THEN Update(h[m - 1], usesconfig(o[m])) ELSE h[i]]
      <3>4. \A i \in 0..m :
               g[i] = IF i = 0 THEN NoKeywords ELSE Update(g[i - 1], usesconfig(o[i]))
        BY <3>1, <3>3, <2>3
      <3>5. g = [i \in 0..m |->
                   IF i = 0 THEN NoKeywords ELSE Update(g[i - 1], usesconfig(o[i]))]
        BY <3>4
      <3>6. E(m)
        BY <3>5, Zenon
      <3> QED BY <3>6
    <2> QED BY <2>2, <2>3
  <1>2. E(Len(o))
    BY <1>1
  <1> DEFINE P(h) == h = [i \in 0..Len(o) |->
                       IF i = 0 THEN NoKeywords ELSE Update(h[i - 1], usesconfig(o[i]))]
  <1>3. Merged(o) = (CHOOSE h : P(h))[Len(o)]
    BY DEF Merged, NoKeywords
  <1>4. P(CHOOSE h : P(h))
    <2>1. \E h : P(h)
      BY <1>2
    <2> HIDE DEF P
    <2> QED BY <2>1
  <1> QED BY <1>3, <1>4

(* Where the values of a block's calls are. *)
LEMMA PlaceIn ==
    ASSUME NEW b, NEW p \in Places(b)
    PROVE  /\ p = <<p[1], p[2]>>
           /\ p[1] \in 1..Len(b.calls) /\ p[2] \in 1..Len(b.calls[p[1]].values)
           /\ p[2] \in useValue(b.calls[p[1]])
  <1>1. PICK i \in 1..Len(b.calls) : p \in {i} \X useValue(b.calls[i])
    BY DEF Places
  <1>2. p = <<p[1], p[2]>> /\ p[1] = i /\ p[2] \in useValue(b.calls[i])
    BY <1>1
  <1>3. p[2] \in 1..Len(b.calls[i].values)
    BY <1>2 DEF useValue
  <1> QED BY <1>2, <1>3

LEMMA CallsType ==
    ASSUME NEW b \in Block
    PROVE  /\ Len(b.calls) \in Nat
           /\ \A i \in 1..Len(b.calls) :
                 /\ b.calls[i] \in Call
                 /\ Len(b.calls[i].values) \in Nat
                 /\ \A j \in 1..Len(b.calls[i].values) : b.calls[i].values[j] \in Value
  <1>1. b.calls \in Seq(Call)
    BY DEF Block
  <1>2. \A c \in Call : c.values \in Seq(Value)
    BY DEF Call
  <1>3. \A i \in 1..Len(b.calls) : b.calls[i] \in Call
    BY <1>1
  <1>4. \A c \in Call : Len(c.values) \in Nat /\ \A j \in 1..Len(c.values) : c.values[j] \in Value
    BY <1>2
  <1> QED BY <1>1, <1>3, <1>4

(* Of the places in a block that set a key one is the last. *)
LEMMA LastPlace ==
    ASSUME NEW b \in Block, NEW T \in SUBSET Places(b), T # {}
    PROVE  \E p \in T : \A q \in T : ~Later(q, p)
  <1> DEFINE n == Len(b.calls)
             M(i) == Len(b.calls[i].values)
  <1>1. n \in Nat /\ \A i \in 1..n : M(i) \in Nat
    BY CallsType
  <1>2. \A p \in T : p[1] \in 1..n /\ p[2] \in 1..M(p[1])
    BY PlaceIn
  <1> HIDE DEF n, M
  <1> DEFINE I == {n - p[1] : p \in T}
  <1>3. I \in SUBSET Nat /\ I # {}
    <2>1. \A p \in T : n - p[1] \in Nat
      BY <1>1, <1>2
    <2> QED BY <2>1
  <1>4. PICK x \in I : \A y \in I : x <= y
    <2> HIDE DEF I
    <2> QED BY <1>3, LeastNatural
  <1>5. PICK p0 \in T : x = n - p0[1]
    BY <1>4
  <1>6. \A q \in T : q[1] <= p0[1]
    <2> SUFFICES ASSUME NEW q \in T PROVE q[1] <= p0[1]
      OBVIOUS
    <2>1. n - p0[1] <= n - q[1]
      BY <1>4, <1>5
    <2>2. p0[1] \in Int /\ q[1] \in Int /\ n \in Int
      BY <1>1, <1>2
    <2> QED BY <2>1, <2>2
  <1> DEFINE J == {M(p0[1]) - p[2] : p \in {t \in T : t[1] = p0[1]}}
  <1>7. J \in SUBSET Nat /\ J # {}
    <2>1. \A p \in T : p[1] = p0[1] => M(p0[1]) - p[2] \in Nat
      BY <1>1, <1>2
    <2> QED BY <2>1
  <1>8. PICK z \in J : \A y \in J : z <= y
    <2> HIDE DEF J
    <2> QED BY <1>7, LeastNatural
  <1>9. PICK p \in T : p[1] = p0[1] /\ z = M(p0[1]) - p[2]
    BY <1>8
  <1>10. ASSUME NEW q \in T PROVE ~Later(q, p)
    <2>1. q[1] <= p[1] /\ q[1] \in Int /\ p[1] \in Int
      BY <1>2, <1>6, <1>9
    <2>2. CASE q[1] = p[1]
      <3>1. M(p0[1]) - p[2] <= M(p0[1]) - q[2]
        BY <1>8, <1>9, <2>2
      <3>2. M(p0[1]) \in Int /\ p[2] \in Int /\ q[2] \in Int
        BY <1>1, <1>2, <1>9
      <3> QED BY <2>1, <3>1, <3>2 DEF Later
    <2>3. CASE q[1] # p[1]
      BY <2>1, <2>3 DEF Later
    <2> QED BY <2>2, <2>3
  <1> QED BY <1>10

(* What the keywords of one block are. *)
LEMMA UsesconfigFacts ==
    ASSUME NEW b \in Block
    PROVE  /\ DOMAIN usesconfig(b) \subseteq STRING
           /\ DOMAIN usesconfig(b) = {KeyAt(b, p) : p \in Places(b)}
           /\ IsFiniteSet(DOMAIN usesconfig(b))
           /\ \A k \in DOMAIN usesconfig(b) :
                 /\ usesconfig(b)[k] \in DOMAIN Lower
                 /\ \E p \in Places(b) :
                       KeyAt(b, p) = k /\ usesconfig(b)[k] = ValueAt(b, p).v
  <1> DEFINE n == Len(b.calls)
             K == {KeyAt(b, p) : p \in Places(b)}
  <1>1. n \in Nat
    BY CallsType
  <1>2. \A p \in Places(b) : ValueAt(b, p) \in Value /\ b.calls[p[1]] \in Call
    BY CallsType, PlaceIn DEF ValueAt
  <1>4. \A p \in Places(b) : KeyAt(b, p) \in STRING /\ ValueAt(b, p).v \in DOMAIN Lower
    BY <1>2, FilterAssumption DEF KeyAt, KeyOf, Value, Call
  <1>5. DOMAIN usesconfig(b) = K
    BY DEF usesconfig
  <1>6. IsFiniteSet(Places(b))
    <2> DEFINE U(i) == {i} \X useValue(b.calls[i])
               C == {U(i) : i \in 1..n}
    <2>1. \A i \in 1..n : IsFiniteSet(U(i))
      <3> SUFFICES ASSUME NEW i \in 1..n PROVE IsFiniteSet(U(i))
        OBVIOUS
      <3> DEFINE m == Len(b.calls[i].values)
      <3>1. m \in Nat
        BY CallsType
      <3>2. IsFiniteSet(1..m)
        <4> HIDE DEF m
        <4> QED BY <3>1, FS_Interval
      <3>3. useValue(b.calls[i]) \in SUBSET (1..m)
        BY DEF useValue
      <3>4. IsFiniteSet(useValue(b.calls[i]))
        BY <3>2, <3>3, FS_Subset
      <3> QED BY <3>4, FS_Singleton, FS_Product
    <2>2. IsFiniteSet(C)
      <3>1. IsFiniteSet(1..n)
        BY <1>1, FS_Interval
      <3> DEFINE f == [i \in 1..n |-> U(i)]
      <3>2. f \in Surjection(1..n, C)
        BY DEF Surjection
      <3> HIDE DEF f, C, n
      <3> QED BY <3>1, <3>2, FS_Surjection
    <2>3. \A c \in C : IsFiniteSet(c)
      BY <2>1
    <2>4. IsFiniteSet(UNION C)
      <3> HIDE DEF C
      <3> QED BY <2>2, <2>3, FS_UNION
    <2> QED BY <2>4 DEF Places
  <1>7. IsFiniteSet(K)
    <2> DEFINE f == [p \in Places(b) |-> KeyAt(b, p)]
    <2>1. f \in Surjection(Places(b), K)
      BY DEF Surjection
    <2> HIDE DEF f, K
    <2> QED BY <1>6, <2>1, FS_Surjection
  <1>8. ASSUME NEW k \in K
        PROVE  \E p \in Places(b) : KeyAt(b, p) = k /\ usesconfig(b)[k] = ValueAt(b, p).v
    <2> DEFINE given == {p \in Places(b) : KeyAt(b, p) = k}
               last == CHOOSE p \in given : \A q \in given : ~Later(q, p)
    <2>1. given \in SUBSET Places(b) /\ given # {}
      OBVIOUS
    <2>2. last \in given
      <3> HIDE DEF given
      <3>1. \E p \in given : \A q \in given : ~Later(q, p)
        BY <2>1, LastPlace
      <3> QED BY <3>1
    <2>3. usesconfig(b)[k] = ValueAt(b, last).v
      BY DEF usesconfig
    <2> HIDE DEF last
    <2> QED BY <2>2, <2>3
  <1> QED BY <1>4, <1>5, <1>7, <1>8

(* After n blocks of o a key has the value that the last of them with the  *)
(* key gives it.                                                           *)
LastSets(m, o, n) ==
    /\ DOMAIN m \subseteq STRING /\ IsFiniteSet(DOMAIN m)
    /\ \A i \in 1..n : DOMAIN usesconfig(o[i]) \subseteq DOMAIN m
    /\ \A k \in DOMAIN m :
          \E i \in 1..n :
              /\ k \in DOMAIN usesconfig(o[i]) /\ m[k] = usesconfig(o[i])[k]
              /\ \A j \in (i + 1)..n : k \notin DOMAIN usesconfig(o[j])

LEMMA UpdateSets ==
    ASSUME NEW o \in Seq(Block), NEW n \in 1..Len(o), NEW m, LastSets(m, o, n - 1)
    PROVE  LastSets(Update(m, usesconfig(o[n])), o, n)
  <1> DEFINE u == usesconfig(o[n])
             g == Update(m, u)
  <1>0. n \in Nat /\ n - 1 \in Nat /\ o[n] \in Block
    OBVIOUS
  <1>1. DOMAIN u \subseteq STRING /\ IsFiniteSet(DOMAIN u)
    BY <1>0, UsesconfigFacts
  <1>2. /\ DOMAIN g = DOMAIN m \cup DOMAIN u
        /\ \A k \in DOMAIN g : g[k] = IF k \in DOMAIN u THEN u[k] ELSE m[k]
    BY DEF Update
  <1> HIDE DEF g
  <1>3. DOMAIN g \subseteq STRING /\ IsFiniteSet(DOMAIN g)
    <2>1. DOMAIN m \subseteq STRING /\ IsFiniteSet(DOMAIN m)
      BY DEF LastSets
    <2>2. IsFiniteSet(DOMAIN m \cup DOMAIN u)
      BY <1>1, <2>1, FS_Union
    <2> QED BY <1>1, <1>2, <2>1, <2>2
  <1>4. \A i \in 1..n : i \in 1..(n - 1) \/ i = n
    BY <1>0
  <1>5. \A i \in 1..n : DOMAIN usesconfig(o[i]) \subseteq DOMAIN g
    BY <1>2, <1>4 DEF LastSets
  <1>6. ASSUME NEW k \in DOMAIN g
        PROVE  \E i \in 1..n :
                  /\ k \in DOMAIN usesconfig(o[i]) /\ g[k] = usesconfig(o[i])[k]
                  /\ \A j \in (i + 1)..n : k \notin DOMAIN usesconfig(o[j])
    <2>1. CASE k \in DOMAIN u
      <3>1. n \in 1..n /\ (n + 1)..n = {}
        BY <1>0
      <3> QED BY <1>2, <2>1, <3>1
    <2>2. CASE k \notin DOMAIN u
      <3>1. k \in DOMAIN m /\ g[k] = m[k]
        BY <1>2, <2>2
      <3>2. PICK i \in 1..(n - 1) :
               /\ k \in DOMAIN usesconfig(o[i]) /\ m[k] = usesconfig(o[i])[k]
               /\ \A j \in (i + 1)..(n - 1) : k \notin DOMAIN usesconfig(o[j])
        BY <3>1 DEF LastSets
      <3>3. i \in 1..n /\ \A j \in (i + 1)..n : j \in (i + 1)..(n - 1) \/ j = n
        BY <1>0
      <3> QED BY <2>2, <3>1, <3>2, <3>3
    <2> QED BY <2>1, <2>2
  <1> QED BY <1>3, <1>5, <1>6 DEF LastSets, g

LEMMA MergedFacts ==
    ASSUME NEW o \in Seq(Block)
    PROVE  LastSets(Merged(o), o, Len(o))
  <1> DEFINE n == Len(o)
  <1>1. n \in Nat
    OBVIOUS
  <1>2. PICK h : /\ h = [i \in 0..n |->
                           IF i = 0 THEN NoKeywords ELSE Update(h[i - 1], usesconfig(o[i]))]
                 /\ Merged(o) = h[n]
    BY <1>1, MergedSteps
  <1> DEFINE T == {i \in 0..n : ~LastSets(h[i], o, i)}
  <1> HIDE DEF n
  <1>3. T = {}
    <2> SUFFICES ASSUME T # {} PROVE FALSE
      OBVIOUS
    <2>1. T \in SUBSET Nat
      BY <1>1
    <2>2. PICK m \in T : \A k \in T : m <= k
      BY <2>1, LeastNatural
    <2>3. CASE m = 0
      <3>1. h[0] = NoKeywords
        BY <1>1, <1>2
      <3>2. LastSets(NoKeywords, o, 0)
        BY FS_EmptySet DEF LastSets, NoKeywords
      <3> QED BY <2>2, <2>3, <3>1, <3>2
    <2>4. CASE m # 0
      <3>1. m \in 1..n /\ m - 1 \in 0..n /\ m - 1 \notin T
        BY <1>1, <2>1, <2>2, <2>4
      <3>2. LastSets(h[m - 1], o, m - 1)
        BY <3>1
      <3>3. h[m] = Update(h[m - 1], usesconfig(o[m]))
        BY <1>1, <1>2, <3>1
      <3>4. LastSets(h[m], o, m)
        BY <3>1, <3>2, <3>3, UpdateSets DEF n
      <3> QED BY <2>2, <3>4
    <2> QED BY <2>3, <2>4
  <1>4. n \in 0..n
    BY <1>1
  <1>5. LastSets(h[n], o, n)
    BY <1>3, <1>4
  <1> QED BY <1>2, <1>5 DEF n

(* An order of blocks holds each of them, outer blocks first. *)
LEMMA OrderFacts ==
    ASSUME NEW S, IsFiniteSet(S), NEW o \in Orders(S)
    PROVE  /\ o \in Seq(S)
           /\ \A b \in S : \E i \in 1..Len(o) : o[i] = b
           /\ \A i, j \in 1..Len(o) : IsStrictPrefix(o[i].terms, o[j].terms) => i < j
  <1> DEFINE n == Cardinality(S)
  <1>1. n \in Nat /\ IsFiniteSet(1..n) /\ Cardinality(1..n) = n
    <2>1. n \in Nat
      BY FS_CardinalityType
    <2>2. IsFiniteSet(1..n) /\ Cardinality(1..n) = IF 1 > n THEN 0 ELSE n - 1 + 1
      BY <2>1, FS_Interval
    <2> HIDE DEF n
    <2> QED BY <2>1, <2>2
  <1>2. /\ o \in [1..n -> S]
        /\ \A i, j \in 1..n : i # j => o[i] # o[j]
        /\ \A i, j \in 1..Len(o) : IsStrictPrefix(o[i].terms, o[j].terms) => i < j
    BY DEF Orders, SetToSeqs
  <1>3. o \in Seq(S) /\ Len(o) = n
    <2> HIDE DEF n
    <2>1. o \in Seq(S)
      BY <1>1, <1>2, IsASeq
    <2>2. DOMAIN o = 1..n /\ DOMAIN o = 1..Len(o) /\ Len(o) \in Nat
      BY <1>2, <2>1
    <2> QED BY <1>1, <1>2, <2>1, <2>2
  <1>4. o \in Injection(1..n, S)
    <2> HIDE DEF n
    <2> QED BY <1>2 DEF Injection, IsInjective
  <1>5. o \in Surjection(1..n, S)
    BY <1>1, <1>4, FS_Injection
  <1>6. \A b \in S : \E i \in 1..n : o[i] = b
    BY <1>5 DEF Surjection
  <1> QED BY <1>2, <1>3, <1>6

(* What an iteration makes of the filter f with the keywords u. *)
LEMMA AppliedFacts ==
    ASSUME NEW f \in Filters, NEW u, DOMAIN u \subseteq STRING,
           \A k \in DOMAIN u : u[k] \in DOMAIN Lower
    PROVE  /\ Applied(f, u) \in Filters
           /\ DOMAIN Applied(f, u) = DOMAIN f \cup DOMAIN u
           /\ \A k \in DOMAIN u : Applied(f, u)[k] = Lower[u[k]]
           /\ \A k \in DOMAIN f \ DOMAIN u : Applied(f, u)[k] \in {f[k], Lower[f[k]]}
           /\ Applied(f, u) # f => LowerCase(Applied(f, u))
  <1>1. DOMAIN f \subseteq STRING /\ f \in [DOMAIN f -> DOMAIN Lower]
    BY DEF Filters
  <1>2. CASE DOMAIN u = {}
    BY <1>1, <1>2 DEF Applied
  <1>3. CASE DOMAIN u # {}
    <2> DEFINE g == Update(f, u)
               a == [k \in DOMAIN g |-> Lower[g[k]]]
    <2>1. Applied(f, u) = a
      BY <1>3 DEF Applied
    <2>2. /\ DOMAIN g = DOMAIN f \cup DOMAIN u
          /\ \A k \in DOMAIN g : g[k] = IF k \in DOMAIN u THEN u[k] ELSE f[k]
      BY DEF Update
    <2> HIDE DEF g
    <2>3. \A k \in DOMAIN g : g[k] \in DOMAIN Lower
      BY <1>1, <2>2
    <2>4. \A k \in DOMAIN g : Lower[g[k]] \in DOMAIN Lower /\ Lower[Lower[g[k]]] = Lower[g[k]]
      BY <2>3, FilterAssumption
    <2>5. a \in [DOMAIN g -> DOMAIN Lower] /\ DOMAIN g \in SUBSET STRING
      BY <1>1, <2>2, <2>4
    <2>6. a \in Filters
      <3> HIDE DEF a
      <3> QED BY <2>5 DEF Filters
    <2>7. \A k \in DOMAIN u : a[k] = Lower[u[k]]
      BY <2>2
    <2>8. \A k \in DOMAIN f \ DOMAIN u : a[k] = Lower[f[k]]
      BY <2>2
    <2>9. LowerCase(a)
      BY <2>4 DEF LowerCase
    <2>10. DOMAIN a = DOMAIN f \cup DOMAIN u
      BY <2>2
    <2> HIDE DEF a
    <2> QED BY <2>1, <2>6, <2>7, <2>8, <2>9, <2>10
  <1> QED BY <1>2, <1>3

(* What an iteration has to do with, in any order o of the blocks.         *)
LEMMA IterationFacts ==
    ASSUME blocks \in Projects, NEW f \in Filters, NEW o \in Orders(SelectedBlocks(f))
    PROVE  /\ SelectedBlocks(f) \subseteq Block
           /\ o \in Seq(Block)
           /\ \A b \in SelectedBlocks(f) : \E i \in 1..Len(o) : o[i] = b
           /\ \A i \in 1..Len(o) : o[i] \in SelectedBlocks(f)
           /\ \A i, j \in 1..Len(o) : IsStrictPrefix(o[i].terms, o[j].terms) => i < j
           /\ LastSets(Merged(o), o, Len(o))
           /\ \A k \in DOMAIN Merged(o) : Merged(o)[k] \in DOMAIN Lower
  <1> DEFINE S == SelectedBlocks(f)
  <1>1. blocks \subseteq Block /\ IsFiniteSet(blocks)
    BY FilterAssumption
  <1>2. S \in SUBSET blocks
    BY DEF SelectedBlocks
  <1>3. IsFiniteSet(S) /\ S \subseteq Block
    BY <1>1, <1>2, FS_Subset
  <1> HIDE DEF S
  <1>4. /\ o \in Seq(S)
        /\ \A b \in S : \E i \in 1..Len(o) : o[i] = b
        /\ \A i, j \in 1..Len(o) : IsStrictPrefix(o[i].terms, o[j].terms) => i < j
    <2>1. o \in Orders(S)
      BY DEF S
    <2> QED BY <1>3, <2>1, OrderFacts
  <1>5. o \in Seq(Block) /\ \A i \in 1..Len(o) : o[i] \in S
    <2>1. \A i \in 1..Len(o) : o[i] \in S
      BY <1>4
    <2>2. Len(o) \in Nat /\ o \in [1..Len(o) -> Block]
      BY <1>3, <1>4, <2>1
    <2>3. o \in Seq(Block)
      BY <2>2, IsASeq
    <2> QED BY <2>1, <2>3
  <1>6. LastSets(Merged(o), o, Len(o))
    BY <1>5, MergedFacts
  <1>7. ASSUME NEW k \in DOMAIN Merged(o) PROVE Merged(o)[k] \in DOMAIN Lower
    <2>1. PICK i \in 1..Len(o) : /\ k \in DOMAIN usesconfig(o[i])
                                 /\ Merged(o)[k] = usesconfig(o[i])[k]
      BY <1>6 DEF LastSets
    <2>2. o[i] \in Block
      BY <1>3, <1>5
    <2> QED BY <2>1, <2>2, UsesconfigFacts
  <1> QED BY <1>3, <1>4, <1>5, <1>6, <1>7 DEF S

-----------------------------------------------------------------------------
(* An iteration *)

(* Filters that agree in lower case and are in lower case differ in keys.  *)
LEMMA MoreKeys ==
    ASSUME NEW f \in Filters, NEW g \in Filters, LowerCase(f), LowerCase(g),
           f # g, DOMAIN f \subseteq DOMAIN g,
           \A k \in DOMAIN f : Lower[f[k]] = Lower[g[k]]
    PROVE  DOMAIN f # DOMAIN g
  <1>1. f \in [DOMAIN f -> DOMAIN Lower] /\ g \in [DOMAIN g -> DOMAIN Lower]
    BY DEF Filters
  <1>2. \A k \in DOMAIN f : f[k] = g[k]
    BY DEF LowerCase
  <1> QED BY <1>1, <1>2

LEMMA RepeatInv ==
    ASSUME Inv, Repeat
    PROVE  Inv'
  <1> DEFINE n == Len(filterList)
  <1>1. /\ blocks \in Projects /\ variant \in Variants /\ filter \in Filters
        /\ filterList \in Seq(Filters) /\ n \in Nat /\ n <= LoopMax
        /\ DOMAIN variant \subseteq DOMAIN filter
        /\ phase = "repeat" /\ LoopMax \in Nat
        /\ blocks' = blocks /\ variant' = variant
    BY FilterAssumption DEF Inv, Types, Repeat
  <1>2. PICK o \in Orders(SelectedBlocks(filter)) : filter' = Applied(filter, Merged(o))
    BY DEF Repeat
  <1> DEFINE u == Merged(o)
  <1>3. /\ \A i \in 1..Len(o) : o[i] \in SelectedBlocks(filter)
        /\ LastSets(u, o, Len(o))
        /\ \A k \in DOMAIN u : u[k] \in DOMAIN Lower
    BY <1>1, <1>2, IterationFacts
  <1> HIDE DEF u
  <1>4. DOMAIN u \subseteq STRING /\ IsFiniteSet(DOMAIN u)
    BY <1>3 DEF LastSets
  <1>5. /\ filter' \in Filters
        /\ DOMAIN filter' = DOMAIN filter \cup DOMAIN u
        /\ \A k \in DOMAIN u : filter'[k] = Lower[u[k]]
        /\ \A k \in DOMAIN filter \ DOMAIN u : filter'[k] \in {filter[k], Lower[filter[k]]}
        /\ filter' # filter => LowerCase(filter')
    <2>1. filter' = Applied(filter, u)
      BY <1>2 DEF u
    <2>2. /\ Applied(filter, u) \in Filters
          /\ DOMAIN Applied(filter, u) = DOMAIN filter \cup DOMAIN u
          /\ \A k \in DOMAIN u : Applied(filter, u)[k] = Lower[u[k]]
          /\ \A k \in DOMAIN filter \ DOMAIN u :
                Applied(filter, u)[k] \in {filter[k], Lower[filter[k]]}
          /\ Applied(filter, u) # filter => LowerCase(Applied(filter, u))
      BY <1>1, <1>3, <1>4, AppliedFacts
    <2> QED BY <2>1, <2>2
  <1>6. /\ filterList' \in Seq(Filters) /\ Len(filterList') = n + 1
        /\ filterList'[n + 1] = filter
        /\ \A i \in 1..n : filterList'[i] = filterList[i]
        /\ 1..n \subseteq 1..(n + 1) /\ n + 1 \in 1..(n + 1)
    BY <1>1 DEF Repeat
  <1>7. /\ phase' \in {"repeat", "done", "error"}
        /\ phase' = "repeat" => filter' # filter /\ n + 1 <= LoopMax
        /\ phase' = "error" => n + 1 >= LoopMax
        /\ phase' = "done" => filter' = filter
    <2>1. phase' = After(filter' = filter, n + 1)
      BY <1>6 DEF Repeat
    <2> HIDE DEF n
    <2>2. CASE filter' = filter
      BY <1>1, <2>1, <2>2 DEF After
    <2>3. CASE filter' # filter
      BY <1>1, <2>1, <2>3 DEF After
    <2> QED BY <2>2, <2>3
  <1>8. \A f : SelectedBlocks(f)' = SelectedBlocks(f)
    BY <1>1 DEF SelectedBlocks, Values
  <1> HIDE DEF n
  <1>10. Types'
    BY <1>1, <1>5, <1>6, <1>7 DEF Types
  <1>11. KeywordsHaveASource'
    <2> DEFINE Source(k, x, l) == \E i \in 1..Len(l) : \E b \in SelectedBlocks(l[i]) :
                    k \in DOMAIN usesconfig(b) /\ x = Lower[usesconfig(b)[k]]
               FromVariant(k, x) == k \in DOMAIN variant /\ x \in {variant[k], Lower[variant[k]]}
    <2> SUFFICES ASSUME NEW k \in DOMAIN filter'
                 PROVE  FromVariant(k, filter'[k]) \/ Source(k, filter'[k], filterList')
      BY <1>1, <1>8 DEF KeywordsHaveASource
    <2>1. CASE k \in DOMAIN u
      <3>1. PICK i \in 1..Len(o) : k \in DOMAIN usesconfig(o[i]) /\ u[k] = usesconfig(o[i])[k]
        BY <1>3, <2>1 DEF LastSets
      <3>2. o[i] \in SelectedBlocks(filterList'[n + 1])
        BY <1>3, <1>6
      <3>3. filter'[k] = Lower[usesconfig(o[i])[k]]
        BY <1>5, <2>1, <3>1
      <3> QED BY <1>6, <3>1, <3>2, <3>3
    <2>2. CASE k \notin DOMAIN u
      <3>1. k \in DOMAIN filter /\ filter'[k] \in {filter[k], Lower[filter[k]]}
        BY <1>5, <2>2
      <3>2. FromVariant(k, filter[k]) \/ Source(k, filter[k], filterList)
        BY <3>1 DEF Inv, KeywordsHaveASource
      <3>3. CASE FromVariant(k, filter[k])
        <4>1. variant[k] \in DOMAIN Lower
          BY <1>1, <3>3, FilterAssumption
        <4>2. Lower[Lower[variant[k]]] = Lower[variant[k]]
          BY <4>1, FilterAssumption
        <4> QED BY <3>1, <3>3, <4>2
      <3>4. CASE Source(k, filter[k], filterList)
        <4>1. PICK i \in 1..n : \E b \in SelectedBlocks(filterList[i]) :
                  k \in DOMAIN usesconfig(b) /\ filter[k] = Lower[usesconfig(b)[k]]
          BY <3>4 DEF n
        <4>2. PICK b \in SelectedBlocks(filterList[i]) :
                  k \in DOMAIN usesconfig(b) /\ filter[k] = Lower[usesconfig(b)[k]]
          BY <4>1
        <4>3. b \in Block
          BY <1>1, FilterAssumption DEF SelectedBlocks
        <4>4. usesconfig(b)[k] \in DOMAIN Lower
          BY <4>2, <4>3, UsesconfigFacts
        <4>5. Lower[filter[k]] = filter[k]
          BY <4>2, <4>4, FilterAssumption
        <4>6. filter'[k] = Lower[usesconfig(b)[k]]
          BY <3>1, <4>2, <4>5
        <4>7. i \in 1..Len(filterList') /\ b \in SelectedBlocks(filterList'[i])
          BY <1>6, <4>2
        <4> QED BY <4>2, <4>6, <4>7
      <3> QED BY <3>2, <3>3, <3>4
    <2> QED BY <2>1, <2>2
  <1>12. Settled'
    <2> SUFFICES ASSUME phase' = "done"
                 PROVE  \E p \in Orders(SelectedBlocks(filter)') :
                            filter' = Applied(filter', Merged(p))
      BY DEF Settled
    <2>1. filter' = filter
      BY <1>7
    <2>2. SelectedBlocks(filter)' = SelectedBlocks(filter)
      BY <1>1, <2>1 DEF SelectedBlocks, Values
    <2> QED BY <1>2, <2>1, <2>2
  <1>13. IsFiniteSet(Added(filter', variant'))
    <2>1. IsFiniteSet(Added(filter, variant))
      BY DEF Inv, Growing
    <2>2. IsFiniteSet(Added(filter, variant) \cup DOMAIN u)
      BY <1>4, <2>1, FS_Union
    <2>3. DOMAIN filter' \ DOMAIN variant \in SUBSET (Added(filter, variant) \cup DOMAIN u)
      BY <1>5 DEF Added
    <2>4. IsFiniteSet(DOMAIN filter' \ DOMAIN variant)
      BY <2>2, <2>3, FS_Subset
    <2> QED BY <1>1, <2>4 DEF Added
  <1>14. Onward(n + 1, filter, filter', variant', phase')
    <2>1. n + 1 >= 2 => LowerCase(filter)
      BY <1>1 DEF Inv, Growing, Onward, n
    <2>2. phase' = "repeat" => filter' # filter /\ LowerCase(filter')
      BY <1>5, <1>7
    <2>3. DOMAIN variant \subseteq DOMAIN filter /\ DOMAIN filter \subseteq DOMAIN filter'
      BY <1>1, <1>5
    <2> QED BY <1>1, <2>1, <2>2, <2>3 DEF Onward, LowerCase
  <1>15. ASSUME ~Changed' PROVE Cardinality(Added(filter, variant)) >= (n + 1) - 2
    <2>0. IsFiniteSet(Added(filter, variant)) /\ Cardinality(Added(filter, variant)) \in Nat
      BY FS_CardinalityType DEF Inv, Growing
    <2>1. CASE n <= 1
      BY <1>1, <2>0, <2>1
    <2>2. CASE n >= 2
      <3> DEFINE f == filterList[n]
      <3>1. /\ n \in 1..n /\ f \in Filters /\ f = filterList'[n] /\ n \in 1..(n + 1)
            /\ n > 0 /\ n >= 2
        BY <1>1, <1>6, <2>2 DEF n
      <3>2. DOMAIN f \subseteq DOMAIN filter /\ filter # f /\ LowerCase(filter) /\ LowerCase(f)
        BY <1>1, <3>1 DEF Inv, Growing, Onward, n
      <3>3. \A k \in DOMAIN f : Lower[f[k]] = Lower[filter[k]]
        BY <1>6, <1>15, <3>1, <3>2 DEF Changed
      <3>4. DOMAIN f # DOMAIN filter
        BY <1>1, <3>1, <3>2, <3>3, MoreKeys
      <3>5. ~Changed
        <4>1. 1..Len(filterList) \subseteq 1..Len(filterList')
          BY <1>6 DEF n
        <4>2. \A i \in 1..Len(filterList) : filterList'[i] = filterList[i]
          BY <1>6 DEF n
        <4> QED BY <1>15, <4>1, <4>2 DEF Changed
      <3>6. Cardinality(Added(f, variant)) >= n - 2
        BY <3>1, <3>5 DEF Inv, Growing, n
      <3>7. PICK k \in DOMAIN filter : k \notin DOMAIN f
        BY <3>2, <3>4
      <3>8. k \in Added(filter, variant)
        BY <3>1, <3>7 DEF Inv, Growing, Onward, Added, n
      <3> DEFINE A == Added(filter, variant) \ {k}
      <3>9. IsFiniteSet(A) /\ Cardinality(A) = Cardinality(Added(filter, variant)) - 1
        BY <2>0, <3>8, FS_RemoveElement
      <3>10. Added(f, variant) \in SUBSET A
        BY <3>2, <3>7 DEF Added
      <3>11. Cardinality(Added(f, variant)) <= Cardinality(A) /\ Cardinality(Added(f, variant)) \in Nat
        <4> HIDE DEF A
        <4>1. IsFiniteSet(Added(f, variant)) /\ Cardinality(Added(f, variant)) <= Cardinality(A)
          BY <3>9, <3>10, FS_Subset
        <4> QED BY <4>1, FS_CardinalityType
      <3> HIDE DEF A, f
      <3> QED BY <1>1, <2>0, <3>6, <3>9, <3>11
    <2> QED BY <1>1, <2>1, <2>2
  <1>16. Growing'
    <2>1. Added(filter, variant) = Added(filterList'[n + 1], variant')
      BY <1>1, <1>6 DEF Added
    <2>2. Onward(n + 1, filterList'[n + 1], filter', variant', phase')
      BY <1>6, <1>14
    <2>3. Onward(Len(filterList'), filterList'[Len(filterList')], filter', variant', phase')
      BY <1>6, <2>2
    <2>4. ASSUME ~Changed'
          PROVE  Cardinality(Added(filterList'[Len(filterList')], variant')) >= Len(filterList') - 2
      <3>1. Cardinality(Added(filterList'[n + 1], variant')) >= (n + 1) - 2
        BY <1>15, <2>1, <2>4
      <3>2. Len(filterList') = n + 1
        BY <1>6
      <3> QED BY <3>1, <3>2
    <2> QED BY <1>13, <2>3, <2>4 DEF Growing
  <1> QED BY <1>10, <1>11, <1>12, <1>16 DEF Inv

-----------------------------------------------------------------------------
(* The theorems *)

LEMMA InitInv == Init => Inv
  <1> SUFFICES ASSUME Init PROVE Inv
    OBVIOUS
  <1>1. /\ blocks \in Projects /\ variant \in Variants /\ filter = variant
        /\ filterList = <<>> /\ phase = "repeat" /\ LoopMax \in Nat
    BY FilterAssumption DEF Init
  <1>2. DOMAIN filter \in SUBSET STRING /\ filter \in [DOMAIN filter -> DOMAIN Lower]
    BY <1>1, FilterAssumption
  <1>3. filter \in Filters
    BY <1>2 DEF Filters
  <1>4. filterList \in Seq(Filters) /\ Len(filterList) = 0
    BY <1>1
  <1>5. Types
    BY <1>1, <1>3, <1>4 DEF Types
  <1>6. KeywordsHaveASource
    BY <1>1 DEF KeywordsHaveASource
  <1>7. Settled
    BY <1>1 DEF Settled
  <1>8. Growing
    <2>1. Added(filter, variant) = {}
      BY <1>1 DEF Added
    <2> QED BY <1>4, <2>1, FS_EmptySet DEF Growing
  <1> QED BY <1>5, <1>6, <1>7, <1>8 DEF Inv

LEMMA StutterInv ==
    ASSUME Inv, UNCHANGED vars
    PROVE  Inv'
  <1>1. /\ blocks' = blocks /\ variant' = variant /\ filter' = filter
        /\ filterList' = filterList /\ phase' = phase
    BY DEF vars
  <1>2. Types'
    BY <1>1 DEF Inv, Types
  <1>3. KeywordsHaveASource'
    <2>1. \A f : SelectedBlocks(f)' = SelectedBlocks(f)
      BY <1>1 DEF SelectedBlocks, Values
    <2> QED BY <1>1, <2>1 DEF Inv, KeywordsHaveASource
  <1>4. SelectedBlocks(filter)' = SelectedBlocks(filter)
    BY <1>1 DEF SelectedBlocks, Values
  <1>5. Settled'
    BY <1>1, <1>4 DEF Inv, Settled
  <1>6. Growing'
    BY <1>1 DEF Inv, Growing, Changed
  <1> QED BY <1>2, <1>3, <1>5, <1>6 DEF Inv

LEMMA InvHolds == Spec => []Inv
  <1>1. Inv /\ [Next]_vars => Inv'
    BY RepeatInv, StutterInv DEF Next, Ended
  <1> QED BY <1>1, InitInv, PTL DEF Spec

(* A stable filter has the keywords of all the blocks it selects, and the  *)
(* inner of two nested blocks wins: it comes later in any order.           *)
LEMMA SettledIsClosed == Inv => FilterIsClosed
  <1> SUFFICES ASSUME Inv, phase = "done", NEW b \in SelectedBlocks(filter),
                      NEW k \in DOMAIN usesconfig(b)
               PROVE  \E c \in SelectedBlocks(filter) :
                         /\ k \in DOMAIN usesconfig(c) \cap DOMAIN filter
                         /\ filter[k] = Lower[usesconfig(c)[k]]
                         /\ ~IsStrictPrefix(c.terms, b.terms)
    BY DEF FilterIsClosed
  <1>1. PICK o \in Orders(SelectedBlocks(filter)) : filter = Applied(filter, Merged(o))
    BY DEF Inv, Settled
  <1> DEFINE u == Merged(o)
  <1>2. /\ o \in Seq(Block)
        /\ \A i \in 1..Len(o) : o[i] \in SelectedBlocks(filter)
        /\ \E i \in 1..Len(o) : o[i] = b
        /\ \A i, j \in 1..Len(o) : IsStrictPrefix(o[i].terms, o[j].terms) => i < j
        /\ LastSets(u, o, Len(o))
        /\ \A l \in DOMAIN u : u[l] \in DOMAIN Lower
    BY <1>1, IterationFacts DEF Inv, Types
  <1>3. /\ DOMAIN filter = DOMAIN filter \cup DOMAIN u
        /\ \A l \in DOMAIN u : filter[l] = Lower[u[l]]
    <2> HIDE DEF u
    <2>1. filter = Applied(filter, u)
      BY <1>1 DEF u
    <2>2. DOMAIN u \subseteq STRING
      BY <1>2 DEF LastSets
    <2>3. filter \in Filters
      BY DEF Inv, Types
    <2>4. \A l \in DOMAIN u : u[l] \in DOMAIN Lower
      BY <1>2
    <2>5. /\ Applied(filter, u) \in Filters
          /\ DOMAIN Applied(filter, u) = DOMAIN filter \cup DOMAIN u
          /\ \A l \in DOMAIN u : Applied(filter, u)[l] = Lower[u[l]]
          /\ \A l \in DOMAIN filter \ DOMAIN u :
                Applied(filter, u)[l] \in {filter[l], Lower[filter[l]]}
          /\ Applied(filter, u) # filter => LowerCase(Applied(filter, u))
      BY <2>2, <2>3, <2>4, AppliedFacts
    <2> QED BY <2>1, <2>5
  <1> HIDE DEF u
  <1>4. PICK j \in 1..Len(o) : o[j] = b
    BY <1>2
  <1>5. k \in DOMAIN u
    BY <1>2, <1>4 DEF LastSets
  <1>6. PICK i \in 1..Len(o) :
            /\ k \in DOMAIN usesconfig(o[i]) /\ u[k] = usesconfig(o[i])[k]
            /\ \A l \in (i + 1)..Len(o) : k \notin DOMAIN usesconfig(o[l])
    BY <1>2, <1>5 DEF LastSets
  <1>7. ~IsStrictPrefix(o[i].terms, b.terms)
    <2> SUFFICES ASSUME IsStrictPrefix(o[i].terms, b.terms) PROVE FALSE
      OBVIOUS
    <2>1. i < j
      BY <1>2, <1>4
    <2>2. j \in (i + 1)..Len(o)
      BY <1>2, <2>1
    <2> QED BY <1>4, <1>6, <2>2
  <1> QED BY <1>2, <1>3, <1>5, <1>6, <1>7

(* A plain value is the keyword of its own name. *)
LEMMA ClosedFlags == Inv => EveryFlagCounts
  <1> SUFFICES ASSUME Inv, phase = "done", NEW b \in SelectedBlocks(filter),
                      NEW w \in Written(b),
                      IsFlag(w[1], w[1].values[w[2]]), LastPlain(w[1], w[2]),
                      \A c \in blocks : \A x \in Written(c) :
                          KeyOf(x[1], x[1].values[x[2]]) = Lower[w[1].values[w[2]].v]
                              => IsFlag(x[1], x[1].values[x[2]])
               PROVE  Lower[w[1].values[w[2]].v] \in Values(filter)
    BY DEF EveryFlagCounts
  <1> DEFINE v == w[1].values[w[2]]
             k == Lower[v.v]
  <1>1. SelectedBlocks(filter) \subseteq blocks /\ blocks \subseteq Block
    BY FilterAssumption DEF Inv, Types, SelectedBlocks
  <1>2. PICK i \in 1..Len(b.calls) :
            w[1] = b.calls[i] /\ w[2] \in 1..Len(b.calls[i].values)
    <2>1. PICK i \in 1..Len(b.calls) : w \in {b.calls[i]} \X (1..Len(b.calls[i].values))
      BY DEF Written
    <2>2. w[1] = b.calls[i] /\ w[2] \in 1..Len(b.calls[i].values)
      BY <2>1
    <2> QED BY <2>2
  <1>3. w[2] \in useValue(b.calls[i])
    BY <1>2 DEF useValue, LastPlain
  <1> DEFINE p == <<i, w[2]>>
  <1>4. p \in Places(b) /\ p[1] = i /\ p[2] = w[2]
    BY <1>3 DEF Places
  <1>5. KeyAt(b, p) = k
    BY <1>2, <1>4 DEF KeyAt, ValueAt, KeyOf, IsFlag
  <1> HIDE DEF p, k, v
  <1>6. k \in DOMAIN usesconfig(b)
    <2>1. b \in Block
      BY <1>1
    <2>2. DOMAIN usesconfig(b) = {KeyAt(b, r) : r \in Places(b)}
      BY <2>1, UsesconfigFacts
    <2> QED BY <1>4, <1>5, <2>2
  <1>7. PICK c \in SelectedBlocks(filter) :
            /\ k \in DOMAIN usesconfig(c) \cap DOMAIN filter
            /\ filter[k] = Lower[usesconfig(c)[k]]
    <2>1. FilterIsClosed
      BY SettledIsClosed
    <2> QED BY <1>6, <2>1 DEF FilterIsClosed
  <1>8. PICK q \in Places(c) : KeyAt(c, q) = k /\ usesconfig(c)[k] = ValueAt(c, q).v
    BY <1>1, <1>7, UsesconfigFacts
  <1>9. q[1] \in 1..Len(c.calls) /\ q[2] \in 1..Len(c.calls[q[1]].values)
    BY PlaceIn
  <1>10. IsFlag(c.calls[q[1]], ValueAt(c, q))
    <2> DEFINE x == <<c.calls[q[1]], q[2]>>
    <2>1. x \in Written(c) /\ x[1] = c.calls[q[1]] /\ x[2] = q[2]
      BY <1>9 DEF Written
    <2>2. KeyOf(x[1], x[1].values[x[2]]) = k
      BY <1>8, <2>1 DEF KeyAt, ValueAt
    <2> HIDE DEF x
    <2>3. IsFlag(x[1], x[1].values[x[2]])
      BY <1>1, <2>1, <2>2 DEF k, v
    <2> QED BY <2>1, <2>3 DEF ValueAt
  <1>11. Lower[ValueAt(c, q).v] = k
    BY <1>8, <1>10 DEF KeyAt, KeyOf, IsFlag
  <1>12. filter[k] = k
    BY <1>7, <1>8, <1>11
  <1> QED BY <1>7, <1>12 DEF Values, k, v

(* LoopMax iterations that add a keyword each add LoopMax - 2 of them. *)
LEMMA RefusedForCause == Inv => RefusedOscillates
  <1> SUFFICES ASSUME Inv, phase = "error", ~Changed
               PROVE  Cardinality(Added(filter, variant)) >= LoopMax - 2
    BY DEF RefusedOscillates, Added
  <1> DEFINE n == Len(filterList)
             f == filterList[n]
  <1>1. n \in Nat /\ n >= LoopMax /\ n > 0 /\ LoopMax \in Nat
    BY FilterAssumption DEF Inv, Types
  <1>2. /\ Cardinality(Added(f, variant)) >= n - 2
        /\ DOMAIN f \subseteq DOMAIN filter /\ IsFiniteSet(Added(filter, variant))
    BY <1>1 DEF Inv, Growing, Onward
  <1>3. Added(f, variant) \in SUBSET Added(filter, variant)
    BY <1>2 DEF Added
  <1>4. /\ Cardinality(Added(f, variant)) <= Cardinality(Added(filter, variant))
        /\ IsFiniteSet(Added(f, variant))
    BY <1>2, <1>3, FS_Subset
  <1>5. Cardinality(Added(f, variant)) \in Nat /\ Cardinality(Added(filter, variant)) \in Nat
    BY <1>2, <1>4, FS_CardinalityType
  <1> HIDE DEF n, f
  <1> QED BY <1>1, <1>2, <1>4, <1>5

(* keyedblocks.getfilter: the filter that is returned holds every keyword  *)
(* of the blocks it selects, and that of the inner of two nested blocks,   *)
(* for all blocks and any order of walking them.                           *)
THEOREM ReturnedIsClosed == Spec => []FilterIsClosed
  BY SettledIsClosed, InvHolds, PTL

(* keyedblocks.getfilter: every keyword of the filter has a source, every  *)
(* plain value of a table (its last) or of usesconfig counts, and the      *)
(* filter is refused only if a keyword changed its value or the keywords   *)
(* were too many.                                                          *)
THEOREM FilterHolds == Spec => []FilterSound
  <1>1. Inv => TypeOK
    <2>1. \A f \in Filters : \A k \in DOMAIN f : f[k] \in DOMAIN Lower
      BY DEF Filters
    <2> QED BY <2>1 DEF Inv, Types, TypeOK
  <1>2. Inv => FilterSound
    BY <1>1, ClosedFlags, RefusedForCause DEF Inv, FilterSound
  <1> QED BY <1>2, InvHolds, PTL
=============================================================================
