----------------------------- MODULE BakeProofs -----------------------------
(***************************************************************************)
(* Proofs about Bake, whatever the script and the number of projects:      *)
(*  - its tables keep their types, and the bake of an ordinary project's   *)
(*    configuration is never entered while under way (BakeInv);            *)
(*  - every name leads to a configuration, and nothing on a link line      *)
(*    dangles (Tracked);                                                   *)
(*  - a feature asked of one use does not spill over to the others, no     *)
(*    configuration links another's libraries, and baking fails only for a *)
(*    use with features that meets a plain usage or a project being baked  *)
(*    (Reached);                                                           *)
(*  - without features, a link line holds only what the propagation rules  *)
(*    put there (Lined);                                                   *)
(*  - without features and without command projects of one configuration,  *)
(*    baking is a depth-first search over what the projects ask for        *)
(*    (Searched), and nothing is missing on the link line of a project     *)
(*    that reaches no cycle of uses (Complete).                            *)
(* The invariants are defined in BakeInvariants.                           *)
(***************************************************************************)
EXTENDS BakeInvariants, SequenceTheorems, NaturalsInduction, WellFoundedInduction,
        TLAPS

-----------------------------------------------------------------------------
(* Sequences used as stacks *)

(* All but the last element of a stack. *)
LEMMA FrontOfStack ==
    ASSUME NEW S, NEW s \in Seq(S), s # <<>>
    PROVE  /\ SubSeq(s, 1, Len(s) - 1) \in Seq(S)
           /\ Len(SubSeq(s, 1, Len(s) - 1)) = Len(s) - 1
           /\ \A i \in 1 .. Len(s) - 1 : SubSeq(s, 1, Len(s) - 1)[i] = s[i]
           /\ Len(s) \in Nat \ {0}
           /\ s[Len(s)] \in S
  <1>1. Len(s) \in Nat \ {0}
    BY EmptySeq
  <1>2. \A i \in 1 .. Len(s) : s[i] \in S
    BY ElementOfSeq
  <1> DEFINE n == Len(s) - 1
  <1>3. n \in Int /\ 1 \in Int /\ n >= 0 /\ \A i \in 1 .. n : s[i] \in S
    BY <1>1, <1>2
  <1> HIDE DEF n
  <1>4. /\ SubSeq(s, 1, n) \in Seq(S)
        /\ Len(SubSeq(s, 1, n)) = IF 1 <= n THEN n - 1 + 1 ELSE 0
        /\ \A i \in 1 .. n - 1 + 1 : SubSeq(s, 1, n)[i] = s[1 + i - 1]
    BY <1>3, SubSeqProperties
  <1>5. Len(SubSeq(s, 1, n)) = n
    BY <1>3, <1>4
  <1>6. \A i \in 1 .. n : SubSeq(s, 1, n)[i] = s[i]
    BY <1>3, <1>4
  <1> QED
    BY <1>1, <1>2, <1>4, <1>5, <1>6 DEF n

(* A stack with one more element. *)
LEMMA PushOnStack ==
    ASSUME NEW S, NEW s \in Seq(S), NEW x \in S
    PROVE  /\ Append(s, x) \in Seq(S)
           /\ Len(Append(s, x)) = Len(s) + 1
           /\ Append(s, x)[Len(s) + 1] = x
           /\ \A i \in 1 .. Len(s) : Append(s, x)[i] = s[i]
  OBVIOUS

(* Replacing the innermost element. *)
Replaced(r, s, x, S) ==
    /\ r \in Seq(S)
    /\ Len(r) = Len(s)
    /\ Len(s) \in Nat \ {0}
    /\ r[Len(s)] = x
    /\ \A i \in 1 .. Len(s) - 1 : r[i] = s[i]

(* Replacing the innermost frame leaves a stack of the same length, with *)
(* every other frame as it was.                                          *)
LEMMA ReplaceOnStack ==
    ASSUME NEW S, NEW s, NEW x, s \in Seq(S), s # <<>>, x \in S
    PROVE  Replaced(Append(SubSeq(s, 1, Len(s) - 1), x), s, x, S)
  <1> DEFINE front == SubSeq(s, 1, Len(s) - 1)
  <1>1. /\ front \in Seq(S) /\ Len(front) = Len(s) - 1 /\ Len(s) \in Nat \ {0}
        /\ \A i \in 1 .. Len(s) - 1 : front[i] = s[i]
    BY FrontOfStack
  <1> HIDE DEF front
  <1>2. /\ Append(front, x) \in Seq(S)
        /\ Len(Append(front, x)) = Len(front) + 1
        /\ Append(front, x)[Len(front) + 1] = x
        /\ \A i \in 1 .. Len(front) : Append(front, x)[i] = front[i]
    BY <1>1, PushOnStack
  <1>3. Replaced(Append(front, x), s, x, S)
    BY <1>1, <1>2 DEF Replaced
  <1> QED
    BY <1>3 DEF front

-----------------------------------------------------------------------------
(* Frames *)

(* An activation that findBlocks may be in. *)
SoundActs(g) == \A j \in DOMAIN g.acts : SoundAct(g.acts[j])

(* A getconfig frame that may be on the stack. *)
SoundGet(g) == SoundActs(g) /\ \A k \in g.seen : BlockExists(k)

(* The two kinds of frames are told apart by fn. *)
LEMMA FrameKinds ==
    ASSUME NEW f \in Frame
    PROVE  /\ f.fn \in {"addconfig", "getconfig"}
           /\ f.fn = "addconfig" => f \in AddFrame
           /\ f.fn = "getconfig" => f \in GetFrame
  BY DEF Frame, AddFrame, GetFrame

(* The configuration "All" without features is a build variant. *)
LEMMA AllIsVariant == AllVariant \in Variant
  BY DEF AllVariant, Variant, Cfg

(* What getconfig starts with, from its cache or from the project.  *)
LEMMA GetStartSound ==
    ASSUME TypeOK, TablesSound, NEW p \in Prj, NEW v \in Variant,
           NEW f \in Field
    PROVE  /\ GetStart(p, v, f) \in GetFrame
           /\ GetStart(p, v, f).fn = "getconfig"
           /\ SoundGet(GetStart(p, v, f))
  <1> DEFINE hit == cache[p][f][v]
             root == [kb |-> RealKB(p),
                      env |-> [filter |-> v, bv |-> v, name |-> v],
                      left |-> script.uses[p], call |-> None]
             g == GetStart(p, v, f)
  <1>1. AllVariant \in Variant
    BY AllIsVariant
  <1>2. root \in Act
    BY <1>1 DEF Act, KB, RealKB, Env, TypeOK, Script
  <1>3. SoundAct(root)
    BY NoneDistinct DEF SoundAct
  <1>4. hit \in Found \cup {None}
    BY DEF TypeOK
  <1>5. CASE hit = None
    <2> HIDE DEF root
    <2>1. g = [fn |-> "getconfig", p |-> p, filter |-> v, field |-> f,
               acts |-> <<root>>, seen |-> {RealKB(p)}, cfgs |-> {}]
      BY <1>5 DEF GetStart, root
    <2>2. g \in GetFrame
      BY <2>1, <1>1, <1>2 DEF GetFrame, KB, RealKB
    <2>3. SoundActs(g)
      BY <2>1, <1>3 DEF SoundActs
    <2>4. \A k \in g.seen : BlockExists(k)
      BY <2>1 DEF BlockExists, RealKB
    <2> QED
      BY <2>1, <2>2, <2>3, <2>4 DEF SoundGet
  <1>6. CASE hit # None
    <2>1. g = [fn |-> "getconfig", p |-> p, filter |-> v, field |-> f,
               acts |-> <<>>, seen |-> hit.seen, cfgs |-> hit.cfgs]
      BY <1>6 DEF GetStart
    <2>2. g \in GetFrame
      BY <2>1, <1>4, <1>6 DEF GetFrame, Found
    <2>3. SoundActs(g)
      BY <2>1 DEF SoundActs
    <2>4. \A k \in g.seen : BlockExists(k)
      BY <2>1, <1>6 DEF TablesSound
    <2> QED
      BY <2>1, <2>2, <2>3, <2>4 DEF SoundGet
  <1> QED
    BY <1>5, <1>6

-----------------------------------------------------------------------------
(* Stacks *)

(* A stack whose frames are whole and whose getconfigs have their caller. *)
StackSound(s) ==
    /\ s \in Seq(Frame)
    /\ \A i \in 1 .. Len(s) : s[i].fn = "getconfig" =>
          i > 1 /\ s[i - 1].fn = "addconfig" /\ SoundGet(s[i])

(* The bakes under way on s are protected in the map m or baked in c.  *)
Held(s, m, c) ==
    \A i \in 1 .. Len(s) :
        (s[i].fn = "addconfig" /\ s[i].p \notin script.single) =>
            /\ s[i].init = s[i].fin
            /\ m[s[i].p][s[i].fin] = InProgress \/ c[s[i].p][s[i].fin] # None

(* No bake of an ordinary project is under way twice. *)
Once(s) ==
    \A i, j \in 1 .. Len(s) :
        /\ s[i].fn = "addconfig" /\ s[j].fn = "addconfig"
        /\ s[i].p = s[j].p /\ s[i].fin = s[j].fin
        /\ s[i].p \notin script.single
        => i = j

(* t is s with other work left in its frames, but the same calls. *)
SameCalls(s, t) ==
    /\ Len(t) = Len(s)
    /\ \A i \in 1 .. Len(s) :
          /\ t[i].fn = s[i].fn
          /\ s[i].fn = "addconfig" =>
                t[i].p = s[i].p /\ t[i].init = s[i].init /\ t[i].fin = s[i].fin

MapLeads(m, c) ==
    \A p \in Prj \ script.single, v \in Variant :
        m[p][v] \in Variant => c[p][m[p][v]] # None

(* The invariant, in terms of these. *)
LEMMA StackFacts ==
    ASSUME BakeInv
    PROVE  /\ StackSound(stack)
           /\ Held(stack, bvMap, configs)
           /\ Once(stack)
           /\ MapLeads(bvMap, configs)
           /\ stack \in Seq(Frame)
           /\ Len(stack) \in Nat
           /\ DOMAIN stack = 1 .. Len(stack)
  <1>1. stack \in Seq(Frame)
    BY DEF BakeInv, TypeOK
  <1>2. Len(stack) \in Nat /\ DOMAIN stack = 1 .. Len(stack)
    BY <1>1, LenProperties
  <1>3. StackSound(stack)
    BY <1>1, <1>2 DEF BakeInv, CallsSound, StackSound, SoundGet, SoundActs,
                      Gets, Adds
  <1>4. Held(stack, bvMap, configs) /\ MapLeads(bvMap, configs)
    BY <1>2 DEF BakeInv, PlaceholdersHeld, Held, MapLeads, Adds
  <1>5. Once(stack)
    BY <1>2 DEF BakeInv, NoReentrantBake, Once
  <1> QED
    BY <1>1, <1>2, <1>3, <1>4, <1>5

(* What is claimed of placeholders and of re-entrance depends only on which *)
(* bakes are under way, so it survives a step that keeps them the same.     *)
LEMMA SameCallsKeep ==
    ASSUME NEW s, NEW t, SameCalls(s, t), NEW m, NEW c,
           Held(s, m, c), Once(s)
    PROVE  Held(t, m, c) /\ Once(t)
  BY DEF SameCalls, Held, Once

(* Pushing the two frames of a new bake. *)
Pushed(r, s, f, g) ==
    /\ StackSound(r)
    /\ Len(r) = Len(s) + 2
    /\ r[Len(s) + 1] = f
    /\ r[Len(s) + 2] = g
    /\ \A i \in 1 .. Len(s) : r[i] = s[i]

(* Pushing a sound addconfig and getconfig frame gives such a stack. *)
LEMMA PushBake ==
    ASSUME NEW s, NEW f, NEW g,
           StackSound(s), f \in AddFrame, g \in GetFrame, SoundGet(g)
    PROVE  Pushed(Append(Append(s, f), g), s, f, g)
  <1> DEFINE r == Append(Append(s, f), g)
  <1> DEFINE q == Append(s, f)
  <1>1. s \in Seq(Frame) /\ Len(s) \in Nat
    BY LenProperties DEF StackSound
  <1>2. f \in Frame /\ g \in Frame /\ f.fn = "addconfig" /\ g.fn = "getconfig"
    BY DEF Frame, AddFrame, GetFrame
  <1>3. /\ q \in Seq(Frame) /\ Len(q) = Len(s) + 1 /\ q[Len(s) + 1] = f
        /\ \A i \in 1 .. Len(s) : q[i] = s[i]
    BY <1>1, <1>2, PushOnStack
  <1> HIDE DEF q
  <1>4. /\ Append(q, g) \in Seq(Frame) /\ Len(Append(q, g)) = Len(q) + 1
        /\ Append(q, g)[Len(q) + 1] = g
        /\ \A i \in 1 .. Len(q) : Append(q, g)[i] = q[i]
    BY <1>2, <1>3, PushOnStack
  <1>5. /\ r \in Seq(Frame) /\ Len(r) = Len(s) + 2
        /\ r[Len(s) + 1] = f /\ r[Len(s) + 2] = g
        /\ \A i \in 1 .. Len(s) : r[i] = s[i]
    BY <1>1, <1>3, <1>4 DEF q
  <1> HIDE DEF r
  <1>6. ASSUME NEW i \in 1 .. Len(r), r[i].fn = "getconfig"
        PROVE  i > 1 /\ r[i - 1].fn = "addconfig" /\ SoundGet(r[i])
    <2>1. CASE i \in 1 .. Len(s)
      BY <2>1, <1>5, <1>6, <1>1 DEF StackSound
    <2>2. CASE i = Len(s) + 2
      BY <2>2, <1>5, <1>1, <1>2
    <2>3. CASE i = Len(s) + 1
      BY <2>3, <1>5, <1>2, <1>6
    <2> QED
      BY <2>1, <2>2, <2>3, <1>5, <1>1
  <1>7. Pushed(r, s, f, g)
    BY <1>1, <1>5, <1>6 DEF StackSound, Pushed
  <1> QED
    BY <1>7 DEF r

-----------------------------------------------------------------------------
(* project.addconfig *)

(* An ordinary project whose configuration is neither baked nor in         *)
(* progress has never been asked for it, and bakes it under its own name.  *)
LEMMA EnterOrdinary ==
    ASSUME TypeOK, MapLeads(bvMap, configs),
           NEW p \in Prj \ script.single, NEW v \in Variant,
           applyBuildVariantMap(p, v) # InProgress,
           configs[p][applyBuildVariantMap(p, v)] = None
    PROVE  applyBuildVariantMap(p, v) = v /\ bvMap[p][v] = None
  <1>1. bvMap[p][v] \in Variant \cup {None, InProgress}
    BY DEF TypeOK
  <1>2. CASE bvMap[p][v] = None
    BY <1>2 DEF applyBuildVariantMap
  <1>3. CASE bvMap[p][v] # None
    BY <1>1, <1>3 DEF applyBuildVariantMap, MapLeads
  <1> QED
    BY <1>2, <1>3

(* The name a bake goes by is a variant. *)
LEMMA FinalIsVariant ==
    ASSUME TypeOK, NEW p \in Prj, NEW v \in Variant
    PROVE  applyBuildVariantMap(p, v) \in Variant \cup {InProgress}
  <1>1. bvMap[p][v] \in Variant \cup {None, InProgress}
    BY DEF TypeOK
  <1> QED
    BY <1>1, AllIsVariant DEF applyBuildVariantMap

(* The two table updates of a call keep the map's type. *)
LEMMA MapStaysTyped ==
    ASSUME TypeOK, NEW p \in Prj, NEW v \in Variant, NEW w \in Variant,
           NEW x \in Variant \cup {InProgress}, NEW y \in Variant \cup {InProgress}
    PROVE  [bvMap EXCEPT ![p] = [@ EXCEPT ![v] = x, ![w] = y]]
                \in [Prj -> [Variant -> Variant \cup {None, InProgress}]]
  BY DEF TypeOK

(* What any call of addconfig leaves behind.  below is the caller's stack, *)
(* with the same calls on it as stack.                                     *)
LEMMA AddConfigSound ==
    ASSUME BakeInv, NEW p \in Prj, NEW v,
           p \in script.real => v \in Variant,
           NEW below, StackSound(below), SameCalls(stack, below),
           addconfig(p, v, below), UNCHANGED configs
    PROVE  /\ baked' \subseteq script.real
           /\ prjToBuild' \subseteq script.real
           /\ bvMap' \in [Prj -> [Variant -> Variant \cup {None, InProgress}]]
           /\ ret' \in Return
           /\ ret'.bv = None <=> ret'.filter = None
           /\ StackSound(stack')
           /\ Held(stack', bvMap', configs')
           /\ Once(stack')
           /\ MapLeads(bvMap', configs')
  <1> DEFINE fin == applyBuildVariantMap(p, v)
             frame == [fn |-> "addconfig", p |-> p, init |-> v, fin |-> fin,
                       cfg |-> None, left |-> {}]
             get == GetStart(p, fin, "usesconfig")
             entered == /\ fin # InProgress
                        /\ configs[p][fin] = None
                        /\ bvMap' = [bvMap EXCEPT ![p] =
                                [@ EXCEPT ![v] = fin, ![fin] = InProgress]]
  <1>0. /\ TypeOK /\ TablesSound /\ StackSound(stack) /\ MapLeads(bvMap, configs)
        /\ Held(stack, bvMap, configs) /\ Once(stack)
    BY StackFacts DEF BakeInv
  <1>1. Held(below, bvMap, configs) /\ Once(below)
    BY <1>0, SameCallsKeep
  <1>2. NilReturn \in Return /\ Blank \in Return
    BY DEF NilReturn, Blank, Return
  <1>3. baked' \subseteq script.real /\ prjToBuild' \subseteq script.real
    BY <1>0 DEF addconfig, HasProject, Built, TypeOK
  <1> DEFINE Goal ==
               /\ bvMap' \in [Prj -> [Variant -> Variant \cup {None, InProgress}]]
               /\ ret' \in Return
               /\ ret'.bv = None <=> ret'.filter = None
               /\ StackSound(stack')
               /\ Held(stack', bvMap', configs')
               /\ Once(stack')
               /\ MapLeads(bvMap', configs')
  <1> SUFFICES Goal
    BY <1>3
  (* A call that returns at once and leaves the map alone. *)
  <1>4. ASSUME stack' = below, bvMap' = bvMap, ret' \in Return,
               ret'.bv = None <=> ret'.filter = None
        PROVE  Goal
    <2>1. bvMap' \in [Prj -> [Variant -> Variant \cup {None, InProgress}]]
      BY <1>0, <1>4 DEF TypeOK
    <2> QED
      BY <2>1, <1>0, <1>1, <1>4
  <1>5. CASE p \notin script.real
    <2>1. stack' = below /\ bvMap' = bvMap /\ ret' = NilReturn
      BY <1>5 DEF addconfig, HasProject
    <2> QED
      BY <2>1, <1>2, <1>4 DEF NilReturn
  <1>6. CASE p \in script.real /\ fin = InProgress
    <2>1. stack' = below /\ bvMap' = bvMap /\ ret' = Blank
      BY <1>6 DEF addconfig, HasProject
    <2> QED
      BY <2>1, <1>2, <1>4 DEF Blank
  <1>7. CASE p \in script.real /\ fin # InProgress /\ configs[p][fin] # None
    <2>1. stack' = below /\ bvMap' = bvMap /\ ret' = Returned(configs[p][fin])
      BY <1>7 DEF addconfig, HasProject
    <2>2. fin \in Variant
      BY <1>0, <1>7, FinalIsVariant
    <2>3. configs[p][fin] \in Config
      BY <1>0, <1>7, <2>2 DEF TypeOK
    <2>4. configs[p][fin].filter \in Variant /\ configs[p][fin].bv \in Variant
      BY <2>3 DEF Config
    <2>5. ret' \in Return
      BY <2>1, <2>4 DEF Returned, Return
    <2>6. ret'.bv = None <=> ret'.filter = None
      BY <2>1, <2>4, NoneDistinct DEF Returned
    <2> QED
      BY <2>1, <2>5, <2>6, <1>4
  <1>8. CASE p \in script.real /\ fin # InProgress /\ configs[p][fin] = None
    <2>1. /\ bvMap' = [bvMap EXCEPT ![p] =
                         [@ EXCEPT ![v] = fin, ![fin] = InProgress]]
          /\ \/ ret' = Blank /\ stack' = below
             \/ ret' = NilReturn /\ stack' = Append(Append(below, frame), get)
      BY <1>8 DEF addconfig, HasProject
    <2>2. fin \in Variant /\ v \in Variant
      BY <1>0, <1>8, FinalIsVariant
    <2>3. bvMap' \in [Prj -> [Variant -> Variant \cup {None, InProgress}]]
      BY <2>1, <2>2, <1>0, MapStaysTyped
    <2>4. ret' \in Return /\ (ret'.bv = None <=> ret'.filter = None)
      BY <2>1, <1>2 DEF NilReturn, Blank
    <2>5. p \notin script.single => fin = v /\ bvMap[p][v] = None
      BY <1>0, <1>8, <2>2, EnterOrdinary
    <2>6. /\ \A q \in Prj, w \in Variant : q # p => bvMap'[q][w] = bvMap[q][w]
          /\ p \notin script.single =>
                /\ bvMap'[p][v] = InProgress
                /\ \A w \in Variant : w # v => bvMap'[p][w] = bvMap[p][w]
      <3>1. bvMap \in [Prj -> [Variant -> Variant \cup {None, InProgress}]]
        BY <1>0 DEF TypeOK
      <3> HIDE DEF fin
      <3> QED
        BY <3>1, <2>1, <2>2, <2>5
    <2>7. MapLeads(bvMap', configs')
      <3>1. SUFFICES ASSUME NEW q \in Prj \ script.single, NEW w \in Variant,
                            bvMap'[q][w] \in Variant
                     PROVE  configs[q][bvMap'[q][w]] # None
        BY DEF MapLeads
      <3>2. bvMap'[q][w] = bvMap[q][w]
        BY <3>1, <2>6, NoneDistinct
      <3> QED
        BY <3>1, <3>2, <1>0 DEF MapLeads
    <2>8. below \in Seq(Frame) /\ Len(below) \in Nat
      BY LenProperties DEF StackSound
    <2>9. \A i \in 1 .. Len(below) : below[i].fn = "addconfig" =>
             below[i].p \in Prj /\ below[i].fin \in Variant
      BY <2>8, ElementOfSeq, FrameKinds DEF AddFrame
    <2>10. Held(below, bvMap', configs')
      <3> HIDE DEF fin
      <3>1. SUFFICES ASSUME NEW i \in 1 .. Len(below),
                            below[i].fn = "addconfig",
                            below[i].p \notin script.single
                     PROVE  /\ below[i].init = below[i].fin
                            /\ \/ bvMap'[below[i].p][below[i].fin] = InProgress
                               \/ configs[below[i].p][below[i].fin] # None
        BY DEF Held
      <3>2. below[i].p \in Prj /\ below[i].fin \in Variant
        BY <3>1, <2>9
      <3> QED
        BY <3>1, <3>2, <2>6, <1>1 DEF Held
    <2>11. CASE stack' = below
      BY <2>11, <2>3, <2>4, <2>7, <2>10, <1>1
    <2>12. CASE stack' = Append(Append(below, frame), get)
      <3>1. frame \in AddFrame
        BY <2>2 DEF AddFrame
      <3>2. get \in GetFrame /\ SoundGet(get) /\ get.fn = "getconfig"
        BY <1>0, <2>2, GetStartSound DEF Field
      <3>3. /\ frame.fn = "addconfig" /\ frame.p = p /\ frame.fin = fin
            /\ frame.init = v
        OBVIOUS
      <3> HIDE DEF frame, get
      <3>4. /\ StackSound(stack')
            /\ Len(stack') = Len(below) + 2
            /\ stack'[Len(below) + 1] = frame
            /\ stack'[Len(below) + 2] = get
            /\ \A i \in 1 .. Len(below) : stack'[i] = below[i]
        <4>1. Pushed(Append(Append(below, frame), get), below, frame, get)
          BY <3>1, <3>2, PushBake
        <4>2. Pushed(stack', below, frame, get)
          BY <4>1, <2>12
        <4> QED
          BY <4>2 DEF Pushed
      <3> HIDE DEF fin
      <3>5. Held(stack', bvMap', configs')
        <4>1. SUFFICES ASSUME NEW i \in 1 .. Len(stack'),
                              stack'[i].fn = "addconfig",
                              stack'[i].p \notin script.single
                       PROVE  /\ stack'[i].init = stack'[i].fin
                              /\ \/ bvMap'[stack'[i].p][stack'[i].fin] = InProgress
                                 \/ configs'[stack'[i].p][stack'[i].fin] # None
          BY DEF Held
        <4>2. CASE i \in 1 .. Len(below)
          BY <4>1, <4>2, <3>4, <2>10 DEF Held
        <4>3. CASE i = Len(below) + 1
          BY <4>1, <4>3, <3>4, <3>3, <2>5, <2>6
        <4>4. CASE i = Len(below) + 2
          BY <4>1, <4>4, <3>4, <3>2
        <4> QED
          BY <4>2, <4>3, <4>4, <3>4, <2>8
      <3>6. ASSUME NEW i \in 1 .. Len(below), below[i].fn = "addconfig",
                   below[i].p = p, below[i].fin = fin
            PROVE  p \in script.single
        BY <3>6, <1>1, <1>8, <2>5, NoneDistinct DEF Held
      <3>7. Once(stack')
        <4>1. SUFFICES ASSUME NEW i \in 1 .. Len(stack'),
                              NEW j \in 1 .. Len(stack'),
                              stack'[i].fn = "addconfig",
                              stack'[j].fn = "addconfig",
                              stack'[i].p = stack'[j].p,
                              stack'[i].fin = stack'[j].fin,
                              stack'[i].p \notin script.single
                       PROVE  i = j
          BY DEF Once
        <4>2. /\ i \in 1 .. Len(below) \/ i = Len(below) + 1
              /\ j \in 1 .. Len(below) \/ j = Len(below) + 1
          BY <4>1, <3>4, <3>2, <2>8
        <4>3. CASE i \in 1 .. Len(below) /\ j \in 1 .. Len(below)
          BY <4>1, <4>3, <3>4, <1>1 DEF Once
        <4>4. CASE i \in 1 .. Len(below) /\ j = Len(below) + 1
          BY <4>1, <4>4, <3>4, <3>3, <3>6
        <4>5. CASE i = Len(below) + 1 /\ j \in 1 .. Len(below)
          BY <4>1, <4>5, <3>4, <3>3, <3>6
        <4> QED
          BY <4>2, <4>3, <4>4, <4>5
      <3> QED
        BY <2>3, <2>4, <2>7, <3>4, <3>5, <3>7
    <2> QED
      BY <2>1, <2>11, <2>12
  <1> QED
    BY <1>5, <1>6, <1>7, <1>8

-----------------------------------------------------------------------------
(* What a step must show *)

TablesTyped ==
    /\ script \in Script
    /\ baked \subseteq script.real
    /\ prjToBuild \subseteq script.real
    /\ bvMap \in [Prj -> [Variant -> Variant \cup {None, InProgress}]]
    /\ configs \in [Prj -> [Variant -> Config \cup {None}]]
    /\ usageBaked \subseteq Prj
    /\ usageFilter \in [Prj -> [Variant -> Variant \cup {None}]]
    /\ blocks \in [Prj -> [Variant -> Block \cup {None}]]
    /\ cache \in [Prj -> [Field -> [Variant -> Found \cup {None}]]]
    /\ ret \in Return
    /\ toBake \subseteq Prj
    /\ current \in Prj \cup {None}
    /\ queue \in Seq(Variant)
    /\ status \in {"bake", "done", "crash"}

(* Blocks are only added, so frames stay sound. *)
LEMMA InvNext ==
    ASSUME script' = script,
           \A k \in KB : BlockExists(k) => BlockExists(k)',
           TablesTyped', TablesSound',
           StackSound(stack'), Held(stack', bvMap', configs'), Once(stack'),
           MapLeads(bvMap', configs')
    PROVE  BakeInv'
  <1>1. stack' \in Seq(Frame)
    BY DEF StackSound
  <1>2. Len(stack') \in Nat /\ DOMAIN stack' = 1 .. Len(stack')
    BY <1>1, LenProperties
  <1>3. TypeOK'
    BY <1>1 DEF TablesTyped, TypeOK
  <1>4. CallsSound'
    <2>1. SUFFICES ASSUME NEW i \in 1 .. Len(stack'),
                          stack'[i].fn = "getconfig"
                   PROVE  /\ i > 1 /\ stack'[i - 1].fn = "addconfig"
                          /\ \A j \in DOMAIN stack'[i].acts :
                                SoundAct(stack'[i].acts[j])
                          /\ \A k \in stack'[i].seen : BlockExists(k)'
      BY <1>2 DEF CallsSound, Gets, Adds
    <2>2. i > 1 /\ stack'[i - 1].fn = "addconfig" /\ SoundGet(stack'[i])
      BY <2>1 DEF StackSound
    <2>3. \A j \in DOMAIN stack'[i].acts : SoundAct(stack'[i].acts[j])
      BY <2>2 DEF SoundGet, SoundActs, SoundAct
    <2>4. \A k \in stack'[i].seen : BlockExists(k)'
      <3>1. stack'[i] \in GetFrame
        BY <1>1, <2>1, ElementOfSeq, FrameKinds
      <3>2. stack'[i].seen \subseteq KB
        BY <3>1 DEF GetFrame
      <3> QED
        BY <2>2, <3>2 DEF SoundGet
    <2> QED
      BY <2>2, <2>3, <2>4
  <1>5. PlaceholdersHeld'
    BY <1>2 DEF PlaceholdersHeld, Held, MapLeads, Adds
  <1>6. NoReentrantBake'
    BY <1>2 DEF NoReentrantBake, Once
  <1> QED
    BY <1>3, <1>4, <1>5, <1>6 DEF BakeInv

(* Replacing the innermost frame by one of the same call. *)
LEMMA ReplaceTop ==
    ASSUME BakeInv, stack # <<>>, NEW f, f \in Frame, f.fn = Top.fn,
           f.fn = "addconfig" =>
               f.p = Top.p /\ f.init = Top.init /\ f.fin = Top.fin,
           f.fn = "getconfig" => SoundGet(f)
    PROVE  /\ StackSound(Replace(f))
           /\ SameCalls(stack, Replace(f))
           /\ Held(Replace(f), bvMap, configs)
           /\ Once(Replace(f))
  <1> DEFINE r == Replace(f)
             n == Len(stack)
  <1>1. StackSound(stack) /\ stack \in Seq(Frame) /\ n \in Nat \ {0}
    BY StackFacts, FrontOfStack
  <1>2. /\ r \in Seq(Frame) /\ Len(r) = n /\ r[n] = f
        /\ \A i \in 1 .. n - 1 : r[i] = stack[i]
    <2>1. Replaced(Append(SubSeq(stack, 1, Len(stack) - 1), f), stack, f, Frame)
      BY <1>1, ReplaceOnStack
    <2>2. Replaced(r, stack, f, Frame)
      BY <2>1 DEF Replace, Below
    <2> QED
      BY <2>2 DEF Replaced
  <1> HIDE DEF r
  <1>3. SameCalls(stack, r)
    BY <1>1, <1>2 DEF SameCalls, Top
  <1>4. ASSUME NEW i \in 1 .. n, r[i].fn = "getconfig"
        PROVE  i > 1 /\ r[i - 1].fn = "addconfig" /\ SoundGet(r[i])
    <2>1. stack[i].fn = "getconfig"
      BY <1>3, <1>4 DEF SameCalls
    <2>2. i > 1 /\ stack[i - 1].fn = "addconfig" /\ SoundGet(stack[i])
      BY <2>1, <1>1 DEF StackSound
    <2>3. r[i - 1] = stack[i - 1]
      BY <2>2, <1>1, <1>2
    <2>4. SoundGet(r[i])
      <3>1. CASE i = n
        BY <3>1, <1>2, <1>4
      <3>2. CASE i \in 1 .. n - 1
        BY <3>2, <1>2, <2>2
      <3> QED
        BY <3>1, <3>2, <1>1
    <2> QED
      BY <2>2, <2>3, <2>4
  <1>5. StackSound(r)
    BY <1>2, <1>4 DEF StackSound
  <1>6. Held(r, bvMap, configs) /\ Once(r)
    BY <1>3, StackFacts, SameCallsKeep
  <1> QED
    BY <1>3, <1>5, <1>6 DEF r

(* Returning from the innermost call. *)
LEMMA PopTop ==
    ASSUME BakeInv, stack # <<>>
    PROVE  /\ StackSound(Below)
           /\ Held(Below, bvMap, configs)
           /\ Once(Below)
           /\ Len(stack) \in Nat \ {0}
           /\ Len(Below) = Len(stack) - 1
           /\ \A i \in 1 .. Len(stack) - 1 : Below[i] = stack[i]
  <1>1. /\ StackSound(stack) /\ stack \in Seq(Frame)
        /\ Held(stack, bvMap, configs) /\ Once(stack)
    BY StackFacts
  <1>2. /\ Below \in Seq(Frame)
        /\ Len(Below) = Len(stack) - 1
        /\ \A i \in 1 .. Len(stack) - 1 : Below[i] = stack[i]
        /\ Len(stack) \in Nat \ {0}
    BY <1>1, FrontOfStack DEF Below
  <1>3. ASSUME NEW i \in 1 .. Len(Below), Below[i].fn = "getconfig"
        PROVE  i > 1 /\ Below[i - 1].fn = "addconfig" /\ SoundGet(Below[i])
    <2>1. i \in 1 .. Len(stack) /\ Below[i] = stack[i]
      BY <1>2, <1>3
    <2>2. i > 1 /\ stack[i - 1].fn = "addconfig" /\ SoundGet(stack[i])
      BY <2>1, <1>1, <1>3 DEF StackSound
    <2>3. Below[i - 1] = stack[i - 1]
      BY <2>1, <2>2, <1>2
    <2> QED
      BY <2>1, <2>2, <2>3
  <1>4. Held(Below, bvMap, configs)
    BY <1>1, <1>2 DEF Held
  <1>5. Once(Below)
    BY <1>1, <1>2 DEF Once
  <1> QED
    BY <1>2, <1>3, <1>4, <1>5 DEF StackSound

-----------------------------------------------------------------------------
(* findBlocks' activations *)

(* A getconfig frame, well-formed and fit to be on the stack. *)
GoodGet(g) == g \in GetFrame /\ g.fn = "getconfig" /\ SoundGet(g)

(* The innermost call is a getconfig: it is sound, and an addconfig called it. *)
LEMMA TopGet ==
    ASSUME BakeInv, TopIs("getconfig")
    PROVE  /\ GoodGet(Top)
           /\ stack # <<>>
           /\ Len(stack) > 1
           /\ stack[Len(stack) - 1] \in AddFrame
           /\ stack[Len(stack) - 1].fn = "addconfig"
  <1>1. StackSound(stack) /\ stack \in Seq(Frame) /\ Len(stack) \in Nat \ {0}
    BY StackFacts, FrontOfStack DEF TopIs
  <1>2. /\ Len(stack) > 1 /\ stack[Len(stack) - 1].fn = "addconfig"
        /\ SoundGet(Top)
    BY <1>1 DEF StackSound, TopIs, Top
  <1>3. Top \in Frame /\ stack[Len(stack) - 1] \in Frame
    BY <1>1, <1>2, ElementOfSeq DEF Top
  <1> QED
    BY <1>2, <1>3, FrameKinds DEF TopIs, GoodGet

(* The innermost call is an addconfig: it is a frame of that kind. *)
LEMMA TopAdd ==
    ASSUME BakeInv, TopIs("addconfig")
    PROVE  Top \in AddFrame /\ Top.fn = "addconfig" /\ stack # <<>>
  <1>1. stack \in Seq(Frame) /\ Len(stack) \in Nat \ {0}
    BY StackFacts, FrontOfStack DEF TopIs
  <1>2. Top \in Frame
    BY <1>1, ElementOfSeq DEF Top
  <1> QED
    BY <1>2, FrameKinds DEF TopIs

(* The innermost activation of findBlocks is sound and so are the outer ones. *)
LEMMA ActFacts ==
    ASSUME NEW g, GoodGet(g), g.acts # <<>>
    PROVE  /\ LastAct(g) \in Act
           /\ SoundAct(LastAct(g))
           /\ OuterActs(g) \in Seq(Act)
           /\ \A j \in 1 .. Len(OuterActs(g)) : SoundAct(OuterActs(g)[j])
  <1>1. g.acts \in Seq(Act) /\ DOMAIN g.acts = 1 .. Len(g.acts)
    BY LenProperties DEF GoodGet, GetFrame
  <1>2. /\ OuterActs(g) \in Seq(Act)
        /\ Len(OuterActs(g)) = Len(g.acts) - 1
        /\ \A i \in 1 .. Len(g.acts) - 1 : OuterActs(g)[i] = g.acts[i]
        /\ Len(g.acts) \in Nat \ {0}
        /\ g.acts[Len(g.acts)] \in Act
    BY <1>1, FrontOfStack DEF OuterActs
  <1> QED
    BY <1>1, <1>2 DEF LastAct, GoodGet, SoundGet, SoundActs

(* A frame with other activations. *)
LEMMA GoodWithActs ==
    ASSUME NEW g, GoodGet(g), NEW s, s \in Seq(Act),
           \A j \in 1 .. Len(s) : SoundAct(s[j])
    PROVE  GoodGet([g EXCEPT !.acts = s])
  <1> DEFINE h == [g EXCEPT !.acts = s]
  <1>1. h \in GetFrame /\ h.fn = "getconfig" /\ h.acts = s /\ h.seen = g.seen
    BY DEF GoodGet, GetFrame
  <1>2. DOMAIN s = 1 .. Len(s)
    BY LenProperties
  <1> QED
    BY <1>1, <1>2 DEF GoodGet, SoundGet, SoundActs

(* Pushing a sound activation keeps the activations sound. *)
LEMMA PushAct ==
    ASSUME NEW s, s \in Seq(Act), \A j \in 1 .. Len(s) : SoundAct(s[j]),
           NEW x, x \in Act, SoundAct(x)
    PROVE  /\ Append(s, x) \in Seq(Act)
           /\ \A j \in 1 .. Len(Append(s, x)) : SoundAct(Append(s, x)[j])
  <1>1. /\ Append(s, x) \in Seq(Act) /\ Len(Append(s, x)) = Len(s) + 1
        /\ Append(s, x)[Len(s) + 1] = x
        /\ \A i \in 1 .. Len(s) : Append(s, x)[i] = s[i]
    BY PushOnStack
  <1>2. Len(s) \in Nat
    BY LenProperties
  <1>3. ASSUME NEW j \in 1 .. Len(s) + 1
        PROVE  SoundAct(Append(s, x)[j])
    <2>1. CASE j = Len(s) + 1
      BY <2>1, <1>1
    <2>2. CASE j \in 1 .. Len(s)
      BY <2>2, <1>1
    <2> QED
      BY <2>1, <2>2, <1>2
  <1> QED
    BY <1>1, <1>3

(* The innermost activation replaced, or finished. *)
LEMMA GoodWithLast ==
    ASSUME NEW g, GoodGet(g), g.acts # <<>>, NEW x, x \in Act, SoundAct(x)
    PROVE  GoodGet([g EXCEPT !.acts = Append(OuterActs(g), x)])
  <1>1. /\ OuterActs(g) \in Seq(Act)
        /\ \A j \in 1 .. Len(OuterActs(g)) : SoundAct(OuterActs(g)[j])
    BY ActFacts
  <1>2. /\ Append(OuterActs(g), x) \in Seq(Act)
        /\ \A j \in 1 .. Len(Append(OuterActs(g), x)) :
              SoundAct(Append(OuterActs(g), x)[j])
    BY <1>1, PushAct
  <1> QED
    BY <1>2, GoodWithActs

(* A frame stays sound when its innermost activation returns. *)
LEMMA GoodWithoutLast ==
    ASSUME NEW g, GoodGet(g), g.acts # <<>>
    PROVE  GoodGet([g EXCEPT !.acts = OuterActs(g)])
  BY ActFacts, GoodWithActs

(* findBlocks on a table that exists keeps the frame sound, whether the table *)
(* is walked or was seen before.                                              *)
LEMMA VisitGood ==
    ASSUME NEW g, GoodGet(g), NEW kb, kb \in KB, BlockExists(kb),
           kb.tag # "real", NEW env, env \in Env,
           env.bv = None <=> env.filter = None,
           NEW uses, uses \subseteq Edge, NEW exists
    PROVE  GoodGet(Visit(g, kb, env, uses, exists))
  <1> DEFINE x == [kb |-> kb, env |-> env, left |-> uses, call |-> None]
             h == [g EXCEPT !.seen = @ \cup {kb}, !.acts = Append(@, x)]
  <1>1. CASE Visit(g, kb, env, uses, exists) = g
    BY <1>1
  <1>2. CASE Visit(g, kb, env, uses, exists) = h
    <2>1. x \in Act /\ SoundAct(x)
      BY DEF Act, SoundAct
    <2> HIDE DEF x
    <2>2. /\ g.acts \in Seq(Act)
          /\ \A j \in 1 .. Len(g.acts) : SoundAct(g.acts[j])
      BY LenProperties DEF GoodGet, GetFrame, SoundGet, SoundActs
    <2>3. /\ Append(g.acts, x) \in Seq(Act)
          /\ \A j \in 1 .. Len(Append(g.acts, x)) :
                SoundAct(Append(g.acts, x)[j])
      BY <2>1, <2>2, PushAct
    <2>4. DOMAIN Append(g.acts, x) = 1 .. Len(Append(g.acts, x))
      BY <2>3, LenProperties
    <2>5. /\ h \in GetFrame /\ h.fn = "getconfig"
          /\ h.acts = Append(g.acts, x) /\ h.seen = g.seen \cup {kb}
      BY <2>3 DEF GoodGet, GetFrame
    <2>6. SoundGet(h)
      BY <2>3, <2>4, <2>5 DEF GoodGet, SoundGet, SoundActs
    <2> QED
      BY <1>2, <2>5, <2>6 DEF GoodGet
  <1> QED
    BY <1>1, <1>2 DEF Visit

-----------------------------------------------------------------------------
(* The steps *)

(* A getconfig frame in place of another keeps all that is claimed of the *)
(* stack.                                                                 *)
LEMMA ReplaceGet ==
    ASSUME BakeInv, TopIs("getconfig"), NEW g, GoodGet(g)
    PROVE  /\ StackSound(Replace(g))
           /\ SameCalls(stack, Replace(g))
           /\ Held(Replace(g), bvMap, configs)
           /\ Once(Replace(g))
  <1>1. stack # <<>> /\ Top.fn = "getconfig" /\ g.fn = "getconfig"
    BY DEF TopIs, GoodGet
  <1>2. g \in Frame /\ SoundGet(g)
    BY DEF GoodGet, Frame
  <1> QED
    BY <1>1, <1>2, ReplaceTop

(* The invariant, taken apart. *)
LEMMA TypedParts ==
    ASSUME BakeInv
    PROVE  TablesTyped /\ TablesSound /\ TypeOK
  BY DEF BakeInv, TypeOK, TablesTyped

(* The invariant holds before bakeall starts. *)
LEMMA InitInv == Init => BakeInv
  <1> SUFFICES ASSUME Init PROVE BakeInv
    OBVIOUS
  <1>1. stack = <<>> /\ stack \in Seq(Frame) /\ DOMAIN stack = {}
    BY DEF Init
  <1>2. script \in Script /\ script.requested \subseteq script.real
    BY ScriptsAreScripts DEF Init
  <1>3. TypeOK
    BY <1>1, <1>2 DEF Init, TypeOK, Script, NilReturn, Return
  <1>4. CallsSound
    BY <1>1 DEF CallsSound
  <1>5. TablesSound
    BY <1>2 DEF Init, TablesSound, NilReturn
  <1>6. PlaceholdersHeld
    BY <1>1, NoneDistinct DEF Init, PlaceholdersHeld
  <1>7. NoReentrantBake
    BY <1>1 DEF NoReentrantBake
  <1> QED
    BY <1>3, <1>4, <1>5, <1>6, <1>7 DEF BakeInv

(* Steps that touch neither the stack nor the tables: only bakeall's loop, *)
(* the set of baked projects and the status.                               *)
LEMMA LoopStep ==
    ASSUME BakeInv, UNCHANGED <<script, prjToBuild, bvMap, configs, usages,
                                cache, stack, ret>>,
           baked' \subseteq script.real, toBake' \subseteq toBake,
           status' \in {"bake", "done", "crash"},
           \/ UNCHANGED <<current, queue>>
           \/ current' \in toBake /\ queue' \in Seq(Variant)
    PROVE  BakeInv'
  <1>1. TablesTyped /\ TablesSound
    BY TypedParts
  <1>2. TablesTyped'
    BY <1>1 DEF TablesTyped, usages
  <1>3. \A k : BlockExists(k) => BlockExists(k)'
    BY DEF BlockExists, usages
  <1>4. current' # None => current' \in script.real
    BY <1>1 DEF TablesSound
  <1>5. current' = None => queue' = <<>>
    <2>1. CASE UNCHANGED <<current, queue>>
      BY <2>1, <1>1 DEF TablesSound
    <2>2. CASE current' \in toBake
      <3>1. current' \in Prj
        BY <2>2, <1>1 DEF TablesTyped
      <3> QED
        BY <3>1, NoneDistinct
    <2> QED
      BY <2>1, <2>2
  <1>6. TablesSound'
    BY <1>1, <1>3, <1>4, <1>5 DEF TablesSound, usages
  <1>7. /\ StackSound(stack') /\ Held(stack', bvMap', configs')
        /\ Once(stack') /\ MapLeads(bvMap', configs')
    BY StackFacts
  <1> QED
    BY <1>2, <1>3, <1>6, <1>7, InvNext

(* bakeall moving to its next project keeps the invariant. *)
LEMMA StartProjectInv ==
    ASSUME BakeInv, NEW p \in Prj, StartProject(p)
    PROVE  BakeInv'
  <1>1. TablesTyped /\ TablesSound
    BY TypedParts
  <1>2. baked' \subseteq script.real
    BY <1>1 DEF StartProject, TablesTyped, TablesSound
  <1>3. queue' \in Seq(Variant)
    <2>1. BuildCfgs \in Seq(Cfg) /\ Len(BuildCfgs) \in Nat
          /\ DOMAIN BuildCfgs = 1 .. Len(BuildCfgs)
      BY BuildCfgsSequence, LenProperties
    <2>2. \A i \in 1 .. Len(BuildCfgs) :
             [cfg |-> BuildCfgs[i], feats |-> {}] \in Variant
      BY <2>1 DEF Variant, Cfg
    <2> QED
      BY <2>1, <2>2 DEF StartProject
  <1> QED
    BY <1>2, <1>3, LoopStep DEF StartProject

(* bakeall ending keeps the invariant. *)
LEMMA BakeallDoneInv ==
    ASSUME BakeInv, BakeallDone
    PROVE  BakeInv'
  <1>1. baked' \subseteq script.real
    BY TypedParts DEF TablesTyped, BakeallDone, tables
  <1> QED
    BY <1>1, LoopStep DEF BakeallDone, tables, mainloop

(* A Lua error keeps the invariant: the tables stay as they were. *)
LEMMA CrashInv ==
    ASSUME BakeInv, Crash
    PROVE  BakeInv'
  <1>1. baked' \subseteq script.real
    BY TypedParts DEF TablesTyped, Crash, tables
  <1> QED
    BY <1>1, LoopStep DEF Crash, tables, mainloop

(* Any step that is a call of addconfig. *)
LEMMA CallStep ==
    ASSUME BakeInv, NEW p \in Prj, NEW v,
           p \in script.real => v \in Variant,
           NEW below, StackSound(below), SameCalls(stack, below),
           addconfig(p, v, below),
           UNCHANGED <<script, configs, usages, cache, toBake, current, status>>,
           queue' \in Seq(Variant), current = None => queue' = <<>>
    PROVE  BakeInv'
  <1>1. TablesTyped /\ TablesSound
    BY TypedParts
  <1>2. configs' = configs
    OBVIOUS
  <1>3. /\ baked' \subseteq script.real
        /\ prjToBuild' \subseteq script.real
        /\ bvMap' \in [Prj -> [Variant -> Variant \cup {None, InProgress}]]
        /\ ret' \in Return
        /\ ret'.bv = None <=> ret'.filter = None
        /\ StackSound(stack')
        /\ Held(stack', bvMap', configs')
        /\ Once(stack')
        /\ MapLeads(bvMap', configs')
    BY <1>2, AddConfigSound
  <1>4. TablesTyped'
    BY <1>1, <1>3 DEF TablesTyped, usages
  <1>5. \A k : BlockExists(k) => BlockExists(k)'
    BY DEF BlockExists, usages
  <1>6. TablesSound'
    BY <1>1, <1>3, <1>5 DEF TablesSound, usages
  <1> QED
    BY <1>3, <1>4, <1>5, <1>6, InvNext

(* bakeall asking for a configuration keeps the invariant. *)
LEMMA AddDefaultInv ==
    ASSUME BakeInv, AddDefault
    PROVE  BakeInv'
  <1>1. TablesTyped /\ TablesSound
    BY TypedParts
  <1>2. StackSound(stack) /\ SameCalls(stack, stack)
    BY StackFacts DEF SameCalls
  <1>3. queue # <<>> /\ queue \in Seq(Variant)
    BY <1>1 DEF AddDefault, TablesTyped
  <1>4. Head(queue) \in Variant /\ queue' \in Seq(Variant)
    BY <1>3, HeadTailProperties DEF AddDefault
  <1>5. current # None
    BY <1>1, <1>3 DEF TablesSound
  <1>6. current \in Prj
    BY <1>1, <1>5 DEF TablesTyped
  <1> QED
    BY <1>2, <1>4, <1>5, <1>6, CallStep DEF AddDefault

(* Baking a compile dependency keeps the invariant. *)
LEMMA CompileDependInv ==
    ASSUME BakeInv, NEW q \in Prj, CompileDepend(q)
    PROVE  BakeInv'
  <1> DEFINE f == [Top EXCEPT !.left = @ \ {q}]
  <1>1. Top \in AddFrame /\ Top.fn = "addconfig" /\ stack # <<>>
    BY TopAdd DEF CompileDepend
  <1>2. Top.cfg.bv \in Variant
    BY <1>1 DEF CompileDepend, AddFrame, Config
  <1>3. /\ f \in AddFrame /\ f.fn = "addconfig" /\ f.p = Top.p
        /\ f.init = Top.init /\ f.fin = Top.fin
    BY <1>1 DEF AddFrame
  <1> HIDE DEF f
  <1>4. StackSound(Replace(f)) /\ SameCalls(stack, Replace(f))
    BY <1>1, <1>3, ReplaceTop DEF Frame
  <1>5. addconfig(q, Top.cfg.bv, Replace(f))
    BY DEF CompileDepend, f
  <1>6. TablesTyped /\ TablesSound
    BY TypedParts
  <1>7. /\ UNCHANGED <<script, configs, usages, cache, toBake, current, status>>
        /\ queue' = queue
    BY DEF CompileDepend, mainloop
  <1>8. queue' \in Seq(Variant) /\ (current = None => queue' = <<>>)
    BY <1>6, <1>7 DEF TablesTyped, TablesSound
  <1> QED
    BY <1>2, <1>4, <1>5, <1>7, <1>8, CallStep

(* The variant a use asks for is a variant. *)
LEMMA UseVariantTyped ==
    ASSUME NEW env \in Env, NEW e \in Edge, env.bv # None
    PROVE  UseVariant(env, e) \in Variant
  <1>1. env.bv \in Variant
    BY DEF Env
  <1>2. e.with \subseteq Feature
    BY DEF Edge
  <1>3. env.bv.feats \cup e.with \subseteq Feature
    BY <1>1, <1>2 DEF Variant
  <1>4. [env.bv EXCEPT !.feats = @ \cup e.with] \in Variant
    BY <1>1, <1>3 DEF Variant
  <1> QED
    BY <1>1, <1>4 DEF UseVariant

(* Following a use, to the addconfig it calls, keeps the invariant. *)
LEMMA UseInv ==
    ASSUME BakeInv, NEW e \in Edge, Use(e)
    PROVE  BakeInv'
  <1> DEFINE a == LastAct(Top)
             x == [a EXCEPT !.left = @ \ {e}, !.call = e]
             g == [Top EXCEPT !.acts = Append(OuterActs(Top), x)]
  <1>1. TopIs("getconfig") /\ Top.acts # <<>>
    BY DEF Use
  <1>2. GoodGet(Top)
    BY <1>1, TopGet
  <1>3. a \in Act /\ SoundAct(a)
    BY <1>1, <1>2, ActFacts
  <1>4. CASE Crash
    BY <1>4, CrashInv
  <1>5. CASE /\ ~(a.env.bv = None /\ (e.with # {} \/ e.to \in script.real))
             /\ addconfig(e.to, UseVariant(a.env, e), Replace(g))
             /\ UNCHANGED <<script, configs, usages, cache, mainloop, status>>
    <2> HIDE DEF a
    <2>1. e.to \in Prj
      BY DEF Edge
    <2>2. e.to \in script.real => UseVariant(a.env, e) \in Variant
      BY <1>3, <1>5, UseVariantTyped DEF Act
    <2>3. x \in Act
      BY <1>3 DEF Act
    <2>4. x.env = a.env /\ x.kb = a.kb /\ x.call = e
      BY <1>3 DEF Act
    <2>5. SoundAct(x)
      BY <1>3, <1>5, <2>4 DEF SoundAct
    <2> HIDE DEF x
    <2>6. GoodGet(g)
      BY <1>1, <1>2, <2>3, <2>5, GoodWithLast
    <2> HIDE DEF g
    <2>7. StackSound(Replace(g)) /\ SameCalls(stack, Replace(g))
      BY <1>1, <2>6, ReplaceGet
    <2>8. queue' \in Seq(Variant) /\ (current = None => queue' = <<>>)
      BY <1>5, TypedParts DEF TablesTyped, TablesSound, mainloop
    <2>9. UNCHANGED <<script, configs, usages, cache, toBake, current, status>>
      BY <1>5 DEF mainloop
    <2> QED
      BY <1>5, <2>1, <2>2, <2>7, <2>8, <2>9, CallStep
  <1> QED
    BY <1>4, <1>5 DEF Use

(* Steps of findBlocks that only work on its own frame. *)
LEMMA FindStep ==
    ASSUME BakeInv, TopIs("getconfig"), NEW g, GoodGet(g), stack' = Replace(g),
           usageBaked' \subseteq Prj,
           UNCHANGED <<script, tables, usageFilter, blocks, cache, ret,
                       mainloop, status>>
    PROVE  BakeInv'
  <1>1. TablesTyped /\ TablesSound
    BY TypedParts
  <1>2. /\ StackSound(stack') /\ Held(stack', bvMap, configs) /\ Once(stack')
        /\ MapLeads(bvMap, configs)
    BY ReplaceGet, StackFacts
  <1>3. /\ baked' = baked /\ prjToBuild' = prjToBuild /\ bvMap' = bvMap
        /\ configs' = configs /\ toBake' = toBake /\ current' = current
        /\ queue' = queue
    BY DEF tables, mainloop
  <1>4. TablesTyped'
    BY <1>1, <1>3 DEF TablesTyped
  <1>5. \A k : BlockExists(k) => BlockExists(k)'
    BY DEF BlockExists
  <1>6. TablesSound'
    BY <1>1, <1>3, <1>5 DEF TablesSound
  <1> QED
    BY <1>2, <1>3, <1>4, <1>5, <1>6, InvNext

(* Walking the usage after that addconfig keeps the invariant. *)
LEMMA EnterUsageInv ==
    ASSUME BakeInv, EnterUsage
    PROVE  BakeInv'
  <1> DEFINE a == LastAct(Top)
             e == a.call
             back == [Top EXCEPT !.acts = Append(OuterActs(Top), Restore(a))]
             g == Visit(back, UsageKB(e.to), UsageEnv(a), script.exports[e.to],
                        e.to \in usageBaked')
  <1>1. TopIs("getconfig") /\ Top.acts # <<>>
    BY DEF EnterUsage
  <1>2. GoodGet(Top)
    BY <1>1, TopGet
  <1>3. a \in Act /\ SoundAct(a)
    BY <1>1, <1>2, ActFacts
  <1>4. CASE Crash
    BY <1>4, CrashInv
  <1>5. CASE /\ e # None
             /\ usageBaked' = usageBaked \cup (IF e.with = {} THEN {e.to} ELSE {})
             /\ stack' = Replace(g)
             /\ UNCHANGED <<script, tables, usageFilter, blocks, cache, ret,
                            mainloop, status>>
    <2>0. TablesTyped /\ TablesSound
      BY TypedParts
    <2> HIDE DEF a
    <2>1. e \in Edge /\ e.to \in Prj
      BY <1>3, <1>5 DEF Act, Edge
    <2>2. Restore(a) \in Act /\ SoundAct(Restore(a))
      BY <1>3 DEF Act, SoundAct, Restore
    <2>3. GoodGet(back)
      BY <1>1, <1>2, <2>2, GoodWithLast
    <2>4. /\ UsageEnv(a) \in Env
          /\ UsageEnv(a).bv = None <=> UsageEnv(a).filter = None
      <3>1. CASE e.with = {}
        BY <3>1, <1>3 DEF UsageEnv, Act, SoundAct
      <3>2. CASE e.with # {}
        <4>1. a.env \in Env /\ a.env.bv # None
          BY <3>2, <1>3, <1>5 DEF Act, SoundAct
        <4>2. UseVariant(a.env, e) \in Variant
          BY <4>1, <2>1, UseVariantTyped
        <4>3. ret \in Return /\ (ret.bv = None <=> ret.filter = None)
          BY <2>0 DEF TablesTyped, TablesSound
        <4>4. UsageEnv(a) = [filter |-> ret.filter, bv |-> ret.bv,
                             name |-> UseVariant(a.env, e)]
          BY <3>2 DEF UsageEnv
        <4> QED
          BY <4>2, <4>3, <4>4 DEF Env, Return
      <3> QED
        BY <3>1, <3>2
    <2>5. /\ UsageKB(e.to) \in KB /\ UsageKB(e.to).tag # "real"
          /\ BlockExists(UsageKB(e.to))
      BY <2>1, AllIsVariant DEF UsageKB, KB, BlockExists
    <2>6. script.exports[e.to] \subseteq Edge
      BY <2>0, <2>1 DEF TablesTyped, Script
    <2> HIDE DEF back
    <2>7. GoodGet(g)
      BY <2>3, <2>4, <2>5, <2>6, VisitGood
    <2>8. usageBaked' \subseteq Prj
      BY <1>5, <2>0, <2>1 DEF TablesTyped
    <2> HIDE DEF g, e
    <2> QED
      BY <1>1, <1>5, <2>7, <2>8, FindStep
  <1> QED
    BY <1>4, <1>5 DEF EnterUsage

(* Leaving a table, perhaps for the block of the build name, keeps the *)
(* invariant: the block named by __filter exists.                      *)
LEMMA LeaveKBInv ==
    ASSUME BakeInv, LeaveKB
    PROVE  BakeInv'
  <1> DEFINE a == LastAct(Top)
             kb == a.kb
             back == [Top EXCEPT !.acts = OuterActs(Top)]
             id == usageFilter[kb.p][a.env.name]
             real == [back EXCEPT !.cfgs = @ \cup
                        (a.env.filter.feats \cap script.cond[kb.p])]
             block == Visit(back, BlockKB(kb.p, id), a.env,
                            blocks[kb.p][id].always, TRUE)
  <1>1. TopIs("getconfig") /\ Top.acts # <<>>
    BY DEF LeaveKB
  <1>2. GoodGet(Top)
    BY <1>1, TopGet
  <1>3. a \in Act /\ SoundAct(a) /\ kb \in KB /\ a.env \in Env
    BY <1>1, <1>2, ActFacts DEF Act
  <1>4. TablesTyped /\ TablesSound
    BY TypedParts
  <1>5. GoodGet(back)
    BY <1>1, <1>2, GoodWithoutLast
  <1>6. UNCHANGED <<script, tables, usages, cache, ret, mainloop>>
    BY DEF LeaveKB
  <1>7. /\ usageBaked' \subseteq Prj
        /\ UNCHANGED <<script, tables, usageFilter, blocks, cache, ret, mainloop>>
    BY <1>4, <1>6 DEF usages, TablesTyped
  <1>8. CASE status' = "crash" /\ UNCHANGED stack
    BY <1>6, <1>8, CrashInv DEF Crash
  <1>9. CASE stack' = Replace(back) /\ UNCHANGED status
    <2> HIDE DEF back
    <2> QED
      BY <1>1, <1>5, <1>7, <1>9, FindStep
  <1>10. CASE kb.tag = "real" /\ stack' = Replace(real) /\ UNCHANGED status
    <2>1. a.env.filter.feats \cap script.cond[kb.p] \subseteq Feature
      <3>1. a.env.filter \in Variant
        BY <1>3, <1>10 DEF SoundAct, Env
      <3> QED
        BY <3>1 DEF Variant
    <2> HIDE DEF back, a
    <2>2. /\ real \in GetFrame /\ real.fn = "getconfig"
          /\ real.acts = back.acts /\ real.seen = back.seen
      BY <1>5, <2>1 DEF GoodGet, GetFrame
    <2>3. GoodGet(real)
      BY <1>5, <2>2 DEF GoodGet, SoundGet, SoundActs
    <2> HIDE DEF real
    <2> QED
      BY <1>1, <1>7, <1>10, <2>3, FindStep
  <1>11. CASE /\ id # None /\ a.env.bv # None
              /\ stack' = Replace(block) /\ UNCHANGED status
    <2> HIDE DEF a
    <2>1. kb.p \in Prj /\ a.env.name \in Variant
      BY <1>3 DEF KB, Env
    <2>2. id \in Variant /\ blocks[kb.p][id] # None
      <3>1. id \in Variant \cup {None}
        BY <2>1, <1>4 DEF TablesTyped
      <3>2. \A p \in Prj, v \in Variant :
               usageFilter[p][v] # None => blocks[p][usageFilter[p][v]] # None
        BY <1>4 DEF TablesSound
      <3>3. blocks[kb.p][id] # None
        BY <2>1, <1>11, <3>2
      <3> QED
        BY <3>1, <3>3, <1>11
    <2>3. blocks[kb.p][id] \in Block
      <3>1. blocks \in [Prj -> [Variant -> Block \cup {None}]]
        BY <1>4 DEF TablesTyped
      <3> HIDE DEF kb, id
      <3> QED
        BY <2>1, <2>2, <3>1
    <2>4. blocks[kb.p][id].always \subseteq Edge
      BY <2>3 DEF Block
    <2>5. /\ BlockKB(kb.p, id) \in KB /\ BlockKB(kb.p, id).tag # "real"
          /\ BlockExists(BlockKB(kb.p, id))
      BY <2>1, <2>2 DEF BlockKB, KB, BlockExists
    <2>6. a.env.bv = None <=> a.env.filter = None
      BY <1>3 DEF SoundAct
    <2> HIDE DEF back, id
    <2>7. GoodGet(block)
      BY <1>3, <1>5, <2>4, <2>5, <2>6, VisitGood
    <2> HIDE DEF block
    <2> QED
      BY <1>1, <1>7, <1>11, <2>7, FindStep
  <1> QED
    BY <1>8, <1>9, <1>10, <1>11 DEF LeaveKB

(* Remembering what a getconfig found. *)
LEMMA CacheFoundSound ==
    ASSUME BakeInv, TopIs("getconfig"), CacheFound(Top), UNCHANGED blocks
    PROVE  /\ cache' \in [Prj -> [Field -> [Variant -> Found \cup {None}]]]
           /\ \A p \in Prj, f \in Field, v \in Variant :
                 cache'[p][f][v] # None =>
                    \A k \in cache'[p][f][v].seen : BlockExists(k)
  <1> DEFINE new == [seen |-> Top.seen, cfgs |-> Top.cfgs]
  <1>1. GoodGet(Top)
    BY TopGet
  <1>2. Top.p \in Prj /\ Top.field \in Field /\ Top.filter \in Variant
    BY <1>1 DEF GoodGet, GetFrame
  <1>3. new \in Found
    BY <1>1 DEF GoodGet, GetFrame, Found
  <1>4. \A k \in new.seen : BlockExists(k)
    BY <1>1 DEF GoodGet, SoundGet
  <1>5. TablesTyped /\ TablesSound
    BY TypedParts
  <1>6. cache' = [cache EXCEPT ![Top.p][Top.field][Top.filter] = new]
    BY DEF CacheFound
  <1> HIDE DEF new
  <1>7. cache' \in [Prj -> [Field -> [Variant -> Found \cup {None}]]]
    BY <1>2, <1>3, <1>5, <1>6 DEF TablesTyped
  <1>8. \A p \in Prj, f \in Field, v \in Variant :
           cache'[p][f][v] = new \/ cache'[p][f][v] = cache[p][f][v]
    BY <1>2, <1>5, <1>6 DEF TablesTyped
  <1> QED
    BY <1>4, <1>5, <1>7, <1>8 DEF TablesSound

(* getfilter ending keeps the invariant. *)
LEMMA GotFilterInv ==
    ASSUME BakeInv, GotFilter
    PROVE  BakeInv'
  <1> DEFINE g == GetStart(Top.p, Top.filter, "all")
  <1>1. TopIs("getconfig") /\ CacheFound(Top) /\ stack' = Replace(g)
    BY DEF GotFilter
  <1>2. /\ UNCHANGED <<script, tables, usages, ret, mainloop, status>>
        /\ blocks' = blocks
    BY DEF GotFilter, usages
  <1>3. TablesTyped /\ TablesSound /\ TypeOK
    BY TypedParts
  <1>4. Top.p \in Prj /\ Top.filter \in Variant
    BY <1>1, TopGet DEF GoodGet, GetFrame
  <1>5. GoodGet(g)
    BY <1>3, <1>4, GetStartSound DEF GoodGet, Field
  <1> HIDE DEF g
  <1>6. /\ StackSound(stack') /\ Held(stack', bvMap, configs) /\ Once(stack')
        /\ MapLeads(bvMap, configs)
    BY <1>1, <1>5, ReplaceGet, StackFacts
  <1>7. /\ cache' \in [Prj -> [Field -> [Variant -> Found \cup {None}]]]
        /\ \A p \in Prj, f \in Field, v \in Variant :
              cache'[p][f][v] # None =>
                 \A k \in cache'[p][f][v].seen : BlockExists(k)
    BY <1>1, <1>2, CacheFoundSound
  <1>8. TablesTyped'
    BY <1>2, <1>3, <1>7 DEF TablesTyped, tables, usages, mainloop
  <1>9. \A k : BlockExists(k) => BlockExists(k)'
    BY <1>2 DEF BlockExists
  <1>10. TablesSound'
    BY <1>2, <1>3, <1>7, <1>9 DEF TablesSound, tables, usages, mainloop
  <1>11. bvMap' = bvMap /\ configs' = configs /\ script' = script
    BY <1>2 DEF tables
  <1> QED
    BY <1>6, <1>8, <1>9, <1>10, <1>11, InvNext

(* What is merged is a configuration, because every block found exists. *)
LEMMA MergedConfigTyped ==
    ASSUME BakeInv, NEW g, GoodGet(g)
    PROVE  MergedConfig(g) \in Config
  <1>1. TablesTyped
    BY TypedParts
  <1>2. /\ g.p \in Prj /\ g.filter \in Variant /\ g.seen \subseteq KB
        /\ \A k \in g.seen : BlockExists(k)
    BY DEF GoodGet, GetFrame, SoundGet
  <1>3. FoundBlocks(g) \subseteq Block
    <2>1. SUFFICES ASSUME NEW k \in g.seen, k.tag = "block"
                   PROVE  blocks[k.p][k.v] \in Block
      BY DEF FoundBlocks
    <2>2. k.p \in Prj /\ k.v \in Variant /\ blocks[k.p][k.v] # None
      BY <2>1, <1>2 DEF KB, BlockExists
    <2> QED
      BY <2>2, <1>1 DEF TablesTyped
  <1>4. /\ MergedStatic(g) \subseteq Target
        /\ MergedShared(g) \subseteq Target
        /\ MergedDepends(g) \subseteq Prj
    BY <1>3 DEF Block, MergedStatic, MergedShared, MergedDepends
  <1>5. MergedAlways(g) \subseteq Edge
    <2>1. \A p \in Prj : script.uses[p] \subseteq Edge
                         /\ script.exports[p] \subseteq Edge
      BY <1>1 DEF TablesTyped, Script
    <2>2. \A k \in g.seen : k.p \in Prj /\ k.tag \in {"real", "usage", "block"}
      BY <1>2 DEF KB
    <2>3. \A k \in g.seen : DeclaredUses(k) \subseteq Edge
      BY <2>1, <2>2 DEF DeclaredUses
    <2>4. \A x \in FoundBlocks(g) : x.always \subseteq Edge
      BY <1>3 DEF Block
    <2>5. \A k \in g.seen : AlwaysAmong(DeclaredUses(k)) \subseteq Edge
      BY <2>3 DEF AlwaysAmong
    <2> DEFINE A == UNION {x.always : x \in FoundBlocks(g)}
               B == UNION {AlwaysAmong(DeclaredUses(k)) : k \in g.seen}
    <2>6. A \subseteq Edge
      BY <2>4
    <2>7. B \subseteq Edge
      BY <2>5
    <2> QED
      BY <2>6, <2>7 DEF MergedAlways
  <1>6. UsedVariant(g) \in Variant
    BY <1>2 DEF Variant, UsedVariant
  <1> QED
    BY <1>2, <1>4, <1>5, <1>6 DEF Config, MergedConfig

(* getconfig ending, with the merged configuration handed to the addconfig *)
(* that called it, keeps the invariant.                                    *)
LEMMA GotConfigInv ==
    ASSUME BakeInv, GotConfig
    PROVE  BakeInv'
  <1> DEFINE cfg == MergedConfig(Top)
             n == Len(stack) - 1
             f == [stack[n] EXCEPT !.cfg = cfg, !.left = cfg.depends]
  <1>1. TopIs("getconfig") /\ CacheFound(Top)
    BY DEF GotConfig
  <1>2. /\ UNCHANGED <<script, tables, usages, ret, mainloop, status>>
        /\ blocks' = blocks
    BY DEF GotConfig, usages
  <1>3. TablesTyped /\ TablesSound
    BY TypedParts
  <1>4. /\ GoodGet(Top) /\ Len(stack) > 1 /\ stack # <<>>
        /\ stack[n] \in AddFrame /\ stack[n].fn = "addconfig"
    BY <1>1, TopGet
  <1>5. cfg \in Config /\ cfg.depends \subseteq Prj
    BY <1>4, MergedConfigTyped DEF Config
  <1> HIDE DEF cfg
  <1>6. /\ StackSound(Below) /\ Held(Below, bvMap, configs) /\ Once(Below)
        /\ Len(stack) \in Nat \ {0} /\ Len(Below) = n
        /\ \A i \in 1 .. Len(stack) - 1 : Below[i] = stack[i]
    BY <1>4, PopTop
  <1>7. n \in 1 .. Len(Below) /\ n \in Nat /\ Below[n] = stack[n]
    BY <1>4, <1>6
  <1>8. /\ f \in AddFrame /\ f.fn = "addconfig" /\ f.p = stack[n].p
        /\ f.init = stack[n].init /\ f.fin = stack[n].fin
    BY <1>4, <1>5 DEF AddFrame
  <1>9. stack' = [Below EXCEPT ![n] = f]
    BY <1>7 DEF GotConfig, cfg
  <1> HIDE DEF f, n
  <1>10. f \in Frame /\ Below \in Seq(Frame)
    BY <1>6, <1>8 DEF Frame, StackSound
  <1>11. /\ stack' \in Seq(Frame) /\ Len(stack') = Len(Below)
         /\ \A j \in 1 .. Len(Below) : stack'[j] = IF j = n THEN f ELSE Below[j]
    BY <1>7, <1>9, <1>10, ExceptSeq
  <1>12. SameCalls(Below, stack')
    BY <1>4, <1>7, <1>8, <1>11 DEF SameCalls
  <1>13. Held(stack', bvMap, configs) /\ Once(stack')
    BY <1>6, <1>12, SameCallsKeep
  <1>14. StackSound(stack')
    <2>1. SUFFICES ASSUME NEW i \in 1 .. Len(stack'),
                          stack'[i].fn = "getconfig"
                   PROVE  /\ i > 1 /\ stack'[i - 1].fn = "addconfig"
                          /\ SoundGet(stack'[i])
      BY <1>11 DEF StackSound
    <2>2. i # n /\ stack'[i] = Below[i]
      BY <2>1, <1>8, <1>11
    <2>3. i > 1 /\ Below[i - 1].fn = "addconfig" /\ SoundGet(Below[i])
      BY <2>1, <2>2, <1>6, <1>11 DEF StackSound
    <2>4. stack'[i - 1].fn = "addconfig"
      BY <2>3, <1>8, <1>11, <1>6, <1>7
    <2> QED
      BY <2>2, <2>3, <2>4
  <1>15. /\ cache' \in [Prj -> [Field -> [Variant -> Found \cup {None}]]]
         /\ \A p \in Prj, fd \in Field, v \in Variant :
               cache'[p][fd][v] # None =>
                  \A k \in cache'[p][fd][v].seen : BlockExists(k)
    BY <1>1, <1>2, CacheFoundSound
  <1>16. TablesTyped'
    BY <1>2, <1>3, <1>15 DEF TablesTyped, tables, usages, mainloop
  <1>17. \A k : BlockExists(k) => BlockExists(k)'
    BY <1>2 DEF BlockExists
  <1>18. TablesSound'
    BY <1>2, <1>3, <1>15, <1>17 DEF TablesSound, tables, usages, mainloop
  <1>19. bvMap' = bvMap /\ configs' = configs /\ script' = script
    BY <1>2 DEF tables
  <1>20. MapLeads(bvMap, configs)
    BY StackFacts
  <1> QED
    BY <1>13, <1>14, <1>16, <1>17, <1>18, <1>19, <1>20, InvNext

(* What addUsageConfig publishes is a block. *)
LEMMA UsageBlockTyped ==
    ASSUME BakeInv, NEW p \in Prj, NEW c \in Config
    PROVE  UsageBlock(p, c) \in Block
  <1>1. /\ c.static \subseteq Target /\ c.shared \subseteq Target
        /\ c.depends \subseteq Prj /\ c.always \subseteq Edge
        /\ c.bv \in Variant
    BY DEF Config
  <1>2. {[p |-> p, v |-> c.bv]} \subseteq Target
    BY <1>1 DEF Target
  <1> QED
    BY <1>1, <1>2 DEF UsageBlock, Block

(* Recording a configuration frees its placeholder; bakes of the same      *)
(* project that are still under way keep theirs or have their              *)
(* configuration.                                                          *)
LEMMA FinishConfigInv ==
    ASSUME BakeInv, FinishConfig
    PROVE  BakeInv'
  <1> DEFINE p == Top.p
             cfg == Top.cfg
             fin == cfg.bv
             init == Top.init
             found == usageFilter[p][fin] # None
             id == IF found THEN usageFilter[p][fin] ELSE fin
  <1>1. TopIs("addconfig") /\ cfg # None /\ stack' = Below
    BY DEF FinishConfig
  <1>2. Top \in AddFrame /\ Top.fn = "addconfig" /\ stack # <<>>
    BY <1>1, TopAdd
  <1>3. /\ p \in Prj /\ cfg \in Config /\ fin \in Variant /\ init \in Variant
        /\ cfg.filter \in Variant /\ Top.fin \in Variant
    BY <1>1, <1>2 DEF AddFrame, Config
  <1>4. TablesTyped /\ TablesSound
    BY TypedParts
  <1>5. /\ configs' = [configs EXCEPT ![p][fin] = cfg]
        /\ bvMap' = [bvMap EXCEPT ![p] = [@ EXCEPT ![init] = fin, ![fin] = fin]]
        /\ usageBaked' = usageBaked \cup {p}
        /\ blocks' = IF found THEN blocks
                     ELSE [blocks EXCEPT ![p][fin] = UsageBlock(p, cfg)]
        /\ usageFilter' = [usageFilter EXCEPT ![p] =
                             [@ EXCEPT ![fin] = id, ![init] = id]]
        /\ ret' = Returned(cfg)
        /\ UNCHANGED <<script, baked, prjToBuild, cache, mainloop, status>>
    BY DEF FinishConfig, SettleMap
  <1>6. id \in Variant
    BY <1>3, <1>4 DEF TablesTyped
  <1>7. UsageBlock(p, cfg) \in Block
    BY <1>3, UsageBlockTyped
  <1>8. blocks'[p][id] # None
    <2>1. CASE found
      BY <2>1, <1>3, <1>4, <1>5 DEF TablesSound
    <2>2. CASE ~found
      BY <2>2, <1>3, <1>4, <1>5, <1>7, NoneDistinct DEF TablesTyped
    <2> QED
      BY <2>1, <2>2
  <1> DEFINE ub == UsageBlock(p, cfg)
  <1> HIDE DEF p, cfg, fin, init, found, id, ub
  <1>9. blocks' \in [Prj -> [Variant -> Block \cup {None}]]
    BY <1>3, <1>4, <1>5, <1>7 DEF TablesTyped, ub
  <1>10. \A q, v : blocks[q][v] # None /\ q \in Prj /\ v \in Variant =>
                     blocks'[q][v] # None
    BY <1>3, <1>4, <1>5, <1>7, NoneDistinct DEF TablesTyped, ub
  <1>11. \A k \in KB : BlockExists(k) => BlockExists(k)'
    BY <1>10 DEF BlockExists, KB
  <1>12. usageFilter' \in [Prj -> [Variant -> Variant \cup {None}]]
    BY <1>3, <1>4, <1>5, <1>6 DEF TablesTyped
  <1>13. \A q \in Prj, v \in Variant : usageFilter'[q][v] # None =>
            blocks'[q][usageFilter'[q][v]] # None
    <2>1. SUFFICES ASSUME NEW q \in Prj, NEW v \in Variant,
                          usageFilter'[q][v] # None
                   PROVE  blocks'[q][usageFilter'[q][v]] # None
      OBVIOUS
    <2>2. \/ q = p /\ usageFilter'[q][v] = id
          \/ usageFilter'[q][v] = usageFilter[q][v]
      BY <1>3, <1>4, <1>5 DEF TablesTyped
    <2>3. usageFilter'[q][v] \in Variant
      BY <2>1, <1>12
    <2> QED
      BY <2>1, <2>2, <2>3, <1>4, <1>8, <1>10 DEF TablesSound
  <1>14. configs' \in [Prj -> [Variant -> Config \cup {None}]]
    BY <1>3, <1>4, <1>5 DEF TablesTyped
  <1>15. bvMap' \in [Prj -> [Variant -> Variant \cup {None, InProgress}]]
    BY <1>3, <1>5, TypedParts, MapStaysTyped
  <1>16. /\ ret' \in Return /\ ret'.bv # None /\ ret'.filter # None
    <2>1. cfg.bv \in Variant
      BY <1>3 DEF fin
    <2> QED
      BY <2>1, <1>3, <1>5, NoneDistinct DEF Returned, Return
  <1>17. TablesTyped'
    BY <1>3, <1>4, <1>5, <1>9, <1>12, <1>14, <1>15, <1>16
       DEF TablesTyped, mainloop
  <1>18. TablesSound'
    <2>1. ASSUME NEW q \in Prj, NEW f \in Field, NEW v \in Variant,
                 cache'[q][f][v] # None, NEW k \in cache'[q][f][v].seen
          PROVE  BlockExists(k)'
      <3>1. cache[q][f][v] \in Found
        BY <1>4, <1>5, <2>1 DEF TablesTyped
      <3>2. k \in KB
        BY <1>5, <2>1, <3>1 DEF Found
      <3> QED
        BY <1>4, <1>5, <1>11, <2>1, <3>2 DEF TablesSound
    <2> QED
      BY <2>1, <1>4, <1>5, <1>13, <1>16 DEF TablesSound, mainloop
  (* What the step does to the map and to the configurations. *)
  <1>19. /\ \A q \in Prj, v \in Variant : configs[q][v] # None =>
                                            configs'[q][v] # None
         /\ configs'[p][fin] # None
    BY <1>3, <1>4, <1>5, NoneDistinct DEF TablesTyped
  <1>20. \A q \in Prj, v \in Variant :
            \/ q = p /\ v \in {init, fin} /\ bvMap'[q][v] = fin
            \/ bvMap'[q][v] = bvMap[q][v]
    BY <1>3, <1>4, <1>5 DEF TablesTyped
  <1>21. MapLeads(bvMap', configs')
    BY <1>19, <1>20, StackFacts DEF MapLeads
  <1>22. /\ StackSound(stack') /\ Held(stack', bvMap, configs) /\ Once(stack')
         /\ Len(stack) \in Nat \ {0} /\ Len(stack') = Len(stack) - 1
         /\ \A i \in 1 .. Len(stack) - 1 : stack'[i] = stack[i]
    BY <1>1, <1>2, PopTop
  <1>23. Held(stack', bvMap', configs')
    <2>1. SUFFICES ASSUME NEW i \in 1 .. Len(stack'),
                          stack'[i].fn = "addconfig",
                          stack'[i].p \notin script.single
                   PROVE  /\ stack'[i].init = stack'[i].fin
                          /\ \/ bvMap'[stack'[i].p][stack'[i].fin] = InProgress
                             \/ configs'[stack'[i].p][stack'[i].fin] # None
      BY DEF Held
    <2>2. stack'[i].p \in Prj /\ stack'[i].fin \in Variant
      BY <2>1, <1>22, ElementOfSeq, FrameKinds DEF StackSound, AddFrame
    <2>3. /\ stack'[i].init = stack'[i].fin
          /\ \/ bvMap[stack'[i].p][stack'[i].fin] = InProgress
             \/ configs[stack'[i].p][stack'[i].fin] # None
      BY <2>1, <1>22 DEF Held
    (* The call that returns was baked under the name it was asked for, so *)
    (* no other call of this project is under way under that name.         *)
    <2>4. ~(stack'[i].p = p /\ stack'[i].fin = init)
      <3>1. SUFFICES ASSUME stack'[i].p = p, stack'[i].fin = init
                     PROVE  FALSE
        OBVIOUS
      <3>2. /\ Len(stack) \in 1 .. Len(stack) /\ i \in 1 .. Len(stack)
            /\ i # Len(stack) /\ stack'[i] = stack[i]
        BY <2>1, <1>22
      <3>3. stack[Len(stack)].fn = "addconfig" /\ stack[Len(stack)].p = p
            /\ stack[Len(stack)].init = init
        BY <1>2 DEF Top, p, init
      <3>4. p \notin script.single
        BY <2>1, <3>1
      <3>5. stack[Len(stack)].init = stack[Len(stack)].fin
        BY <3>2, <3>3, <3>4, StackFacts DEF Held
      <3>6. Once(stack)
        BY StackFacts
      <3> QED
        BY <2>1, <3>1, <3>2, <3>3, <3>4, <3>5, <3>6 DEF Once
    <2>5. CASE stack'[i].p = p /\ stack'[i].fin = fin
      BY <2>3, <2>5, <1>19
    <2>6. CASE ~(stack'[i].p = p /\ stack'[i].fin = fin)
      BY <2>2, <2>3, <2>4, <2>6, <1>19, <1>20
    <2> QED
      BY <2>5, <2>6
  <1> QED
    BY <1>5, <1>11, <1>17, <1>18, <1>21, <1>22, <1>23, InvNext

-----------------------------------------------------------------------------
(* The theorems *)

(* Every step of Next keeps the invariant. *)
LEMMA NextInv == BakeInv /\ [Next]_vars => BakeInv'
  <1> SUFFICES ASSUME BakeInv, [Next]_vars
               PROVE  BakeInv'
    OBVIOUS
  <1>1. ASSUME NEW p \in Prj, StartProject(p) PROVE BakeInv'
    BY <1>1, StartProjectInv
  <1>2. ASSUME NEW p \in Prj, CompileDepend(p) PROVE BakeInv'
    BY <1>2, CompileDependInv
  <1>3. ASSUME NEW e \in Edge, Use(e) PROVE BakeInv'
    BY <1>3, UseInv
  <1>4. CASE AddDefault
    BY <1>4, AddDefaultInv
  <1>5. CASE BakeallDone
    BY <1>5, BakeallDoneInv
  <1>6. CASE EnterUsage
    BY <1>6, EnterUsageInv
  <1>7. CASE LeaveKB
    BY <1>7, LeaveKBInv
  <1>8. CASE GotFilter
    BY <1>8, GotFilterInv
  <1>9. CASE GotConfig
    BY <1>9, GotConfigInv
  <1>10. CASE FinishConfig
    BY <1>10, FinishConfigInv
  <1>11. CASE UNCHANGED vars
    <2>1. baked' \subseteq script.real /\ status' \in {"bake", "done", "crash"}
      BY <1>11, TypedParts DEF TablesTyped, vars, tables
    <2> QED
      BY <1>11, <2>1, LoopStep DEF vars, tables, mainloop
  <1> QED
    BY <1>1, <1>2, <1>3, <1>4, <1>5, <1>6, <1>7, <1>8, <1>9, <1>10, <1>11
       DEF Next, Halted

(* The inductive invariant holds throughout, for every set of scripts.     *)
THEOREM BakeInvariant == Spec => []BakeInv
  BY InitInv, NextInv, PTL DEF Spec

(* premake's baking tables keep their types in every script.               *)
THEOREM BakeTypes == Spec => []TypeOK
  <1>1. BakeInv => TypeOK
    BY DEF BakeInv
  <1> QED
    BY <1>1, BakeInvariant, PTL

(* The recursion guard of project.addconfig is never lost: the map of an   *)
(* ordinary project leads to configurations, and a bake under way keeps    *)
(* its placeholder until there is a configuration in its place.            *)
THEOREM BakePlaceholders == Spec => []PlaceholdersHeld
  <1>1. BakeInv => PlaceholdersHeld
    BY DEF BakeInv
  <1> QED
    BY <1>1, BakeInvariant, PTL

(* project.addconfig never enters the bake of an ordinary project's        *)
(* configuration while that bake is under way.                             *)
THEOREM BakeNotReentrant == Spec => []NoReentrantBake
  <1>1. BakeInv => NoReentrantBake
    BY DEF BakeInv
  <1> QED
    BY <1>1, BakeInvariant, PTL

-----------------------------------------------------------------------------
(* Stacks and tables that grow *)

(* Every configuration of c is one of d too. *)
Grows(c, d) == \A p \in Prj, v \in Variant : c[p][v] # None => d[p][v] # None

(* What was there to be linked is still there. *)
LEMMA LinksStay ==
    ASSUME NEW x \in Config \cup Block, NEW b, NEW c, NEW b2, NEW d,
           b \subseteq b2, Grows(c, d), LinksExist(x, b, c)
    PROVE  LinksExist(x, b2, d)
  <1>1. x.static \subseteq Target /\ x.shared \subseteq Target
    BY DEF Config, Block
  <1> QED
    BY <1>1 DEF LinksExist, Grows, Target

(* The frames stay tracked when more is built and baked. *)
LEMMA TrackedStay ==
    ASSUME NEW s \in Seq(Frame), NEW b, NEW c, NEW b2, NEW d,
           b \subseteq b2, Grows(c, d), FramesTracked(s, b, c)
    PROVE  FramesTracked(s, b2, d)
  <1> SUFFICES ASSUME NEW i \in 1 .. Len(s), s[i].fn = "addconfig"
               PROVE  AddTracked(s[i], b2, d)
    BY DEF FramesTracked
  <1>1. s[i] \in AddFrame
    BY ElementOfSeq, FrameKinds
  <1>2. AddTracked(s[i], b, c)
    BY DEF FramesTracked
  <1>3. s[i].cfg # None => s[i].cfg \in Config
    BY <1>1 DEF AddFrame
  <1> QED
    BY <1>2, <1>3, LinksStay DEF AddTracked

(* The innermost frame replaced by one of the same call. *)
LEMMA TrackedReplace ==
    ASSUME BakeInv, stack # <<>>, NEW f \in Frame, f.fn = Top.fn, NEW b, NEW c,
           FramesTracked(stack, b, c),
           f.fn = "addconfig" => AddTracked(f, b, c),
           f.fn = "getconfig" => f.p = Top.p /\ f.filter = Top.filter
    PROVE  FramesTracked(Replace(f), b, c)
  <1> DEFINE r == Replace(f)
             n == Len(stack)
  <1>1. stack \in Seq(Frame) /\ StackSound(stack) /\ n \in Nat
    BY StackFacts
  <1>2. /\ Len(r) = n /\ r[n] = f /\ n \in Nat \ {0}
        /\ \A i \in 1 .. n - 1 : r[i] = stack[i]
    <2>1. Replaced(Append(SubSeq(stack, 1, Len(stack) - 1), f), stack, f, Frame)
      BY <1>1, ReplaceOnStack
    <2>2. Replaced(r, stack, f, Frame)
      BY <2>1 DEF Replace, Below
    <2> QED
      BY <2>2 DEF Replaced
  <1> HIDE DEF r
  <1>3. stack[n] = Top
    BY DEF Top
  <1>4. \A i \in 1 .. n : stack[i].fn = "getconfig" => i > 1
    BY <1>1 DEF StackSound
  <1>5. ASSUME NEW i \in 1 .. n
        PROVE  /\ r[i].fn = "addconfig" => AddTracked(r[i], b, c)
               /\ r[i].fn = "getconfig" => GetTracked(r[i], r[i - 1])
    <2>1. CASE i = n
      <3>1. r[i].fn = "getconfig" => r[i - 1] = stack[i - 1]
        BY <2>1, <1>2, <1>3, <1>4
      <3>2. f.fn = "getconfig" => GetTracked(stack[n], stack[n - 1])
        <4>1. n \in 1 .. n /\ stack[n].fn = f.fn
          BY <1>2, <1>3
        <4> QED
          BY <4>1 DEF FramesTracked
      <3> QED
        BY <2>1, <3>1, <3>2, <1>2, <1>3 DEF GetTracked
    <2>2. CASE i \in 1 .. n - 1
      <3>1. r[i] = stack[i] /\ (r[i].fn = "getconfig" => r[i - 1] = stack[i - 1])
        BY <2>2, <1>2, <1>4
      <3> QED
        BY <3>1 DEF FramesTracked
    <2> QED
      BY <2>1, <2>2, <1>2
  <1>6. FramesTracked(r, b, c)
    BY <1>2, <1>5 DEF FramesTracked
  <1> QED
    BY <1>6 DEF r

(* The same bakes are under way when the calls are the same. *)
LEMMA SameUnderWay ==
    ASSUME NEW s, NEW t, SameCalls(s, t), NEW m, NEW c, MapTracked(m, s, c)
    PROVE  MapTracked(m, t, c)
  <1>1. \A p, v : UnderWay(s, p, v) => UnderWay(t, p, v)
    BY DEF UnderWay, SameCalls
  <1> QED
    BY <1>1 DEF MapTracked

(* A step that leaves the tables alone, but for what was built and found.  *)
LEMMA TrackedNext ==
    ASSUME Tracked, script' = script, configs' = configs, blocks' = blocks,
           FramesTracked(stack', prjToBuild', configs),
           MapTracked(bvMap', stack', configs),
           prjToBuild \subseteq prjToBuild', prjToBuild' \subseteq baked' \cup toBake',
           TypeOK, RequestsMet'
    PROVE  Tracked'
  <1>1. TablesLinked(blocks, prjToBuild', configs)
    <2>1. Grows(configs, configs)
      BY DEF Grows
    <2>2. \A p \in Prj, v \in Variant :
             /\ configs[p][v] # None => configs[p][v] \in Config
             /\ blocks[p][v] # None => blocks[p][v] \in Block
      BY DEF TypeOK
    <2> QED
      BY <2>1, <2>2, LinksStay DEF TablesLinked, Tracked
  <1>2. FramesTracked(stack, prjToBuild, configs)'
    BY DEF FramesTracked, AddTracked, GetTracked, LinksExist
  <1>3. MapTracked(bvMap, stack, configs)'
    BY DEF MapTracked, UnderWay
  <1>4. TablesLinked(blocks, prjToBuild, configs)'
    BY <1>1 DEF TablesLinked, LinksExist
  <1> QED
    BY <1>2, <1>3, <1>4 DEF Tracked

-----------------------------------------------------------------------------
(* project.addconfig *)

(* Two frames pushed. *)
LEMMA TrackedPush ==
    ASSUME NEW s, NEW f, NEW g, NEW r, Pushed(r, s, f, g), s \in Seq(Frame),
           f.fn = "addconfig", g.fn = "getconfig", NEW b, NEW c,
           FramesTracked(s, b, c), AddTracked(f, b, c), GetTracked(g, f),
           StackSound(s)
    PROVE  /\ FramesTracked(r, b, c)
           /\ UnderWay(r, f.p, f.fin)
           /\ \A p, v : UnderWay(s, p, v) => UnderWay(r, p, v)
  <1>1. Len(s) \in Nat
    BY LenProperties
  <1>2. /\ Len(r) = Len(s) + 2 /\ r[Len(s) + 1] = f /\ r[Len(s) + 2] = g
        /\ \A i \in 1 .. Len(s) : r[i] = s[i]
    BY DEF Pushed
  <1>3. ASSUME NEW i \in 1 .. Len(r)
        PROVE  /\ r[i].fn = "addconfig" => AddTracked(r[i], b, c)
               /\ r[i].fn = "getconfig" => GetTracked(r[i], r[i - 1])
    <2>1. CASE i \in 1 .. Len(s)
      <3>1. r[i] = s[i] /\ (s[i].fn = "getconfig" => r[i - 1] = s[i - 1])
        BY <2>1, <1>1, <1>2 DEF StackSound
      <3> QED
        BY <2>1, <3>1 DEF FramesTracked
    <2>2. CASE i = Len(s) + 1
      BY <2>2, <1>2
    <2>3. CASE i = Len(s) + 2
      <3>1. i - 1 = Len(s) + 1
        BY <2>3, <1>1
      <3> QED
        BY <2>3, <3>1, <1>2
    <2> QED
      BY <2>1, <2>2, <2>3, <1>1, <1>2
  <1>4. FramesTracked(r, b, c)
    BY <1>3 DEF FramesTracked
  <1>5. UnderWay(r, f.p, f.fin)
    <2>1. Len(s) + 1 \in 1 .. Len(r)
      BY <1>1, <1>2
    <2> QED
      BY <2>1, <1>2 DEF UnderWay
  <1>6. ASSUME NEW p, NEW v, UnderWay(s, p, v)
        PROVE  UnderWay(r, p, v)
    <2>1. 1 .. Len(s) \subseteq 1 .. Len(r)
      BY <1>1, <1>2
    <2> QED
      BY <2>1, <1>2, <1>6 DEF UnderWay
  <1> QED
    BY <1>4, <1>5, <1>6

(* What GetStart reads. *)
LEMMA GetStartReads ==
    ASSUME NEW p, NEW v, NEW f
    PROVE  /\ GetStart(p, v, f).p = p /\ GetStart(p, v, f).filter = v
           /\ GetStart(p, v, f).fn = "getconfig"
  BY DEF GetStart

(* What a call of addconfig leaves behind.  below is the caller's stack. *)
LEMMA CallTracked ==
    ASSUME BakeInv, Tracked, NEW p \in Prj, NEW v,
           p \in script.real => v \in Variant,
           NEW below, StackSound(below), SameCalls(stack, below),
           FramesTracked(below, prjToBuild, configs),
           addconfig(p, v, below), UNCHANGED <<configs, toBake>>
    PROVE  /\ FramesTracked(stack', prjToBuild', configs)
           /\ MapTracked(bvMap', stack', configs)
           /\ prjToBuild \subseteq prjToBuild'
           /\ prjToBuild' \subseteq baked' \cup toBake'
           /\ \A q \in Prj, w \in Variant : bvMap[q][w] # None => bvMap'[q][w] # None
           /\ p \in script.real =>
                 \/ bvMap'[p][v] # None
                 \/ configs[p][IF p \in script.single THEN AllVariant ELSE v] # None
  <1> DEFINE fin == applyBuildVariantMap(p, v)
             frame == [fn |-> "addconfig", p |-> p, init |-> v, fin |-> fin,
                       cfg |-> None, left |-> {}]
             get == GetStart(p, fin, "usesconfig")
  <1>1. /\ TypeOK /\ TablesSound /\ MapLeads(bvMap, configs)
        /\ below \in Seq(Frame) /\ MapTracked(bvMap, below, configs)
    BY StackFacts, SameUnderWay DEF BakeInv, StackSound, Tracked
  <1>2. prjToBuild \subseteq prjToBuild' /\ prjToBuild' \subseteq baked' \cup toBake'
    BY DEF addconfig, Built, Tracked
  <1>3. FramesTracked(below, prjToBuild', configs)
    BY <1>1, <1>2, TrackedStay DEF Grows
  <1>4. CASE ~HasProject(p)
    BY <1>1, <1>2, <1>3, <1>4 DEF addconfig, HasProject
  <1>5. CASE HasProject(p)
    <2>1. p \in script.real /\ v \in Variant /\ p \in prjToBuild'
      BY <1>5 DEF addconfig, HasProject, Built
    <2>2. fin \in Variant \cup {InProgress}
      BY <1>1, <2>1, FinalIsVariant
    <2>3. bvMap[p][v] = None => fin = IF p \in script.single THEN AllVariant ELSE v
      BY DEF applyBuildVariantMap
    <2>4. bvMap[p][v] # None => fin = bvMap[p][v]
      BY DEF applyBuildVariantMap
    <2>5. p \in script.single /\ fin # InProgress => fin = AllVariant
      BY <2>1, <2>2, <2>3, <2>4, <1>1 DEF MapTracked
    <2> HIDE DEF fin
    <2>6. CASE /\ fin = InProgress \/ configs[p][fin] # None
               /\ stack' = below /\ bvMap' = bvMap
      <3>1. \/ bvMap'[p][v] # None
            \/ configs[p][IF p \in script.single THEN AllVariant ELSE v] # None
        BY <2>1, <2>3, <2>6, AllIsVariant, NoneDistinct
      <3> QED
        BY <1>1, <1>2, <1>3, <2>6, <3>1
    <2>7. CASE /\ fin # InProgress /\ configs[p][fin] = None
               /\ bvMap' = [bvMap EXCEPT ![p] =
                                [@ EXCEPT ![v] = fin, ![fin] = InProgress]]
      <3>1. fin \in Variant
        BY <2>2, <2>7
      <3>2. \A q \in Prj, w \in Variant :
               \/ q = p /\ w = fin /\ bvMap'[q][w] = InProgress
               \/ q = p /\ w = v /\ w # fin /\ bvMap'[q][w] = fin
               \/ bvMap'[q][w] = bvMap[q][w]
        BY <2>1, <2>7, <3>1, <1>1 DEF TypeOK
      <3>3. bvMap'[p][v] # None
        BY <2>1, <2>7, <3>1, <1>1, NoneDistinct DEF TypeOK
      <3>4. \A q \in Prj, w \in Variant : bvMap[q][w] # None => bvMap'[q][w] # None
        BY <3>1, <3>2, NoneDistinct
      <3>5. CASE /\ fin = AllVariant /\ p \notin script.single
                 /\ stack' = below
        <4>1. v = fin
          BY <2>1, <2>7, <3>5, <1>1, EnterOrdinary DEF fin
        <4>2. MapTracked(bvMap', stack', configs)
          BY <1>1, <3>2, <3>5, <4>1 DEF MapTracked
        <4> QED
          BY <1>2, <1>3, <3>3, <3>4, <3>5, <4>2
      <3>6. CASE /\ ~(fin = AllVariant /\ p \notin script.single)
                 /\ stack' = Append(Append(below, frame), get)
        <4>1. frame \in AddFrame
          BY <2>1, <3>1 DEF AddFrame
        <4>2. get \in GetFrame /\ SoundGet(get)
          BY <1>1, <2>1, <3>1, GetStartSound DEF Field
        <4>3. GetTracked(get, frame) /\ get.fn = "getconfig"
          BY GetStartReads DEF GetTracked
        <4>4. AddTracked(frame, prjToBuild', configs) /\ frame.fn = "addconfig"
          BY <2>1, <2>5, <2>7 DEF AddTracked
        <4> HIDE DEF get
        <4>5. Pushed(stack', below, frame, get)
          BY <3>6, <4>1, <4>2, PushBake
        <4>6. frame.p = p /\ frame.fin = fin
          OBVIOUS
        <4> HIDE DEF frame
        <4>7. /\ FramesTracked(stack', prjToBuild', configs)
              /\ UnderWay(stack', p, fin)
              /\ \A q, w : UnderWay(below, q, w) => UnderWay(stack', q, w)
          BY <1>1, <1>3, <4>3, <4>4, <4>5, <4>6, TrackedPush
        <4>8. MapTracked(bvMap', stack', configs)
          <5> SUFFICES ASSUME NEW q \in Prj, NEW w \in Variant
                       PROVE  /\ bvMap'[q][w] = InProgress =>
                                   \/ w = AllVariant /\ q \notin script.single
                                   \/ UnderWay(stack', q, w)
                              /\ (q \in script.single /\ bvMap'[q][w] \in Variant) =>
                                   /\ bvMap'[q][w] = AllVariant
                                   /\ \/ configs[q][AllVariant] # None
                                      \/ UnderWay(stack', q, AllVariant)
            BY DEF MapTracked
          <5>1. CASE bvMap'[q][w] = bvMap[q][w]
            BY <5>1, <1>1, <4>7 DEF MapTracked
          <5>2. CASE q = p /\ w = fin /\ bvMap'[q][w] = InProgress
            BY <5>2, <4>7, NoneDistinct
          <5>3. CASE q = p /\ bvMap'[q][w] = fin
            BY <5>3, <2>5, <2>7, <4>7
          <5> QED
            BY <5>1, <5>2, <5>3, <3>2
        <4> QED
          BY <1>2, <3>3, <3>4, <4>7, <4>8
      <3> QED
        BY <2>7, <3>5, <3>6, <1>5 DEF addconfig, fin, frame, get
    <2> QED
      BY <1>5, <2>6, <2>7 DEF addconfig, fin
  <1> QED
    BY <1>4, <1>5

-----------------------------------------------------------------------------
(* The steps *)

(* What was asked for stays asked for. *)
LEMMA RequestsStay ==
    ASSUME BakeInv, Tracked, script' = script,
           UNCHANGED <<toBake, current, queue>>, Grows(configs, configs'),
           \A q \in Prj, w \in Variant : bvMap[q][w] # None => bvMap'[q][w] # None
    PROVE  RequestsMet'
  <1>1. script.requested \subseteq Prj
    BY ScriptsAreScripts DEF Tracked, Script
  <1>2. \A i \in DOMAIN BuildCfgs : Default(i) \in Variant
    BY DEF Default, Variant, Cfg
  <1>3. \A q \in Prj, w \in Variant : Named(q, w) => Named(q, w)'
    BY AllIsVariant DEF Named, Grows
  <1> QED
    BY <1>1, <1>2, <1>3 DEF RequestsMet, Tracked

(* The invariant holds before bakeall starts. *)
LEMMA TrackedInit == Init => Tracked
  <1> SUFFICES ASSUME Init PROVE Tracked
    OBVIOUS
  <1>1. Len(stack) = 0
    BY DEF Init
  <1>2. FramesTracked(stack, prjToBuild, configs)
    BY <1>1 DEF FramesTracked
  <1>3. MapTracked(bvMap, stack, configs)
    BY NoneDistinct DEF Init, MapTracked
  <1>4. TablesLinked(blocks, prjToBuild, configs)
    BY DEF Init, TablesLinked
  <1> QED
    BY <1>2, <1>3, <1>4 DEF Init, Tracked, RequestsMet

(* The innermost frame of a stack that is known to be sound. *)
LEMMA NewTop ==
    ASSUME BakeInv, BakeInv', stack # <<>>, NEW g, stack' = Replace(g)
    PROVE  /\ g \in Frame /\ Len(stack') = Len(stack) /\ Len(stack) \in Nat \ {0}
           /\ stack'[Len(stack)] = g
           /\ \A i \in 1 .. Len(stack) - 1 : stack'[i] = stack[i]
  <1> DEFINE S == Frame \cup {g}
  <1>1. stack \in Seq(Frame)
    BY StackFacts
  <1>2. stack \in Seq(S) /\ g \in S
    BY <1>1
  <1> HIDE DEF S
  <1>3. Replaced(Append(SubSeq(stack, 1, Len(stack) - 1), g), stack, g, S)
    BY <1>2, ReplaceOnStack
  <1>4. Replaced(stack', stack, g, S)
    BY <1>3 DEF Replace, Below
  <1>5. stack' \in Seq(Frame)
    BY DEF BakeInv, TypeOK
  <1> QED
    BY <1>4, <1>5, ElementOfSeq DEF Replaced

(* Steps of findBlocks, which only work on their own frame. *)
LEMMA FindTracked ==
    ASSUME BakeInv, BakeInv', Tracked, TopIs("getconfig"), NEW g,
           g.fn = "getconfig", g.p = Top.p, g.filter = Top.filter,
           stack' = Replace(g),
           UNCHANGED <<script, tables, blocks, mainloop>>
    PROVE  Tracked'
  <1>1. g \in Frame /\ Top.fn = "getconfig" /\ stack # <<>>
    BY NewTop DEF TopIs
  <1>2. SameCalls(stack, stack')
    BY <1>1, NewTop DEF SameCalls, Top
  <1>3. FramesTracked(stack', prjToBuild, configs)
    BY <1>1, TrackedReplace DEF Tracked
  <1>4. MapTracked(bvMap, stack', configs)
    BY <1>2, SameUnderWay DEF Tracked
  <1>5. UNCHANGED <<baked, prjToBuild, bvMap, configs, toBake, current, queue>>
    BY DEF tables, mainloop
  <1>6. RequestsMet'
    BY <1>5, RequestsStay DEF Grows
  <1> QED
    BY <1>3, <1>4, <1>5, <1>6, TrackedNext DEF Tracked, BakeInv

(* A Lua error leaves everything as it was. *)
LEMMA QuietTracked ==
    ASSUME BakeInv, Tracked,
           UNCHANGED <<script, prjToBuild, bvMap, configs, blocks, stack>>,
           RequestsMet', prjToBuild \subseteq baked' \cup toBake'
    PROVE  Tracked'
  BY TrackedNext DEF Tracked, BakeInv

(* A step that leaves bakeall's loop and the tables alone. *)
LEMMA SameTracked ==
    ASSUME BakeInv, Tracked, UNCHANGED <<script, tables, blocks, stack, mainloop>>
    PROVE  Tracked'
  <1>1. UNCHANGED <<baked, prjToBuild, bvMap, configs, toBake, current, queue>>
    BY DEF tables, mainloop
  <1>2. RequestsMet'
    BY <1>1, RequestsStay DEF Grows
  <1> QED
    BY <1>1, <1>2, QuietTracked DEF Tracked

(* bakeall moves on: its project's configurations are now in the queue. *)
LEMMA StartProjectTracked ==
    ASSUME BakeInv, Tracked, NEW p \in Prj, StartProject(p)
    PROVE  Tracked'
  <1>1. /\ UNCHANGED <<script, prjToBuild, bvMap, configs, blocks, stack>>
        /\ queue = <<>> /\ current' = p /\ toBake' = toBake \ {p}
        /\ baked' = baked \cup {p}
        /\ queue' = [i \in DOMAIN BuildCfgs |-> Default(i)]
    BY DEF StartProject, usages, Default
  <1>2. \A i \in DOMAIN BuildCfgs : \E j \in 1 .. Len(queue') : queue'[j] = Default(i)
    BY <1>1, BuildCfgsSequence, LenProperties
  <1>3. RequestsMet'
    <2>1. \A q, w : Named(q, w) => Named(q, w)'
      BY <1>1 DEF Named
    <2>2. ~\E j \in 1 .. Len(queue) : TRUE
      BY <1>1
    <2> QED
      BY <1>1, <1>2, <2>1, <2>2 DEF RequestsMet, Tracked
  <1> QED
    BY <1>1, <1>3, QuietTracked DEF Tracked

(* A step that calls addconfig, other than bakeall's. *)
LEMMA CallsTracked ==
    ASSUME BakeInv, Tracked, NEW p \in Prj, NEW v,
           p \in script.real => v \in Variant,
           NEW below, StackSound(below), SameCalls(stack, below),
           FramesTracked(below, prjToBuild, configs), addconfig(p, v, below),
           UNCHANGED <<script, configs, blocks, toBake>>,
           (/\ FramesTracked(stack', prjToBuild', configs)
            /\ MapTracked(bvMap', stack', configs)
            /\ prjToBuild \subseteq prjToBuild'
            /\ prjToBuild' \subseteq baked' \cup toBake'
            /\ \A q \in Prj, w \in Variant : bvMap[q][w] # None => bvMap'[q][w] # None
            /\ p \in script.real =>
                 \/ bvMap'[p][v] # None
                 \/ configs[p][IF p \in script.single THEN AllVariant ELSE v] # None)
              => RequestsMet'
    PROVE  Tracked'
  BY CallTracked, TrackedNext DEF BakeInv

(* bakeall asks for a configuration, which then has a name. *)
LEMMA AddDefaultTracked ==
    ASSUME BakeInv, Tracked, AddDefault
    PROVE  Tracked'
  <1>1. TablesTyped /\ TablesSound
    BY TypedParts
  <1>2. /\ StackSound(stack) /\ SameCalls(stack, stack)
        /\ FramesTracked(stack, prjToBuild, configs)
    BY StackFacts DEF SameCalls, Tracked
  <1>3. queue # <<>> /\ queue \in Seq(Variant) /\ queue' = Tail(queue)
    BY <1>1 DEF AddDefault, TablesTyped
  <1>4. Head(queue) \in Variant
    BY <1>3, HeadTailProperties
  <1>5. current \in Prj /\ current \in script.real
    BY <1>1, <1>3 DEF TablesTyped, TablesSound
  <1>6. /\ UNCHANGED <<script, configs, blocks, toBake, current>>
        /\ addconfig(current, Head(queue), stack)
    BY DEF AddDefault, usages
  <1>7. /\ \A q \in Prj, w \in Variant : bvMap[q][w] # None => bvMap'[q][w] # None
        /\ \/ bvMap'[current][Head(queue)] # None
           \/ configs[current][IF current \in script.single THEN AllVariant
                               ELSE Head(queue)] # None
    BY <1>2, <1>4, <1>5, <1>6, CallTracked
  <1>8. RequestsMet'
    <2>1. \A q, w : q = current /\ w = Head(queue) => Named(q, w)'
      BY <1>6, <1>7 DEF Named
    <2>2. \A q \in Prj, w \in Variant : Named(q, w) => Named(q, w)'
      BY <1>6, <1>7 DEF Named
    <2>3. \A j \in 1 .. Len(queue) : \/ queue[j] = Head(queue)
                                     \/ \E k \in 1 .. Len(queue') : queue'[k] = queue[j]
      <3> SUFFICES ASSUME NEW j \in 1 .. Len(queue), j # 1
                   PROVE  j - 1 \in 1 .. Len(queue') /\ queue'[j - 1] = queue[j]
        BY <1>3
      <3> QED
        BY <1>3
    <2>4. script.requested \subseteq Prj
      BY ScriptsAreScripts DEF Tracked, Script
    <2>5. \A i \in DOMAIN BuildCfgs : Default(i) \in Variant
      BY DEF Default, Variant, Cfg
    <2>6. SUFFICES ASSUME NEW p \in script.requested, NEW i \in DOMAIN BuildCfgs
                   PROVE  \/ p \in toBake
                          \/ /\ p = current
                             /\ \E j \in 1 .. Len(queue') : queue'[j] = Default(i)
                          \/ Named(p, Default(i))'
      BY <1>6 DEF RequestsMet, Default
    <2>7. \/ p \in toBake
          \/ p = current /\ \E j \in 1 .. Len(queue) : queue[j] = Default(i)
          \/ Named(p, Default(i))
      BY DEF Tracked, RequestsMet
    <2>8. CASE p = current /\ \E j \in 1 .. Len(queue) : queue[j] = Default(i)
      BY <2>1, <2>3, <2>8
    <2>9. CASE Named(p, Default(i))
      BY <2>2, <2>4, <2>5, <2>9
    <2> QED
      BY <2>7, <2>8, <2>9
  <1> QED
    BY <1>2, <1>4, <1>5, <1>6, <1>8, CallsTracked

(* Baking a compile dependency. *)
LEMMA CompileDependTracked ==
    ASSUME BakeInv, Tracked, NEW q \in Prj, CompileDepend(q)
    PROVE  Tracked'
  <1> DEFINE f == [Top EXCEPT !.left = @ \ {q}]
  <1>1. Top \in AddFrame /\ Top.fn = "addconfig" /\ stack # <<>>
    BY TopAdd DEF CompileDepend
  <1>2. Top.cfg.bv \in Variant
    BY <1>1 DEF CompileDepend, AddFrame, Config
  <1>3. /\ f \in AddFrame /\ f.fn = "addconfig" /\ f.p = Top.p
        /\ f.init = Top.init /\ f.fin = Top.fin /\ f.cfg = Top.cfg
    BY <1>1 DEF AddFrame
  <1> HIDE DEF f
  <1>4. StackSound(Replace(f)) /\ SameCalls(stack, Replace(f))
    BY <1>1, <1>3, ReplaceTop DEF Frame
  <1>5. addconfig(q, Top.cfg.bv, Replace(f))
    BY DEF CompileDepend, f
  <1>6. UNCHANGED <<script, configs, blocks, toBake, current, queue>>
    BY DEF CompileDepend, mainloop, usages
  <1>7. AddTracked(Top, prjToBuild, configs)
    <2>1. Len(stack) \in 1 .. Len(stack)
      BY <1>1, StackFacts, FrontOfStack
    <2> QED
      BY <1>1, <2>1 DEF Tracked, FramesTracked, Top
  <1>8. FramesTracked(Replace(f), prjToBuild, configs)
    BY <1>1, <1>3, <1>7, TrackedReplace DEF Tracked, AddTracked, Frame
  <1>9. RequestsMet'
    BY <1>2, <1>4, <1>5, <1>6, <1>8, CallTracked, RequestsStay DEF Grows
  <1> QED
    BY <1>2, <1>4, <1>5, <1>6, <1>8, <1>9, CallsTracked

(* Following a use. *)
LEMMA UseTracked ==
    ASSUME BakeInv, Tracked, NEW e \in Edge, Use(e)
    PROVE  Tracked'
  <1> DEFINE a == LastAct(Top)
             x == [a EXCEPT !.left = @ \ {e}, !.call = e]
             g == [Top EXCEPT !.acts = Append(OuterActs(Top), x)]
  <1>1. TopIs("getconfig") /\ Top.acts # <<>> /\ stack # <<>>
    BY DEF Use, TopIs
  <1>2. GoodGet(Top)
    BY <1>1, TopGet
  <1>3. a \in Act /\ SoundAct(a)
    BY <1>1, <1>2, ActFacts
  <1>4. CASE Crash
    BY <1>4, SameTracked DEF Crash, usages
  <1>5. CASE /\ ~(a.env.bv = None /\ (e.with # {} \/ e.to \in script.real))
             /\ addconfig(e.to, UseVariant(a.env, e), Replace(g))
             /\ UNCHANGED <<script, configs, usages, cache, mainloop, status>>
    <2> HIDE DEF a
    <2>1. e.to \in Prj
      BY DEF Edge
    <2>2. e.to \in script.real => UseVariant(a.env, e) \in Variant
      BY <1>3, <1>5, UseVariantTyped DEF Act
    <2>3. x \in Act
      BY <1>3 DEF Act
    <2>4. x.env = a.env /\ x.kb = a.kb /\ x.call = e
      BY <1>3 DEF Act
    <2>5. SoundAct(x)
      BY <1>3, <1>5, <2>4 DEF SoundAct
    <2> HIDE DEF x
    <2>6. GoodGet(g)
      BY <1>1, <1>2, <2>3, <2>5, GoodWithLast
    <2>7. g.p = Top.p /\ g.filter = Top.filter /\ g.fn = "getconfig"
      BY <1>2 DEF GoodGet, GetFrame
    <2> HIDE DEF g
    <2>8. StackSound(Replace(g)) /\ SameCalls(stack, Replace(g))
      BY <1>1, <2>6, ReplaceGet
    <2>9. FramesTracked(Replace(g), prjToBuild, configs)
      BY <1>1, <2>6, <2>7, TrackedReplace DEF Tracked, GoodGet, Frame, TopIs
    <2>10. UNCHANGED <<script, configs, blocks, toBake, current, queue>>
      BY <1>5 DEF mainloop, usages
    <2>11. RequestsMet'
      BY <1>5, <2>1, <2>2, <2>8, <2>9, <2>10, CallTracked, RequestsStay DEF Grows
    <2> QED
      BY <1>5, <2>1, <2>2, <2>8, <2>9, <2>10, <2>11, CallsTracked
  <1> QED
    BY <1>4, <1>5 DEF Use

(* Walking a usage. *)
LEMMA EnterUsageTracked ==
    ASSUME BakeInv, BakeInv', Tracked, EnterUsage
    PROVE  Tracked'
  <1> DEFINE a == LastAct(Top)
             e == a.call
             back == [Top EXCEPT !.acts = Append(OuterActs(Top), Restore(a))]
             g == Visit(back, UsageKB(e.to), UsageEnv(a), script.exports[e.to],
                        e.to \in usageBaked')
  <1>1. TopIs("getconfig")
    BY DEF EnterUsage
  <1>2. GoodGet(Top)
    BY <1>1, TopGet
  <1>3. CASE Crash
    BY <1>3, SameTracked DEF Crash, usages
  <1>4. CASE stack' = Replace(g) /\ UNCHANGED <<script, tables, blocks, mainloop>>
    <2>1. back.p = Top.p /\ back.filter = Top.filter /\ back.fn = "getconfig"
      BY <1>2 DEF GoodGet, GetFrame
    <2> HIDE DEF back
    <2>2. g.p = Top.p /\ g.filter = Top.filter /\ g.fn = "getconfig"
      BY <2>1 DEF Visit
    <2> HIDE DEF g
    <2> QED
      BY <1>1, <1>4, <2>2, FindTracked
  <1> QED
    BY <1>3, <1>4 DEF EnterUsage

(* Leaving a table. *)
LEMMA LeaveKBTracked ==
    ASSUME BakeInv, BakeInv', Tracked, LeaveKB
    PROVE  Tracked'
  <1> DEFINE a == LastAct(Top)
             kb == a.kb
             back == [Top EXCEPT !.acts = OuterActs(Top)]
             id == usageFilter[kb.p][a.env.name]
             real == [back EXCEPT !.cfgs = @ \cup
                        (a.env.filter.feats \cap script.cond[kb.p])]
             block == Visit(back, BlockKB(kb.p, id), a.env,
                            blocks[kb.p][id].always, TRUE)
  <1>1. TopIs("getconfig")
    BY DEF LeaveKB
  <1>2. GoodGet(Top)
    BY <1>1, TopGet
  <1>3. back.p = Top.p /\ back.filter = Top.filter /\ back.fn = "getconfig"
    BY <1>2 DEF GoodGet, GetFrame
  <1>4. UNCHANGED <<script, tables, blocks, mainloop>>
    BY DEF LeaveKB, usages
  <1>5. CASE UNCHANGED stack
    BY <1>4, <1>5, SameTracked
  <1>6. CASE stack' = Replace(back)
    <2> HIDE DEF back
    <2> QED
      BY <1>1, <1>3, <1>4, <1>6, FindTracked
  <1>7. CASE stack' = Replace(real)
    <2>1. real.p = Top.p /\ real.filter = Top.filter /\ real.fn = "getconfig"
      BY <1>2, <1>3 DEF GoodGet, GetFrame
    <2> HIDE DEF real
    <2> QED
      BY <1>1, <1>4, <1>7, <2>1, FindTracked
  <1>8. CASE stack' = Replace(block)
    <2> HIDE DEF back
    <2>1. block.p = Top.p /\ block.filter = Top.filter /\ block.fn = "getconfig"
      BY <1>3 DEF Visit
    <2> HIDE DEF block
    <2> QED
      BY <1>1, <1>4, <1>8, <2>1, FindTracked
  <1> QED
    BY <1>5, <1>6, <1>7, <1>8 DEF LeaveKB

(* getfilter ending. *)
LEMMA GotFilterTracked ==
    ASSUME BakeInv, BakeInv', Tracked, GotFilter
    PROVE  Tracked'
  <1> DEFINE g == GetStart(Top.p, Top.filter, "all")
  <1>1. TopIs("getconfig") /\ stack' = Replace(g)
    BY DEF GotFilter
  <1>2. g.p = Top.p /\ g.filter = Top.filter /\ g.fn = "getconfig"
    BY GetStartReads
  <1>3. UNCHANGED <<script, tables, blocks, mainloop>>
    BY DEF GotFilter, usages
  <1> HIDE DEF g
  <1> QED
    BY <1>1, <1>2, <1>3, FindTracked

(* What is merged can be linked, because what the blocks found offer can. *)
LEMMA MergedExist ==
    ASSUME BakeInv, Tracked, NEW g, GoodGet(g)
    PROVE  /\ LinksExist(MergedConfig(g), prjToBuild, configs)
           /\ MergedConfig(g).bv.cfg = g.filter.cfg
           /\ MergedConfig(g).bv.feats \subseteq g.filter.feats
  <1>1. /\ g.filter \in Variant /\ g.seen \subseteq KB
        /\ \A k \in g.seen : BlockExists(k)
    BY DEF GoodGet, GetFrame, SoundGet
  <1>2. \A x \in FoundBlocks(g) : LinksExist(x, prjToBuild, configs)
    <2> SUFFICES ASSUME NEW k \in g.seen, k.tag = "block"
                 PROVE  LinksExist(blocks[k.p][k.v], prjToBuild, configs)
      BY DEF FoundBlocks
    <2>1. k.p \in Prj /\ k.v \in Variant /\ blocks[k.p][k.v] # None
      BY <1>1 DEF KB, BlockExists
    <2> QED
      BY <2>1 DEF Tracked, TablesLinked
  <1>3. \A t \in MergedStatic(g) \cup MergedShared(g) :
           t.p \in prjToBuild /\ configs[t.p][t.v] # None
    BY <1>2 DEF MergedStatic, MergedShared, LinksExist
  <1>4. LinksExist(MergedConfig(g), prjToBuild, configs)
    BY <1>3 DEF MergedConfig, LinksExist
  <1>5. /\ MergedConfig(g).bv.cfg = g.filter.cfg
        /\ MergedConfig(g).bv.feats \subseteq g.filter.feats
    BY <1>1 DEF MergedConfig, UsedVariant, Variant
  <1> QED
    BY <1>4, <1>5

(* What GotConfig makes of the stack. *)
LEMMA GotConfigStack ==
    ASSUME BakeInv, GotConfig
    PROVE  LET n == Len(stack) - 1
               cfg == MergedConfig(Top)
           IN  /\ n \in Nat \ {0} /\ Len(stack') = n
               /\ stack[n] \in AddFrame
               /\ stack'[n] = [stack[n] EXCEPT !.cfg = cfg, !.left = cfg.depends]
               /\ \A i \in 1 .. n - 1 : stack'[i] = stack[i]
               /\ stack[n].fn = "addconfig" /\ Top = stack[n + 1]
               /\ GoodGet(Top) /\ Top.fn = "getconfig"
  <1> DEFINE n == Len(stack) - 1
             cfg == MergedConfig(Top)
             f == [stack[n] EXCEPT !.cfg = cfg, !.left = cfg.depends]
  <1>1. TopIs("getconfig")
    BY DEF GotConfig
  <1>2. /\ GoodGet(Top) /\ Len(stack) > 1 /\ stack # <<>>
        /\ stack[n] \in AddFrame /\ stack[n].fn = "addconfig"
    BY <1>1, TopGet
  <1>3. cfg \in Config /\ cfg.depends \subseteq Prj
    BY <1>2, MergedConfigTyped DEF Config
  <1> HIDE DEF cfg
  <1>4. /\ StackSound(Below) /\ Len(stack) \in Nat \ {0} /\ Len(Below) = n
        /\ \A i \in 1 .. Len(stack) - 1 : Below[i] = stack[i]
    BY <1>2, PopTop
  <1>5. n \in 1 .. Len(Below) /\ n \in Nat \ {0} /\ Below[n] = stack[n]
        /\ n + 1 = Len(stack)
    BY <1>2, <1>4
  <1>6. stack' = [Below EXCEPT ![n] = f]
    BY <1>5 DEF GotConfig, cfg
  <1>7. f \in AddFrame
    BY <1>2, <1>3 DEF AddFrame
  <1> HIDE DEF f, n
  <1>8. f \in Frame /\ Below \in Seq(Frame)
    BY <1>4, <1>7 DEF Frame, StackSound
  <1>9. /\ Len(stack') = Len(Below)
        /\ \A j \in 1 .. Len(Below) : stack'[j] = IF j = n THEN f ELSE Below[j]
    BY <1>5, <1>6, <1>8, ExceptSeq
  <1>10. /\ n \in Nat \ {0} /\ Len(stack') = n /\ stack[n] \in AddFrame
         /\ stack'[n] = f /\ \A i \in 1 .. n - 1 : stack'[i] = stack[i]
         /\ stack[n].fn = "addconfig" /\ Top = stack[n + 1]
         /\ GoodGet(Top) /\ Top.fn = "getconfig"
    BY <1>2, <1>4, <1>5, <1>9 DEF Top, GoodGet, n
  <1> QED
    BY <1>10 DEF n, f, cfg

(* getconfig hands the merged configuration to its caller. *)
LEMMA GotConfigTracked ==
    ASSUME BakeInv, Tracked, GotConfig
    PROVE  Tracked'
  <1> DEFINE n == Len(stack) - 1
             cfg == MergedConfig(Top)
             f == [stack[n] EXCEPT !.cfg = cfg, !.left = cfg.depends]
  <1>1. /\ n \in Nat \ {0} /\ Len(stack') = n /\ stack[n] \in AddFrame
        /\ stack'[n] = f /\ \A i \in 1 .. n - 1 : stack'[i] = stack[i]
        /\ stack[n].fn = "addconfig" /\ Top = stack[n + 1]
        /\ GoodGet(Top) /\ Top.fn = "getconfig"
    BY GotConfigStack
  <1>2. /\ LinksExist(cfg, prjToBuild, configs)
        /\ cfg.bv.cfg = Top.filter.cfg /\ cfg.bv.feats \subseteq Top.filter.feats
    BY <1>1, MergedExist
  <1> HIDE DEF cfg
  <1>3. n \in 1 .. Len(stack) /\ n + 1 \in 1 .. Len(stack) /\ n + 1 - 1 = n
    BY <1>1
  <1>4. GetTracked(Top, stack[n])
    BY <1>1, <1>3 DEF Tracked, FramesTracked
  <1>5. AddTracked(stack[n], prjToBuild, configs)
    BY <1>1, <1>3 DEF Tracked, FramesTracked
  <1>6. /\ f.p = stack[n].p /\ f.fin = stack[n].fin /\ f.cfg = cfg
        /\ f.fn = "addconfig" /\ f.init = stack[n].init
    BY <1>1 DEF AddFrame
  <1> HIDE DEF f, n
  <1>7. AddTracked(f, prjToBuild, configs)
    BY <1>2, <1>4, <1>5, <1>6 DEF AddTracked, GetTracked
  <1>8. FramesTracked(stack', prjToBuild, configs)
    <2> SUFFICES ASSUME NEW i \in 1 .. n
                 PROVE  /\ stack'[i].fn = "addconfig" =>
                             AddTracked(stack'[i], prjToBuild, configs)
                        /\ stack'[i].fn = "getconfig" =>
                             GetTracked(stack'[i], stack'[i - 1])
      BY <1>1 DEF FramesTracked
    <2>1. CASE i = n
      BY <2>1, <1>1, <1>6, <1>7
    <2>2. CASE i # n
      <3>1. /\ i \in 1 .. n - 1 /\ i \in 1 .. Len(stack) /\ stack'[i] = stack[i]
            /\ stack[i].fn = "getconfig" => i > 1 /\ stack'[i - 1] = stack[i - 1]
        BY <2>2, <1>1, <1>3, StackFacts DEF StackSound
      <3> QED
        BY <3>1 DEF Tracked, FramesTracked
    <2> QED
      BY <2>1, <2>2
  <1>9. \A p, v : UnderWay(stack, p, v) => UnderWay(stack', p, v)
    <2> SUFFICES ASSUME NEW i \in 1 .. Len(stack), stack[i].fn = "addconfig"
                 PROVE  \E j \in 1 .. Len(stack') :
                           /\ stack'[j].fn = "addconfig" /\ stack'[j].p = stack[i].p
                           /\ stack'[j].fin = stack[i].fin
      BY DEF UnderWay
    <2>1. i # n + 1
      BY <1>1
    <2>2. i \in 1 .. n
      BY <2>1, <1>1, <1>3, StackFacts DEF n
    <2>3. CASE i = n
      BY <2>3, <1>1, <1>6
    <2>4. CASE i \in 1 .. n - 1
      BY <2>2, <2>4, <1>1
    <2> QED
      BY <2>2, <2>3, <2>4, <1>1
  <1>10. MapTracked(bvMap, stack', configs)
    BY <1>9 DEF MapTracked, Tracked
  <1>11. UNCHANGED <<script, baked, prjToBuild, bvMap, configs, blocks, toBake,
                     current, queue>>
    BY DEF GotConfig, tables, usages, mainloop
  <1>12. RequestsMet'
    BY <1>11, RequestsStay DEF Grows
  <1> QED
    BY <1>8, <1>10, <1>11, <1>12, TrackedNext DEF Tracked, BakeInv

(* What FinishConfig does to the tables and to the stack. *)
LEMMA FinishFacts ==
    ASSUME BakeInv, FinishConfig
    PROVE  LET p == Top.p
               cfg == Top.cfg
               fin == cfg.bv
           IN  /\ Top \in AddFrame /\ Top.fn = "addconfig"
               /\ p \in Prj /\ cfg \in Config /\ fin \in Variant
               /\ Top.init \in Variant /\ Top.fin \in Variant
               /\ Grows(configs, configs') /\ configs'[p][fin] = cfg
               /\ \A q \in Prj, v \in Variant :
                     (q = p /\ v = fin) \/ configs'[q][v] = configs[q][v]
               /\ \A q \in Prj, v \in Variant :
                     \/ q = p /\ v \in {Top.init, fin} /\ bvMap'[q][v] = fin
                     \/ /\ bvMap'[q][v] = bvMap[q][v]
                        /\ ~(q = p /\ v \in {Top.init, fin})
               /\ \A q \in Prj, v \in Variant :
                     \/ q = p /\ v = fin /\ blocks'[q][v] = UsageBlock(p, cfg)
                     \/ blocks'[q][v] = blocks[q][v]
               /\ \A q \in Prj, v \in Variant :
                     \/ /\ q = p /\ v \in {Top.init, fin}
                        /\ \/ usageFilter'[q][v] = fin
                           \/ /\ usageFilter'[q][v] = usageFilter[p][fin]
                              /\ usageFilter[p][fin] # None
                     \/ usageFilter'[q][v] = usageFilter[q][v]
               /\ Len(stack) \in Nat \ {0} /\ Len(stack') = Len(stack) - 1
               /\ \A i \in 1 .. Len(stack) - 1 : stack'[i] = stack[i]
               /\ ret' = Returned(cfg)
               /\ UNCHANGED <<script, baked, prjToBuild, cache, mainloop, status>>
  <1> DEFINE p == Top.p
             cfg == Top.cfg
             fin == cfg.bv
             init == Top.init
             found == usageFilter[p][fin] # None
             id == IF found THEN usageFilter[p][fin] ELSE fin
             ub == UsageBlock(p, cfg)
  <1>1. TopIs("addconfig") /\ cfg # None /\ stack' = Below
    BY DEF FinishConfig
  <1>2. Top \in AddFrame /\ Top.fn = "addconfig" /\ stack # <<>>
    BY <1>1, TopAdd
  <1>3. /\ p \in Prj /\ cfg \in Config /\ fin \in Variant /\ init \in Variant
        /\ Top.fin \in Variant
    BY <1>1, <1>2 DEF AddFrame, Config
  <1>4. TablesTyped
    BY TypedParts
  <1>5. /\ configs' = [configs EXCEPT ![p][fin] = cfg]
        /\ bvMap' = [bvMap EXCEPT ![p] = [@ EXCEPT ![init] = fin, ![fin] = fin]]
        /\ blocks' = IF found THEN blocks
                     ELSE [blocks EXCEPT ![p][fin] = ub]
        /\ usageFilter' = [usageFilter EXCEPT ![p] =
                             [@ EXCEPT ![fin] = id, ![init] = id]]
        /\ ret' = Returned(cfg)
        /\ UNCHANGED <<script, baked, prjToBuild, cache, mainloop, status>>
    BY DEF FinishConfig, SettleMap
  <1>6. /\ Len(stack) \in Nat \ {0} /\ Len(stack') = Len(stack) - 1
        /\ \A i \in 1 .. Len(stack) - 1 : stack'[i] = stack[i]
    BY <1>1, <1>2, PopTop
  <1> HIDE DEF p, cfg, fin, init, ub
  <1>7. /\ configs'[p][fin] = cfg
        /\ \A q \in Prj, v \in Variant :
              (q = p /\ v = fin) \/ configs'[q][v] = configs[q][v]
    BY <1>3, <1>4, <1>5 DEF TablesTyped
  <1>8. Grows(configs, configs')
    BY <1>3, <1>7, NoneDistinct DEF Grows
  <1>9. \A q \in Prj, v \in Variant :
           \/ q = p /\ v \in {init, fin} /\ bvMap'[q][v] = fin
           \/ bvMap'[q][v] = bvMap[q][v] /\ ~(q = p /\ v \in {init, fin})
    BY <1>3, <1>4, <1>5 DEF TablesTyped
  <1>10. \A q \in Prj, v \in Variant :
            \/ q = p /\ v = fin /\ blocks'[q][v] = ub
            \/ blocks'[q][v] = blocks[q][v]
    BY <1>3, <1>4, <1>5 DEF TablesTyped
  <1>11. \A q \in Prj, v \in Variant :
            \/ q = p /\ v \in {init, fin} /\ usageFilter'[q][v] = id
            \/ usageFilter'[q][v] = usageFilter[q][v]
    <2> HIDE DEF id
    <2> QED
      BY <1>3, <1>4, <1>5 DEF TablesTyped
  <1>12. id = fin \/ (id = usageFilter[p][fin] /\ usageFilter[p][fin] # None)
    OBVIOUS
  <1>13. \A q \in Prj, v \in Variant :
                     \/ /\ q = p /\ v \in {init, fin}
                        /\ \/ usageFilter'[q][v] = fin
                           \/ /\ usageFilter'[q][v] = usageFilter[p][fin]
                              /\ usageFilter[p][fin] # None
                     \/ usageFilter'[q][v] = usageFilter[q][v]
    <2> HIDE DEF id
    <2> QED
      BY <1>11, <1>12
  <1>14. /\ ret' = Returned(cfg)
         /\ UNCHANGED <<script, baked, prjToBuild, cache, mainloop, status>>
    BY <1>5
  <1> HIDE DEF id, found
  <1> QED
    BY <1>2, <1>3, <1>6, <1>7, <1>8, <1>9, <1>10, <1>13, <1>14
       DEF p, cfg, fin, init, ub

(* A configuration recorded: its placeholder goes, and what it offers its  *)
(* users, itself among it, is there to be linked.                          *)
LEMMA FinishConfigTracked ==
    ASSUME BakeInv, Tracked, FinishConfig
    PROVE  Tracked'
  <1> DEFINE p == Top.p
             cfg == Top.cfg
             fin == cfg.bv
             init == Top.init
             n == Len(stack)
  <1>1. /\ Top \in AddFrame /\ Top.fn = "addconfig"
        /\ p \in Prj /\ cfg \in Config /\ fin \in Variant
        /\ init \in Variant /\ Top.fin \in Variant
        /\ Grows(configs, configs') /\ configs'[p][fin] = cfg
        /\ \A q \in Prj, v \in Variant :
              (q = p /\ v = fin) \/ configs'[q][v] = configs[q][v]
        /\ \A q \in Prj, v \in Variant :
              \/ q = p /\ v \in {init, fin} /\ bvMap'[q][v] = fin
              \/ /\ bvMap'[q][v] = bvMap[q][v]
                 /\ ~(q = p /\ v \in {init, fin})
        /\ \A q \in Prj, v \in Variant :
              \/ q = p /\ v = fin /\ blocks'[q][v] = UsageBlock(p, cfg)
              \/ blocks'[q][v] = blocks[q][v]
        /\ n \in Nat \ {0} /\ Len(stack') = n - 1
        /\ \A i \in 1 .. n - 1 : stack'[i] = stack[i]
        /\ UNCHANGED <<script, baked, prjToBuild, cache, mainloop, status>>
    BY FinishFacts
  <1>2. stack[n] = Top /\ n \in 1 .. n
    BY <1>1 DEF Top
  <1>3. AddTracked(Top, prjToBuild, configs)
    BY <1>1, <1>2 DEF Tracked, FramesTracked
  <1>4. /\ LinksExist(cfg, prjToBuild, configs) /\ p \in prjToBuild
        /\ p \in script.single => Top.fin = AllVariant /\ fin = AllVariant
    <2>1. cfg # None
      BY <1>1, NoneDistinct
    <2>2. /\ LinksExist(cfg, prjToBuild, configs) /\ p \in prjToBuild
          /\ p \in script.single => Top.fin = AllVariant
          /\ fin.cfg = Top.fin.cfg /\ fin.feats \subseteq Top.fin.feats
      BY <1>3, <2>1 DEF AddTracked
    <2>3. p \in script.single => fin.cfg = AllVariant.cfg /\ fin.feats = {}
      BY <2>2 DEF AllVariant
    <2> HIDE DEF fin
    <2>4. p \in script.single => fin = AllVariant
      BY <2>3, <1>1, AllIsVariant DEF Variant, AllVariant
    <2> QED
      BY <2>2, <2>4
  <1>5. p \notin script.single => init = Top.fin
    BY <1>1, <1>2, StackFacts DEF Held
  <1>6. stack \in Seq(Frame) /\ StackSound(stack)
    BY StackFacts
  <1> HIDE DEF p, cfg, fin, init, n
  <1>7. FramesTracked(stack', prjToBuild, configs')
    <2>1. FramesTracked(stack, prjToBuild, configs')
      BY <1>1, <1>6, TrackedStay DEF Tracked
    <2> SUFFICES ASSUME NEW i \in 1 .. n - 1
                 PROVE  /\ stack'[i].fn = "addconfig" =>
                             AddTracked(stack'[i], prjToBuild, configs')
                        /\ stack'[i].fn = "getconfig" =>
                             GetTracked(stack'[i], stack'[i - 1])
      BY <1>1 DEF FramesTracked
    <2>2. /\ i \in 1 .. Len(stack) /\ stack'[i] = stack[i]
          /\ stack[i].fn = "getconfig" => stack'[i - 1] = stack[i - 1]
      BY <1>1, <1>6 DEF n, StackSound
    <2> QED
      BY <2>1, <2>2 DEF FramesTracked
  <1>8. \A q, v : UnderWay(stack, q, v) => \/ q = p /\ v = Top.fin
                                           \/ UnderWay(stack', q, v)
    <2> SUFFICES ASSUME NEW i \in 1 .. n, stack[i].fn = "addconfig", i # n
                 PROVE  i \in 1 .. Len(stack') /\ stack'[i] = stack[i]
      BY <1>2 DEF UnderWay, n, p
    <2> QED
      BY <1>1
  <1>9. MapTracked(bvMap', stack', configs')
    <2> SUFFICES ASSUME NEW q \in Prj, NEW w \in Variant
                 PROVE  /\ bvMap'[q][w] = InProgress =>
                             \/ w = AllVariant /\ q \notin script.single
                             \/ UnderWay(stack', q, w)
                        /\ (q \in script.single /\ bvMap'[q][w] \in Variant) =>
                             /\ bvMap'[q][w] = AllVariant
                             /\ \/ configs'[q][AllVariant] # None
                                \/ UnderWay(stack', q, AllVariant)
      BY DEF MapTracked
    <2>1. cfg # None
      BY <1>1, NoneDistinct
    <2>2. CASE q = p /\ bvMap'[q][w] = fin
      BY <2>1, <2>2, <1>1, <1>4, NoneDistinct
    <2>3. CASE bvMap'[q][w] = bvMap[q][w] /\ ~(q = p /\ w \in {init, fin})
      <3>1. MapTracked(bvMap, stack, configs)
        BY DEF Tracked
      <3>2. ASSUME bvMap[q][w] = InProgress
            PROVE  \/ w = AllVariant /\ q \notin script.single
                   \/ UnderWay(stack', q, w)
        BY <2>3, <3>1, <3>2, <1>4, <1>5, <1>8 DEF MapTracked
      <3>3. ASSUME q \in script.single, bvMap[q][w] \in Variant
            PROVE  /\ bvMap[q][w] = AllVariant
                   /\ \/ configs'[q][AllVariant] # None
                      \/ UnderWay(stack', q, AllVariant)
        <4>1. /\ bvMap[q][w] = AllVariant
              /\ configs[q][AllVariant] # None \/ UnderWay(stack, q, AllVariant)
          BY <3>1, <3>3 DEF MapTracked
        <4>2. configs[q][AllVariant] # None => configs'[q][AllVariant] # None
          BY <1>1, AllIsVariant DEF Grows
        <4>3. q = p => configs'[q][AllVariant] # None
          BY <3>3, <1>1, <1>4, <2>1
        <4> QED
          BY <4>1, <4>2, <4>3, <1>8
      <3> QED
        BY <2>3, <3>2, <3>3
    <2> QED
      BY <2>2, <2>3, <1>1
  <1>10. TablesLinked(blocks', prjToBuild, configs')
    <2>1. LinksExist(cfg, prjToBuild, configs')
      BY <1>1, <1>4, LinksStay
    <2>2. LinksExist(UsageBlock(p, cfg), prjToBuild, configs')
      <3>1. \A t \in {[p |-> p, v |-> cfg.bv]} :
               t.p \in prjToBuild /\ configs'[t.p][t.v] # None
        BY <1>1, <1>4, NoneDistinct DEF fin
      <3>2. UsageBlock(p, cfg).static \subseteq {[p |-> p, v |-> cfg.bv]} \cup cfg.static
        BY DEF UsageBlock
      <3>3. UsageBlock(p, cfg).shared \subseteq {[p |-> p, v |-> cfg.bv]} \cup cfg.shared
        BY DEF UsageBlock
      <3> QED
        BY <2>1, <3>1, <3>2, <3>3 DEF LinksExist
    <2>3. ASSUME NEW q \in Prj, NEW v \in Variant
          PROVE  /\ configs'[q][v] # None =>
                       LinksExist(configs'[q][v], prjToBuild, configs')
                 /\ blocks'[q][v] # None =>
                       LinksExist(blocks'[q][v], prjToBuild, configs')
      <3>1. /\ configs[q][v] # None => configs[q][v] \in Config
            /\ blocks[q][v] # None => blocks[q][v] \in Block
        BY DEF BakeInv, TypeOK
      <3>2. /\ configs[q][v] # None => LinksExist(configs[q][v], prjToBuild, configs')
            /\ blocks[q][v] # None => LinksExist(blocks[q][v], prjToBuild, configs')
        BY <3>1, <1>1, LinksStay DEF Tracked, TablesLinked
      <3> QED
        BY <3>2, <2>1, <2>2, <1>1
    <2> QED
      BY <2>3 DEF TablesLinked
  <1>11. RequestsMet'
    <2>1. \A q \in Prj, w \in Variant : bvMap[q][w] # None => bvMap'[q][w] # None
      BY <1>1, NoneDistinct
    <2> QED
      BY <2>1, <1>1, RequestsStay DEF mainloop
  <1>12. /\ FramesTracked(stack, prjToBuild, configs)'
         /\ MapTracked(bvMap, stack, configs)'
         /\ TablesLinked(blocks, prjToBuild, configs)'
    <2>1. script' = script /\ prjToBuild' = prjToBuild
      BY <1>1
    <2>2. FramesTracked(stack, prjToBuild, configs)'
      BY <1>7, <2>1 DEF FramesTracked, AddTracked, GetTracked, LinksExist
    <2>3. MapTracked(bvMap, stack, configs)'
      BY <1>9, <2>1 DEF MapTracked, UnderWay
    <2>4. TablesLinked(blocks, prjToBuild, configs)'
      BY <1>10, <2>1 DEF TablesLinked, LinksExist
    <2> QED
      BY <2>2, <2>3, <2>4
  <1> QED
    BY <1>1, <1>11, <1>12 DEF Tracked, mainloop

-----------------------------------------------------------------------------
(* MapSettled and NothingDangles *)

(* Every step keeps the two invariants. *)
LEMMA TrackedStep == BakeInv /\ Tracked /\ [Next]_vars => Tracked'
  <1> SUFFICES ASSUME BakeInv, Tracked, [Next]_vars
               PROVE  Tracked'
    OBVIOUS
  <1>0. BakeInv'
    BY NextInv
  <1>1. ASSUME NEW p \in Prj, StartProject(p) PROVE Tracked'
    BY <1>1, StartProjectTracked
  <1>2. ASSUME NEW p \in Prj, CompileDepend(p) PROVE Tracked'
    BY <1>2, CompileDependTracked
  <1>3. ASSUME NEW e \in Edge, Use(e) PROVE Tracked'
    BY <1>3, UseTracked
  <1>4. CASE AddDefault
    BY <1>4, AddDefaultTracked
  <1>5. CASE BakeallDone
    BY <1>5, SameTracked DEF BakeallDone, usages
  <1>6. CASE EnterUsage
    BY <1>0, <1>6, EnterUsageTracked
  <1>7. CASE LeaveKB
    BY <1>0, <1>7, LeaveKBTracked
  <1>8. CASE GotFilter
    BY <1>0, <1>8, GotFilterTracked
  <1>9. CASE GotConfig
    BY <1>9, GotConfigTracked
  <1>10. CASE FinishConfig
    BY <1>10, FinishConfigTracked
  <1>11. CASE UNCHANGED vars
    BY <1>11, SameTracked DEF vars, usages
  <1> QED
    BY <1>1, <1>2, <1>3, <1>4, <1>5, <1>6, <1>7, <1>8, <1>9, <1>10, <1>11
       DEF Next, Halted

(* The invariant holds throughout, for every set of scripts. *)
LEMMA BakeTracked == Spec => [](BakeInv /\ Tracked)
  BY InitInv, TrackedInit, NextInv, TrackedStep, PTL DEF Spec

(* When bakeall says it is done, nothing is under way or waiting. *)
DoneIsOver ==
    /\ status \in {"bake", "done", "crash"}
    /\ status = "done" => stack = <<>> /\ queue = <<>> /\ toBake = {}

(* It is never left once it is reached. *)
LEMMA DoneStays == Spec => []DoneIsOver
  <1>1. Init => DoneIsOver
    BY DEF Init, DoneIsOver
  <1>2. DoneIsOver /\ [Next]_vars => DoneIsOver'
    <2> SUFFICES ASSUME DoneIsOver, [Next]_vars PROVE DoneIsOver'
      OBVIOUS
    <2>1. CASE status = "bake" /\ status' = status
      BY <2>1 DEF DoneIsOver
    <2>2. CASE status = "bake" /\ status' = "crash"
      BY <2>2 DEF DoneIsOver
    <2>3. CASE BakeallDone
      BY <2>3 DEF DoneIsOver, BakeallDone, mainloop
    <2>4. CASE UNCHANGED vars
      BY <2>4 DEF DoneIsOver, vars, mainloop
    <2>5. ASSUME NEW p \in Prj, StartProject(p) \/ CompileDepend(p)
          PROVE  status = "bake" /\ status' = status
      BY <2>5 DEF StartProject, CompileDepend
    <2>6. ASSUME NEW e \in Edge, Use(e)
          PROVE  status = "bake" /\ status' \in {status, "crash"}
      BY <2>6 DEF Use, Crash
    <2>7. CASE AddDefault \/ GotFilter \/ GotConfig \/ FinishConfig
      BY <2>1, <2>7 DEF AddDefault, GotFilter, GotConfig, FinishConfig
    <2>8. CASE EnterUsage \/ LeaveKB
      <3>1. status = "bake" /\ status' \in {status, "crash"}
        BY <2>8 DEF EnterUsage, LeaveKB, Crash
      <3> QED
        BY <2>1, <2>2, <3>1
    <2> QED
      BY <2>1, <2>2, <2>3, <2>4, <2>5, <2>6, <2>7, <2>8 DEF Next, Halted
  <1> QED
    BY <1>1, <1>2, PTL DEF Spec

(* With nothing under way, every name leads to a configuration. *)
LEMMA SettledWhenDone ==
    ASSUME BakeInv, Tracked, DoneIsOver
    PROVE  MapSettled
  <1> SUFFICES ASSUME status = "done", NEW p \in Prj, NEW v \in Variant,
                      bvMap[p][v] # None
               PROVE  \/ /\ bvMap[p][v] = InProgress /\ v = AllVariant
                         /\ p \notin script.single
                      \/ bvMap[p][v] \in Variant /\ configs[p][bvMap[p][v]] # None
    BY DEF MapSettled
  <1>1. \A q, w : ~UnderWay(stack, q, w)
    BY DEF DoneIsOver, UnderWay
  <1>2. bvMap[p][v] \in Variant \cup {InProgress}
    BY DEF BakeInv, TypeOK
  <1>3. MapTracked(bvMap, stack, configs) /\ MapLeads(bvMap, configs)
    BY StackFacts DEF Tracked
  <1> QED
    BY <1>1, <1>2, <1>3 DEF MapTracked, MapLeads

(* When baking is over, every name ever asked for leads in one lookup to a  *)
(* configuration, and the placeholder survives only under the name "All" of *)
(* an ordinary project (project.addconfig, applyBuildVariantMap).           *)
THEOREM BakeSettlesNames == Spec => []MapSettled
  BY BakeTracked, DoneStays, SettledWhenDone, PTL

(* At the end every configuration asked for, and every one on a link line,  *)
(* is there to be generated (project.addconfig, config.addUsageConfig).     *)
THEOREM BakeLeavesNothingDangling == Spec => []NothingDangles
  <1>1. ASSUME BakeInv, Tracked, DoneIsOver PROVE NothingDangles
    <2> SUFFICES ASSUME status = "done" PROVE NothingDangles
      BY DEF NothingDangles
    <2>1. prjToBuild \subseteq baked
      BY <1>1 DEF Tracked, DoneIsOver
    <2>2. ASSUME NEW p \in Prj, NEW v \in Variant, configs[p][v] # None,
                 NEW t \in configs[p][v].static \cup configs[p][v].shared
          PROVE  t.p \in prjToBuild /\ configs[t.p][t.v] # None
      BY <1>1, <2>2 DEF Tracked, TablesLinked, LinksExist
    <2>3. ASSUME NEW p \in script.requested, NEW i \in DOMAIN BuildCfgs
          PROVE  /\ applyBuildVariantMap(p, Default(i)) \in Variant
                 /\ configs[p][applyBuildVariantMap(p, Default(i))] # None
      <3>1. p \in Prj /\ (BuildCfgs[i] = AllCfg => p \in script.single)
        BY <1>1, ScriptsAreScripts DEF Tracked, Script
      <3>2. Default(i) \in Variant /\ (Default(i) = AllVariant => p \in script.single)
        BY <3>1 DEF Default, Variant, Cfg, AllVariant
      <3>3. Named(p, Default(i))
        BY <1>1 DEF Tracked, RequestsMet, DoneIsOver
      <3>4. MapSettled
        BY <1>1, SettledWhenDone
      <3>5. CASE bvMap[p][Default(i)] # None
        BY <3>1, <3>2, <3>4, <3>5 DEF MapSettled, applyBuildVariantMap
      <3>6. CASE bvMap[p][Default(i)] = None
        BY <3>2, <3>3, <3>6, AllIsVariant DEF Named, applyBuildVariantMap
      <3> QED
        BY <3>5, <3>6
    <2> QED
      BY <2>1, <2>2, <2>3 DEF NothingDangles, Default
  <1> QED
    BY <1>1, BakeTracked, DoneStays, PTL

-----------------------------------------------------------------------------
(* Reachability over the script *)

(* The smallest set closed under next that holds from. *)
LEMMA ClosureFacts ==
    ASSUME NEW from, from \subseteq Prj, NEW next,
           \A q \in Prj : next[q] \subseteq Prj
    PROVE  /\ from \subseteq Closure(from, next)
           /\ Closure(from, next) \subseteq Prj
           /\ \A r \in Closure(from, next) : next[r] \subseteq Closure(from, next)
  BY DEF Closure

(* Every closed set that holds from holds its closure. *)
LEMMA ClosureLeast ==
    ASSUME NEW S \in SUBSET Prj, NEW from, from \subseteq S, NEW next,
           \A r \in S : next[r] \subseteq S
    PROVE  Closure(from, next) \subseteq S
  BY DEF Closure

(* What the script declares has the types it needs. *)
LEMMA UsesTyped ==
    ASSUME TypeOK, NEW p \in Prj
    PROVE  /\ OwnUses[p] \subseteq AllUses[p] /\ AllUses[p] \subseteq Edge
           /\ Following[p] = {e.to : e \in AllUses[p]}
           /\ Following[p] \subseteq Prj
           /\ script.exports[p] \subseteq AllUses[p]
           /\ p \in script.real => OwnUses[p] = script.uses[p]
           /\ Tos(OwnUses[p]) \subseteq Following[p]
  <1>1. script.uses[p] \subseteq Edge /\ script.exports[p] \subseteq Edge
    BY DEF TypeOK, Script
  <1>2. /\ OwnUses[p] = IF p \in script.real THEN script.uses[p] ELSE {}
        /\ AllUses[p] = OwnUses[p] \cup script.exports[p]
    BY DEF OwnUses, AllUses
  <1>3. Following[p] = {e.to : e \in AllUses[p]}
    BY DEF Following, Tos
  <1>4. AllUses[p] \subseteq Edge
    BY <1>1, <1>2
  <1>5. Following[p] \subseteq Prj
    BY <1>3, <1>4 DEF Edge
  <1>6. Tos(OwnUses[p]) \subseteq Following[p]
    BY <1>2, <1>3 DEF Tos
  <1> QED
    BY <1>1, <1>2, <1>3, <1>4, <1>5, <1>6

(* Where uses lead to. *)
LEMMA LeadsFacts ==
    ASSUME TypeOK, NEW p \in Prj
    PROVE  /\ LeadsTo(p) \subseteq Prj
           /\ \A e \in OwnUses[p] : e.to \in LeadsTo(p)
           /\ \A q \in LeadsTo(p) : \A e \in AllUses[q] : e.to \in LeadsTo(p)
           /\ \A q \in LeadsTo(p) : LeadsTo(q) \subseteq LeadsTo(p)
  <1>1. \A q \in Prj : Following[q] \subseteq Prj
    BY UsesTyped
  <1>2. Tos(OwnUses[p]) \subseteq Prj
    BY UsesTyped
  <1>3. /\ Tos(OwnUses[p]) \subseteq LeadsTo(p)
        /\ LeadsTo(p) \subseteq Prj
        /\ \A r \in LeadsTo(p) : Following[r] \subseteq LeadsTo(p)
    BY <1>1, <1>2, ClosureFacts DEF LeadsTo
  <1>4. \A e \in OwnUses[p] : e.to \in LeadsTo(p)
    BY <1>3 DEF Tos
  <1>5. ASSUME NEW q \in LeadsTo(p), NEW e \in AllUses[q]
        PROVE  e.to \in LeadsTo(p)
    <2>1. e.to \in Following[q]
      BY <1>3, UsesTyped
    <2> QED
      BY <1>3, <2>1
  <1>6. ASSUME NEW q \in LeadsTo(p)
        PROVE  LeadsTo(q) \subseteq LeadsTo(p)
    <2>1. Tos(OwnUses[q]) \subseteq LeadsTo(p)
      BY <1>3, UsesTyped
    <2> QED
      BY <1>3, <2>1, ClosureLeast DEF LeadsTo
  <1> QED
    BY <1>3, <1>4, <1>5, <1>6

(* What stands behind a usage. *)
LEMMA BehindFacts ==
    ASSUME TypeOK, NEW p \in Prj
    PROVE  /\ Behind(p) \subseteq Prj /\ p \in Behind(p)
           /\ \A e \in AllUses[p] : e.to \in Behind(p)
           /\ LeadsTo(p) \subseteq Behind(p)
           /\ \A q \in Behind(p) : Behind(q) \subseteq Behind(p)
  <1>1. \A q \in Prj : Following[q] \subseteq Prj
    BY UsesTyped
  <1>2. /\ p \in Behind(p) /\ Behind(p) \subseteq Prj
        /\ \A r \in Behind(p) : Following[r] \subseteq Behind(p)
    BY <1>1, ClosureFacts DEF Behind
  <1>3. \A e \in AllUses[p] : e.to \in Behind(p)
    BY <1>2, UsesTyped
  <1>4. LeadsTo(p) \subseteq Behind(p)
    <2>1. Tos(OwnUses[p]) \subseteq Behind(p)
      BY <1>2, UsesTyped
    <2> QED
      BY <1>2, <2>1, ClosureLeast DEF LeadsTo
  <1>5. ASSUME NEW q \in Behind(p)
        PROVE  Behind(q) \subseteq Behind(p)
    <2>1. {q} \subseteq Behind(p) /\ Behind(p) \in SUBSET Prj
      BY <1>2
    <2> QED
      BY <1>2, <2>1, ClosureLeast DEF Behind
  <1> QED
    BY <1>2, <1>3, <1>4, <1>5

(* A feature asked of p is asked of what stands behind p. *)
LEMMA AskedMoves ==
    ASSUME TypeOK, NEW p \in Prj, NEW q \in Behind(p), NEW fs, AllAskedOf(fs, p)
    PROVE  AllAskedOf(fs, q)
  <1> SUFFICES ASSUME NEW f \in fs
               PROVE  AskedOf(f, q)
    BY DEF AllAskedOf
  <1>1. PICK r \in Prj : \E e \in AllUses[r] : f \in e.with /\ p \in Behind(e.to)
    BY DEF AllAskedOf, AskedOf
  <1>0. PICK e \in AllUses[r] : f \in e.with /\ p \in Behind(e.to)
    BY <1>1
  <1>2. e.to \in Prj
    BY UsesTyped DEF Edge
  <1>3. q \in Behind(e.to)
    BY <1>0, <1>2, BehindFacts
  <1> QED
    BY <1>0, <1>3 DEF AskedOf

(* The features of a use are asked of the usage. *)
LEMMA AskedByUse ==
    ASSUME TypeOK, NEW e, Declared(e)
    PROVE  AllAskedOf(e.with, e.to) /\ e \in Edge /\ e.to \in Prj
  <1>1. PICK q \in Prj : e \in AllUses[q]
    BY DEF Declared
  <1>2. e \in Edge /\ e.to \in Prj
    BY <1>1, UsesTyped DEF Edge
  <1>3. e.to \in Behind(e.to)
    BY <1>2, BehindFacts
  <1> QED
    BY <1>1, <1>2, <1>3 DEF AllAskedOf, AskedOf

(* SameCfg is transitive. *)
LEMMA SameCfgTrans ==
    ASSUME NEW a, NEW b, NEW c, SameCfg(a, b), SameCfg(b, c)
    PROVE  SameCfg(a, c)
  BY DEF SameCfg

(* The script never changes, so neither does anything that is said of it. *)
LEMMA SameScript ==
    ASSUME script' = script
    PROVE  /\ \A p : LeadsTo(p)' = LeadsTo(p)
           /\ \A p : Behind(p)' = Behind(p)
           /\ AllUses' = AllUses
           /\ Culprit' <=> Culprit
           /\ \A e : Declared(e)' <=> Declared(e)
           /\ \A fs, p : AllAskedOf(fs, p)' <=> AllAskedOf(fs, p)
           /\ \A c, d : SameCfg(c, d)' <=> SameCfg(c, d)
  <1>1. OwnUses' = OwnUses /\ AllUses' = AllUses
    BY DEF OwnUses, AllUses
  <1>2. Following' = Following
    BY <1>1 DEF Following
  <1>3. ASSUME NEW p PROVE LeadsTo(p)' = LeadsTo(p) /\ Behind(p)' = Behind(p)
    BY <1>1, <1>2 DEF LeadsTo, Behind
  <1>4. Culprit' <=> Culprit
    BY <1>1, <1>3 DEF Culprit, OnCycle
  <1>5. ASSUME NEW e PROVE Declared(e)' <=> Declared(e)
    BY <1>1 DEF Declared
  <1>6. ASSUME NEW fs, NEW p PROVE AllAskedOf(fs, p)' <=> AllAskedOf(fs, p)
    BY <1>1, <1>3 DEF AllAskedOf, AskedOf
  <1>7. ASSUME NEW c, NEW d PROVE SameCfg(c, d)' <=> SameCfg(c, d)
    BY DEF SameCfg
  <1> QED
    BY <1>1, <1>3, <1>4, <1>5, <1>6, <1>7

-----------------------------------------------------------------------------
(* project.addconfig *)

(* The parts of the invariant, each for the next state. *)
LEMMA ReachedNext ==
    ASSUME script' = script, FramesReached(stack'), Chained(stack'),
           AnswersSound(stack', ret'), ret'.kind = "nil" => ret'.bv = None,
           \A j \in 1 .. Len(queue') : queue'[j].feats = {},
           TablesReached(configs', blocks', bvMap', usageFilter', cache'),
           status' = "crash" => Culprit
    PROVE  Reached'
  <1>1. /\ \A p : LeadsTo(p)' = LeadsTo(p)
        /\ \A p : Behind(p)' = Behind(p)
        /\ Culprit' <=> Culprit
        /\ \A e : Declared(e)' <=> Declared(e)
        /\ \A fs, p : AllAskedOf(fs, p)' <=> AllAskedOf(fs, p)
        /\ \A c, d : SameCfg(c, d)' <=> SameCfg(c, d)
    BY SameScript
  <1>2. ASSUME NEW p, NEW c PROVE ConfigSound(p, c)' <=> ConfigSound(p, c)
    BY <1>1 DEF ConfigSound, OffersSound, LinkConfined
  <1>3. ASSUME NEW p, NEW v, NEW k PROVE BlockSound(p, v, k)' <=> BlockSound(p, v, k)
    BY <1>1 DEF BlockSound, OffersSound, LinkConfined
  <1>4. ASSUME NEW p, NEW v, NEW k PROVE SeenSound(p, v, k)' <=> SeenSound(p, v, k)
    BY <1>1 DEF SeenSound
  <1>5. ASSUME NEW p, NEW v, NEW a PROVE ActReached(p, v, a)' <=> ActReached(p, v, a)
    BY <1>1, <1>4 DEF ActReached, UseSound
  <1>6. ASSUME NEW g PROVE GetReached(g)' <=> GetReached(g)
    BY <1>4, <1>5 DEF GetReached, ActsReached
  <1>7. ASSUME NEW f PROVE AddReached(f)' <=> AddReached(f)
    BY <1>1, <1>2 DEF AddReached
  <1>8. FramesReached(stack)'
    BY <1>6, <1>7 DEF FramesReached
  <1>9. Chained(stack)'
    BY <1>1 DEF Chained
  <1>10. AnswersSound(stack, ret)'
    BY <1>1 DEF AnswersSound, AnswerSound
  <1>11. TablesReached(configs, blocks, bvMap, usageFilter, cache)'
    BY <1>1, <1>2, <1>3, <1>4 DEF TablesReached
  <1>12. (status = "crash" => Culprit)'
    BY <1>1
  <1> QED
    BY <1>8, <1>9, <1>10, <1>11, <1>12 DEF Reached

(* What getconfig starts with. *)
LEMMA GetStartReached ==
    ASSUME TypeOK, Reached, NEW p \in Prj, p \in script.real, NEW v \in Variant,
           AllAskedOf(v.feats, p), NEW f \in Field
    PROVE  /\ GetReached(GetStart(p, v, f))
           /\ GetStart(p, v, f).acts # <<>> =>
                 LastAct(GetStart(p, v, f)).call = None
  <1> DEFINE hit == cache[p][f][v]
             root == [kb |-> RealKB(p),
                      env |-> [filter |-> v, bv |-> v, name |-> v],
                      left |-> script.uses[p], call |-> None]
             g == GetStart(p, v, f)
  <1>1. CASE hit = None
    <2>1. \A e \in script.uses[p] : UseSound(p, RealKB(p), e)
      <3>1. /\ OwnUses[p] = script.uses[p]
            /\ OwnUses[p] \subseteq AllUses[p]
        BY UsesTyped
      <3> QED
        BY <3>1, LeadsFacts, BehindFacts DEF UseSound, Declared, RealKB
    <2>2. ActReached(p, v, root)
      BY <2>1, NoneDistinct DEF ActReached, SeenSound, SameCfg, RealKB
    <2>3. root.call = None /\ root.kb = RealKB(p)
      OBVIOUS
    <2> HIDE DEF root
    <2>4. g = [fn |-> "getconfig", p |-> p, filter |-> v, field |-> f,
               acts |-> <<root>>, seen |-> {RealKB(p)}, cfgs |-> {}]
      BY <1>1, <2>3 DEF GetStart, root
    <2>5. ActsReached(p, v, <<root>>)
      BY <2>2 DEF ActsReached
    <2> QED
      BY <2>3, <2>4, <2>5 DEF GetReached, SeenSound, LastAct
  <1>2. CASE hit # None
    <2>1. g = [fn |-> "getconfig", p |-> p, filter |-> v, field |-> f,
               acts |-> <<>>, seen |-> hit.seen, cfgs |-> hit.cfgs]
      BY <1>2 DEF GetStart
    <2>2. /\ \A x \in hit.seen : SeenSound(p, v, x)
          /\ hit.cfgs \subseteq script.cond[p]
      BY <1>2 DEF Reached, TablesReached
    <2>3. ActsReached(p, v, <<>>)
      BY DEF ActsReached
    <2> QED
      BY <2>1, <2>2, <2>3 DEF GetReached
  <1> QED
    BY <1>1, <1>2

(* Two frames pushed, for a project that everything below leads to. *)
LEMMA ReachedPush ==
    ASSUME NEW s, NEW f, NEW g, NEW r, Pushed(r, s, f, g), StackSound(s),
           f.fn = "addconfig", g.fn = "getconfig", g.p = f.p,
           FramesReached(s), Chained(s), AddReached(f), GetReached(g),
           s # <<>> => CalledFor(f.p, f.init, s[Len(s)]),
           \A i \in 1 .. Len(s) : f.p \in LeadsTo(s[i].p)
    PROVE  FramesReached(r) /\ Chained(r)
  <1>1. s \in Seq(Frame) /\ Len(s) \in Nat
    BY LenProperties DEF StackSound
  <1>2. /\ Len(r) = Len(s) + 2 /\ r[Len(s) + 1] = f /\ r[Len(s) + 2] = g
        /\ \A i \in 1 .. Len(s) : r[i] = s[i]
    BY DEF Pushed
  <1>3. ASSUME NEW i \in 1 .. Len(r)
        PROVE  /\ r[i].fn = "addconfig" =>
                    /\ AddReached(r[i])
                    /\ i > 1 => CalledFor(r[i].p, r[i].init, r[i - 1])
               /\ r[i].fn = "getconfig" => GetReached(r[i])
    <2>1. CASE i \in 1 .. Len(s)
      <3>1. r[i] = s[i] /\ (i > 1 => r[i - 1] = s[i - 1])
        BY <2>1, <1>1, <1>2
      <3> QED
        BY <2>1, <3>1 DEF FramesReached
    <2>2. CASE i = Len(s) + 1
      <3>1. r[i] = f /\ (i > 1 => s # <<>> /\ r[i - 1] = s[Len(s)])
        BY <2>2, <1>1, <1>2
      <3> QED
        BY <3>1
    <2>3. CASE i = Len(s) + 2
      BY <2>3, <1>2
    <2> QED
      BY <2>1, <2>2, <2>3, <1>1, <1>2
  <1>4. ASSUME NEW i \in 1 .. Len(r), NEW j \in 1 .. Len(r), i < j
        PROVE  r[j].p = r[i].p \/ r[j].p \in LeadsTo(r[i].p)
    <2>1. CASE j \in 1 .. Len(s)
      <3>1. i \in 1 .. Len(s) /\ r[i] = s[i] /\ r[j] = s[j]
        BY <2>1, <1>1, <1>2, <1>4
      <3> QED
        BY <2>1, <3>1, <1>4 DEF Chained
    <2>2. CASE j \in {Len(s) + 1, Len(s) + 2}
      <3>1. r[j].p = f.p
        BY <2>2, <1>2
      <3>2. (i \in 1 .. Len(s) /\ r[i] = s[i]) \/ i = Len(s) + 1
        BY <2>2, <1>1, <1>2, <1>4
      <3> QED
        BY <3>1, <3>2, <1>2
    <2> QED
      BY <2>1, <2>2, <1>1, <1>2
  <1> QED
    BY <1>3, <1>4 DEF FramesReached, Chained

(* The variant a use asks for has its user's configuration, and its features *)
(* besides the user's.                                                       *)
LEMMA UseVariantFacts ==
    ASSUME NEW env \in Env, NEW e \in Edge, env.bv # None
    PROVE  /\ UseVariant(env, e) \in Variant
           /\ UseVariant(env, e).cfg = env.bv.cfg
           /\ UseVariant(env, e).feats = env.bv.feats \cup e.with
  <1>1. env.bv \in Variant
    BY DEF Env
  <1> QED
    BY <1>1, UseVariantTyped DEF UseVariant, Variant

(* The activation that waits for the call of p as v: when the call is for a *)
(* use with features, these are features of v.                              *)
LEMMA WaitingFacts ==
    ASSUME BakeInv, NEW h, GoodGet(h), GetReached(h), NEW p, NEW v,
           CalledFor(p, v, h)
    PROVE  LET a == LastAct(h)
           IN  /\ h.acts # <<>> /\ a.call # None /\ a.call.to = p
               /\ Declared(a.call)
               /\ a.call.with # {} =>
                     /\ v.cfg = a.env.bv.cfg /\ a.call.with \subseteq v.feats
                     /\ v \in Variant
  <1> DEFINE a == LastAct(h)
  <1>1. h.acts # <<>> /\ a.call # None /\ a.call.to = p
        /\ v = UseVariant(a.env, a.call)
    BY DEF CalledFor, GoodGet
  <1>2. a \in Act /\ SoundAct(a)
    BY <1>1, ActFacts
  <1>3. Len(h.acts) \in 1 .. Len(h.acts)
    BY <1>1, FrontOfStack DEF GoodGet, GetFrame
  <1>4. Declared(a.call)
    BY <1>1, <1>3 DEF GetReached, ActsReached, ActReached, UseSound, LastAct
  <1>5. ASSUME a.call.with # {}
        PROVE  v.cfg = a.env.bv.cfg /\ a.call.with \subseteq v.feats /\ v \in Variant
    <2>1. a.env \in Env /\ a.call \in Edge /\ a.env.bv # None
      BY <1>1, <1>2, <1>5 DEF Act, SoundAct
    <2> HIDE DEF a
    <2> QED
      BY <1>1, <2>1, UseVariantFacts
  <1> QED
    BY <1>1, <1>4, <1>5

(* The caller's stack, below, and the call of addconfig(p, v) made on it. *)
Calling(p, v, below) ==
    /\ StackSound(below) /\ FramesReached(below) /\ Chained(below)
    /\ MapTracked(bvMap, below, configs)
    /\ p \in script.real => v \in Variant /\ AllAskedOf(v.feats, p)
    /\ \A i \in 1 .. Len(below) : p \in LeadsTo(below[i].p)
    /\ below # <<>> => CalledFor(p, v, below[Len(below)])

(* An answer given at once is sound when it is for a use with features. *)
LEMMA AnswerAtOnce ==
    ASSUME BakeInv, NEW p \in Prj, NEW v, NEW below, Calling(p, v, below), NEW r,
           \A w : w \in Variant /\ v = w /\ w.feats # {} =>
               /\ r.bv = None => p \notin script.real \/ OnCycle(p)
               /\ r.bv # None => SameCfg(r.bv.cfg, w.cfg) /\ AllAskedOf(r.bv.feats, p)
    PROVE  AnswersSound(below, r)
  <1> DEFINE h == below[Len(below)]
             a == LastAct(h)
  <1> SUFFICES ASSUME below # <<>>, h.fn = "getconfig", h.acts # <<>>,
                      a.call # None, a.call.with # {}
               PROVE  /\ r.bv = None => Culprit
                      /\ r.bv # None => /\ SameCfg(r.bv.cfg, a.env.bv.cfg)
                                        /\ AllAskedOf(r.bv.feats, a.call.to)
    BY DEF AnswersSound, AnswerSound
  <1>1. below \in Seq(Frame) /\ Len(below) \in 1 .. Len(below)
    BY FrontOfStack DEF Calling, StackSound
  <1>2. GoodGet(h) /\ GetReached(h)
    <2>1. h \in GetFrame
      BY <1>1, ElementOfSeq, FrameKinds
    <2> QED
      BY <1>1, <2>1 DEF Calling, StackSound, FramesReached, GoodGet
  <1>3. CalledFor(p, v, h)
    BY DEF Calling
  <1> HIDE DEF h
  <1>4. /\ a.call.to = p /\ Declared(a.call) /\ v.cfg = a.env.bv.cfg
        /\ a.call.with \subseteq v.feats /\ v \in Variant
    BY <1>2, <1>3, WaitingFacts
  <1>5. v.feats # {}
    BY <1>4
  <1> QED
    BY <1>4, <1>5 DEF Culprit, Declared

(* What a call of addconfig leaves behind. *)
LEMMA CallReached ==
    ASSUME BakeInv, Reached, NEW p \in Prj, NEW v, NEW below, Calling(p, v, below),
           addconfig(p, v, below)
    PROVE  /\ FramesReached(stack') /\ Chained(stack')
           /\ AnswersSound(stack', ret')
           /\ ret'.kind = "nil" => ret'.bv = None
           /\ TablesReached(configs, blocks, bvMap', usageFilter, cache)
  <1> DEFINE fin == applyBuildVariantMap(p, v)
             frame == [fn |-> "addconfig", p |-> p, init |-> v, fin |-> fin,
                       cfg |-> None, left |-> {}]
             get == GetStart(p, fin, "usesconfig")
  <1>1. /\ TypeOK /\ TablesSound /\ MapLeads(bvMap, configs)
        /\ TablesReached(configs, blocks, bvMap, usageFilter, cache)
        /\ FramesReached(below) /\ Chained(below) /\ StackSound(below)
        /\ MapTracked(bvMap, below, configs)
    BY StackFacts DEF BakeInv, Calling, Reached
  <1>2. CASE ~HasProject(p)
    <2>1. /\ ret' = NilReturn /\ stack' = below /\ bvMap' = bvMap
          /\ p \notin script.real
      BY <1>2 DEF addconfig, HasProject
    <2>2. NilReturn.bv = None
      BY DEF NilReturn
    <2>3. AnswersSound(below, NilReturn)
      BY <2>1, <2>2, AnswerAtOnce
    <2> QED
      BY <1>1, <2>1, <2>2, <2>3
  <1>3. CASE HasProject(p)
    <2>1. p \in script.real /\ v \in Variant /\ AllAskedOf(v.feats, p)
      BY <1>3 DEF HasProject, Calling
    <2>2. fin \in Variant \cup {InProgress}
      BY <1>1, <2>1, FinalIsVariant
    <2>3. bvMap[p][v] = None => fin = IF p \in script.single THEN AllVariant ELSE v
      BY DEF applyBuildVariantMap
    <2>4. bvMap[p][v] # None => fin = bvMap[p][v]
      BY DEF applyBuildVariantMap
    <2>5. p \in script.single /\ fin # InProgress => fin = AllVariant
      BY <2>1, <2>2, <2>3, <2>4, <1>1 DEF MapTracked
    <2>6. fin # InProgress => SameCfg(fin.cfg, v.cfg)
      <3>1. CASE bvMap[p][v] = None
        BY <3>1, <2>1, <2>3 DEF SameCfg, AllVariant
      <3>2. CASE bvMap[p][v] # None
        BY <3>2, <2>1, <2>2, <2>4, <1>1 DEF TablesReached
      <3> QED
        BY <3>1, <3>2
    <2>7. /\ fin # InProgress /\ configs[p][fin] = None /\ p \notin script.single
             => fin = v
      BY <2>1, <1>1, EnterOrdinary
    <2> HIDE DEF fin
    <2>8. CASE fin = InProgress /\ ret' = Blank /\ stack' = below /\ bvMap' = bvMap
      <3>1. Blank.bv = None /\ Blank.kind # "nil"
        BY DEF Blank
      <3>2. v.feats # {} => OnCycle(p)
        <4> SUFFICES ASSUME v.feats # {} PROVE OnCycle(p)
          OBVIOUS
        <4>1. v # AllVariant /\ bvMap[p][v] = InProgress
          BY <2>1, <2>3, <2>4, <2>8, AllIsVariant, NoneDistinct DEF AllVariant
        <4>2. UnderWay(below, p, v)
          BY <4>1, <2>1, <1>1 DEF MapTracked
        <4> QED
          BY <4>2 DEF UnderWay, Calling, OnCycle
      <3>3. AnswersSound(below, Blank)
        BY <3>1, <3>2, AnswerAtOnce
      <3> QED
        BY <1>1, <2>8, <3>1, <3>3
    <2>9. CASE /\ fin # InProgress /\ configs[p][fin] # None
               /\ ret' = Returned(configs[p][fin])
               /\ stack' = below /\ bvMap' = bvMap
      <3>1. /\ configs[p][fin].bv = fin /\ ConfigSound(p, configs[p][fin])
            /\ fin \in Variant
        BY <2>2, <2>9, <1>1 DEF TablesReached
      <3>2. /\ ret'.kind # "nil" /\ ret'.bv = fin
        BY <2>9, <3>1 DEF Returned
      <3>3. SameCfg(fin.cfg, v.cfg) /\ AllAskedOf(fin.feats, p) /\ fin # None
        BY <2>6, <2>9, <3>1, NoneDistinct DEF ConfigSound
      <3>4. AnswersSound(below, ret')
        BY <3>2, <3>3, AnswerAtOnce
      <3> QED
        BY <1>1, <2>9, <3>2, <3>4
    <2>10. CASE /\ fin # InProgress /\ configs[p][fin] = None
                /\ bvMap' = [bvMap EXCEPT ![p] =
                                 [@ EXCEPT ![v] = fin, ![fin] = InProgress]]
      <3>1. fin \in Variant
        BY <2>2, <2>10
      <3>2. \A q \in Prj, w \in Variant :
               \/ q = p /\ w = fin /\ bvMap'[q][w] = InProgress
               \/ q = p /\ w = v /\ bvMap'[q][w] = fin
               \/ bvMap'[q][w] = bvMap[q][w]
        BY <2>1, <2>10, <3>1, <1>1 DEF TypeOK
      <3>3. TablesReached(configs, blocks, bvMap', usageFilter, cache)
        <4>1. \A q \in Prj, w \in Variant :
                 bvMap'[q][w] \in Variant => SameCfg(bvMap'[q][w].cfg, w.cfg)
          BY <3>2, <2>6, <2>10, <1>1, NoneDistinct DEF TablesReached
        <4> QED
          BY <4>1, <1>1 DEF TablesReached
      <3>4. CASE /\ fin = AllVariant /\ p \notin script.single
                 /\ ret' = Blank /\ stack' = below
        <4>1. Blank.bv = None /\ Blank.kind # "nil"
          BY DEF Blank
        <4>2. v.feats = {}
          BY <2>7, <2>10, <3>4 DEF AllVariant
        <4>3. AnswersSound(below, Blank)
          BY <4>1, <4>2, AnswerAtOnce
        <4> QED
          BY <1>1, <3>3, <3>4, <4>1, <4>3
      <3>5. CASE /\ ~(fin = AllVariant /\ p \notin script.single)
                 /\ ret' = NilReturn
                 /\ stack' = Append(Append(below, frame), get)
        <4>1. frame \in AddFrame
          BY <2>1, <3>1 DEF AddFrame
        <4>2. get \in GetFrame /\ SoundGet(get)
          BY <1>1, <2>1, <3>1, GetStartSound DEF Field
        <4>3. AllAskedOf(fin.feats, p)
          <5>1. CASE p \in script.single
            BY <5>1, <2>5, <2>10 DEF AllAskedOf, AllVariant
          <5>2. CASE p \notin script.single
            BY <5>2, <2>1, <2>7, <2>10
          <5> QED
            BY <5>1, <5>2
        <4>4. AddReached(frame)
          BY <4>3, <2>6, <2>10 DEF AddReached
        <4>5. /\ GetReached(get) /\ (get.acts # <<>> => LastAct(get).call = None)
              /\ get.fn = "getconfig" /\ get.p = p
          BY <1>1, <2>1, <3>1, <4>3, GetStartReached, GetStartReads DEF Field
        <4> HIDE DEF get
        <4>6. Pushed(stack', below, frame, get)
          BY <3>5, <4>1, <4>2, PushBake, <1>1
        <4>7. frame.p = p /\ frame.init = v /\ frame.fn = "addconfig"
          OBVIOUS
        <4> HIDE DEF frame
        <4>8. FramesReached(stack') /\ Chained(stack')
          BY <1>1, <4>4, <4>5, <4>6, <4>7, ReachedPush DEF Calling
        <4>9. AnswersSound(stack', ret')
          <5>1. stack'[Len(stack')] = get
            BY <4>6, <1>1, LenProperties DEF Pushed, StackSound
          <5> QED
            BY <5>1, <4>5 DEF AnswersSound, AnswerSound
        <4>10. NilReturn.bv = None
          BY DEF NilReturn
        <4> QED
          BY <3>3, <3>5, <4>8, <4>9, <4>10
      <3> QED
        BY <2>10, <3>4, <3>5, <1>3 DEF addconfig, fin, frame, get
    <2> QED
      BY <1>3, <2>8, <2>9, <2>10 DEF addconfig, fin
  <1> QED
    BY <1>2, <1>3

-----------------------------------------------------------------------------
(* The steps *)

(* The innermost frame replaced by one of the same call. *)
LEMMA ReplaceReached ==
    ASSUME BakeInv, Reached, stack # <<>>, NEW f \in Frame, f.fn = Top.fn,
           f.p = Top.p, f.fn = "getconfig" => GetReached(f),
           f.fn = "addconfig" => AddReached(f) /\ f.init = Top.init
    PROVE  /\ FramesReached(Replace(f)) /\ Chained(Replace(f))
           /\ Len(Replace(f)) = Len(stack) /\ Len(stack) \in Nat \ {0}
           /\ Replace(f)[Len(stack)] = f
           /\ \A i \in 1 .. Len(stack) : Replace(f)[i].p = stack[i].p
  <1> DEFINE r == Replace(f)
             n == Len(stack)
  <1>1. stack \in Seq(Frame) /\ n \in Nat
    BY StackFacts
  <1>2. /\ Len(r) = n /\ r[n] = f /\ n \in Nat \ {0}
        /\ \A i \in 1 .. n - 1 : r[i] = stack[i]
    <2>1. Replaced(Append(SubSeq(stack, 1, Len(stack) - 1), f), stack, f, Frame)
      BY <1>1, ReplaceOnStack
    <2>2. Replaced(r, stack, f, Frame)
      BY <2>1 DEF Replace, Below
    <2> QED
      BY <2>2 DEF Replaced
  <1> HIDE DEF r
  <1>3. stack[n] = Top
    BY DEF Top
  <1>4. \A i \in 1 .. n : r[i].p = stack[i].p
    BY <1>2, <1>3
  <1>5. ASSUME NEW i \in 1 .. n
        PROVE  /\ r[i].fn = "addconfig" =>
                    /\ AddReached(r[i])
                    /\ i > 1 => CalledFor(r[i].p, r[i].init, r[i - 1])
               /\ r[i].fn = "getconfig" => GetReached(r[i])
    <2>1. i > 1 => r[i - 1] = stack[i - 1]
      BY <1>2
    <2>2. CASE i = n
      <3>1. f.fn = "addconfig" /\ i > 1 => CalledFor(Top.p, Top.init, stack[i - 1])
        BY <2>2, <1>2, <1>3 DEF Reached, FramesReached
      <3> QED
        BY <2>1, <2>2, <3>1, <1>2
    <2>3. CASE i \in 1 .. n - 1
      <3>1. r[i] = stack[i]
        BY <2>3, <1>2
      <3> QED
        BY <2>1, <3>1 DEF Reached, FramesReached
    <2> QED
      BY <2>2, <2>3, <1>2
  <1>6. FramesReached(r)
    BY <1>2, <1>5 DEF FramesReached
  <1>7. Chained(r)
    BY <1>2, <1>4 DEF Chained, Reached
  <1> QED
    BY <1>2, <1>4, <1>6, <1>7 DEF r

(* Steps of findBlocks that call nothing. *)
LEMMA FindReached ==
    ASSUME BakeInv, BakeInv', Reached, TopIs("getconfig"), NEW g,
           g.fn = "getconfig", g.p = Top.p, GetReached(g),
           g.acts # <<>> => LastAct(g).call = None, stack' = Replace(g),
           UNCHANGED <<script, configs, blocks, bvMap, usageFilter, queue, ret>>,
           TablesReached(configs, blocks, bvMap, usageFilter, cache'),
           status' # "crash"
    PROVE  Reached'
  <1>1. g \in Frame /\ Top.fn = "getconfig" /\ stack # <<>>
    BY NewTop DEF TopIs
  <1>2. /\ FramesReached(stack') /\ Chained(stack')
        /\ Len(stack') = Len(stack) /\ stack'[Len(stack)] = g
    BY <1>1, ReplaceReached
  <1>3. AnswersSound(stack', ret')
    BY <1>2 DEF AnswersSound, AnswerSound
  <1> QED
    BY <1>2, <1>3, ReachedNext DEF Reached

(* Steps that leave the calls and the tables alone. *)
LEMMA QuietReached ==
    ASSUME Reached, UNCHANGED <<script, configs, blocks, bvMap, usageFilter,
                                cache, stack, ret>>,
           \A j \in 1 .. Len(queue') : queue'[j].feats = {},
           status' = "crash" => Culprit
    PROVE  Reached'
  BY ReachedNext DEF Reached

(* A Lua error. *)
LEMMA CrashReached ==
    ASSUME Reached, Culprit, Crash
    PROVE  Reached'
  BY QuietReached DEF Crash, tables, usages, mainloop, Reached

(* A step that calls addconfig. *)
LEMMA CallsReached ==
    ASSUME BakeInv, Reached, NEW p \in Prj, NEW v, NEW below, Calling(p, v, below),
           addconfig(p, v, below), UNCHANGED <<script, configs, usages, cache, status>>,
           status = "bake",
           \A j \in 1 .. Len(queue') : queue'[j].feats = {}
    PROVE  Reached'
  BY CallReached, ReachedNext DEF usages

(* bakeall asks only for configurations without features. *)
LEMMA StartProjectReached ==
    ASSUME BakeInv, Reached, NEW p \in Prj, StartProject(p)
    PROVE  Reached'
  <1>1. /\ UNCHANGED <<script, configs, blocks, bvMap, usageFilter, cache, stack, ret>>
        /\ status' = "bake"
        /\ queue' = [i \in DOMAIN BuildCfgs |-> [cfg |-> BuildCfgs[i], feats |-> {}]]
    BY DEF StartProject, usages
  <1>2. \A j \in 1 .. Len(queue') : queue'[j].feats = {}
    BY <1>1, BuildCfgsSequence, LenProperties
  <1> QED
    BY <1>1, <1>2, QuietReached

(* bakeall asks for a configuration. *)
LEMMA AddDefaultReached ==
    ASSUME BakeInv, Tracked, Reached, AddDefault
    PROVE  Reached'
  <1>1. TablesTyped /\ TablesSound
    BY TypedParts
  <1>2. queue # <<>> /\ queue \in Seq(Variant) /\ queue' = Tail(queue) /\ stack = <<>>
    BY <1>1 DEF AddDefault, TablesTyped
  <1>3. current \in Prj /\ Head(queue) \in Variant
    BY <1>1, <1>2, HeadTailProperties DEF TablesTyped, TablesSound
  <1>4. Head(queue).feats = {} /\ \A j \in 1 .. Len(queue') : queue'[j].feats = {}
    <2>1. \A j \in 1 .. Len(queue) : queue[j].feats = {}
      BY DEF Reached
    <2>2. Head(queue) = queue[1] /\ 1 \in 1 .. Len(queue)
      BY <1>2
    <2>3. \A j \in 1 .. Len(queue') : j + 1 \in 1 .. Len(queue) /\ queue'[j] = queue[j + 1]
      BY <1>2
    <2> QED
      BY <2>1, <2>2, <2>3
  <1>5. Calling(current, Head(queue), stack)
    <2>1. Len(stack) = 0
      BY <1>2
    <2> QED
      BY <1>2, <1>3, <1>4, <2>1, StackFacts
         DEF Calling, Reached, Tracked, AllAskedOf
  <1> QED
    BY <1>3, <1>4, <1>5, CallsReached DEF AddDefault

(* Baking a compile dependency. *)
LEMMA CompileDependReached ==
    ASSUME BakeInv, Tracked, Reached, NEW q \in Prj, CompileDepend(q)
    PROVE  Reached'
  <1> DEFINE f == [Top EXCEPT !.left = @ \ {q}]
             n == Len(stack)
  <1>1. Top \in AddFrame /\ Top.fn = "addconfig" /\ stack # <<>>
    BY TopAdd DEF CompileDepend
  <1>2. Top.cfg.bv \in Variant /\ q \in Top.left /\ Top.cfg # None
    BY <1>1 DEF CompileDepend, AddFrame, Config
  <1>3. n \in 1 .. n /\ n \in Nat \ {0} /\ stack \in Seq(Frame)
    BY <1>1, StackFacts, FrontOfStack
  <1>4. AddReached(Top) /\ Top.p \in Prj
    BY <1>1, <1>3 DEF Reached, FramesReached, Top, AddFrame
  <1>5. /\ f \in AddFrame /\ f.fn = "addconfig" /\ f.p = Top.p /\ f.init = Top.init
        /\ f.fin = Top.fin /\ f.cfg = Top.cfg /\ f.left \subseteq Top.left
    BY <1>1 DEF AddFrame
  <1> HIDE DEF f
  <1>6. AddReached(f)
    BY <1>4, <1>5 DEF AddReached
  <1>7. /\ FramesReached(Replace(f)) /\ Chained(Replace(f))
        /\ Len(Replace(f)) = n /\ Replace(f)[n] = f
        /\ \A i \in 1 .. n : Replace(f)[i].p = stack[i].p
    BY <1>1, <1>5, <1>6, ReplaceReached DEF Frame
  <1>8. StackSound(Replace(f)) /\ SameCalls(stack, Replace(f))
    BY <1>1, <1>5, ReplaceTop DEF Frame
  <1>9. MapTracked(bvMap, Replace(f), configs)
    BY <1>8, SameUnderWay DEF Tracked
  <1>10. q \in LeadsTo(Top.p) /\ ConfigSound(Top.p, Top.cfg)
    BY <1>2, <1>4 DEF AddReached
  <1>11. AllAskedOf(Top.cfg.bv.feats, q)
    BY <1>4, <1>10, BehindFacts, AskedMoves, TypedParts DEF ConfigSound
  <1>12. \A i \in 1 .. n : q \in LeadsTo(stack[i].p)
    <2> SUFFICES ASSUME NEW i \in 1 .. n PROVE q \in LeadsTo(stack[i].p)
      OBVIOUS
    <2>1. Top.p = stack[i].p \/ Top.p \in LeadsTo(stack[i].p)
      BY <1>3 DEF Reached, Chained, Top
    <2>2. stack[i].p \in Prj
      BY <1>3, ElementOfSeq DEF Frame, AddFrame, GetFrame
    <2> QED
      BY <1>10, <2>1, <2>2, LeadsFacts, TypedParts
  <1>13. Calling(q, Top.cfg.bv, Replace(f))
    BY <1>2, <1>5, <1>7, <1>8, <1>9, <1>11, <1>12 DEF Calling, CalledFor
  <1>14. /\ addconfig(q, Top.cfg.bv, Replace(f)) /\ status = "bake"
         /\ UNCHANGED <<script, configs, usages, cache, status>> /\ queue' = queue
    BY DEF CompileDepend, f, mainloop
  <1> QED
    BY <1>13, <1>14, CallsReached DEF Reached

(* The innermost activation, and the outer ones, which wait for nothing. *)
LEMMA LastActReached ==
    ASSUME NEW g, GoodGet(g), GetReached(g), g.acts # <<>>
    PROVE  /\ LastAct(g) \in Act /\ SoundAct(LastAct(g))
           /\ ActReached(g.p, g.filter, LastAct(g))
           /\ OuterActs(g) \in Seq(Act)
           /\ ActsReached(g.p, g.filter, OuterActs(g))
           /\ \A j \in 1 .. Len(OuterActs(g)) : OuterActs(g)[j].call = None
           /\ g.p \in Prj /\ g.filter \in Variant
  <1>1. g.acts \in Seq(Act) /\ g.p \in Prj /\ g.filter \in Variant
    BY DEF GoodGet, GetFrame
  <1>2. /\ Len(OuterActs(g)) = Len(g.acts) - 1
        /\ \A i \in 1 .. Len(g.acts) - 1 : OuterActs(g)[i] = g.acts[i]
        /\ Len(g.acts) \in Nat \ {0}
    BY <1>1, FrontOfStack DEF OuterActs
  <1>3. ActsReached(g.p, g.filter, g.acts)
    BY DEF GetReached
  <1>4. ActReached(g.p, g.filter, LastAct(g))
    BY <1>2, <1>3 DEF ActsReached, LastAct
  <1>5. /\ ActsReached(g.p, g.filter, OuterActs(g))
        /\ \A j \in 1 .. Len(OuterActs(g)) : OuterActs(g)[j].call = None
    BY <1>2, <1>3 DEF ActsReached
  <1> QED
    BY <1>1, <1>4, <1>5, ActFacts

(* One more activation, on top of activations that wait for nothing. *)
LEMMA PushActReached ==
    ASSUME NEW p, NEW v, NEW s \in Seq(Act), ActsReached(p, v, s),
           \A j \in 1 .. Len(s) : s[j].call = None,
           NEW x \in Act, ActReached(p, v, x)
    PROVE  /\ ActsReached(p, v, Append(s, x))
           /\ Append(s, x)[Len(Append(s, x))] = x
  <1>1. /\ Len(Append(s, x)) = Len(s) + 1 /\ Append(s, x)[Len(s) + 1] = x
        /\ \A i \in 1 .. Len(s) : Append(s, x)[i] = s[i]
        /\ Len(s) \in Nat
    BY PushOnStack, LenProperties
  <1>2. \A j \in 1 .. Len(s) + 1 : ActReached(p, v, Append(s, x)[j])
    BY <1>1 DEF ActsReached
  <1> QED
    BY <1>1, <1>2 DEF ActsReached

(* findBlocks on a table it may walk. *)
LEMMA VisitReached ==
    ASSUME NEW g, GoodGet(g), GetReached(g),
           \A j \in 1 .. Len(g.acts) : g.acts[j].call = None,
           NEW kb \in KB, NEW env \in Env, NEW uses, uses \subseteq Edge, NEW exists,
           ActReached(g.p, g.filter, [kb |-> kb, env |-> env, left |-> uses,
                                      call |-> None])
    PROVE  LET h == Visit(g, kb, env, uses, exists)
           IN  /\ h.fn = "getconfig" /\ h.p = g.p /\ h.filter = g.filter
               /\ GetReached(h)
               /\ h.acts # <<>> => LastAct(h).call = None
  <1> DEFINE x == [kb |-> kb, env |-> env, left |-> uses, call |-> None]
             h == [g EXCEPT !.seen = @ \cup {kb}, !.acts = Append(@, x)]
  <1>1. g.acts \in Seq(Act) /\ ActsReached(g.p, g.filter, g.acts)
    BY DEF GoodGet, GetFrame, GetReached
  <1>2. CASE Visit(g, kb, env, uses, exists) = g
    <2>1. g.acts # <<>> => Len(g.acts) \in 1 .. Len(g.acts)
      BY <1>1, FrontOfStack
    <2> QED
      BY <1>2, <2>1 DEF LastAct, GoodGet
  <1>3. CASE Visit(g, kb, env, uses, exists) = h
    <2>1. x \in Act /\ x.call = None
      BY DEF Act
    <2>2. SeenSound(g.p, g.filter, kb)
      BY DEF ActReached
    <2> HIDE DEF x
    <2>3. /\ ActsReached(g.p, g.filter, Append(g.acts, x))
          /\ Append(g.acts, x)[Len(Append(g.acts, x))] = x
      BY <1>1, <2>1, PushActReached DEF x
    <2>4. /\ h.fn = "getconfig" /\ h.p = g.p /\ h.filter = g.filter
          /\ h.acts = Append(g.acts, x) /\ h.seen = g.seen \cup {kb}
          /\ h.cfgs = g.cfgs
      BY DEF GoodGet, GetFrame
    <2> HIDE DEF h
    <2>5. GetReached(h)
      BY <2>2, <2>3, <2>4 DEF GetReached
    <2> QED
      BY <1>3, <2>1, <2>3, <2>4, <2>5 DEF LastAct
  <1> QED
    BY <1>2, <1>3 DEF Visit

(* A frame with other activations. *)
LEMMA ReachedWithActs ==
    ASSUME NEW g, GoodGet(g), GetReached(g), NEW s \in Seq(Act),
           ActsReached(g.p, g.filter, s)
    PROVE  LET h == [g EXCEPT !.acts = s]
           IN  /\ GetReached(h) /\ h.acts = s /\ h.p = g.p /\ h.filter = g.filter
               /\ h.fn = "getconfig" /\ h.seen = g.seen /\ h.cfgs = g.cfgs
  <1> DEFINE h == [g EXCEPT !.acts = s]
  <1>1. /\ h.acts = s /\ h.p = g.p /\ h.filter = g.filter
        /\ h.fn = "getconfig" /\ h.seen = g.seen /\ h.cfgs = g.cfgs
    BY DEF GoodGet, GetFrame
  <1> HIDE DEF h
  <1>2. GetReached(h)
    BY <1>1 DEF GetReached
  <1> QED
    BY <1>1, <1>2 DEF h

(* The innermost getconfig, as the invariant describes it. *)
LEMMA TopGetReached ==
    ASSUME BakeInv, Tracked, Reached, TopIs("getconfig")
    PROVE  /\ GoodGet(Top) /\ GetReached(Top) /\ stack # <<>>
           /\ Top.p \in script.real /\ AllAskedOf(Top.filter.feats, Top.p)
           /\ Len(stack) \in Nat \ {0} /\ Len(stack) > 1
           /\ GetTracked(Top, stack[Len(stack) - 1])
           /\ stack[Len(stack) - 1].fn = "addconfig"
           /\ AddReached(stack[Len(stack) - 1])
  <1> DEFINE n == Len(stack)
  <1>1. /\ GoodGet(Top) /\ stack # <<>> /\ Len(stack) > 1
        /\ stack[n - 1].fn = "addconfig" /\ Top.fn = "getconfig"
    BY TopGet DEF GoodGet
  <1>2. n \in Nat \ {0} /\ n \in 1 .. n /\ n - 1 \in 1 .. n
    BY <1>1, StackFacts, FrontOfStack
  <1>3. GetReached(Top)
    BY <1>1, <1>2 DEF Reached, FramesReached, Top
  <1>4. GetTracked(Top, stack[n - 1]) /\ AddTracked(stack[n - 1], prjToBuild, configs)
    BY <1>1, <1>2 DEF Tracked, FramesTracked, Top
  <1>5. AddReached(stack[n - 1])
    BY <1>1, <1>2 DEF Reached, FramesReached
  <1> QED
    BY <1>1, <1>2, <1>3, <1>4, <1>5 DEF GetTracked, AddTracked, AddReached

(* Following a use. *)
LEMMA UseReached ==
    ASSUME BakeInv, Tracked, Reached, NEW e \in Edge, Use(e)
    PROVE  Reached'
  <1> DEFINE a == LastAct(Top)
             x == [a EXCEPT !.left = @ \ {e}, !.call = e]
             acts == Append(OuterActs(Top), x)
             g == [Top EXCEPT !.acts = acts]
             n == Len(stack)
  <1>1. TopIs("getconfig") /\ Top.acts # <<>> /\ stack # <<>> /\ status = "bake"
    BY DEF Use, TopIs
  <1>2. GoodGet(Top) /\ GetReached(Top)
    BY <1>1, TopGetReached
  <1>3. /\ a \in Act /\ SoundAct(a) /\ ActReached(Top.p, Top.filter, a)
        /\ OuterActs(Top) \in Seq(Act)
        /\ ActsReached(Top.p, Top.filter, OuterActs(Top))
        /\ \A j \in 1 .. Len(OuterActs(Top)) : OuterActs(Top)[j].call = None
        /\ Top.p \in Prj
    BY <1>1, <1>2, LastActReached
  <1>4. e \in a.left /\ a.call = None
    BY DEF Use
  <1>5. UseSound(Top.p, a.kb, e)
    BY <1>3, <1>4 DEF ActReached
  <1>6. CASE a.env.bv = None /\ Crash
    BY <1>3, <1>6, CrashReached DEF ActReached
  <1>7. CASE /\ ~(a.env.bv = None /\ (e.with # {} \/ e.to \in script.real))
             /\ addconfig(e.to, UseVariant(a.env, e), Replace(g))
             /\ UNCHANGED <<script, configs, usages, cache, mainloop, status>>
    <2> HIDE DEF a
    <2>1. e.to \in Prj /\ e # None /\ a.env \in Env /\ a.kb.p \in Prj
      BY <1>3, NoneDistinct DEF Edge, Act, KB
    <2>2. /\ x \in Act /\ x.env = a.env /\ x.kb = a.kb /\ x.call = e
          /\ x.left \subseteq a.left
      BY <1>3 DEF Act
    <2>3. SoundAct(x)
      BY <1>3, <1>7, <2>2 DEF SoundAct
    <2>4. ActReached(Top.p, Top.filter, x)
      BY <1>3, <1>5, <2>2 DEF ActReached
    <2> HIDE DEF x
    <2>5. /\ ActsReached(Top.p, Top.filter, acts) /\ acts[Len(acts)] = x
          /\ acts \in Seq(Act)
      BY <1>3, <2>2, <2>4, PushActReached, PushOnStack
    <2>6. GoodGet(g)
      BY <1>1, <1>2, <2>2, <2>3, GoodWithLast
    <2> HIDE DEF acts
    <2>7. /\ GetReached(g) /\ g.acts = acts /\ g.p = Top.p /\ g.fn = "getconfig"
      BY <1>2, <2>5, ReachedWithActs
    <2> HIDE DEF g
    <2>8. /\ FramesReached(Replace(g)) /\ Chained(Replace(g))
          /\ Len(Replace(g)) = n /\ n \in Nat \ {0} /\ Replace(g)[n] = g
          /\ \A i \in 1 .. n : Replace(g)[i].p = stack[i].p
      BY <1>1, <2>6, <2>7, ReplaceReached DEF TopIs, Frame, GoodGet
    <2>9. StackSound(Replace(g)) /\ SameCalls(stack, Replace(g))
      BY <1>1, <2>6, ReplaceGet
    <2>10. MapTracked(bvMap, Replace(g), configs)
      BY <2>9, SameUnderWay DEF Tracked
    <2>11. CalledFor(e.to, UseVariant(a.env, e), g)
      <3>1. LastAct(g) = x /\ g.acts # <<>>
        <4>1. acts # <<>>
          BY <1>3, <2>2, PushOnStack, LenProperties, EmptySeq DEF acts
        <4> QED
          BY <4>1, <2>5, <2>7 DEF LastAct
      <3> QED
        BY <3>1, <2>1, <2>2 DEF CalledFor
    <2>12. ASSUME e.to \in script.real
           PROVE  /\ UseVariant(a.env, e) \in Variant
                  /\ AllAskedOf(UseVariant(a.env, e).feats, e.to)
      <3>1. a.env.bv # None
        BY <1>7, <2>12
      <3>2. /\ UseVariant(a.env, e) \in Variant
            /\ UseVariant(a.env, e).feats = a.env.bv.feats \cup e.with
        BY <2>1, <3>1, UseVariantFacts
      <3>3. AllAskedOf(a.env.bv.feats, e.to)
        BY <1>3, <1>5, <2>1, <3>1, AskedMoves, TypedParts DEF ActReached, UseSound
      <3>4. AllAskedOf(e.with, e.to)
        BY <1>5, AskedByUse, TypedParts DEF UseSound
      <3> QED
        BY <3>2, <3>3, <3>4 DEF AllAskedOf
    <2>13. \A i \in 1 .. n : e.to \in LeadsTo(stack[i].p)
      <3> SUFFICES ASSUME NEW i \in 1 .. n PROVE e.to \in LeadsTo(stack[i].p)
        OBVIOUS
      <3>1. Top.p = stack[i].p \/ Top.p \in LeadsTo(stack[i].p)
        BY <2>8 DEF Reached, Chained, Top
      <3>2. stack[i].p \in Prj
        BY StackFacts, ElementOfSeq DEF Frame, AddFrame, GetFrame
      <3> QED
        BY <1>3, <1>5, <3>1, <3>2, LeadsFacts, TypedParts DEF UseSound
    <2>14. Calling(e.to, UseVariant(a.env, e), Replace(g))
      BY <2>8, <2>9, <2>10, <2>11, <2>12, <2>13 DEF Calling
    <2>15. queue' = queue
      BY <1>7 DEF mainloop
    <2> QED
      BY <1>1, <1>7, <2>1, <2>14, <2>15, CallsReached DEF Reached
  <1> QED
    BY <1>6, <1>7 DEF Use

(* Walking a usage: its exports lead where its user leads, and the variant *)
(* it is walked under has only features that were asked of it.             *)
LEMMA EnterUsageReached ==
    ASSUME BakeInv, BakeInv', Tracked, Reached, EnterUsage
    PROVE  Reached'
  <1> DEFINE a == LastAct(Top)
             e == a.call
             acts == Append(OuterActs(Top), Restore(a))
             back == [Top EXCEPT !.acts = acts]
             kb == UsageKB(e.to)
             env == UsageEnv(a)
             g == Visit(back, kb, env, script.exports[e.to], e.to \in usageBaked')
  <1>1. TopIs("getconfig") /\ Top.acts # <<>> /\ e # None /\ status = "bake"
    BY DEF EnterUsage
  <1>2. GoodGet(Top) /\ GetReached(Top) /\ stack # <<>>
    BY <1>1, TopGetReached
  <1>3. /\ a \in Act /\ SoundAct(a) /\ ActReached(Top.p, Top.filter, a)
        /\ OuterActs(Top) \in Seq(Act)
        /\ ActsReached(Top.p, Top.filter, OuterActs(Top))
        /\ \A j \in 1 .. Len(OuterActs(Top)) : OuterActs(Top)[j].call = None
        /\ Top.p \in Prj
    BY <1>1, <1>2, LastActReached
  <1>4. AnswerSound(a, ret)
    BY <1>1, <1>2 DEF Reached, AnswersSound, Top, TopIs
  <1>5. CASE e.with # {} /\ ret.kind = "nil" /\ Crash
    BY <1>1, <1>4, <1>5, CrashReached DEF AnswerSound, Reached
  <1>6. CASE /\ stack' = Replace(g)
             /\ UNCHANGED <<script, tables, usageFilter, blocks, cache,
                            ret, mainloop, status>>
    <2> HIDE DEF a
    <2>1. e \in Edge /\ e.to \in Prj /\ a.env \in Env /\ a.kb.p \in Prj
      BY <1>1, <1>3 DEF Act, Edge, KB
    <2>2. UseSound(Top.p, a.kb, e)
      BY <1>1, <1>3 DEF ActReached
    <2>3. /\ Restore(a) \in Act /\ SoundAct(Restore(a)) /\ Restore(a).call = None
          /\ ActReached(Top.p, Top.filter, Restore(a))
      BY <1>3 DEF Act, SoundAct, ActReached, Restore
    <2>4. /\ ActsReached(Top.p, Top.filter, acts) /\ acts \in Seq(Act)
          /\ \A j \in 1 .. Len(acts) : acts[j].call = None
      <3>1. /\ acts \in Seq(Act) /\ Len(acts) = Len(OuterActs(Top)) + 1
            /\ acts[Len(OuterActs(Top)) + 1] = Restore(a)
            /\ \A i \in 1 .. Len(OuterActs(Top)) : acts[i] = OuterActs(Top)[i]
            /\ Len(OuterActs(Top)) \in Nat
        BY <1>3, <2>3, PushOnStack, LenProperties
      <3>2. ActsReached(Top.p, Top.filter, acts)
        BY <1>3, <2>3, PushActReached
      <3> HIDE DEF acts
      <3> QED
        BY <1>3, <2>3, <3>1, <3>2
    <2>5. GoodGet(back)
      BY <1>1, <1>2, <2>3, GoodWithLast
    <2> HIDE DEF acts
    <2>6. /\ GetReached(back) /\ back.acts = acts /\ back.p = Top.p
          /\ back.filter = Top.filter
      BY <1>2, <2>4, ReachedWithActs
    <2> HIDE DEF back
    <2>7. /\ env \in Env /\ (env.bv = None => Culprit)
          /\ env.bv # None => /\ SameCfg(env.bv.cfg, Top.filter.cfg)
                              /\ AllAskedOf(env.bv.feats, e.to)
          /\ SameCfg(env.name.cfg, Top.filter.cfg)
      <3>1. CASE e.with = {}
        <4>1. env = a.env
          BY <3>1 DEF UsageEnv
        <4>2. a.env.bv # None => AllAskedOf(a.env.bv.feats, e.to)
          BY <1>3, <2>1, <2>2, AskedMoves, TypedParts DEF ActReached, UseSound
        <4> QED
          BY <1>3, <2>1, <4>1, <4>2 DEF ActReached
      <3>2. CASE e.with # {}
        <4>1. a.env.bv # None
          BY <1>1, <1>3, <3>2 DEF SoundAct
        <4>2. /\ UseVariant(a.env, e) \in Variant
              /\ UseVariant(a.env, e).cfg = a.env.bv.cfg
          BY <2>1, <4>1, UseVariantFacts
        <4>3. env = [filter |-> ret.filter, bv |-> ret.bv,
                     name |-> UseVariant(a.env, e)]
          BY <3>2 DEF UsageEnv
        <4>4. ret \in Return
          BY TypedParts DEF TypeOK
        <4>5. /\ ret.bv = None => Culprit
              /\ ret.bv # None => /\ SameCfg(ret.bv.cfg, a.env.bv.cfg)
                                  /\ AllAskedOf(ret.bv.feats, e.to)
          BY <1>1, <1>4, <3>2 DEF AnswerSound
        <4>6. SameCfg(a.env.bv.cfg, Top.filter.cfg)
          BY <1>3, <4>1 DEF ActReached
        <4>7. env \in Env /\ env.bv = ret.bv /\ env.name.cfg = a.env.bv.cfg
          BY <4>2, <4>3, <4>4 DEF Env, Return
        <4> HIDE DEF env
        <4> QED
          BY <4>5, <4>6, <4>7, SameCfgTrans
      <3> QED
        BY <3>1, <3>2
    <2>8. /\ kb \in KB /\ kb.p = e.to /\ kb.tag = "usage"
      BY <2>1, AllIsVariant DEF UsageKB, KB
    <2> HIDE DEF env, kb
    <2>9. /\ script.exports[e.to] \subseteq Edge
          /\ \A d \in script.exports[e.to] : UseSound(Top.p, kb, d)
      <3>1. script.exports[e.to] \subseteq AllUses[e.to] /\ AllUses[e.to] \subseteq Edge
        BY <2>1, UsesTyped, TypedParts
      <3>2. e.to \in LeadsTo(Top.p)
        BY <2>2 DEF UseSound
      <3>3. \A d \in AllUses[e.to] : d.to \in LeadsTo(Top.p) /\ d.to \in Behind(e.to)
        BY <1>3, <2>1, <3>2, LeadsFacts, BehindFacts, TypedParts
      <3> QED
        BY <2>1, <2>8, <3>1, <3>3 DEF UseSound, Declared
    <2>10. ActReached(Top.p, Top.filter, [kb |-> kb, env |-> env,
                          left |-> script.exports[e.to], call |-> None])
      BY <2>2, <2>7, <2>8, <2>9 DEF ActReached, SeenSound, UseSound
    <2>11. /\ g.fn = "getconfig" /\ g.p = Top.p /\ GetReached(g)
           /\ g.acts # <<>> => LastAct(g).call = None
      BY <2>4, <2>5, <2>6, <2>7, <2>8, <2>9, <2>10, VisitReached
    <2> HIDE DEF g
    <2> QED
      BY <1>1, <1>6, <2>11, FindReached DEF tables, mainloop, Reached
  <1> QED
    BY <1>5, <1>6 DEF EnterUsage

(* Leaving a table. *)
LEMMA LeaveKBReached ==
    ASSUME BakeInv, BakeInv', Tracked, Reached, LeaveKB
    PROVE  Reached'
  <1> DEFINE a == LastAct(Top)
             kb == a.kb
             back == [Top EXCEPT !.acts = OuterActs(Top)]
             id == usageFilter[kb.p][a.env.name]
             real == [back EXCEPT !.cfgs = @ \cup
                        (a.env.filter.feats \cap script.cond[kb.p])]
             always == blocks[kb.p][id].always
             block == Visit(back, BlockKB(kb.p, id), a.env, always, TRUE)
  <1>1. TopIs("getconfig") /\ Top.acts # <<>> /\ status = "bake"
    BY DEF LeaveKB
  <1>2. GoodGet(Top) /\ GetReached(Top) /\ stack # <<>>
    BY <1>1, TopGetReached
  <1>3. /\ a \in Act /\ SoundAct(a) /\ ActReached(Top.p, Top.filter, a)
        /\ OuterActs(Top) \in Seq(Act)
        /\ ActsReached(Top.p, Top.filter, OuterActs(Top))
        /\ \A j \in 1 .. Len(OuterActs(Top)) : OuterActs(Top)[j].call = None
        /\ Top.p \in Prj /\ Top.filter \in Variant
    BY <1>1, <1>2, LastActReached
  <1>4. UNCHANGED <<script, configs, blocks, bvMap, usageFilter, cache, queue, ret>>
    BY DEF LeaveKB, tables, usages, mainloop
  <1>5. /\ GetReached(back) /\ back.acts = OuterActs(Top) /\ back.p = Top.p
        /\ back.filter = Top.filter /\ back.fn = "getconfig"
        /\ back.seen = Top.seen /\ back.cfgs = Top.cfgs
    BY <1>2, <1>3, ReachedWithActs
  <1>6. GoodGet(back)
    BY <1>1, <1>2, GoodWithoutLast
  <1>7. back.acts # <<>> => LastAct(back).call = None
    <2>1. OuterActs(Top) # <<>> => Len(OuterActs(Top)) \in 1 .. Len(OuterActs(Top))
      BY <1>3, FrontOfStack
    <2> QED
      BY <1>3, <1>5, <2>1 DEF LastAct
  <1>8. CASE status' = "crash" /\ UNCHANGED stack /\ a.env.bv = None
    BY <1>3, <1>4, <1>8, QuietReached DEF ActReached, Reached
  <1>9. CASE stack' = Replace(back) /\ status' = status
    <2> HIDE DEF back
    <2> QED
      BY <1>1, <1>4, <1>5, <1>7, <1>9, FindReached DEF Reached
  <1>10. CASE kb.tag = "real" /\ stack' = Replace(real) /\ status' = status
    <2>1. kb = RealKB(Top.p)
      BY <1>3, <1>10 DEF ActReached, SeenSound
    <2>2. kb.p = Top.p
      BY <2>1 DEF RealKB
    <2>3. /\ real.fn = "getconfig" /\ real.p = Top.p /\ real.filter = Top.filter
          /\ real.acts = back.acts /\ real.seen = back.seen
          /\ real.cfgs \subseteq back.cfgs \cup script.cond[Top.p]
      BY <1>5, <1>6, <2>2 DEF GoodGet, GetFrame
    <2> HIDE DEF back, real
    <2>4. GetReached(real)
      BY <1>5, <2>3 DEF GetReached
    <2>5. real.acts # <<>> => LastAct(real).call = None
      BY <1>7, <2>3 DEF LastAct
    <2> QED
      BY <1>1, <1>4, <1>10, <2>3, <2>4, <2>5, FindReached DEF Reached
  <1>11. CASE /\ kb.tag = "usage" /\ id # None /\ a.env.bv # None
              /\ stack' = Replace(block) /\ status' = status
    <2> HIDE DEF a
    <2>1. kb.p \in Prj /\ a.env \in Env /\ a.env.name \in Variant
      BY <1>3 DEF Act, KB, Env
    <2>2. id \in Variant /\ blocks[kb.p][id] # None
      <3>1. id \in Variant \cup {None}
        BY <2>1, TypedParts DEF TypeOK
      <3>2. blocks[kb.p][id] # None
        BY <1>11, <2>1, TypedParts DEF TablesSound
      <3> QED
        BY <1>11, <3>1, <3>2
    <2>3. SameCfg(id.cfg, a.env.name.cfg) /\ BlockSound(kb.p, id, blocks[kb.p][id])
      BY <1>11, <2>1, <2>2 DEF Reached, TablesReached
    <2>4. SameCfg(id.cfg, Top.filter.cfg)
      BY <1>3, <2>3, SameCfgTrans DEF ActReached
    <2>5. always \subseteq Edge
      <3>1. blocks[kb.p][id] \in Block
        BY <2>1, <2>2, TypedParts DEF TypeOK
      <3> QED
        BY <3>1 DEF Block
    <2>6. \A e \in always : Declared(e) /\ e.to \in LeadsTo(kb.p)
      BY <2>3 DEF BlockSound, OffersSound
    <2>7. kb.p \in LeadsTo(Top.p)
      <3>1. SeenSound(Top.p, Top.filter, kb)
        BY <1>3 DEF ActReached
      <3>2. kb.tag # "real"
        BY <1>11
      <3> HIDE DEF kb
      <3> QED
        BY <3>1, <3>2 DEF SeenSound, RealKB
    <2> HIDE DEF kb, id, always
    <2> DEFINE k == BlockKB(kb.p, id)
    <2>8. k \in KB /\ k.p = kb.p /\ k.tag = "block" /\ k.v = id
      BY <2>1, <2>2 DEF BlockKB, KB
    <2> HIDE DEF k
    <2>9. \A e \in always : UseSound(Top.p, k, e)
      BY <1>3, <2>1, <2>6, <2>7, <2>8, LeadsFacts, BehindFacts, TypedParts
         DEF UseSound
    <2>10. AllAskedOf(a.env.bv.feats, k.p) /\ SameCfg(a.env.bv.cfg, Top.filter.cfg)
           /\ SameCfg(a.env.name.cfg, Top.filter.cfg)
      BY <1>3, <1>11, <2>8 DEF ActReached, kb
    <2>11. ActReached(Top.p, Top.filter, [kb |-> k, env |-> a.env, left |-> always,
                                          call |-> None])
      BY <1>11, <2>4, <2>7, <2>8, <2>9, <2>10 DEF ActReached, SeenSound
    <2> HIDE DEF back
    <2>12. \A j \in 1 .. Len(back.acts) : back.acts[j].call = None
      BY <1>3, <1>5
    <2> DEFINE there == TRUE
    <2>13. block = Visit(back, k, a.env, always, there)
      BY DEF k
    <2> HIDE DEF there
    <2>14. ActReached(back.p, back.filter, [kb |-> k, env |-> a.env, left |-> always,
                                            call |-> None])
      BY <1>5, <2>11
    <2> HIDE DEF block
    <2>15. /\ block.fn = "getconfig" /\ block.p = Top.p /\ GetReached(block)
           /\ block.acts # <<>> => LastAct(block).call = None
      <3>1. GetReached(back)
        BY <1>5
      <3>2. /\ block.fn = "getconfig" /\ block.p = back.p /\ GetReached(block)
            /\ block.acts # <<>> => LastAct(block).call = None
        BY <3>1, <1>6, <2>1, <2>5, <2>8, <2>12, <2>13, <2>14, VisitReached
      <3> QED
        BY <3>2, <1>5
    <2> QED
      BY <1>1, <1>4, <1>11, <2>15, FindReached DEF Reached
  <1> QED
    BY <1>8, <1>9, <1>10, <1>11 DEF LeaveKB

(* The result of getconfig goes to its cache. *)
LEMMA CacheReached ==
    ASSUME BakeInv, Reached, NEW g, GoodGet(g), GetReached(g), CacheFound(g)
    PROVE  TablesReached(configs, blocks, bvMap, usageFilter, cache')
  <1> DEFINE found == [seen |-> g.seen, cfgs |-> g.cfgs]
  <1>1. g.p \in Prj /\ g.field \in Field /\ g.filter \in Variant
    BY DEF GoodGet, GetFrame
  <1>2. cache \in [Prj -> [Field -> [Variant -> Found \cup {None}]]]
    BY TypedParts DEF TypeOK
  <1>3. \A p \in Prj, f \in Field, v \in Variant :
           \/ p = g.p /\ v = g.filter /\ cache'[p][f][v] = found
           \/ cache'[p][f][v] = cache[p][f][v]
    BY <1>1, <1>2 DEF CacheFound
  <1>4. /\ \A x \in found.seen : SeenSound(g.p, g.filter, x)
        /\ found.cfgs \subseteq script.cond[g.p]
    BY DEF GetReached
  <1> HIDE DEF found
  <1> QED
    BY <1>3, <1>4 DEF Reached, TablesReached

(* getfilter ending. *)
LEMMA GotFilterReached ==
    ASSUME BakeInv, BakeInv', Tracked, Reached, GotFilter
    PROVE  Reached'
  <1> DEFINE g == GetStart(Top.p, Top.filter, "all")
  <1>1. TopIs("getconfig") /\ stack' = Replace(g) /\ CacheFound(Top) /\ status = "bake"
    BY DEF GotFilter
  <1>2. /\ GoodGet(Top) /\ GetReached(Top)
        /\ Top.p \in script.real /\ AllAskedOf(Top.filter.feats, Top.p)
    BY <1>1, TopGetReached
  <1>3. Top.p \in Prj /\ Top.filter \in Variant
    BY <1>2 DEF GoodGet, GetFrame
  <1>4. /\ g.p = Top.p /\ g.filter = Top.filter /\ g.fn = "getconfig"
        /\ GetReached(g) /\ (g.acts # <<>> => LastAct(g).call = None)
    BY <1>2, <1>3, GetStartReads, GetStartReached, TypedParts DEF Field
  <1>5. TablesReached(configs, blocks, bvMap, usageFilter, cache')
    BY <1>1, <1>2, CacheReached
  <1>6. /\ UNCHANGED <<script, configs, blocks, bvMap, usageFilter, queue, ret>>
        /\ status' = status
    BY DEF GotFilter, tables, usages, mainloop
  <1> HIDE DEF g
  <1> QED
    BY <1>1, <1>4, <1>5, <1>6, FindReached

(* What the blocks found merge to. *)
LEMMA MergedSound ==
    ASSUME BakeInv, Reached, NEW g, GoodGet(g), GetReached(g), g.p \in script.real,
           AllAskedOf(g.filter.feats, g.p)
    PROVE  ConfigSound(g.p, MergedConfig(g))
  <1> DEFINE c == MergedConfig(g)
             L == LeadsTo(g.p)
  <1>1. /\ g.p \in Prj /\ g.filter \in Variant /\ g.seen \subseteq KB
        /\ \A k \in g.seen : BlockExists(k) /\ SeenSound(g.p, g.filter, k)
    BY DEF GoodGet, GetFrame, SoundGet, GetReached
  <1>2. \A q \in L : LeadsTo(q) \subseteq L
    BY <1>1, LeadsFacts, TypedParts
  <1>3. ASSUME NEW x \in FoundBlocks(g)
        PROVE  /\ \A t \in x.static \cup x.shared : LinkConfined(t, g.filter)
               /\ \A e \in x.always : Declared(e) /\ e.to \in L
               /\ x.depends \subseteq L
    <2>1. PICK k \in g.seen : k.tag = "block" /\ x = blocks[k.p][k.v]
      BY DEF FoundBlocks
    <2>2. /\ k.p \in Prj /\ k.v \in Variant /\ x # None
          /\ k.p \in L /\ SameCfg(k.v.cfg, g.filter.cfg)
      BY <1>1, <2>1 DEF KB, BlockExists, SeenSound, RealKB
    <2>3. BlockSound(k.p, k.v, x)
      BY <2>1, <2>2 DEF Reached, TablesReached
    <2>4. \A t \in x.static \cup x.shared : LinkConfined(t, g.filter)
      BY <2>2, <2>3, SameCfgTrans DEF BlockSound, OffersSound, LinkConfined
    <2> QED
      BY <1>2, <2>2, <2>3, <2>4 DEF BlockSound, OffersSound
  <1>4. ASSUME NEW k \in g.seen, NEW e \in DeclaredUses(k)
        PROVE  Declared(e) /\ e.to \in L
    <2>0. k.p \in Prj /\ k.tag \in {"real", "usage", "block"}
      BY <1>1 DEF KB
    <2>1. CASE k.tag = "real"
      <3>1. k.p = g.p /\ DeclaredUses(k) = script.uses[g.p]
        BY <1>1, <2>1 DEF SeenSound, RealKB, DeclaredUses
      <3>2. e \in OwnUses[g.p] /\ e \in AllUses[g.p]
        BY <1>1, <1>4, <3>1, UsesTyped, TypedParts
      <3> QED
        BY <1>1, <3>2, LeadsFacts, TypedParts DEF Declared
    <2>2. CASE k.tag = "usage"
      <3>1. k.p \in L /\ DeclaredUses(k) = script.exports[k.p]
        BY <1>1, <2>2 DEF SeenSound, RealKB, DeclaredUses
      <3>2. e \in AllUses[k.p]
        BY <2>0, <1>4, <3>1, UsesTyped, TypedParts
      <3> QED
        BY <1>1, <2>0, <3>1, <3>2, LeadsFacts, TypedParts DEF Declared
    <2>3. CASE k.tag = "block"
      BY <2>3, <1>4 DEF DeclaredUses
    <2> QED
      BY <2>0, <2>1, <2>2, <2>3
  <1>5. /\ c.bv.cfg = g.filter.cfg /\ c.bv.feats \subseteq g.filter.feats
        /\ c.bv.feats \subseteq g.cfgs
    BY <1>1 DEF MergedConfig, UsedVariant, Variant
  <1>6. /\ c.static \cup c.shared \subseteq MergedStatic(g) \cup MergedShared(g)
        /\ c.depends = MergedDepends(g) /\ c.always = MergedAlways(g)
    BY DEF MergedConfig
  <1> HIDE DEF c, L
  <1>7. \A t \in c.static \cup c.shared : LinkConfined(t, c.bv)
    BY <1>3, <1>5, <1>6 DEF MergedStatic, MergedShared, LinkConfined
  <1>8. c.depends \subseteq L
    BY <1>3, <1>6 DEF MergedDepends
  <1>9. \A e \in c.always : Declared(e) /\ e.to \in L
    BY <1>3, <1>4, <1>6 DEF MergedAlways, AlwaysAmong
  <1>10. c.bv.feats \subseteq script.cond[g.p] /\ AllAskedOf(c.bv.feats, g.p)
    BY <1>5 DEF GetReached, AllAskedOf
  <1> QED
    BY <1>7, <1>8, <1>9, <1>10 DEF ConfigSound, OffersSound, c, L

(* getconfig hands the merged configuration to its caller. *)
LEMMA GotConfigReached ==
    ASSUME BakeInv, Tracked, Reached, GotConfig
    PROVE  Reached'
  <1> DEFINE n == Len(stack) - 1
             cfg == MergedConfig(Top)
             f == [stack[n] EXCEPT !.cfg = cfg, !.left = cfg.depends]
  <1>1. /\ n \in Nat \ {0} /\ Len(stack') = n /\ stack[n] \in AddFrame
        /\ stack'[n] = f /\ \A i \in 1 .. n - 1 : stack'[i] = stack[i]
        /\ stack[n].fn = "addconfig"
    BY GotConfigStack
  <1>2. TopIs("getconfig") /\ CacheFound(Top) /\ status = "bake"
    BY DEF GotConfig
  <1>3. /\ GoodGet(Top) /\ GetReached(Top) /\ Top.p \in script.real
        /\ AllAskedOf(Top.filter.feats, Top.p) /\ GetTracked(Top, stack[n])
        /\ AddReached(stack[n])
    BY <1>2, TopGetReached
  <1>4. ConfigSound(Top.p, cfg) /\ Top.p = stack[n].p
    BY <1>3, MergedSound DEF GetTracked
  <1>5. TablesReached(configs, blocks, bvMap, usageFilter, cache')
    BY <1>2, <1>3, CacheReached
  <1>6. n \in 1 .. Len(stack) /\ n < Len(stack) /\ Len(stack) \in Nat
    BY <1>1
  <1> HIDE DEF cfg
  <1>7. /\ f.p = stack[n].p /\ f.fin = stack[n].fin /\ f.cfg = cfg
        /\ f.fn = "addconfig" /\ f.init = stack[n].init /\ f.left = cfg.depends
    BY <1>1 DEF AddFrame
  <1> HIDE DEF f
  <1>8. AddReached(f)
    BY <1>3, <1>4, <1>7 DEF AddReached, ConfigSound
  <1> HIDE DEF n
  <1>9. ASSUME NEW i \in 1 .. n
        PROVE  /\ stack'[i].fn = "addconfig" =>
                    /\ AddReached(stack'[i])
                    /\ i > 1 => CalledFor(stack'[i].p, stack'[i].init, stack'[i - 1])
               /\ stack'[i].fn = "getconfig" => GetReached(stack'[i])
               /\ stack'[i].p = stack[i].p
    <2>1. i \in 1 .. Len(stack) /\ (i > 1 => stack'[i - 1] = stack[i - 1])
      BY <1>1, <1>6
    <2>2. /\ stack[i].fn = "addconfig" =>
               /\ AddReached(stack[i])
               /\ i > 1 => CalledFor(stack[i].p, stack[i].init, stack[i - 1])
          /\ stack[i].fn = "getconfig" => GetReached(stack[i])
      BY <2>1 DEF Reached, FramesReached
    <2>3. CASE i = n
      BY <2>1, <2>2, <2>3, <1>1, <1>7, <1>8
    <2>4. CASE i \in 1 .. n - 1
      BY <2>1, <2>2, <2>4, <1>1
    <2> QED
      BY <2>3, <2>4, <1>1
  <1>10. FramesReached(stack')
    BY <1>1, <1>9 DEF FramesReached
  <1>11. Chained(stack')
    <2>1. \A i \in 1 .. n : i \in 1 .. Len(stack)
      BY <1>1, <1>6
    <2>2. Chained(stack)
      BY DEF Reached
    <2> QED
      BY <1>1, <1>9, <2>1, <2>2 DEF Chained
  <1>12. AnswersSound(stack', ret')
    BY <1>1, <1>7 DEF AnswersSound
  <1>13. /\ UNCHANGED <<script, configs, blocks, bvMap, usageFilter, queue, ret>>
         /\ status' = "bake"
    BY <1>2 DEF GotConfig, tables, usages, mainloop
  <1> QED
    BY <1>5, <1>10, <1>11, <1>12, <1>13, ReachedNext DEF Reached

(* What users of a configuration inherit is as sound as the configuration. *)
LEMMA UsageBlockSound ==
    ASSUME NEW p, NEW c, ConfigSound(p, c)
    PROVE  BlockSound(p, c.bv, UsageBlock(p, c))
  <1> DEFINE k == UsageBlock(p, c)
             self == [p |-> p, v |-> c.bv]
  <1>1. /\ k.static \subseteq {self} \cup c.static
        /\ k.shared \subseteq {self} \cup c.shared
        /\ k.depends \subseteq c.depends \cup {p} /\ k.always = c.always
    BY DEF UsageBlock
  <1>2. LinkConfined(self, c.bv)
    BY DEF LinkConfined, SameCfg, ConfigSound
  <1> HIDE DEF k, self
  <1> QED
    BY <1>1, <1>2 DEF BlockSound, ConfigSound, OffersSound, k

(* A configuration recorded and published. *)
LEMMA FinishConfigReached ==
    ASSUME BakeInv, Tracked, Reached, FinishConfig
    PROVE  Reached'
  <1> DEFINE p == Top.p
             cfg == Top.cfg
             fin == cfg.bv
             init == Top.init
             n == Len(stack)
  <1>1. /\ Top \in AddFrame /\ Top.fn = "addconfig"
        /\ p \in Prj /\ cfg \in Config /\ fin \in Variant
        /\ init \in Variant /\ configs'[p][fin] = cfg
        /\ \A q \in Prj, v \in Variant :
              (q = p /\ v = fin) \/ configs'[q][v] = configs[q][v]
        /\ \A q \in Prj, v \in Variant :
              \/ q = p /\ v \in {init, fin} /\ bvMap'[q][v] = fin
              \/ /\ bvMap'[q][v] = bvMap[q][v]
                 /\ ~(q = p /\ v \in {init, fin})
        /\ \A q \in Prj, v \in Variant :
              \/ q = p /\ v = fin /\ blocks'[q][v] = UsageBlock(p, cfg)
              \/ blocks'[q][v] = blocks[q][v]
        /\ \A q \in Prj, v \in Variant :
              \/ /\ q = p /\ v \in {init, fin}
                 /\ \/ usageFilter'[q][v] = fin
                    \/ /\ usageFilter'[q][v] = usageFilter[p][fin]
                       /\ usageFilter[p][fin] # None
              \/ usageFilter'[q][v] = usageFilter[q][v]
        /\ n \in Nat \ {0} /\ Len(stack') = n - 1
        /\ \A i \in 1 .. n - 1 : stack'[i] = stack[i]
        /\ ret' = Returned(cfg)
        /\ UNCHANGED <<script, baked, prjToBuild, cache, mainloop, status>>
    BY FinishFacts
  <1>2. stack[n] = Top /\ n \in 1 .. n
    <2>1. n \in Nat \ {0}
      BY <1>1
    <2>2. stack[n] = Top
      BY DEF Top
    <2> HIDE DEF n
    <2> QED
      BY <2>1, <2>2
  <1>3. AddTracked(Top, prjToBuild, configs) /\ AddReached(Top)
    BY <1>1, <1>2 DEF Tracked, FramesTracked, Reached, FramesReached
  <1>4. /\ ConfigSound(p, cfg) /\ SameCfg(fin.cfg, init.cfg)
        /\ AllAskedOf(fin.feats, p)
    <2>1. cfg # None
      BY <1>1, NoneDistinct
    <2> QED
      BY <1>3, <2>1 DEF AddTracked, AddReached, ConfigSound
  <1>5. BlockSound(p, fin, UsageBlock(p, cfg))
    BY <1>4, UsageBlockSound
  <1>6. status = "bake"
    BY DEF FinishConfig
  <1>7. n > 1 => CalledFor(p, init, stack[n - 1])
    BY <1>1, <1>2 DEF Reached, FramesReached
  <1>8. ret'.kind = "config" /\ ret'.bv = fin
    BY <1>1 DEF Returned
  <1> HIDE DEF p, cfg, fin, init, n
  <1>9. TablesReached(configs', blocks', bvMap', usageFilter', cache')
    <2>1. TablesReached(configs, blocks, bvMap, usageFilter, cache) /\ cache' = cache
      BY <1>1 DEF Reached
    <2>2. SameCfg(fin.cfg, fin.cfg)
      BY DEF SameCfg
    <2> SUFFICES ASSUME NEW q \in Prj, NEW v \in Variant
                 PROVE  /\ configs'[q][v] # None =>
                             configs'[q][v].bv = v /\ ConfigSound(q, configs'[q][v])
                        /\ blocks'[q][v] # None => BlockSound(q, v, blocks'[q][v])
                        /\ bvMap'[q][v] \in Variant => SameCfg(bvMap'[q][v].cfg, v.cfg)
                        /\ usageFilter'[q][v] # None =>
                             SameCfg(usageFilter'[q][v].cfg, v.cfg)
      BY <2>1 DEF TablesReached
    <2>3. configs'[q][v] # None =>
             configs'[q][v].bv = v /\ ConfigSound(q, configs'[q][v])
      BY <1>1, <1>4, <2>1 DEF TablesReached, fin
    <2>4. blocks'[q][v] # None => BlockSound(q, v, blocks'[q][v])
      BY <1>1, <1>5, <2>1 DEF TablesReached
    <2>5. bvMap'[q][v] \in Variant => SameCfg(bvMap'[q][v].cfg, v.cfg)
      BY <1>1, <1>4, <2>1, <2>2 DEF TablesReached
    <2>6. usageFilter'[q][v] # None => SameCfg(usageFilter'[q][v].cfg, v.cfg)
      <3>1. usageFilter[p][fin] # None => SameCfg(usageFilter[p][fin].cfg, fin.cfg)
        BY <1>1, <2>1 DEF TablesReached
      <3>2. usageFilter[q][v] # None => SameCfg(usageFilter[q][v].cfg, v.cfg)
        BY <2>1 DEF TablesReached
      <3> QED
        BY <1>1, <1>4, <2>2, <3>1, <3>2, SameCfgTrans
    <2> QED
      BY <2>3, <2>4, <2>5, <2>6
  <1>10. \A i \in 1 .. n - 1 : /\ i \in 1 .. Len(stack) /\ stack'[i] = stack[i]
                               /\ i > 1 => stack'[i - 1] = stack[i - 1]
    BY <1>1 DEF n
  <1>11. FramesReached(stack')
    BY <1>1, <1>10 DEF Reached, FramesReached
  <1>12. Chained(stack')
    BY <1>1, <1>10 DEF Reached, Chained
  <1>13. AnswersSound(stack', ret')
    <2> DEFINE h == stack'[Len(stack')]
               a == LastAct(h)
    <2> SUFFICES ASSUME stack' # <<>>, h.fn = "getconfig", h.acts # <<>>,
                        a.call # None, a.call.with # {}
                 PROVE  /\ SameCfg(fin.cfg, a.env.bv.cfg)
                        /\ AllAskedOf(fin.feats, a.call.to)
      BY <1>1, <1>8, NoneDistinct DEF AnswersSound, AnswerSound
    <2>1. n > 1 /\ n - 1 \in 1 .. Len(stack) /\ h = stack[n - 1]
      <3>1. Len(stack') # 0
        BY FinishConfigInv, StackFacts, EmptySeq DEF BakeInv, TypeOK
      <3> QED
        BY <1>1, <3>1 DEF n
    <2>2. GoodGet(h) /\ GetReached(h) /\ CalledFor(p, init, h)
      <3>1. h \in GetFrame
        BY <2>1, StackFacts, ElementOfSeq, FrameKinds
      <3> QED
        BY <2>1, <3>1, <1>7, StackFacts DEF StackSound, Reached, FramesReached, GoodGet
    <2> HIDE DEF h
    <2>3. a.call.to = p /\ init.cfg = a.env.bv.cfg
      BY <2>2, WaitingFacts
    <2> QED
      BY <2>3, <1>4
  <1>14. queue' = queue
    BY <1>1 DEF mainloop
  <1> QED
    BY <1>1, <1>6, <1>8, <1>9, <1>11, <1>12, <1>13, <1>14, ReachedNext DEF Reached

-----------------------------------------------------------------------------
(* FeaturesConfined and CrashOnlyOnFeatures *)

(* The invariant holds before bakeall starts. *)
LEMMA ReachedInit == Init => Reached
  <1> SUFFICES ASSUME Init PROVE Reached
    OBVIOUS
  <1>1. Len(stack) = 0 /\ Len(queue) = 0 /\ stack = <<>>
    BY DEF Init
  <1>2. FramesReached(stack) /\ Chained(stack) /\ AnswersSound(stack, ret)
    BY <1>1 DEF FramesReached, Chained, AnswersSound
  <1>3. TablesReached(configs, blocks, bvMap, usageFilter, cache)
    BY NoneDistinct DEF Init, TablesReached
  <1> QED
    BY <1>1, <1>2, <1>3 DEF Init, Reached, NilReturn

(* Every step keeps it. *)
LEMMA ReachedStep == BakeInv /\ Tracked /\ Reached /\ [Next]_vars => Reached'
  <1> SUFFICES ASSUME BakeInv, Tracked, Reached, [Next]_vars
               PROVE  Reached'
    OBVIOUS
  <1>0. BakeInv'
    BY NextInv
  <1>1. ASSUME NEW p \in Prj, StartProject(p) PROVE Reached'
    BY <1>1, StartProjectReached
  <1>2. ASSUME NEW p \in Prj, CompileDepend(p) PROVE Reached'
    BY <1>2, CompileDependReached
  <1>3. ASSUME NEW e \in Edge, Use(e) PROVE Reached'
    BY <1>3, UseReached
  <1>4. CASE AddDefault
    BY <1>4, AddDefaultReached
  <1>5. CASE BakeallDone
    BY <1>5, QuietReached DEF BakeallDone, tables, usages, mainloop, Reached
  <1>6. CASE EnterUsage
    BY <1>0, <1>6, EnterUsageReached
  <1>7. CASE LeaveKB
    BY <1>0, <1>7, LeaveKBReached
  <1>8. CASE GotFilter
    BY <1>0, <1>8, GotFilterReached
  <1>9. CASE GotConfig
    BY <1>9, GotConfigReached
  <1>10. CASE FinishConfig
    BY <1>10, FinishConfigReached
  <1>11. CASE UNCHANGED vars
    BY <1>11, QuietReached DEF vars, tables, usages, mainloop, Reached
  <1> QED
    BY <1>1, <1>2, <1>3, <1>4, <1>5, <1>6, <1>7, <1>8, <1>9, <1>10, <1>11
       DEF Next, Halted

(* The invariant holds throughout, for every set of scripts. *)
LEMMA BakeReached == Spec => [](BakeInv /\ Tracked /\ Reached)
  BY BakeTracked, ReachedInit, ReachedStep, PTL DEF Spec

(* A library is linked in a variant with a feature only if it has a block  *)
(* for it and stands behind some use that asked for it, and debug never    *)
(* links release (keyedblocks.findBlocks and its filter, config.bake).     *)
THEOREM BakeConfinesFeatures == Spec => []FeaturesConfined
  <1>1. BakeInv /\ Reached => FeaturesConfined
    <2> SUFFICES ASSUME BakeInv, Reached, NEW p \in Prj, NEW v \in Variant,
                        configs[p][v] # None,
                        NEW t \in configs[p][v].static \cup configs[p][v].shared
                 PROVE  LinkConfined(t, v)
      BY DEF FeaturesConfined, LinkConfined, SameCfg, AllAskedOf, AskedOf
    <2>1. configs[p][v].bv = v /\ ConfigSound(p, configs[p][v])
      BY DEF Reached, TablesReached
    <2> QED
      BY <2>1 DEF ConfigSound, OffersSound
  <1> QED
    BY <1>1, BakeReached, PTL

(* Without a use with features that meets a plain usage or a project that  *)
(* is being baked, baking never fails (keyedblocks.findBlocks).            *)
THEOREM BakeFailsForFeatures == Spec => []CrashOnlyOnFeatures
  <1>1. Reached => CrashOnlyOnFeatures
    BY DEF Reached, CrashOnlyOnFeatures, Culprit
  <1> QED
    BY <1>1, BakeReached, PTL

-----------------------------------------------------------------------------
(* The propagation rules *)

(* In a script without features nothing is asked for. *)
LEMMA NothingAsked ==
    ASSUME ~HasFeatures
    PROVE  /\ \A e : Declared(e) => e.with = {}
           /\ \A fs, p : AllAskedOf(fs, p) => fs = {}
  <1>1. \A q \in Prj : \A e \in AllUses[q] : e.with = {}
    BY DEF HasFeatures
  <1>2. ASSUME NEW fs, NEW p, AllAskedOf(fs, p) PROVE fs = {}
    <2> SUFFICES ASSUME NEW f \in fs PROVE FALSE
      OBVIOUS
    <2> QED
      BY <1>1, <1>2 DEF AllAskedOf, AskedOf
  <1> QED
    BY <1>1, <1>2 DEF Declared

(* What p carries: the alwaysuses of p and of whatever stands behind it. *)
LEMMA CarriesFacts ==
    ASSUME TypeOK, NEW p \in Prj
    PROVE  /\ Carries(p) \subseteq Prj
           /\ \A e \in OwnUses[p] : e.always => e.to \in Carries(p)
           /\ \A q \in LeadsTo(p) : \A e \in AllUses[q] : e.always => e.to \in Carries(p)
           /\ \A q \in LeadsTo(p) : Carries(q) \subseteq Carries(p)
  <1>1. \A q \in Prj : OwnUses[q] \subseteq AllUses[q] /\ AllUses[q] \subseteq Edge
    BY UsesTyped
  <1>2. LeadsTo(p) \subseteq Prj /\ \A q \in LeadsTo(p) : LeadsTo(q) \subseteq LeadsTo(p)
    BY LeadsFacts
  <1>3. \A q \in Prj : AlwaysTos(OwnUses[q]) \subseteq AlwaysTos(AllUses[q])
    BY <1>1 DEF AlwaysTos, Tos, AlwaysAmong
  <1>4. \A q \in Prj : AlwaysTos(AllUses[q]) \subseteq Prj
    BY <1>1 DEF AlwaysTos, Tos, AlwaysAmong, Edge
  <1>5. Carries(p) \subseteq Prj
    BY <1>2, <1>3, <1>4 DEF Carries
  <1>6. \A e \in OwnUses[p] : e.always => e.to \in Carries(p)
    BY DEF Carries, AlwaysTos, Tos, AlwaysAmong
  <1>7. ASSUME NEW q \in LeadsTo(p), NEW e \in AllUses[q], e.always
        PROVE  e.to \in Carries(p)
    <2>1. e.to \in AlwaysTos(AllUses[q])
      BY <1>7 DEF AlwaysTos, Tos, AlwaysAmong
    <2> QED
      BY <2>1 DEF Carries
  <1>8. ASSUME NEW q \in LeadsTo(p), NEW r \in Carries(q)
        PROVE  r \in Carries(p)
    <2>1. CASE r \in AlwaysTos(OwnUses[q])
      BY <2>1, <1>2, <1>3 DEF Carries
    <2>2. CASE r \notin AlwaysTos(OwnUses[q])
      <3>1. PICK s \in LeadsTo(q) : r \in AlwaysTos(AllUses[s])
        BY <1>8, <2>2 DEF Carries
      <3> QED
        BY <3>1, <1>2 DEF Carries
    <2> QED
      BY <2>1, <2>2
  <1> QED
    BY <1>5, <1>6, <1>7, <1>8

(* What p sees: the usages it names, what they export, and what the        *)
(* projects among them carry.                                              *)
LEMMA SeesFacts ==
    ASSUME TypeOK, NEW p \in Prj
    PROVE  /\ Sees(p) \subseteq Prj
           /\ \A e \in OwnUses[p] : e.to \in Sees(p)
           /\ \A q \in Sees(p) : \A e \in script.exports[q] : e.to \in Sees(p)
           /\ \A q \in Sees(p) : q \in script.real => Carries(q) \subseteq Sees(p)
  <1>1. \A q \in Prj : /\ OwnUses[q] \subseteq Edge /\ script.exports[q] \subseteq Edge
                       /\ Carries(q) \subseteq Prj
    BY UsesTyped, CarriesFacts
  <1>2. \A q \in Prj : Exporting[q] = Tos(script.exports[q]) \cup
                          IF q \in script.real THEN Carries(q) ELSE {}
    BY DEF Exporting
  <1>3. \A q \in Prj : Tos(OwnUses[q]) \subseteq Prj /\ Tos(script.exports[q]) \subseteq Prj
    BY <1>1 DEF Tos, Edge
  <1>4. \A q \in Prj : Exporting[q] \subseteq Prj
    BY <1>1, <1>2, <1>3
  <1>5. /\ Tos(OwnUses[p]) \subseteq Sees(p) /\ Sees(p) \subseteq Prj
        /\ \A r \in Sees(p) : Exporting[r] \subseteq Sees(p)
    BY <1>3, <1>4, ClosureFacts DEF Sees
  <1>6. \A e \in OwnUses[p] : e.to \in Sees(p)
    BY <1>5 DEF Tos
  <1>7. ASSUME NEW q \in Sees(p), NEW e \in script.exports[q]
        PROVE  e.to \in Sees(p)
    <2>1. e.to \in Tos(script.exports[q])
      BY DEF Tos
    <2> QED
      BY <1>2, <1>5, <2>1
  <1>8. ASSUME NEW q \in Sees(p), q \in script.real
        PROVE  Carries(q) \subseteq Sees(p)
    BY <1>2, <1>5, <1>8
  <1> QED
    BY <1>5, <1>6, <1>7, <1>8

(* What p reaches through projects of the kinds K. *)
LEMMA ReachFacts ==
    ASSUME TypeOK, NEW p \in Prj, NEW K
    PROVE  /\ Reach(K, p) \subseteq Prj /\ Sees(p) \subseteq Reach(K, p)
           /\ \A q \in Reach(K, p) :
                 q \in script.real /\ script.kind[q] \in K => Reach(K, q) \subseteq Reach(K, p)
  <1>1. \A q \in Prj : /\ Through(K)[q] \subseteq Prj /\ Sees(q) \subseteq Prj
                       /\ q \in script.real /\ script.kind[q] \in K => Through(K)[q] = Sees(q)
    BY SeesFacts DEF Through
  <1>2. /\ Sees(p) \subseteq Reach(K, p) /\ Reach(K, p) \subseteq Prj
        /\ \A r \in Reach(K, p) : Through(K)[r] \subseteq Reach(K, p)
    BY <1>1, ClosureFacts DEF Reach
  <1>3. ASSUME NEW q \in Reach(K, p), q \in script.real, script.kind[q] \in K
        PROVE  Reach(K, q) \subseteq Reach(K, p)
    <2>1. Sees(q) \subseteq Reach(K, p)
      BY <1>1, <1>2, <1>3
    <2> QED
      BY <1>2, <2>1, ClosureLeast DEF Reach
  <1> QED
    BY <1>2, <1>3

(* The script never changes, so neither do these. *)
LEMMA SameRules ==
    ASSUME script' = script
    PROVE  /\ HasFeatures' <=> HasFeatures
           /\ \A p : Carries(p)' = Carries(p) /\ Sees(p)' = Sees(p)
           /\ \A K, p : Reach(K, p)' = Reach(K, p)
           /\ \A ps, k : OfKind(ps, k)' = OfKind(ps, k)
           /\ \A q, v : NameFor(q, v)' = NameFor(q, v)
  <1>1. OwnUses' = OwnUses /\ AllUses' = AllUses
    BY DEF OwnUses, AllUses
  <1>2. HasFeatures' <=> HasFeatures
    BY <1>1 DEF HasFeatures
  <1>3. ASSUME NEW p PROVE Carries(p)' = Carries(p)
    BY <1>1, SameScript DEF Carries
  <1>4. Exporting' = Exporting
    BY <1>3 DEF Exporting
  <1>5. ASSUME NEW p PROVE Sees(p)' = Sees(p)
    BY <1>1, <1>4 DEF Sees
  <1>6. ASSUME NEW K PROVE Through(K)' = Through(K)
    BY <1>5 DEF Through
  <1>7. ASSUME NEW K, NEW p PROVE Reach(K, p)' = Reach(K, p)
    BY <1>5, <1>6 DEF Reach
  <1>8. ASSUME NEW ps, NEW k PROVE OfKind(ps, k)' = OfKind(ps, k)
    BY DEF OfKind
  <1>9. ASSUME NEW q, NEW v PROVE NameFor(q, v)' = NameFor(q, v)
    BY DEF NameFor
  <1> QED
    BY <1>2, <1>3, <1>5, <1>7, <1>8, <1>9

(* The parts of the invariant, each for the next state. *)
LEMMA LinedNext ==
    ASSUME script' = script,
           ~HasFeatures =>
               /\ FramesLined(stack')
               /\ TablesLined(configs', blocks', usageFilter', cache')
    PROVE  Lined'
  <1>1. /\ HasFeatures' <=> HasFeatures
        /\ \A p : Carries(p)' = Carries(p) /\ Sees(p)' = Sees(p)
        /\ \A K, p : Reach(K, p)' = Reach(K, p)
        /\ \A ps, k : OfKind(ps, k)' = OfKind(ps, k)
        /\ \A q, v : NameFor(q, v)' = NameFor(q, v)
    BY SameRules
  <1>2. ASSUME NEW p, NEW c PROVE ConfigLined(p, c)' <=> ConfigLined(p, c)
    BY <1>1 DEF ConfigLined, LinesSound
  <1>3. ASSUME NEW p, NEW v, NEW k PROVE BlockLined(p, v, k)' <=> BlockLined(p, v, k)
    BY <1>1 DEF BlockLined
  <1>4. ASSUME NEW p, NEW v, NEW k PROVE SeenLined(p, v, k)' <=> SeenLined(p, v, k)
    BY <1>1 DEF SeenLined
  <1>5. ASSUME NEW p, NEW v, NEW a PROVE ActLined(p, v, a)' <=> ActLined(p, v, a)
    BY <1>1, <1>4 DEF ActLined
  <1>6. ASSUME NEW g PROVE GetLined(g)' <=> GetLined(g)
    BY <1>4, <1>5 DEF GetLined
  <1>7. ASSUME NEW f PROVE AddLined(f)' <=> AddLined(f)
    BY <1>2 DEF AddLined
  <1>8. ~HasFeatures => FramesLined(stack)'
    BY <1>6, <1>7 DEF FramesLined
  <1>9. ~HasFeatures => TablesLined(configs, blocks, usageFilter, cache)'
    BY <1>1, <1>2, <1>3, <1>4 DEF TablesLined
  <1> QED
    BY <1>1, <1>8, <1>9 DEF Lined

-----------------------------------------------------------------------------
(* The steps, in a script without features *)

(* What getconfig starts with. *)
LEMMA GetStartLined ==
    ASSUME TypeOK, TablesLined(configs, blocks, usageFilter, cache),
           NEW p \in Prj, p \in script.real, NEW v \in Variant, NEW f \in Field
    PROVE  GetLined(GetStart(p, v, f))
  <1> DEFINE hit == cache[p][f][v]
             root == [kb |-> RealKB(p),
                      env |-> [filter |-> v, bv |-> v, name |-> v],
                      left |-> script.uses[p], call |-> None]
             g == GetStart(p, v, f)
  <1>1. CASE hit = None
    <2>1. \A e \in script.uses[p] : e.to \in Sees(p)
      BY SeesFacts, UsesTyped
    <2>2. ActLined(p, v, root)
      BY <2>1 DEF ActLined, SeenLined
    <2>3. root.kb = RealKB(p)
      OBVIOUS
    <2> HIDE DEF root
    <2>4. g = [fn |-> "getconfig", p |-> p, filter |-> v, field |-> f,
               acts |-> <<root>>, seen |-> {RealKB(p)}, cfgs |-> {}]
      BY <1>1, <2>3 DEF GetStart, root
    <2>5. Len(<<root>>) = 1 /\ <<root>>[1] = root
      OBVIOUS
    <2> QED
      BY <2>2, <2>4, <2>5 DEF GetLined, SeenLined
  <1>2. CASE hit # None
    <2>1. g = [fn |-> "getconfig", p |-> p, filter |-> v, field |-> f,
               acts |-> <<>>, seen |-> hit.seen, cfgs |-> hit.cfgs]
      BY <1>2 DEF GetStart
    <2>2. \A x \in hit.seen : SeenLined(p, v, x)
      BY <1>2 DEF TablesLined
    <2> QED
      BY <2>1, <2>2 DEF GetLined
  <1> QED
    BY <1>1, <1>2

(* The innermost frame replaced. *)
LEMMA ReplaceLined ==
    ASSUME BakeInv, FramesLined(stack), stack # <<>>, NEW f \in Frame,
           f.fn = "getconfig" => GetLined(f), f.fn = "addconfig" => AddLined(f)
    PROVE  FramesLined(Replace(f))
  <1> DEFINE r == Replace(f)
             n == Len(stack)
  <1>1. stack \in Seq(Frame)
    BY StackFacts
  <1>2. /\ Len(r) = n /\ r[n] = f /\ n \in Nat \ {0}
        /\ \A i \in 1 .. n - 1 : r[i] = stack[i]
    <2>1. Replaced(Append(SubSeq(stack, 1, Len(stack) - 1), f), stack, f, Frame)
      BY <1>1, ReplaceOnStack
    <2>2. Replaced(r, stack, f, Frame)
      BY <2>1 DEF Replace, Below
    <2> QED
      BY <2>2 DEF Replaced
  <1> HIDE DEF r
  <1>3. FramesLined(r)
    BY <1>2 DEF FramesLined
  <1> QED
    BY <1>3 DEF r

(* A call of addconfig. *)
LEMMA CallLined ==
    ASSUME BakeInv, TablesLined(configs, blocks, usageFilter, cache),
           NEW p \in Prj, NEW v, p \in script.real => v \in Variant,
           NEW below, StackSound(below), FramesLined(below), addconfig(p, v, below)
    PROVE  FramesLined(stack')
  <1> DEFINE fin == applyBuildVariantMap(p, v)
             frame == [fn |-> "addconfig", p |-> p, init |-> v, fin |-> fin,
                       cfg |-> None, left |-> {}]
             get == GetStart(p, fin, "usesconfig")
  <1>1. CASE stack' = below
    BY <1>1
  <1>2. CASE /\ HasProject(p) /\ fin # InProgress
             /\ ~(fin = AllVariant /\ p \notin script.single)
             /\ stack' = Append(Append(below, frame), get)
    <2>1. p \in script.real /\ v \in Variant /\ TypeOK /\ TablesSound
      BY <1>2, TypedParts DEF HasProject
    <2>2. fin \in Variant
      BY <1>2, <2>1, FinalIsVariant
    <2> HIDE DEF fin
    <2>3. frame \in AddFrame /\ frame.fn = "addconfig" /\ AddLined(frame)
      BY <1>2, <2>1, <2>2 DEF AddFrame, AddLined
    <2>4. /\ get \in GetFrame /\ SoundGet(get) /\ GetLined(get)
          /\ get.fn = "getconfig"
      BY <2>1, <2>2, GetStartSound, GetStartLined DEF Field
    <2> HIDE DEF frame, get
    <2>5. Pushed(stack', below, frame, get)
      BY <1>2, <2>3, <2>4, PushBake
    <2>6. Len(below) \in Nat
      BY LenProperties DEF StackSound
    <2>7. /\ Len(stack') = Len(below) + 2 /\ stack'[Len(below) + 1] = frame
          /\ stack'[Len(below) + 2] = get
          /\ \A i \in 1 .. Len(below) : stack'[i] = below[i]
      BY <2>5 DEF Pushed
    <2>8. ASSUME NEW i \in 1 .. Len(stack')
          PROVE  /\ stack'[i].fn = "addconfig" => AddLined(stack'[i])
                 /\ stack'[i].fn = "getconfig" => GetLined(stack'[i])
      <3>1. i \in 1 .. Len(below) \/ i = Len(below) + 1 \/ i = Len(below) + 2
        BY <2>6, <2>7
      <3> QED
        BY <3>1, <2>3, <2>4, <2>7 DEF FramesLined
    <2> QED
      BY <2>8 DEF FramesLined
  <1> QED
    BY <1>1, <1>2 DEF addconfig

(* findBlocks goes on in the same call. *)
LEMMA VisitSame ==
    ASSUME NEW g, GoodGet(g), NEW kb, NEW env, NEW uses, NEW exists
    PROVE  Visit(g, kb, env, uses, exists).fn = "getconfig"
  BY DEF Visit, GoodGet, GetFrame

(* findBlocks on a table it may walk. *)
LEMMA VisitLined ==
    ASSUME NEW g, GoodGet(g), GetLined(g), NEW kb \in KB, NEW env \in Env,
           NEW uses, uses \subseteq Edge, NEW exists,
           ActLined(g.p, g.filter, [kb |-> kb, env |-> env, left |-> uses,
                                    call |-> None])
    PROVE  GetLined(Visit(g, kb, env, uses, exists))
  <1> DEFINE x == [kb |-> kb, env |-> env, left |-> uses, call |-> None]
             h == [g EXCEPT !.seen = @ \cup {kb}, !.acts = Append(@, x)]
  <1>1. CASE Visit(g, kb, env, uses, exists) = g
    BY <1>1
  <1>2. CASE Visit(g, kb, env, uses, exists) = h
    <2>1. x \in Act
      BY DEF Act
    <2>2. SeenLined(g.p, g.filter, kb) /\ ActLined(g.p, g.filter, x)
      BY DEF ActLined
    <2> HIDE DEF x
    <2>3. /\ h.p = g.p /\ h.filter = g.filter
          /\ h.acts = Append(g.acts, x) /\ h.seen = g.seen \cup {kb}
          /\ g.acts \in Seq(Act)
      BY DEF GoodGet, GetFrame
    <2>4. /\ Len(h.acts) = Len(g.acts) + 1 /\ h.acts[Len(g.acts) + 1] = x
          /\ \A i \in 1 .. Len(g.acts) : h.acts[i] = g.acts[i]
          /\ Len(g.acts) \in Nat
      BY <2>1, <2>3, PushOnStack, LenProperties
    <2> HIDE DEF h
    <2>5. \A j \in 1 .. Len(g.acts) + 1 : ActLined(g.p, g.filter, h.acts[j])
      BY <2>2, <2>4 DEF GetLined
    <2>6. GetLined(h)
      BY <2>2, <2>3, <2>4, <2>5 DEF GetLined
    <2> QED
      BY <1>2, <2>6
  <1> QED
    BY <1>1, <1>2 DEF Visit

(* The innermost activation replaced, or gone. *)
LEMMA LinedWithActs ==
    ASSUME NEW g, GoodGet(g), GetLined(g), g.acts # <<>>, NEW x \in Act,
           ActLined(g.p, g.filter, x)
    PROVE  /\ ActLined(g.p, g.filter, LastAct(g))
           /\ GetLined([g EXCEPT !.acts = Append(OuterActs(g), x)])
           /\ GetLined([g EXCEPT !.acts = OuterActs(g)])
  <1> DEFINE o == OuterActs(g)
             r == Append(o, x)
             h == [g EXCEPT !.acts = r]
             i == [g EXCEPT !.acts = o]
  <1>1. g.acts \in Seq(Act)
    BY DEF GoodGet, GetFrame
  <1>2. /\ o \in Seq(Act) /\ Len(o) = Len(g.acts) - 1
        /\ \A j \in 1 .. Len(g.acts) - 1 : o[j] = g.acts[j]
        /\ Len(g.acts) \in Nat \ {0}
    BY <1>1, FrontOfStack DEF OuterActs
  <1>3. ActLined(g.p, g.filter, LastAct(g))
    BY <1>2 DEF GetLined, LastAct
  <1> HIDE DEF o
  <1>4. /\ Len(r) = Len(o) + 1 /\ r[Len(o) + 1] = x
        /\ \A j \in 1 .. Len(o) : r[j] = o[j]
    BY <1>2, PushOnStack
  <1> HIDE DEF r
  <1>5. /\ h.acts = r /\ h.p = g.p /\ h.filter = g.filter /\ h.seen = g.seen
        /\ i.acts = o /\ i.p = g.p /\ i.filter = g.filter /\ i.seen = g.seen
    BY DEF GoodGet, GetFrame
  <1> HIDE DEF h, i
  <1>6. \A j \in 1 .. Len(o) : ActLined(g.p, g.filter, o[j])
    BY <1>2 DEF GetLined
  <1>7. \A j \in 1 .. Len(r) : ActLined(g.p, g.filter, r[j])
    BY <1>2, <1>4, <1>6
  <1>8. GetLined(h)
    BY <1>5, <1>7 DEF GetLined
  <1>9. GetLined(i)
    BY <1>5, <1>6 DEF GetLined
  <1> QED
    BY <1>3, <1>8, <1>9 DEF h, i, r, o

(* What there is to show of a step: Lined, without its hypothesis. *)
LinedIn(s, c, k, u, h) == FramesLined(s) /\ TablesLined(c, k, u, h)

(* Following a use. *)
LEMMA UseLined ==
    ASSUME BakeInv, Tracked, Reached, ~HasFeatures,
           LinedIn(stack, configs, blocks, usageFilter, cache),
           NEW e \in Edge, Use(e)
    PROVE  LinedIn(stack', configs', blocks', usageFilter', cache')
  <1> DEFINE a == LastAct(Top)
             x == [a EXCEPT !.left = @ \ {e}, !.call = e]
             g == [Top EXCEPT !.acts = Append(OuterActs(Top), x)]
  <1>1. TopIs("getconfig") /\ Top.acts # <<>> /\ stack # <<>>
    BY DEF Use, TopIs
  <1>2. GoodGet(Top) /\ Len(stack) \in 1 .. Len(stack)
    BY <1>1, TopGetReached
  <1>3. GetLined(Top)
    BY <1>1, <1>2 DEF LinedIn, FramesLined, Top, TopIs
  <1>4. a \in Act /\ SoundAct(a) /\ e \in a.left
    BY <1>1, <1>2, ActFacts DEF Use
  <1>5. ActLined(Top.p, Top.filter, a)
    BY <1>1, <1>2, <1>3 DEF GetLined, LastAct, GoodGet, GetFrame
  <1>6. CASE Crash
    BY <1>6 DEF Crash, LinedIn, tables, usages
  <1>7. CASE /\ ~(a.env.bv = None /\ (e.with # {} \/ e.to \in script.real))
             /\ addconfig(e.to, UseVariant(a.env, e), Replace(g))
             /\ UNCHANGED <<script, configs, usages, cache, mainloop, status>>
    <2> HIDE DEF a
    <2>1. e.to \in Prj /\ a.env \in Env
      BY <1>4 DEF Edge, Act
    <2>2. /\ x \in Act /\ x.env = a.env /\ x.kb = a.kb /\ x.call = e
          /\ x.left \subseteq a.left
      BY <1>4 DEF Act
    <2>3. SoundAct(x)
      BY <1>4, <1>7, <2>2 DEF SoundAct
    <2>4. ActLined(Top.p, Top.filter, x)
      BY <1>4, <1>5, <2>2 DEF ActLined
    <2> HIDE DEF x
    <2>5. GoodGet(g)
      BY <1>1, <1>2, <2>2, <2>3, GoodWithLast
    <2>6. GetLined(g)
      BY <1>1, <1>2, <1>3, <2>2, <2>4, LinedWithActs
    <2> HIDE DEF g
    <2>7. FramesLined(Replace(g)) /\ StackSound(Replace(g))
      BY <1>1, <2>5, <2>6, ReplaceLined, ReplaceGet DEF LinedIn, GoodGet, Frame
    <2>8. e.to \in script.real => UseVariant(a.env, e) \in Variant
      BY <1>7, <2>1, UseVariantTyped
    <2>9. FramesLined(stack')
      BY <1>7, <2>1, <2>7, <2>8, CallLined DEF LinedIn
    <2> QED
      BY <1>7, <2>9 DEF LinedIn, usages
  <1> QED
    BY <1>6, <1>7 DEF Use

(* Walking a usage: without features, under the variant of its user. *)
LEMMA EnterUsageLined ==
    ASSUME BakeInv, BakeInv', Tracked, Reached, ~HasFeatures,
           LinedIn(stack, configs, blocks, usageFilter, cache), EnterUsage
    PROVE  LinedIn(stack', configs', blocks', usageFilter', cache')
  <1> DEFINE a == LastAct(Top)
             e == a.call
             back == [Top EXCEPT !.acts = Append(OuterActs(Top), Restore(a))]
             kb == UsageKB(e.to)
             g == Visit(back, kb, UsageEnv(a), script.exports[e.to],
                        e.to \in usageBaked')
  <1>1. TopIs("getconfig") /\ Top.acts # <<>> /\ e # None
    BY DEF EnterUsage
  <1>2. GoodGet(Top) /\ GetReached(Top) /\ Len(stack) \in 1 .. Len(stack) /\ stack # <<>>
    BY <1>1, TopGetReached
  <1>3. GetLined(Top)
    BY <1>1, <1>2 DEF LinedIn, FramesLined, Top, TopIs
  <1>4. /\ a \in Act /\ SoundAct(a) /\ ActReached(Top.p, Top.filter, a)
        /\ Top.p \in Prj
    BY <1>1, <1>2, LastActReached
  <1>5. ActLined(Top.p, Top.filter, a)
    BY <1>1, <1>2, <1>3 DEF GetLined, LastAct, GoodGet, GetFrame
  <1>6. CASE Crash
    BY <1>6 DEF Crash, LinedIn, tables, usages
  <1>7. CASE /\ stack' = Replace(g)
             /\ UNCHANGED <<script, tables, usageFilter, blocks, cache,
                            ret, mainloop, status>>
    <2> HIDE DEF a
    <2>1. e \in Edge /\ e.to \in Prj /\ a.env \in Env
      BY <1>1, <1>4 DEF Act, Edge
    <2>2. e.with = {}
      BY <1>1, <1>4, NothingAsked DEF ActReached, UseSound
    <2>3. UsageEnv(a) = a.env
      BY <2>2 DEF UsageEnv
    <2>4. /\ Restore(a) \in Act /\ SoundAct(Restore(a))
          /\ ActLined(Top.p, Top.filter, Restore(a))
      BY <1>4, <1>5 DEF Act, SoundAct, ActLined, Restore
    <2>5. GoodGet(back) /\ GetLined(back)
      BY <1>1, <1>2, <1>3, <2>4, GoodWithLast, LinedWithActs
    <2>6. back.p = Top.p /\ back.filter = Top.filter
      BY <1>2 DEF GoodGet, GetFrame
    <2> HIDE DEF back
    <2>7. kb \in KB /\ kb.p = e.to /\ kb.tag = "usage"
      BY <2>1, AllIsVariant DEF UsageKB, KB
    <2> HIDE DEF kb
    <2>8. e.to \in Sees(Top.p)
      BY <1>1, <1>5 DEF ActLined
    <2>9. /\ script.exports[e.to] \subseteq Edge
          /\ \A d \in script.exports[e.to] : d.to \in Sees(Top.p)
      BY <1>4, <2>1, <2>8, SeesFacts, UsesTyped, TypedParts
    <2>10. ActLined(back.p, back.filter,
                    [kb |-> kb, env |-> UsageEnv(a),
                     left |-> script.exports[e.to], call |-> None])
      BY <1>5, <2>3, <2>6, <2>7, <2>8, <2>9 DEF ActLined, SeenLined
    <2>11. UsageEnv(a) \in Env
      BY <2>1, <2>3
    <2>12. GetLined(g)
      BY <2>5, <2>7, <2>9, <2>10, <2>11, VisitLined
    <2> HIDE DEF g
    <2>13. g \in Frame
      BY <1>2, <1>7, NewTop
    <2>14. g.fn = "getconfig"
      BY <1>1, <1>2, <1>7, <2>5, <2>13, VisitSame DEF g, GoodGet
    <2>15. FramesLined(stack')
      BY <1>2, <1>7, <2>12, <2>13, <2>14, ReplaceLined DEF LinedIn
    <2> QED
      BY <1>7, <2>15 DEF LinedIn, tables
  <1> QED
    BY <1>6, <1>7 DEF EnterUsage

(* Leaving a table, perhaps for the usage's block. *)
LEMMA LeaveKBLined ==
    ASSUME BakeInv, BakeInv', Tracked, Reached, ~HasFeatures,
           LinedIn(stack, configs, blocks, usageFilter, cache), LeaveKB
    PROVE  LinedIn(stack', configs', blocks', usageFilter', cache')
  <1> DEFINE a == LastAct(Top)
             kb == a.kb
             back == [Top EXCEPT !.acts = OuterActs(Top)]
             id == usageFilter[kb.p][a.env.name]
             real == [back EXCEPT !.cfgs = @ \cup
                        (a.env.filter.feats \cap script.cond[kb.p])]
             always == blocks[kb.p][id].always
             block == Visit(back, BlockKB(kb.p, id), a.env, always, TRUE)
  <1>1. TopIs("getconfig") /\ Top.acts # <<>>
    BY DEF LeaveKB
  <1>2. GoodGet(Top) /\ Len(stack) \in 1 .. Len(stack) /\ stack # <<>>
    BY <1>1, TopGetReached
  <1>3. GetLined(Top)
    BY <1>1, <1>2 DEF LinedIn, FramesLined, Top, TopIs
  <1>4. a \in Act /\ Top.p \in Prj /\ Top.filter \in Variant
    BY <1>1, <1>2, ActFacts DEF GoodGet, GetFrame
  <1>5. ActLined(Top.p, Top.filter, a)
    BY <1>1, <1>2, <1>3 DEF GetLined, LastAct, GoodGet, GetFrame
  <1>6. UNCHANGED <<configs, blocks, usageFilter, cache>>
    BY DEF LeaveKB, tables, usages
  <1>7. GoodGet(back) /\ GetLined(back)
    BY <1>1, <1>2, <1>3, <1>4, <1>5, GoodWithoutLast, LinedWithActs
  <1>8. back.p = Top.p /\ back.filter = Top.filter
    BY <1>2 DEF GoodGet, GetFrame
  <1>9. ASSUME NEW g, stack' = Replace(g), g.fn = "getconfig", GetLined(g)
        PROVE  LinedIn(stack', configs', blocks', usageFilter', cache')
    <2>1. g \in Frame
      BY <1>2, <1>9, NewTop
    <2> QED
      BY <1>2, <1>6, <1>9, <2>1, ReplaceLined DEF LinedIn
  <1>10. CASE UNCHANGED stack
    BY <1>6, <1>10
  <1>11. CASE stack' = Replace(back)
    <2> HIDE DEF back
    <2> QED
      BY <1>7, <1>9, <1>11 DEF GoodGet
  <1>12. CASE stack' = Replace(real)
    <2>1. /\ real.fn = "getconfig" /\ real.p = back.p /\ real.filter = back.filter
          /\ real.acts = back.acts /\ real.seen = back.seen
      BY <1>7 DEF GoodGet, GetFrame
    <2> HIDE DEF back, real
    <2>2. GetLined(real)
      BY <1>7, <2>1 DEF GetLined
    <2> QED
      BY <1>9, <1>12, <2>1, <2>2
  <1>13. CASE /\ kb.tag = "usage" /\ id # None /\ a.env.bv # None
              /\ stack' = Replace(block)
    <2>1. kb.p \in Prj /\ a.env \in Env /\ a.env.name = Top.filter
      BY <1>4, <1>5 DEF Act, KB, ActLined
    <2> HIDE DEF a
    <2>2. id = NameFor(kb.p, Top.filter)
      BY <1>4, <1>13, <2>1 DEF LinedIn, TablesLined
    <2>3. id \in Variant
      BY <1>4, <2>2, AllIsVariant DEF NameFor
    <2>4. blocks[kb.p][id] # None
      BY <1>13, <1>4, <2>1, TypedParts DEF TablesSound
    <2>5. BlockLined(kb.p, id, blocks[kb.p][id])
      BY <2>1, <2>3, <2>4 DEF LinedIn, TablesLined
    <2>6. always \subseteq Edge
      <3>1. blocks[kb.p][id] \in Block
        BY <2>1, <2>3, <2>4, TypedParts DEF TypeOK
      <3> QED
        BY <3>1 DEF Block
    <2>7. kb.p \in Sees(Top.p)
      <3>1. SeenLined(Top.p, Top.filter, kb)
        BY <1>5 DEF ActLined
      <3>2. kb.tag # "real"
        BY <1>13
      <3> HIDE DEF kb
      <3> QED
        BY <3>1, <3>2 DEF SeenLined, RealKB
    <2>8. \A e \in always : e.to \in Sees(Top.p)
      BY <1>4, <2>1, <2>5, <2>7, SeesFacts, TypedParts DEF BlockLined
    <2> HIDE DEF kb, id, always
    <2> DEFINE k == BlockKB(kb.p, id)
    <2>9. k \in KB /\ k.p = kb.p /\ k.tag = "block" /\ k.v = id
      BY <2>1, <2>3 DEF BlockKB, KB
    <2> HIDE DEF k
    <2>10. ActLined(back.p, back.filter, [kb |-> k, env |-> a.env, left |-> always,
                                          call |-> None])
      BY <1>5, <1>8, <2>2, <2>7, <2>8, <2>9 DEF ActLined, SeenLined
    <2> HIDE DEF back
    <2> DEFINE there == TRUE
    <2>11. block = Visit(back, k, a.env, always, there)
      BY DEF k
    <2> HIDE DEF there, block
    <2>12. GetLined(block) /\ block.fn = "getconfig"
      BY <1>7, <2>1, <2>6, <2>9, <2>10, <2>11, VisitLined, VisitSame
    <2> QED
      BY <1>9, <1>13, <2>12
  <1> QED
    BY <1>10, <1>11, <1>12, <1>13 DEF LeaveKB

(* The result of getconfig goes to its cache. *)
LEMMA CacheLined ==
    ASSUME BakeInv, TablesLined(configs, blocks, usageFilter, cache),
           NEW g, GoodGet(g), GetLined(g), CacheFound(g)
    PROVE  TablesLined(configs, blocks, usageFilter, cache')
  <1> DEFINE found == [seen |-> g.seen, cfgs |-> g.cfgs]
  <1>1. g.p \in Prj /\ g.field \in Field /\ g.filter \in Variant
    BY DEF GoodGet, GetFrame
  <1>2. cache \in [Prj -> [Field -> [Variant -> Found \cup {None}]]]
    BY TypedParts DEF TypeOK
  <1>3. \A p \in Prj, f \in Field, v \in Variant :
           \/ p = g.p /\ v = g.filter /\ cache'[p][f][v] = found
           \/ cache'[p][f][v] = cache[p][f][v]
    BY <1>1, <1>2 DEF CacheFound
  <1>4. \A x \in found.seen : SeenLined(g.p, g.filter, x)
    BY DEF GetLined
  <1> HIDE DEF found
  <1> QED
    BY <1>3, <1>4 DEF TablesLined

(* getfilter ending. *)
LEMMA GotFilterLined ==
    ASSUME BakeInv, BakeInv', Tracked, Reached,
           LinedIn(stack, configs, blocks, usageFilter, cache), GotFilter
    PROVE  LinedIn(stack', configs', blocks', usageFilter', cache')
  <1> DEFINE g == GetStart(Top.p, Top.filter, "all")
  <1>1. TopIs("getconfig") /\ stack' = Replace(g) /\ CacheFound(Top)
    BY DEF GotFilter
  <1>2. /\ GoodGet(Top) /\ Top.p \in script.real /\ stack # <<>>
        /\ Len(stack) \in 1 .. Len(stack)
    BY <1>1, TopGetReached
  <1>3. GetLined(Top)
    BY <1>1, <1>2 DEF LinedIn, FramesLined, Top, TopIs
  <1>4. Top.p \in Prj /\ Top.filter \in Variant
    BY <1>2 DEF GoodGet, GetFrame
  <1>5. g.fn = "getconfig" /\ GetLined(g)
    BY <1>2, <1>4, GetStartReads, GetStartLined, TypedParts DEF Field, LinedIn
  <1>6. TablesLined(configs, blocks, usageFilter, cache')
    BY <1>1, <1>2, <1>3, CacheLined DEF LinedIn
  <1>7. g \in Frame
    BY <1>1, <1>2, NewTop
  <1> HIDE DEF g
  <1>8. FramesLined(stack')
    BY <1>1, <1>2, <1>5, <1>7, ReplaceLined DEF LinedIn
  <1>9. UNCHANGED <<configs, blocks, usageFilter>>
    BY DEF GotFilter, tables, usages
  <1> QED
    BY <1>6, <1>8, <1>9 DEF LinedIn

(* What a block found while p is read brings: links by the rules of p. *)
LEMMA BlockByRules ==
    ASSUME BakeInv, Tracked, LinedIn(stack, configs, blocks, usageFilter, cache),
           NEW p \in Prj, NEW v \in Variant, NEW k \in KB, k.tag = "block",
           BlockExists(k), SeenLined(p, v, k), k.p \in LeadsTo(p)
    PROVE  LinesSound(p, v, blocks[k.p][k.v])
  <1> DEFINE q == k.p
             x == blocks[k.p][k.v]
  <1>1. q \in Prj /\ k.v \in Variant /\ x # None /\ q \in Sees(p) /\ k.v = NameFor(q, v)
    BY DEF KB, BlockExists, SeenLined, RealKB
  <1>2. BlockLined(q, k.v, x) /\ TypeOK
    BY <1>1, TypedParts DEF LinedIn, TablesLined
  <1>3. x \in Block
    BY <1>1, <1>2 DEF TypeOK
  <1>4. script.kind[q] \in Kind /\ q \in script.real
    BY <1>1, <1>2 DEF TypeOK, Script, BlockLined
  <1>5. \A K : /\ q \in Reach(K, p)
               /\ script.kind[q] \in K => Reach(K, q) \subseteq Reach(K, p)
    BY <1>1, <1>2, <1>4, ReachFacts
  <1>6. ASSUME NEW t \in x.static \cup x.shared, t.v = NameFor(t.p, k.v)
        PROVE  t.v = NameFor(t.p, v)
    <2>1. t.p \in Prj /\ t.v \in Variant
      BY <1>3 DEF Block, Target
    <2>2. configs[t.p][t.v] # None
      BY <1>1 DEF Tracked, TablesLinked, LinksExist
    <2>3. t.p \notin script.single => t.v # AllVariant
      BY <2>1, <2>2 DEF LinedIn, TablesLined
    <2> QED
      BY <1>1, <1>6, <2>3 DEF NameFor
  <1>7. \A t \in x.static : /\ t.p \in OfKind(Reach(Statics, p), "StaticLib")
                            /\ t.v = NameFor(t.p, v)
    BY <1>2, <1>4, <1>5, <1>6 DEF BlockLined, OfKind, Statics
  <1>8. \A t \in x.shared : /\ t.p \in OfKind(Reach(Libraries, p), "SharedLib")
                            /\ t.v = NameFor(t.p, v)
    BY <1>2, <1>4, <1>5, <1>6 DEF BlockLined, OfKind, Libraries
  <1>9. x.depends \subseteq OfKind(Reach(Kind, p), "Command")
    BY <1>2, <1>4, <1>5 DEF BlockLined, OfKind
  <1>10. \A e \in x.always : e.to \in Carries(p)
    BY <1>2, CarriesFacts DEF BlockLined
  <1> QED
    BY <1>7, <1>8, <1>9, <1>10 DEF LinesSound

(* What the blocks found merge to. *)
LEMMA MergedLined ==
    ASSUME BakeInv, Tracked, Reached, ~HasFeatures,
           LinedIn(stack, configs, blocks, usageFilter, cache),
           NEW g, GoodGet(g), GetReached(g), GetLined(g), g.p \in script.real,
           AllAskedOf(g.filter.feats, g.p)
    PROVE  ConfigLined(g.p, MergedConfig(g)) /\ MergedConfig(g).bv = g.filter
  <1> DEFINE c == MergedConfig(g)
             p == g.p
             v == g.filter
  <1>1. /\ p \in Prj /\ v \in Variant /\ g.seen \subseteq KB /\ TypeOK
        /\ \A k \in g.seen : /\ BlockExists(k) /\ SeenSound(p, v, k)
                             /\ SeenLined(p, v, k)
    BY TypedParts DEF GoodGet, GetFrame, SoundGet, GetReached, GetLined
  <1>2. v.feats = {}
    BY NothingAsked
  <1>3. c.bv = v
    BY <1>1, <1>2 DEF MergedConfig, UsedVariant, Variant
  <1>4. ASSUME NEW x \in FoundBlocks(g) PROVE LinesSound(p, v, x) /\ x \in Block
    <2>1. PICK k \in g.seen : k.tag = "block" /\ x = blocks[k.p][k.v]
      BY DEF FoundBlocks
    <2>2. k.p \in LeadsTo(p) /\ k \in KB /\ k.p \in Prj /\ k.v \in Variant
      BY <1>1, <2>1 DEF SeenSound, RealKB, KB
    <2>3. x \in Block
      BY <1>1, <2>1, <2>2 DEF BlockExists, TypeOK
    <2> QED
      BY <1>1, <2>1, <2>2, <2>3, BlockByRules
  <1>5. ASSUME NEW k \in g.seen, NEW e \in AlwaysAmong(DeclaredUses(k))
        PROVE  e.to \in Carries(p)
    <2>0. k.p \in Prj /\ k.tag \in {"real", "usage", "block"} /\ e.always
          /\ e \in DeclaredUses(k)
      BY <1>1 DEF KB, AlwaysAmong
    <2>1. CASE k.tag = "real"
      <3>1. k.p = p /\ DeclaredUses(k) = script.uses[p]
        BY <1>1, <2>1 DEF SeenSound, RealKB, DeclaredUses
      <3>2. e \in OwnUses[p]
        BY <1>1, <2>0, <3>1, UsesTyped
      <3> QED
        BY <1>1, <2>0, <3>2, CarriesFacts
    <2>2. CASE k.tag = "usage"
      <3>1. k.p \in LeadsTo(p) /\ DeclaredUses(k) = script.exports[k.p]
        BY <1>1, <2>2 DEF SeenSound, RealKB, DeclaredUses
      <3>2. e \in AllUses[k.p]
        BY <1>1, <2>0, <3>1, UsesTyped
      <3> QED
        BY <1>1, <2>0, <3>1, <3>2, CarriesFacts
    <2>3. CASE k.tag = "block"
      BY <2>0, <2>3 DEF DeclaredUses
    <2> QED
      BY <2>0, <2>1, <2>2, <2>3
  <1> DEFINE self == [p |-> p, v |-> v]
  <1>6. /\ c.static \subseteq MergedStatic(g) /\ c.shared \subseteq MergedShared(g)
        /\ c.depends = MergedDepends(g) /\ c.always = MergedAlways(g)
        /\ self \notin c.static \cup c.shared
    BY <1>3 DEF MergedConfig
  <1> HIDE DEF c
  <1>7. LinesSound(p, v, c)
    <2>1. \A t \in c.static : /\ t.p \in OfKind(Reach(Statics, p), "StaticLib")
                              /\ t.v = NameFor(t.p, v)
      BY <1>4, <1>6 DEF MergedStatic, LinesSound
    <2>2. \A t \in c.shared : /\ t.p \in OfKind(Reach(Libraries, p), "SharedLib")
                              /\ t.v = NameFor(t.p, v)
      BY <1>4, <1>6 DEF MergedShared, LinesSound
    <2>3. c.depends \subseteq OfKind(Reach(Kind, p), "Command")
      BY <1>4, <1>6 DEF MergedDepends, LinesSound
    <2>4. \A e \in c.always : e.to \in Carries(p)
      BY <1>4, <1>5, <1>6 DEF MergedAlways, LinesSound
    <2> QED
      BY <2>1, <2>2, <2>3, <2>4 DEF LinesSound
  <1>8. ASSUME p \notin script.single, NEW t \in c.static \cup c.shared PROVE t.p # p
    <2>1. t \in Target
      BY <1>4, <1>6 DEF MergedStatic, MergedShared, Block
    <2>2. t.p = p => t = self
      BY <1>7, <1>8, <2>1 DEF LinesSound, NameFor, Target
    <2> QED
      BY <1>6, <2>2
  <1> QED
    BY <1>3, <1>7, <1>8 DEF ConfigLined, c

(* getconfig hands the merged configuration to its caller. *)
LEMMA GotConfigLined ==
    ASSUME BakeInv, Tracked, Reached, ~HasFeatures,
           LinedIn(stack, configs, blocks, usageFilter, cache), GotConfig
    PROVE  LinedIn(stack', configs', blocks', usageFilter', cache')
  <1> DEFINE n == Len(stack) - 1
             cfg == MergedConfig(Top)
             f == [stack[n] EXCEPT !.cfg = cfg, !.left = cfg.depends]
  <1>1. /\ n \in Nat \ {0} /\ Len(stack') = n /\ stack[n] \in AddFrame
        /\ stack'[n] = f /\ \A i \in 1 .. n - 1 : stack'[i] = stack[i]
        /\ stack[n].fn = "addconfig"
    BY GotConfigStack
  <1>2. TopIs("getconfig") /\ CacheFound(Top)
    BY DEF GotConfig
  <1>3. /\ GoodGet(Top) /\ GetReached(Top) /\ Top.p \in script.real
        /\ AllAskedOf(Top.filter.feats, Top.p) /\ GetTracked(Top, stack[n])
        /\ Len(stack) \in 1 .. Len(stack)
    BY <1>2, TopGetReached
  <1>4. GetLined(Top)
    BY <1>2, <1>3 DEF LinedIn, FramesLined, Top, TopIs
  <1>5. ConfigLined(Top.p, cfg) /\ Top.p = stack[n].p
    BY <1>3, <1>4, MergedLined DEF GetTracked
  <1>6. TablesLined(configs, blocks, usageFilter, cache')
    BY <1>2, <1>3, <1>4, CacheLined DEF LinedIn
  <1>7. n \in 1 .. Len(stack) /\ Len(stack) \in Nat
    BY <1>1
  <1>8. AddLined(stack[n])
    BY <1>1, <1>7 DEF LinedIn, FramesLined
  <1> HIDE DEF cfg
  <1>9. /\ f.p = stack[n].p /\ f.fin = stack[n].fin /\ f.cfg = cfg
        /\ f.fn = "addconfig"
    BY <1>1 DEF AddFrame
  <1> HIDE DEF f
  <1>10. AddLined(f)
    BY <1>5, <1>8, <1>9 DEF AddLined
  <1> HIDE DEF n
  <1>11. ASSUME NEW i \in 1 .. n
         PROVE  /\ stack'[i].fn = "addconfig" => AddLined(stack'[i])
                /\ stack'[i].fn = "getconfig" => GetLined(stack'[i])
    <2>1. i \in 1 .. Len(stack)
      BY <1>1, <1>7
    <2>2. CASE i = n
      BY <2>2, <1>1, <1>9, <1>10
    <2>3. CASE i \in 1 .. n - 1
      BY <2>1, <2>3, <1>1 DEF LinedIn, FramesLined
    <2> QED
      BY <2>2, <2>3, <1>1
  <1>12. FramesLined(stack')
    BY <1>1, <1>11 DEF FramesLined
  <1>13. UNCHANGED <<configs, blocks, usageFilter>>
    BY DEF GotConfig, tables, usages
  <1> QED
    BY <1>6, <1>12, <1>13 DEF LinedIn

(* What users of a configuration inherit is what the kind of its project   *)
(* lets through.                                                           *)
LEMMA UsageBlockLined ==
    ASSUME TypeOK, NEW p \in Prj, p \in script.real, NEW c, ConfigLined(p, c),
           NameFor(p, c.bv) = c.bv
    PROVE  BlockLined(p, c.bv, UsageBlock(p, c))
  <1> DEFINE k == UsageBlock(p, c)
             self == [p |-> p, v |-> c.bv]
             kind == script.kind[p]
  <1>1. LinesSound(p, c.bv, c)
    BY DEF ConfigLined
  <1>2. \A t \in k.static : kind = "StaticLib" /\ (t = self \/ t \in c.static)
    BY DEF UsageBlock
  <1>3. \A t \in k.shared : \/ kind = "SharedLib" /\ (t = self \/ t \in c.shared)
                            \/ kind = "StaticLib" /\ t \in c.shared
    BY DEF UsageBlock
  <1>4. /\ \A q \in k.depends : q \in c.depends \/ (q = p /\ kind = "Command")
        /\ k.always = c.always
    BY DEF UsageBlock
  <1> HIDE DEF k
  <1>5. self.p = p /\ self.v = NameFor(p, c.bv)
    OBVIOUS
  <1> HIDE DEF self
  <1>6. \A t \in k.static : /\ kind = "StaticLib"
                            /\ \/ t.p = p
                               \/ t.p \in OfKind(Reach(Statics, p), "StaticLib")
                            /\ t.v = NameFor(t.p, c.bv)
    BY <1>1, <1>2, <1>5 DEF LinesSound
  <1>7. \A t \in k.shared : /\ kind \in Libraries
                            /\ \/ t.p = p /\ kind = "SharedLib"
                               \/ t.p \in OfKind(Reach(Libraries, p), "SharedLib")
                            /\ t.v = NameFor(t.p, c.bv)
    BY <1>1, <1>3, <1>5 DEF LinesSound, Libraries
  <1>8. k.depends \subseteq OfKind(Reach(Kind, p) \cup {p}, "Command")
    BY <1>1, <1>4 DEF LinesSound, OfKind
  <1>9. \A e \in k.always : e.to \in Carries(p)
    BY <1>1, <1>4 DEF LinesSound
  <1> QED
    BY <1>6, <1>7, <1>8, <1>9 DEF BlockLined, k

(* A configuration recorded and published. *)
LEMMA FinishConfigLined ==
    ASSUME BakeInv, Tracked, Reached, ~HasFeatures,
           LinedIn(stack, configs, blocks, usageFilter, cache), FinishConfig
    PROVE  LinedIn(stack', configs', blocks', usageFilter', cache')
  <1> DEFINE p == Top.p
             cfg == Top.cfg
             fin == cfg.bv
             init == Top.init
             n == Len(stack)
  <1>1. /\ Top \in AddFrame /\ Top.fn = "addconfig"
        /\ p \in Prj /\ cfg \in Config /\ fin \in Variant
        /\ init \in Variant /\ configs'[p][fin] = cfg
        /\ \A q \in Prj, v \in Variant :
              (q = p /\ v = fin) \/ configs'[q][v] = configs[q][v]
        /\ \A q \in Prj, v \in Variant :
              \/ q = p /\ v = fin /\ blocks'[q][v] = UsageBlock(p, cfg)
              \/ blocks'[q][v] = blocks[q][v]
        /\ \A q \in Prj, v \in Variant :
              \/ /\ q = p /\ v \in {init, fin}
                 /\ \/ usageFilter'[q][v] = fin
                    \/ /\ usageFilter'[q][v] = usageFilter[p][fin]
                       /\ usageFilter[p][fin] # None
              \/ usageFilter'[q][v] = usageFilter[q][v]
        /\ n \in Nat \ {0} /\ Len(stack') = n - 1
        /\ \A i \in 1 .. n - 1 : stack'[i] = stack[i]
        /\ UNCHANGED <<script, cache>>
    BY FinishFacts
  <1>2. stack[n] = Top /\ n \in 1 .. n /\ cfg # None
    BY <1>1, NoneDistinct DEF Top
  <1>3. /\ AddTracked(Top, prjToBuild, configs) /\ AddReached(Top) /\ AddLined(Top)
        /\ (p \notin script.single => init = Top.fin)
    BY <1>1, <1>2
       DEF Tracked, FramesTracked, Reached, FramesReached, LinedIn, FramesLined,
           BakeInv, PlaceholdersHeld, Adds
  <1>4. fin = Top.fin
    <2>1. Top.fin.feats = {} /\ Top.fin \in Variant
      BY <1>1, <1>3, NothingAsked DEF AddReached, AddFrame
    <2>2. fin.cfg = Top.fin.cfg /\ fin.feats = {}
      BY <1>2, <1>3, <2>1 DEF AddTracked
    <2>3. fin \in Variant
      BY <1>1
    <2> HIDE DEF fin
    <2> QED
      BY <2>1, <2>2, <2>3 DEF Variant
  <1>5. /\ ConfigLined(p, cfg) /\ (p \notin script.single => fin # AllVariant)
        /\ p \in script.real
    BY <1>2, <1>3, <1>4 DEF AddLined, AddTracked
  <1>6. NameFor(p, fin) = fin /\ NameFor(p, init) = fin
    BY <1>3, <1>4 DEF NameFor, AddTracked
  <1>7. BlockLined(p, fin, UsageBlock(p, cfg))
    BY <1>1, <1>5, <1>6, UsageBlockLined, TypedParts
  <1> HIDE DEF p, cfg, fin, init, n
  <1>8. TablesLined(configs', blocks', usageFilter', cache')
    <2>1. TablesLined(configs, blocks, usageFilter, cache) /\ cache' = cache
      BY <1>1 DEF LinedIn
    <2> SUFFICES ASSUME NEW q \in Prj, NEW v \in Variant
                 PROVE  /\ configs'[q][v] # None =>
                             /\ ConfigLined(q, configs'[q][v])
                             /\ q \notin script.single => v # AllVariant
                        /\ blocks'[q][v] # None => BlockLined(q, v, blocks'[q][v])
                        /\ usageFilter'[q][v] # None =>
                             usageFilter'[q][v] = NameFor(q, v)
      BY <2>1 DEF TablesLined
    <2>2. configs'[q][v] # None => /\ ConfigLined(q, configs'[q][v])
                                   /\ q \notin script.single => v # AllVariant
      BY <1>1, <1>5, <2>1 DEF TablesLined
    <2>3. blocks'[q][v] # None => BlockLined(q, v, blocks'[q][v])
      BY <1>1, <1>7, <2>1 DEF TablesLined
    <2>4. usageFilter'[q][v] # None => usageFilter'[q][v] = NameFor(q, v)
      BY <1>1, <1>6, <2>1 DEF TablesLined
    <2> QED
      BY <2>2, <2>3, <2>4
  <1>9. \A i \in 1 .. n - 1 : i \in 1 .. Len(stack)
    BY <1>1 DEF n
  <1>10. FramesLined(stack')
    BY <1>1, <1>9 DEF LinedIn, FramesLined
  <1> QED
    BY <1>8, <1>10 DEF LinedIn

(* bakeall asks for a configuration. *)
LEMMA AddDefaultLined ==
    ASSUME BakeInv, LinedIn(stack, configs, blocks, usageFilter, cache), AddDefault
    PROVE  LinedIn(stack', configs', blocks', usageFilter', cache')
  <1>1. TablesTyped /\ TablesSound
    BY TypedParts
  <1>2. queue # <<>> /\ queue \in Seq(Variant)
    BY <1>1 DEF AddDefault, TablesTyped
  <1>3. current \in Prj /\ Head(queue) \in Variant
    BY <1>1, <1>2, HeadTailProperties DEF TablesTyped, TablesSound
  <1>4. FramesLined(stack')
    BY <1>3, StackFacts, CallLined DEF AddDefault, LinedIn
  <1> QED
    BY <1>4 DEF LinedIn, AddDefault, usages

(* Baking a compile dependency. *)
LEMMA CompileDependLined ==
    ASSUME BakeInv, LinedIn(stack, configs, blocks, usageFilter, cache),
           NEW q \in Prj, CompileDepend(q)
    PROVE  LinedIn(stack', configs', blocks', usageFilter', cache')
  <1> DEFINE f == [Top EXCEPT !.left = @ \ {q}]
             n == Len(stack)
  <1>1. Top \in AddFrame /\ Top.fn = "addconfig" /\ stack # <<>>
    BY TopAdd DEF CompileDepend
  <1>2. Top.cfg.bv \in Variant
    BY <1>1 DEF CompileDepend, AddFrame, Config
  <1>3. n \in 1 .. n
    BY <1>1, StackFacts, FrontOfStack
  <1>4. AddLined(Top)
    BY <1>1, <1>3 DEF LinedIn, FramesLined, Top
  <1>5. /\ f \in AddFrame /\ f.fn = "addconfig" /\ f.p = Top.p /\ f.init = Top.init
        /\ f.fin = Top.fin /\ f.cfg = Top.cfg
    BY <1>1 DEF AddFrame
  <1> HIDE DEF f
  <1>6. AddLined(f)
    BY <1>4, <1>5 DEF AddLined
  <1>7. FramesLined(Replace(f))
    BY <1>1, <1>5, <1>6, ReplaceLined DEF Frame, LinedIn
  <1>8. StackSound(Replace(f))
    BY <1>1, <1>5, ReplaceTop DEF Frame
  <1>9. addconfig(q, Top.cfg.bv, Replace(f)) /\ UNCHANGED <<configs, usages, cache>>
    BY DEF CompileDepend, f
  <1>10. FramesLined(stack')
    BY <1>2, <1>7, <1>8, <1>9, CallLined DEF LinedIn
  <1> QED
    BY <1>9, <1>10 DEF LinedIn, usages

-----------------------------------------------------------------------------
(* LinkLineSound *)

(* The invariant holds before bakeall starts. *)
LEMMA LinedInit == Init => Lined
  <1> SUFFICES ASSUME Init PROVE Lined
    OBVIOUS
  <1>1. Len(stack) = 0
    BY DEF Init
  <1>2. FramesLined(stack)
    BY <1>1 DEF FramesLined
  <1>3. TablesLined(configs, blocks, usageFilter, cache)
    BY NoneDistinct DEF Init, TablesLined
  <1> QED
    BY <1>2, <1>3 DEF Lined

(* The script is read before baking and never changes. *)
LEMMA ScriptStays == [Next]_vars => script' = script
  <1> SUFFICES ASSUME [Next]_vars PROVE script' = script
    OBVIOUS
  <1>1. ASSUME NEW p \in Prj, StartProject(p) \/ CompileDepend(p) PROVE script' = script
    BY <1>1 DEF StartProject, CompileDepend
  <1>2. ASSUME NEW e \in Edge, Use(e) PROVE script' = script
    BY <1>2 DEF Use, Crash
  <1>3. CASE AddDefault \/ BakeallDone \/ GotFilter \/ GotConfig \/ FinishConfig
    BY <1>3 DEF AddDefault, BakeallDone, GotFilter, GotConfig, FinishConfig
  <1>4. CASE EnterUsage \/ LeaveKB
    BY <1>4 DEF EnterUsage, LeaveKB, Crash
  <1>5. CASE UNCHANGED vars
    BY <1>5 DEF vars
  <1> QED
    BY <1>1, <1>2, <1>3, <1>4, <1>5 DEF Next, Halted

(* Every step keeps it. *)
LEMMA LinedStep == BakeInv /\ Tracked /\ Reached /\ Lined /\ [Next]_vars => Lined'
  <1> SUFFICES ASSUME BakeInv, Tracked, Reached, Lined, [Next]_vars, ~HasFeatures
               PROVE  LinedIn(stack', configs', blocks', usageFilter', cache')
    BY ScriptStays, LinedNext DEF LinedIn
  <1>0. BakeInv' /\ LinedIn(stack, configs, blocks, usageFilter, cache)
    BY NextInv DEF Lined, LinedIn
  <1> DEFINE Goal == LinedIn(stack', configs', blocks', usageFilter', cache')
  <1>1. ASSUME NEW p \in Prj, StartProject(p) PROVE Goal
    BY <1>0, <1>1 DEF StartProject, usages
  <1>2. ASSUME NEW p \in Prj, CompileDepend(p) PROVE Goal
    BY <1>0, <1>2, CompileDependLined
  <1>3. ASSUME NEW e \in Edge, Use(e) PROVE Goal
    BY <1>0, <1>3, UseLined
  <1>4. CASE AddDefault
    BY <1>0, <1>4, AddDefaultLined
  <1>5. CASE BakeallDone
    BY <1>0, <1>5 DEF BakeallDone, tables, usages
  <1>6. CASE EnterUsage
    BY <1>0, <1>6, EnterUsageLined
  <1>7. CASE LeaveKB
    BY <1>0, <1>7, LeaveKBLined
  <1>8. CASE GotFilter
    BY <1>0, <1>8, GotFilterLined
  <1>9. CASE GotConfig
    BY <1>0, <1>9, GotConfigLined
  <1>10. CASE FinishConfig
    BY <1>0, <1>10, FinishConfigLined
  <1>11. CASE UNCHANGED vars
    BY <1>0, <1>11 DEF vars, tables, usages
  <1> QED
    BY <1>1, <1>2, <1>3, <1>4, <1>5, <1>6, <1>7, <1>8, <1>9, <1>10, <1>11
       DEF Next, Halted

(* The invariant holds throughout, for every set of scripts. *)
LEMMA BakeLined == Spec => [](BakeInv /\ Reached /\ Lined)
  BY BakeReached, LinedInit, LinedStep, PTL DEF Spec

(* On a cycle of uses or not, a configuration's link line holds nothing    *)
(* that the propagation rules do not put there, in the variant they put it *)
(* there, and never the project itself (config.addUsageConfig and          *)
(* config.bake, whatever the order in which pairs() walks the uses).       *)
THEOREM BakeLinksByTheRules == Spec => []LinkLineSound
  <1>1. BakeInv /\ Reached /\ Lined => LinkLineSound
    <2> SUFFICES ASSUME BakeInv, Reached, Lined, ~HasFeatures,
                        NEW p \in script.real \ script.single, NEW v \in Variant,
                        configs[p][v] # None
                 PROVE  /\ configs[p][v].static \subseteq Reference(p, v).static
                        /\ configs[p][v].shared \subseteq Reference(p, v).shared
                        /\ configs[p][v].depends \subseteq Reference(p, v).depends
      BY DEF LinkLineSound
    <2> DEFINE c == configs[p][v]
               statics == OfKind(Reach(Statics, p), "StaticLib") \ {p}
               shareds == OfKind(Reach(Libraries, p), "SharedLib") \ {p}
    <2>1. p \in Prj /\ c \in Config
      BY TypedParts DEF TypeOK, Script
    <2>2. c.bv = v /\ ConfigLined(p, c)
      BY <2>1 DEF Reached, TablesReached, Lined, TablesLined
    <2>3. /\ Reference(p, v).static = Targets(statics, v)
          /\ Reference(p, v).shared = Targets(shareds, v)
          /\ Reference(p, v).depends = OfKind(Reach(Kind, p), "Command")
      BY DEF Reference, Statics, Libraries
    <2> HIDE DEF c, statics, shareds
    <2>4. \A t \in c.static : t.p \in statics /\ t.v = NameFor(t.p, v)
      BY <2>2 DEF ConfigLined, LinesSound, statics
    <2>5. \A t \in c.shared : t.p \in shareds /\ t.v = NameFor(t.p, v)
      BY <2>2 DEF ConfigLined, LinesSound, shareds
    <2>6. ASSUME NEW t \in c.static \cup c.shared, NEW ps, t.p \in ps,
                 t.v = NameFor(t.p, v)
          PROVE  t \in Targets(ps, v)
      <3>1. t = [p |-> t.p, v |-> NameFor(t.p, v)]
        BY <2>1, <2>6 DEF Config, Target
      <3> QED
        BY <2>6, <3>1 DEF Targets, NameFor
    <2>7. c.depends \subseteq OfKind(Reach(Kind, p), "Command")
      BY <2>2 DEF ConfigLined, LinesSound
    <2> QED
      BY <2>3, <2>4, <2>5, <2>6, <2>7 DEF c
  <1> QED
    BY <1>1, BakeLined, PTL

-----------------------------------------------------------------------------
(* The bakes under way, as a sequence *)

(* A set of naturals that is not empty has a least element. *)
LEMMA LeastNatural ==
    ASSUME NEW T \in SUBSET Nat, T # {}
    PROVE  \E x \in T : \A y \in T : x <= y
  <1>1. PICK x \in T : \A y \in T : ~(<<y, x>> \in OpToRel(<, Nat))
    BY NatLessThanWellFounded, WFMin, Zenon
  <1>2. ASSUME NEW y \in T PROVE x <= y
    <2>1. ~(y < x)
      BY <1>1 DEF OpToRel
    <2> QED
      BY <2>1
  <1> QED
    BY <1>2

(* The bakes l, and those with the frame f. *)
With(l, f) == IF f.fn = "addconfig" THEN Append(l, Node(f.p, f.fin)) ELSE l

(* h[i] are the bakes among the first i frames of s. *)
Counts(h, s, n) == h = [i \in 0 .. n |-> IF i = 0 THEN <<>> ELSE With(h[i - 1], s[i])]

(* The recursion in Baking is defined for every stack. *)
LEMMA BakingSteps ==
    ASSUME NEW s, Len(s) \in Nat
    PROVE  \E h : Counts(h, s, Len(s)) /\ Baking(s) = h[Len(s)]
  <1> DEFINE E(m) == \E h : Counts(h, s, m)
             T == {m \in Nat : ~E(m)}
  <1>1. T = {}
    <2> SUFFICES ASSUME T # {} PROVE FALSE
      OBVIOUS
    <2>1. PICK m \in T : \A k \in T : m <= k
      <3> HIDE DEF E
      <3>1. T \in SUBSET Nat
        OBVIOUS
      <3> QED
        BY <3>1, LeastNatural
    <2>2. CASE m = 0
      <3>1. Counts([i \in 0 .. 0 |-> <<>>], s, 0)
        BY DEF Counts
      <3> QED
        BY <2>2, <3>1
    <2>3. CASE m # 0
      <3>1. m \in Nat /\ m - 1 \in Nat
        BY <2>3
      <3>2. E(m - 1)
        <4> HIDE DEF E
        <4> QED
          BY <2>1, <3>1
      <3>3. PICK h : Counts(h, s, m - 1)
        BY <3>2
      <3> DEFINE g == [i \in 0 .. m |-> IF i = m THEN With(h[m - 1], s[m]) ELSE h[i]]
      <3>4. \A i \in 0 .. m : g[i] = IF i = 0 THEN <<>> ELSE With(g[i - 1], s[i])
        BY <3>1, <3>3, <2>3 DEF Counts
      <3>5. Counts(g, s, m)
        BY <3>4 DEF Counts
      <3>6. E(m)
        BY <3>5, Zenon
      <3> QED
        BY <3>6
    <2> QED
      BY <2>2, <2>3
  <1>2. E(Len(s))
    BY <1>1
  <1> DEFINE P(h) == Counts(h, s, Len(s))
  <1>3. Baking(s) = (CHOOSE h : P(h))[Len(s)]
    BY DEF Baking, Counts, With
  <1>4. P(CHOOSE h : P(h))
    <2>1. \E h : P(h)
      BY <1>2
    <2> HIDE DEF P
    <2> QED
      BY <2>1
  <1> QED
    BY <1>3, <1>4

(* f and g are frames of the same bake, or of none. *)
SameBake(f, g) ==
    /\ f.fn = g.fn
    /\ f.fn = "addconfig" => f.p = g.p /\ f.fin = g.fin

(* The bakes among the first frames depend on those only. *)
LEMMA BakingAgree ==
    ASSUME NEW s, NEW t, NEW h, NEW g, NEW n \in Nat, NEW o \in Nat, NEW m \in Nat,
           Counts(h, s, n), Counts(g, t, o), m <= n, m <= o,
           \A i \in 1 .. m : SameBake(s[i], t[i])
    PROVE  h[m] = g[m]
  <1> DEFINE T == {i \in 0 .. m : h[i] # g[i]}
  <1> SUFFICES ASSUME T # {} PROVE FALSE
    OBVIOUS
  <1>1. T \in SUBSET Nat
    OBVIOUS
  <1>2. PICK i \in T : \A k \in T : i <= k
    BY <1>1, LeastNatural
  <1>3. /\ i \in 0 .. n /\ i \in 0 .. o /\ i \in 0 .. m
    OBVIOUS
  <1>4. /\ h[i] = IF i = 0 THEN <<>> ELSE With(h[i - 1], s[i])
        /\ g[i] = IF i = 0 THEN <<>> ELSE With(g[i - 1], t[i])
    BY <1>3 DEF Counts
  <1>5. i # 0
    BY <1>4
  <1>6. i - 1 \in 0 .. m /\ ~(i <= i - 1) /\ i \in 1 .. m
    BY <1>3, <1>5
  <1>7. h[i - 1] = g[i - 1]
    BY <1>2, <1>6
  <1>8. SameBake(s[i], t[i])
    BY <1>6
  <1>9. With(h[i - 1], s[i]) = With(g[i - 1], t[i])
    BY <1>7, <1>8 DEF With, SameBake
  <1> QED
    BY <1>4, <1>5, <1>9

(* Stacks with the same calls have the same bakes under way. *)
LEMMA BakingSame ==
    ASSUME NEW s, NEW t, Len(s) \in Nat, Len(t) = Len(s),
           \A i \in 1 .. Len(s) : SameBake(s[i], t[i])
    PROVE  Baking(t) = Baking(s)
  <1>1. PICK h : Counts(h, s, Len(s)) /\ Baking(s) = h[Len(s)]
    BY BakingSteps
  <1>2. PICK g : Counts(g, t, Len(s)) /\ Baking(t) = g[Len(s)]
    BY BakingSteps
  <1>3. h[Len(s)] = g[Len(s)]
    <2> DEFINE n == Len(s)
    <2>1. n \in Nat /\ Counts(h, s, n) /\ Counts(g, t, n)
          /\ \A i \in 1 .. n : SameBake(s[i], t[i])
      BY <1>1, <1>2
    <2> HIDE DEF n
    <2>2. n <= n
      BY <2>1
    <2>3. h[n] = g[n]
      BY <2>1, <2>2, BakingAgree
    <2> QED
      BY <2>3 DEF n
  <1> QED
    BY <1>1, <1>2, <1>3

(* One more frame. *)
LEMMA BakingPush ==
    ASSUME NEW s, NEW r, Len(s) \in Nat, Len(r) = Len(s) + 1,
           \A i \in 1 .. Len(s) : SameBake(s[i], r[i])
    PROVE  Baking(r) = With(Baking(s), r[Len(s) + 1])
  <1> DEFINE n == Len(s)
  <1>1. PICK h : Counts(h, s, n) /\ Baking(s) = h[n]
    BY BakingSteps
  <1>2. PICK g : Counts(g, r, n + 1) /\ Baking(r) = g[n + 1]
    BY BakingSteps
  <1>3. h[n] = g[n]
    BY <1>1, <1>2, BakingAgree
  <1>4. n + 1 \in 0 .. (n + 1) /\ n + 1 # 0 /\ (n + 1) - 1 = n
    OBVIOUS
  <1>5. g[n + 1] = With(g[n], r[n + 1])
    BY <1>2, <1>4 DEF Counts
  <1> QED
    BY <1>1, <1>2, <1>3, <1>5

(* The bakes under way are nodes, and they are those of the frames. *)
LEMMA BakingNodes ==
    ASSUME NEW s \in Seq(Frame)
    PROVE  /\ Baking(s) \in Seq(Target)
           /\ \A p, v : Node(p, v) \in ToSet(Baking(s)) <=> UnderWay(s, p, v)
  <1> DEFINE n == Len(s)
             Up(i, p, v) == \E j \in 1 .. i :
                               s[j].fn = "addconfig" /\ s[j].p = p /\ s[j].fin = v
             Good(i, l) == /\ l \in Seq(Target)
                           /\ \A p, v : Node(p, v) \in ToSet(l) <=> Up(i, p, v)
  <1>1. n \in Nat /\ \A i \in 1 .. n : s[i] \in Frame
    BY LenProperties, ElementOfSeq
  <1>2. PICK h : Counts(h, s, n) /\ Baking(s) = h[n]
    BY <1>1, BakingSteps
  <1>3. ASSUME NEW i \in 1 .. n, NEW l, Good(i - 1, l)
        PROVE  Good(i, With(l, s[i]))
    <2>1. \A p, v : Up(i, p, v) <=>
             Up(i - 1, p, v) \/ (s[i].fn = "addconfig" /\ s[i].p = p /\ s[i].fin = v)
      <3>1. \A j \in 1 .. i : j \in 1 .. (i - 1) \/ j = i
        BY <1>1
      <3>2. i \in 1 .. i /\ \A j \in 1 .. (i - 1) : j \in 1 .. i
        BY <1>1
      <3> QED
        BY <3>1, <3>2
    <2> HIDE DEF Up
    <2>2. CASE s[i].fn # "addconfig"
      BY <1>3, <2>1, <2>2 DEF With
    <2>3. CASE s[i].fn = "addconfig"
      <3> DEFINE x == Node(s[i].p, s[i].fin)
      <3>1. x \in Target
        BY <1>1, <2>3, FrameKinds DEF AddFrame, Node, Target
      <3>2. With(l, s[i]) = Append(l, x)
        BY <2>3 DEF With
      <3>3. ToSet(Append(l, x)) = ToSet(l) \cup {x}
        <4> HIDE DEF x
        <4>1. /\ l \in Seq(Target) /\ Len(l) \in Nat /\ DOMAIN l = 1 .. Len(l)
              /\ Append(l, x) \in Seq(Target) /\ Len(Append(l, x)) = Len(l) + 1
              /\ DOMAIN Append(l, x) = 1 .. (Len(l) + 1)
              /\ Append(l, x)[Len(l) + 1] = x
              /\ \A j \in 1 .. Len(l) : Append(l, x)[j] = l[j]
          BY <1>3, <3>1, PushOnStack, LenProperties
        <4>2. \A j \in 1 .. (Len(l) + 1) : j \in 1 .. Len(l) \/ j = Len(l) + 1
          BY <4>1
        <4>3. /\ \A j \in 1 .. Len(l) : j \in 1 .. (Len(l) + 1)
              /\ Len(l) + 1 \in 1 .. (Len(l) + 1)
          BY <4>1
        <4> QED
          BY <4>1, <4>2, <4>3 DEF ToSet
      <3>4. \A p, v : Node(p, v) = x <=> s[i].p = p /\ s[i].fin = v
        BY DEF Node
      <3>5. Append(l, x) \in Seq(Target)
        BY <1>3, <3>1, PushOnStack
      <3> HIDE DEF x
      <3> QED
        BY <1>3, <2>1, <2>3, <3>2, <3>3, <3>4, <3>5
    <2> QED
      BY <2>2, <2>3
  <1>4. Good(0, <<>>)
    BY DEF ToSet
  <1>5. Good(n, h[n])
    <2> HIDE DEF Good
    <2> DEFINE T == {i \in 0 .. n : ~Good(i, h[i])}
    <2> SUFFICES ASSUME T # {} PROVE FALSE
      BY <1>1
    <2>1. PICK i \in T : \A k \in T : i <= k
      <3>1. T \in SUBSET Nat
        OBVIOUS
      <3> QED
        BY <3>1, LeastNatural
    <2>2. h[i] = IF i = 0 THEN <<>> ELSE With(h[i - 1], s[i])
      BY <1>2 DEF Counts
    <2>3. i \in 0 .. n /\ i # 0
      BY <1>4, <2>2
    <2>4. i - 1 \in 0 .. n /\ ~(i <= i - 1) /\ i \in 1 .. n
      BY <1>1, <2>3
    <2>5. Good(i - 1, h[i - 1])
      BY <2>1, <2>4
    <2> QED
      BY <1>3, <2>2, <2>3, <2>4, <2>5
  <1> QED
    BY <1>2, <1>5 DEF UnderWay

(* The last of a sequence and the rest of it. *)
LEMMA FrontAndLast ==
    ASSUME NEW S, NEW s \in Seq(S), NEW x \in S
    PROVE  /\ Front(Append(s, x)) = s
           /\ Last(Append(s, x)) = x
           /\ Append(s, x) # <<>>
  <1> DEFINE t == Append(s, x)
  <1>1. /\ t \in Seq(S) /\ Len(t) = Len(s) + 1 /\ t[Len(s) + 1] = x
        /\ \A i \in 1 .. Len(s) : t[i] = s[i]
    BY PushOnStack
  <1>2. Len(s) \in Nat
    BY LenProperties
  <1>3. t # <<>> /\ Len(t) - 1 = Len(s)
    BY <1>1, <1>2
  <1> HIDE DEF t
  <1>4. /\ SubSeq(t, 1, Len(t) - 1) \in Seq(S)
        /\ Len(SubSeq(t, 1, Len(t) - 1)) = Len(t) - 1
        /\ \A i \in 1 .. Len(t) - 1 : SubSeq(t, 1, Len(t) - 1)[i] = t[i]
    BY <1>1, <1>3, FrontOfStack
  <1>5. Front(t) \in Seq(S) /\ Len(Front(t)) = Len(s)
        /\ \A i \in 1 .. Len(s) : Front(t)[i] = s[i]
    BY <1>1, <1>3, <1>4 DEF Front
  <1>6. Front(t) = s
    BY <1>5, SeqEqual
  <1> QED
    BY <1>1, <1>2, <1>3, <1>6 DEF t, Last
-----------------------------------------------------------------------------
(* What is asked for *)

(* What p asks for: what it uses, and what the usages among that export. *)
LEMMA AsksFacts ==
    ASSUME TypeOK, NEW p \in Prj
    PROVE  /\ AsksFor(p) \subseteq Prj
           /\ \A e \in OwnUses[p] : e.to \in AsksFor(p)
           /\ \A q \in AsksFor(p) : \A e \in script.exports[q] : e.to \in AsksFor(p)
           /\ \A q \in AsksFor(p) : Reexports(q) \subseteq AsksFor(p)
           /\ p \in Reexports(p) /\ Reexports(p) \subseteq Prj
           /\ \A e \in script.exports[p] : Reexports(e.to) \subseteq Reexports(p)
  <1>1. \A q \in Prj : OwnUses[q] \subseteq Edge /\ script.exports[q] \subseteq Edge
    BY UsesTyped
  <1>2. \A q \in Prj : Exported[q] = Tos(script.exports[q])
    BY DEF Exported
  <1>3. \A q \in Prj : Tos(OwnUses[q]) \subseteq Prj /\ Exported[q] \subseteq Prj
    BY <1>1, <1>2 DEF Tos, Edge
  <1>4. /\ Tos(OwnUses[p]) \subseteq AsksFor(p) /\ AsksFor(p) \subseteq Prj
        /\ \A r \in AsksFor(p) : Exported[r] \subseteq AsksFor(p)
    BY <1>3, ClosureFacts DEF AsksFor
  <1>5. /\ {p} \subseteq Reexports(p) /\ Reexports(p) \subseteq Prj
        /\ \A r \in Reexports(p) : Exported[r] \subseteq Reexports(p)
    <2>1. {p} \subseteq Prj
      OBVIOUS
    <2> QED
      BY <1>3, <2>1, ClosureFacts DEF Reexports
  <1>6. \A q \in Prj : \A e \in script.exports[q] : e.to \in Exported[q]
    BY <1>2 DEF Tos
  <1>7. \A e \in OwnUses[p] : e.to \in AsksFor(p)
    BY <1>4 DEF Tos
  <1>8. \A q \in AsksFor(p) : \A e \in script.exports[q] : e.to \in AsksFor(p)
    BY <1>4, <1>6
  <1>9. ASSUME NEW q \in AsksFor(p) PROVE Reexports(q) \subseteq AsksFor(p)
    <2>1. {q} \subseteq AsksFor(p) /\ AsksFor(p) \in SUBSET Prj
      BY <1>4
    <2> QED
      BY <1>4, <2>1, ClosureLeast DEF Reexports
  <1>10. ASSUME NEW e \in script.exports[p] PROVE Reexports(e.to) \subseteq Reexports(p)
    <2>1. {e.to} \subseteq Reexports(p) /\ Reexports(p) \in SUBSET Prj
      BY <1>5, <1>6
    <2> QED
      BY <1>5, <2>1, ClosureLeast DEF Reexports
  <1> QED
    BY <1>4, <1>5, <1>7, <1>8, <1>9, <1>10

(* What is due for p: what it asks for or what was asked for before, and   *)
(* whatever that exports.                                                  *)
LEMMA DueFacts ==
    ASSUME TypeOK, NEW p \in Prj, NEW s, NEW c, NEW v
    PROVE  /\ \A q \in Prj : Due(s, c, p, v, q) =>
                 \A e \in script.exports[q] : Due(s, c, p, v, e.to)
           /\ \A q \in script.real : Answered(s, c, q, v) => Handled(s, c, q, v)
           /\ (\A q \in AsksFor(p) \cap script.real : Handled(s, c, q, v)) =>
                 \A q : Due(s, c, p, v, q) => Answered(s, c, q, v)
  <1>1. ASSUME NEW q \in Prj, Due(s, c, p, v, q), NEW e \in script.exports[q]
        PROVE  Due(s, c, p, v, e.to)
    <2>1. Reexports(e.to) \subseteq Reexports(q)
      BY AsksFacts
    <2> QED
      BY <1>1, <2>1, AsksFacts DEF Due, Answered
  <1>2. script.real \subseteq Prj
    BY DEF TypeOK, Script
  <1>3. \A q \in script.real : Answered(s, c, q, v) => Handled(s, c, q, v)
    BY <1>2, AsksFacts DEF Answered
  <1>4. ASSUME \A q \in AsksFor(p) \cap script.real : Handled(s, c, q, v),
               NEW q, Due(s, c, p, v, q)
        PROVE  Answered(s, c, q, v)
    BY <1>4, AsksFacts DEF Due, Answered
  <1> QED
    BY <1>1, <1>3, <1>4

(* When nothing is pending, all that p asks for was walked and handled. *)
LEMMA AllAnswered ==
    ASSUME TypeOK, NEW p \in Prj, p \in script.real, NEW s, NEW c, NEW v, NEW seen,
           SeenSearched(s, c, p, v, seen, <<>>)
    PROVE  \A q \in AsksFor(p) \cap script.real : Handled(s, c, q, v)
  <1> DEFINE S == {q \in Prj : UsageKB(q) \in seen}
  <1>1. \A k, e : ~Pending(<<>>, k, e)
    BY DEF Pending
  <1>2. /\ OwnUses[p] = script.uses[p] /\ OwnUses[p] \subseteq Edge
        /\ \A q \in Prj : script.exports[q] \subseteq Edge
        /\ \A q \in Prj : Exported[q] = Tos(script.exports[q])
    BY UsesTyped DEF Exported
  <1>3. /\ DeclaredUses(RealKB(p)) = script.uses[p]
        /\ \A q : DeclaredUses(UsageKB(q)) = script.exports[q]
        /\ \A q : UsageKB(q).tag = "usage" /\ UsageKB(q).p = q
    BY DEF DeclaredUses, RealKB, UsageKB
  <1>4. Tos(OwnUses[p]) \subseteq S
    <2> SUFFICES ASSUME NEW e \in OwnUses[p] PROVE e.to \in S
      BY DEF Tos
    <2>1. UsageKB(e.to) \in seen
      BY <1>1, <1>2, <1>3 DEF SeenSearched
    <2> QED
      BY <1>2, <2>1 DEF Edge
  <1>5. \A q \in S : Exported[q] \subseteq S
    <2> SUFFICES ASSUME NEW q \in S, NEW e \in script.exports[q] PROVE e.to \in S
      BY <1>2 DEF Tos
    <2>1. UsageKB(q) \in seen /\ e \in DeclaredUses(UsageKB(q))
      BY <1>3
    <2>2. UsageKB(e.to) \in seen
      BY <1>1, <2>1 DEF SeenSearched
    <2> QED
      BY <1>2, <2>2 DEF Edge
  <1>6. AsksFor(p) \subseteq S
    <2>1. S \in SUBSET Prj
      OBVIOUS
    <2> HIDE DEF S
    <2> QED
      BY <2>1, <1>4, <1>5, ClosureLeast DEF AsksFor
  <1> QED
    BY <1>3, <1>6 DEF SeenSearched

-----------------------------------------------------------------------------
(* What was handled stays handled *)

Keeps(s, c, t, d) ==
    /\ Grows(c, d)
    /\ \A p \in Prj, v \in Variant : Handled(s, c, p, v) => Handled(t, d, p, v)

(* So all that is said of tables and frames stays true of them. *)
LEMMA SearchedStay ==
    ASSUME TypeOK, NEW s, NEW c, NEW t, NEW d, Keeps(s, c, t, d)
    PROVE  /\ \A v \in Variant : \A q : Answered(s, c, q, v) => Answered(t, d, q, v)
           /\ \A v \in Variant : \A p, seen, acts :
                 SeenSearched(s, c, p, v, seen, acts) => SeenSearched(t, d, p, v, seen, acts)
           /\ \A v \in Variant : \A p, a :
                 ActSearched(s, c, p, v, a) => ActSearched(t, d, p, v, a)
           /\ \A v \in Variant, x \in Config \cup Block :
                 OffersSearched(s, c, v, x) => OffersSearched(t, d, v, x)
  <1>1. script.real \subseteq Prj
    BY DEF TypeOK, Script
  <1>2. \A v \in Variant, q \in script.real : Handled(s, c, q, v) => Handled(t, d, q, v)
    BY <1>1 DEF Keeps
  <1>3. \A v \in Variant : \A q : Answered(s, c, q, v) => Answered(t, d, q, v)
    BY <1>2 DEF Answered
  <1>4. \A v \in Variant : \A p, q : Due(s, c, p, v, q) => Due(t, d, p, v, q)
    BY <1>3 DEF Due
  <1>5. ASSUME NEW v \in Variant, NEW p, NEW seen, NEW acts,
               SeenSearched(s, c, p, v, seen, acts)
        PROVE  SeenSearched(t, d, p, v, seen, acts)
    BY <1>2, <1>4, <1>5 DEF SeenSearched
  <1>6. ASSUME NEW v \in Variant, NEW p, NEW a, ActSearched(s, c, p, v, a)
        PROVE  ActSearched(t, d, p, v, a)
    BY <1>2, <1>4, <1>6 DEF ActSearched
  <1>7. ASSUME NEW v \in Variant, NEW x \in Config \cup Block, OffersSearched(s, c, v, x)
        PROVE  OffersSearched(t, d, v, x)
    <2>1. x.depends \subseteq Prj
      BY DEF Config, Block
    <2> QED
      BY <1>3, <1>7, <2>1 DEF OffersSearched, Keeps, Grows
  <1> QED
    BY <1>3, <1>5, <1>6, <1>7

(* The same for whole frames. *)
LEMMA FramesStay ==
    ASSUME TypeOK, NEW s, NEW c, NEW t, NEW d, Keeps(s, c, t, d), NEW f \in Frame
    PROVE  /\ (f.fn = "addconfig" /\ AddSearched(s, c, f)) => AddSearched(t, d, f)
           /\ (f.fn = "getconfig" /\ GetSearched(s, c, f)) => GetSearched(t, d, f)
  <1>1. ASSUME f.fn = "addconfig", AddSearched(s, c, f) PROVE AddSearched(t, d, f)
    <2>1. f \in AddFrame /\ f.fin \in Variant /\ f.p \in Prj
          /\ (f.cfg # None => f.cfg \in Config)
      BY <1>1, FrameKinds DEF AddFrame
    <2>2. AsksFor(f.p) \subseteq Prj
      BY <2>1, AsksFacts
    <2> QED
      BY <1>1, <2>1, <2>2, SearchedStay DEF AddSearched, Keeps
  <1>2. ASSUME f.fn = "getconfig", GetSearched(s, c, f) PROVE GetSearched(t, d, f)
    <2>1. f.filter \in Variant
      BY <1>2, FrameKinds DEF GetFrame
    <2> QED
      BY <1>2, <2>1, SearchedStay DEF GetSearched
  <1> QED
    BY <1>1, <1>2

(* ... and for the tables. *)
LEMMA TablesStay ==
    ASSUME TypeOK, NEW t, NEW d, Keeps(stack, configs, t, d), NEW m,
           TablesSearched(stack, configs, blocks, bvMap, cache),
           \A p \in Prj, v \in Variant : m[p][v] \in Variant => m[p][v] = v
    PROVE  TablesSearched(t, d, blocks, m, cache)
  <1> SUFFICES ASSUME NEW p \in Prj, NEW v \in Variant
               PROVE  /\ blocks[p][v] # None => OffersSearched(t, d, v, blocks[p][v])
                      /\ \A f \in Field : cache[p][f][v] # None =>
                            SeenSearched(t, d, p, v, cache[p][f][v].seen, <<>>)
    BY DEF TablesSearched
  <1>1. blocks[p][v] # None => blocks[p][v] \in Block
    BY DEF TypeOK
  <1> QED
    BY <1>1, SearchedStay DEF TablesSearched

-----------------------------------------------------------------------------
(* The steps, in an ordinary script *)

(* What there is to show of a step: Searched, without its hypothesis. *)
SearchedIn(s, c, k, m, h) == FramesSearched(s, s, c) /\ TablesSearched(s, c, k, m, h)

(* The parts of the invariant, each for the next state. *)
LEMMA SearchedNext ==
    ASSUME script' = script,
           Ordinary => /\ SearchedIn(stack', configs', blocks', bvMap', cache')
                       /\ LoopSearched'
    PROVE  Searched'
  <1>1. /\ OwnUses' = OwnUses /\ AllUses' = AllUses /\ Exported' = Exported
    BY DEF OwnUses, AllUses, Exported
  <1>2. Ordinary' <=> Ordinary
    BY <1>1 DEF Ordinary, HasFeatures
  <1>3. ASSUME NEW p PROVE AsksFor(p)' = AsksFor(p) /\ Reexports(p)' = Reexports(p)
    BY <1>1 DEF AsksFor, Reexports
  <1>4. ASSUME NEW k PROVE DeclaredUses(k)' = DeclaredUses(k)
    BY DEF DeclaredUses
  <1>5. ASSUME NEW s, NEW c, NEW q, NEW v
        PROVE  Answered(s, c, q, v)' <=> Answered(s, c, q, v)
    BY <1>3 DEF Answered, Handled, UnderWay
  <1>6. ASSUME NEW s, NEW c, NEW p, NEW v, NEW q
        PROVE  Due(s, c, p, v, q)' <=> Due(s, c, p, v, q)
    BY <1>3, <1>5 DEF Due
  <1>7. ASSUME NEW s, NEW c, NEW p, NEW v, NEW seen, NEW acts
        PROVE  SeenSearched(s, c, p, v, seen, acts)' <=> SeenSearched(s, c, p, v, seen, acts)
    BY <1>4, <1>6 DEF SeenSearched, Handled, UnderWay, Pending, RealKB, UsageKB
  <1>8. ASSUME NEW s, NEW c, NEW p, NEW v, NEW a
        PROVE  ActSearched(s, c, p, v, a)' <=> ActSearched(s, c, p, v, a)
    BY <1>6 DEF ActSearched, Handled, UnderWay
  <1>9. ASSUME NEW s, NEW c, NEW v, NEW x
        PROVE  OffersSearched(s, c, v, x)' <=> OffersSearched(s, c, v, x)
    BY <1>5 DEF OffersSearched
  <1>10. ASSUME NEW s, NEW c, NEW f PROVE AddSearched(s, c, f)' <=> AddSearched(s, c, f)
    BY <1>3, <1>9 DEF AddSearched, Handled, UnderWay
  <1>11. ASSUME NEW s, NEW c, NEW g PROVE GetSearched(s, c, g)' <=> GetSearched(s, c, g)
    BY <1>7, <1>8 DEF GetSearched
  <1>12. Ordinary => FramesSearched(stack, stack, configs)'
    BY <1>10, <1>11 DEF FramesSearched, SearchedIn
  <1>13. Ordinary => TablesSearched(stack, configs, blocks, bvMap, cache)'
    BY <1>7, <1>9 DEF TablesSearched, SearchedIn
  <1> QED
    BY <1>2, <1>12, <1>13 DEF Searched

(* What getconfig starts with: the project's uses, or its cached tables. *)
LEMMA GetStartSearched ==
    ASSUME TypeOK, NEW s, NEW m, TablesSearched(s, configs, blocks, m, cache),
           NEW p \in Prj, p \in script.real, NEW v \in Variant, NEW f \in Field
    PROVE  GetSearched(s, configs, GetStart(p, v, f))
  <1> DEFINE hit == cache[p][f][v]
             root == [kb |-> RealKB(p),
                      env |-> [filter |-> v, bv |-> v, name |-> v],
                      left |-> script.uses[p], call |-> None]
             g == GetStart(p, v, f)
  <1>1. CASE hit = None
    <2>1. \A e \in script.uses[p] : e.to \in AsksFor(p)
      BY AsksFacts, UsesTyped
    <2>2. ActSearched(s, configs, p, v, root)
      BY <2>1 DEF ActSearched, Due
    <2>3. root.kb = RealKB(p) /\ root.left = script.uses[p]
      OBVIOUS
    <2> HIDE DEF root
    <2>4. g = [fn |-> "getconfig", p |-> p, filter |-> v, field |-> f,
               acts |-> <<root>>, seen |-> {RealKB(p)}, cfgs |-> {}]
      BY <1>1, <2>3 DEF GetStart, root
    <2>5. Len(<<root>>) = 1 /\ <<root>>[1] = root
      OBVIOUS
    <2>6. RealKB(p).tag # "usage" /\ DeclaredUses(RealKB(p)) = script.uses[p]
      BY DEF RealKB, DeclaredUses
    <2>7. SeenSearched(s, configs, p, v, {RealKB(p)}, <<root>>)
      BY <2>3, <2>5, <2>6 DEF SeenSearched, Pending
    <2> QED
      BY <2>2, <2>4, <2>5, <2>7 DEF GetSearched
  <1>2. CASE hit # None
    <2>1. g = [fn |-> "getconfig", p |-> p, filter |-> v, field |-> f,
               acts |-> <<>>, seen |-> hit.seen, cfgs |-> hit.cfgs]
      BY <1>2 DEF GetStart
    <2>2. SeenSearched(s, configs, p, v, hit.seen, <<>>)
      BY <1>2 DEF TablesSearched
    <2> QED
      BY <2>1, <2>2 DEF GetSearched
  <1> QED
    BY <1>1, <1>2

(* The frame of a new bake. *)
NewBake(p, v) ==
    [fn |-> "addconfig", p |-> p, init |-> v, fin |-> v, cfg |-> None, left |-> {}]

(* r is s with the bake of p as v begun. *)
Begun(r, s, p, v) == Pushed(r, s, NewBake(p, v), GetStart(p, v, "usesconfig"))

MapPlain(m) == \A p \in Prj, v \in Variant : m[p][v] \in Variant => m[p][v] = v

(* A call of addconfig returns for a project that is handled, and begins a *)
(* bake of any other.                                                      *)
LEMMA CallOutcome ==
    ASSUME BakeInv, Tracked, script.single = {}, MapPlain(bvMap),
           NEW p \in Prj, NEW v, p \in script.real => v \in Variant /\ v # AllVariant,
           NEW below, StackSound(below), SameCalls(stack, below), addconfig(p, v, below)
    PROVE  /\ MapPlain(bvMap')
           /\ \/ stack' = below /\ (p \in script.real => Handled(stack, configs, p, v))
              \/ /\ p \in script.real /\ ~Handled(stack, configs, p, v)
                 /\ Begun(stack', below, p, v)
  <1> DEFINE fin == applyBuildVariantMap(p, v)
             frame == [fn |-> "addconfig", p |-> p, init |-> v, fin |-> fin,
                       cfg |-> None, left |-> {}]
             get == GetStart(p, fin, "usesconfig")
  <1>1. /\ TypeOK /\ TablesSound /\ MapLeads(bvMap, configs)
        /\ Held(stack, bvMap, configs) /\ MapTracked(bvMap, stack, configs)
    BY StackFacts DEF BakeInv, Tracked
  <1>2. CASE ~HasProject(p)
    BY <1>2 DEF addconfig, HasProject
  <1>3. CASE HasProject(p) /\ fin = InProgress
    <2>1. v \in Variant /\ v # AllVariant /\ v # InProgress
      BY <1>3, NoneDistinct DEF HasProject
    <2>2. bvMap[p][v] = InProgress
      BY <1>3, <2>1 DEF applyBuildVariantMap
    <2>3. UnderWay(stack, p, v)
      BY <1>1, <2>1, <2>2 DEF MapTracked
    <2>4. stack' = below /\ bvMap' = bvMap
      BY <1>3 DEF addconfig
    <2> QED
      BY <2>3, <2>4 DEF Handled
  <1>4. CASE HasProject(p) /\ fin # InProgress /\ configs[p][fin] # None
    <2>1. v \in Variant /\ bvMap[p][v] \in Variant \cup {None, InProgress}
      BY <1>1, <1>4 DEF HasProject, TypeOK
    <2>2. fin = v
      BY <1>4, <2>1 DEF applyBuildVariantMap, MapPlain
    <2>3. stack' = below /\ bvMap' = bvMap
      BY <1>4 DEF addconfig
    <2> QED
      BY <1>4, <2>2, <2>3 DEF Handled
  <1>5. CASE HasProject(p) /\ fin # InProgress /\ configs[p][fin] = None
    <2>1. p \in script.real /\ v \in Variant /\ v # AllVariant
          /\ p \in Prj \ script.single
      BY <1>5 DEF HasProject
    <2>2. fin = v /\ bvMap[p][v] = None
      BY <1>1, <1>5, <2>1, EnterOrdinary
    <2>3. /\ bvMap' = [bvMap EXCEPT ![p] = [@ EXCEPT ![v] = fin, ![fin] = InProgress]]
          /\ stack' = Append(Append(below, frame), get)
      BY <1>5, <2>1, <2>2 DEF addconfig
    <2> HIDE DEF fin
    <2>4. MapPlain(bvMap')
      <3>1. bvMap \in [Prj -> [Variant -> Variant \cup {None, InProgress}]]
        BY <1>1 DEF TypeOK
      <3>2. \A q \in Prj, w \in Variant :
               \/ q = p /\ w = v /\ bvMap'[q][w] = InProgress
               \/ bvMap'[q][w] = bvMap[q][w]
        BY <2>1, <2>2, <2>3, <3>1
      <3> QED
        BY <3>2, NoneDistinct DEF MapPlain
    <2>5. ~Handled(stack, configs, p, v)
      <3>1. configs[p][v] = None
        BY <1>5, <2>2
      <3>2. ASSUME UnderWay(stack, p, v) PROVE FALSE
        BY <1>1, <2>1, <2>2, <3>1, <3>2, NoneDistinct DEF UnderWay, Held
      <3> QED
        BY <3>1, <3>2 DEF Handled
    <2>6. frame = NewBake(p, v) /\ get = GetStart(p, v, "usesconfig")
      BY <2>2 DEF NewBake
    <2>7. frame \in AddFrame
      BY <2>1, <2>2 DEF AddFrame
    <2>8. get \in GetFrame /\ SoundGet(get)
      BY <1>1, <2>1, <2>2, GetStartSound DEF Field
    <2> HIDE DEF frame, get
    <2>9. Pushed(stack', below, frame, get)
      BY <2>3, <2>7, <2>8, PushBake
    <2> QED
      BY <2>1, <2>4, <2>5, <2>6, <2>9 DEF Begun
  <1> QED
    BY <1>2, <1>3, <1>4, <1>5

(* The same calls, or one more bake: what was handled still is. *)
LEMMA KeepsSame ==
    ASSUME NEW s, NEW t, NEW c, SameCalls(s, t)
    PROVE  Keeps(s, c, t, c)
  BY DEF Keeps, Grows, Handled, UnderWay, SameCalls

LEMMA KeepsBegun ==
    ASSUME NEW s, NEW r, NEW c, NEW p, NEW v, Begun(r, s, p, v), s \in Seq(Frame)
    PROVE  Keeps(s, c, r, c) /\ UnderWay(r, p, v)
  <1>1. Len(s) \in Nat
    BY LenProperties
  <1>2. /\ Len(r) = Len(s) + 2 /\ r[Len(s) + 1] = NewBake(p, v)
        /\ \A i \in 1 .. Len(s) : r[i] = s[i]
    BY DEF Pushed, Begun
  <1>3. /\ \A i \in 1 .. Len(s) : i \in 1 .. Len(r)
        /\ Len(s) + 1 \in 1 .. Len(r)
    BY <1>1, <1>2
  <1>4. UnderWay(r, p, v)
    BY <1>2, <1>3 DEF UnderWay, NewBake
  <1>5. \A q, w : UnderWay(s, q, w) => UnderWay(r, q, w)
    BY <1>2, <1>3 DEF UnderWay
  <1> QED
    BY <1>4, <1>5 DEF Keeps, Grows, Handled

LEMMA KeepsTwice ==
    ASSUME NEW s, NEW c, NEW t, NEW d, NEW u, NEW e, Keeps(s, c, t, d), Keeps(t, d, u, e)
    PROVE  Keeps(s, c, u, e)
  BY DEF Keeps, Grows

(* A call of addconfig.  The caller's frame may count on what it called. *)
LEMMA CallSearched ==
    ASSUME BakeInv, Tracked, script.single = {},
           SearchedIn(stack, configs, blocks, bvMap, cache),
           NEW p \in Prj, NEW v, p \in script.real => v \in Variant /\ v # AllVariant,
           NEW below, StackSound(below), SameCalls(stack, below), addconfig(p, v, below),
           \A t : /\ Keeps(stack, configs, t, configs)
                  /\ p \in script.real => Handled(t, configs, p, v)
                  => FramesSearched(below, t, configs)
    PROVE  SearchedIn(stack', configs, blocks, bvMap', cache)
  <1>1. /\ TypeOK /\ MapPlain(bvMap) /\ below \in Seq(Frame)
        /\ TablesSearched(stack, configs, blocks, bvMap, cache)
    BY TypedParts DEF SearchedIn, TablesSearched, MapPlain, StackSound
  <1>2. /\ MapPlain(bvMap')
        /\ \/ stack' = below /\ (p \in script.real => Handled(stack, configs, p, v))
           \/ /\ p \in script.real /\ ~Handled(stack, configs, p, v)
              /\ Begun(stack', below, p, v)
    BY <1>1, CallOutcome
  <1>3. Keeps(stack, configs, below, configs)
    BY KeepsSame
  <1>4. ASSUME Keeps(stack, configs, stack', configs)
        PROVE  TablesSearched(stack', configs, blocks, bvMap', cache)
    BY <1>1, <1>2, <1>4, TablesStay DEF MapPlain
  <1>5. CASE stack' = below /\ (p \in script.real => Handled(stack, configs, p, v))
    <2>1. Keeps(stack, configs, stack', configs)
      BY <1>3, <1>5
    <2>2. p \in script.real => Handled(stack', configs, p, v)
      BY <1>5, <2>1 DEF Keeps
    <2>3. FramesSearched(below, stack', configs)
      BY <2>1, <2>2
    <2> QED
      BY <1>4, <1>5, <2>1, <2>3 DEF SearchedIn
  <1>6. CASE p \in script.real /\ Begun(stack', below, p, v)
    <2>1. Keeps(below, configs, stack', configs) /\ UnderWay(stack', p, v)
      BY <1>1, <1>6, KeepsBegun
    <2>2. Keeps(stack, configs, stack', configs)
      BY <1>3, <2>1, KeepsTwice
    <2>3. FramesSearched(below, stack', configs)
      BY <2>1, <2>2 DEF Handled
    <2>4. TablesSearched(stack', configs, blocks, bvMap', cache)
      BY <1>4, <2>2
    <2> DEFINE get == GetStart(p, v, "usesconfig")
    <2>5. GetSearched(stack', configs, get) /\ get.fn = "getconfig"
      BY <1>1, <1>6, <2>4, GetStartSearched, GetStartReads DEF Field
    <2> HIDE DEF get
    <2>6. /\ Len(stack') = Len(below) + 2 /\ stack'[Len(below) + 1] = NewBake(p, v)
          /\ stack'[Len(below) + 2] = get /\ Len(below) \in Nat
          /\ \A i \in 1 .. Len(below) : stack'[i] = below[i]
      BY <1>1, <1>6, LenProperties DEF Begun, Pushed, get
    <2>7. NewBake(p, v).fn = "addconfig" /\ AddSearched(stack', configs, NewBake(p, v))
      BY DEF NewBake, AddSearched
    <2>8. ASSUME NEW i \in 1 .. Len(stack')
          PROVE  /\ stack'[i].fn = "addconfig" => AddSearched(stack', configs, stack'[i])
                 /\ stack'[i].fn = "getconfig" => GetSearched(stack', configs, stack'[i])
      <3>1. i \in 1 .. Len(below) \/ i = Len(below) + 1 \/ i = Len(below) + 2
        BY <2>6
      <3> QED
        BY <3>1, <2>3, <2>5, <2>6, <2>7 DEF FramesSearched
    <2> QED
      BY <2>4, <2>8 DEF SearchedIn, FramesSearched
  <1> QED
    BY <1>2, <1>5, <1>6

(* The innermost frame replaced; t is the stack that tells what is under way. *)
LEMMA ReplaceSearched ==
    ASSUME BakeInv, FramesSearched(stack, stack, configs), stack # <<>>, NEW f \in Frame,
           NEW t, Keeps(stack, configs, t, configs),
           f.fn = "getconfig" => GetSearched(t, configs, f),
           f.fn = "addconfig" => AddSearched(t, configs, f)
    PROVE  FramesSearched(Replace(f), t, configs)
  <1> DEFINE r == Replace(f)
             n == Len(stack)
  <1>1. stack \in Seq(Frame) /\ TypeOK /\ \A i \in 1 .. n : stack[i] \in Frame
    BY StackFacts, ElementOfSeq DEF BakeInv
  <1>2. /\ Len(r) = n /\ r[n] = f /\ n \in Nat \ {0}
        /\ \A i \in 1 .. n - 1 : r[i] = stack[i]
    <2>1. Replaced(Append(SubSeq(stack, 1, Len(stack) - 1), f), stack, f, Frame)
      BY <1>1, ReplaceOnStack
    <2>2. Replaced(r, stack, f, Frame)
      BY <2>1 DEF Replace, Below
    <2> QED
      BY <2>2 DEF Replaced
  <1> HIDE DEF r
  <1>3. \A i \in 1 .. n - 1 :
           /\ stack[i].fn = "addconfig" => AddSearched(t, configs, stack[i])
           /\ stack[i].fn = "getconfig" => GetSearched(t, configs, stack[i])
    <2>1. \A i \in 1 .. n - 1 : i \in 1 .. n
      BY <1>2
    <2> QED
      BY <1>1, <2>1, FramesStay DEF FramesSearched
  <1>4. FramesSearched(r, t, configs)
    BY <1>2, <1>3 DEF FramesSearched
  <1> QED
    BY <1>4 DEF r

(* A table declares uses. *)
LEMMA DeclaredTyped ==
    ASSUME TypeOK, NEW k \in KB
    PROVE  DeclaredUses(k) \subseteq Edge
  <1>1. k.p \in Prj /\ k.tag \in {"real", "usage", "block"}
    BY DEF KB
  <1>2. script.uses[k.p] \subseteq Edge /\ script.exports[k.p] \subseteq Edge
    BY <1>1 DEF TypeOK, Script
  <1> QED
    BY <1>1, <1>2 DEF DeclaredUses

(* What is pending is so in the innermost activation or in an outer one. *)
LEMMA LastActSearched ==
    ASSUME NEW g, GoodGet(g), g.acts # <<>>, NEW s, NEW c, GetSearched(s, c, g)
    PROVE  /\ OuterActs(g) \in Seq(Act)
           /\ ActSearched(s, c, g.p, g.filter, LastAct(g))
           /\ \A j \in 1 .. Len(OuterActs(g)) :
                 ActSearched(s, c, g.p, g.filter, OuterActs(g)[j])
           /\ \A k, e : Pending(g.acts, k, e) =>
                 \/ Pending(OuterActs(g), k, e)
                 \/ LastAct(g).kb = k /\ (e \in LastAct(g).left \/ LastAct(g).call = e)
  <1> DEFINE o == OuterActs(g)
             n == Len(g.acts)
  <1>1. g.acts \in Seq(Act)
    BY DEF GoodGet, GetFrame
  <1>2. /\ o \in Seq(Act) /\ Len(o) = n - 1 /\ \A j \in 1 .. n - 1 : o[j] = g.acts[j]
        /\ n \in Nat \ {0} /\ LastAct(g) = g.acts[n]
    BY <1>1, FrontOfStack DEF OuterActs, LastAct
  <1> HIDE DEF o
  <1>3. \A j \in 1 .. n : j = n \/ j \in 1 .. n - 1
    BY <1>2
  <1>4. \A j \in 1 .. n : ActSearched(s, c, g.p, g.filter, g.acts[j])
    BY DEF GetSearched
  <1>5. n \in 1 .. n /\ \A j \in 1 .. n - 1 : j \in 1 .. n
    BY <1>2
  <1>6. ASSUME NEW k, NEW e, Pending(g.acts, k, e)
        PROVE  \/ Pending(o, k, e)
               \/ LastAct(g).kb = k /\ (e \in LastAct(g).left \/ LastAct(g).call = e)
    BY <1>2, <1>3, <1>6 DEF Pending
  <1> QED
    BY <1>2, <1>4, <1>5, <1>6 DEF o

(* One more activation. *)
LEMMA PushActSearched ==
    ASSUME NEW o \in Seq(Act), NEW x \in Act, NEW s, NEW c, NEW p, NEW v,
           \A j \in 1 .. Len(o) : ActSearched(s, c, p, v, o[j]), ActSearched(s, c, p, v, x)
    PROVE  /\ Append(o, x) \in Seq(Act)
           /\ \A j \in 1 .. Len(Append(o, x)) : ActSearched(s, c, p, v, Append(o, x)[j])
           /\ \A k, e : Pending(o, k, e) => Pending(Append(o, x), k, e)
           /\ \A e : (e \in x.left \/ x.call = e) => Pending(Append(o, x), x.kb, e)
  <1> DEFINE r == Append(o, x)
  <1>1. /\ r \in Seq(Act) /\ Len(r) = Len(o) + 1 /\ r[Len(o) + 1] = x
        /\ \A j \in 1 .. Len(o) : r[j] = o[j]
        /\ Len(o) \in Nat
    BY PushOnStack, LenProperties
  <1> HIDE DEF r
  <1>2. /\ \A j \in 1 .. Len(r) : j \in 1 .. Len(o) \/ j = Len(o) + 1
        /\ \A j \in 1 .. Len(o) : j \in 1 .. Len(r)
        /\ Len(o) + 1 \in 1 .. Len(r)
    BY <1>1
  <1>3. \A j \in 1 .. Len(r) : ActSearched(s, c, p, v, r[j])
    BY <1>1, <1>2
  <1>4. \A k, e : Pending(o, k, e) => Pending(r, k, e)
    BY <1>1, <1>2 DEF Pending
  <1>5. \A e : (e \in x.left \/ x.call = e) => Pending(r, x.kb, e)
    BY <1>1, <1>2 DEF Pending
  <1> QED
    BY <1>1, <1>3, <1>4, <1>5 DEF r

(* The innermost getconfig of an ordinary script: it reads the project its *)
(* caller bakes, as the one variant it is asked for.                       *)
LEMMA TopGetSearched ==
    ASSUME BakeInv, Tracked, Reached, Ordinary, TopIs("getconfig"),
           LinedIn(stack, configs, blocks, usageFilter, cache),
           SearchedIn(stack, configs, blocks, bvMap, cache)
    PROVE  /\ GoodGet(Top) /\ GetLined(Top) /\ GetSearched(stack, configs, Top)
           /\ stack # <<>> /\ Top.p \in Prj /\ Top.p \in script.real
           /\ Top.filter \in Variant /\ Top.filter # AllVariant
           /\ Top.acts # <<>> =>
                 /\ LastAct(Top) \in Act /\ SoundAct(LastAct(Top))
                 /\ LastAct(Top).env = [filter |-> Top.filter, bv |-> Top.filter,
                                        name |-> Top.filter]
                 /\ \A e \in LastAct(Top).left : e.with = {}
                 /\ LastAct(Top).call # None => LastAct(Top).call.with = {}
  <1> DEFINE n == Len(stack)
             a == LastAct(Top)
  <1>1. /\ GoodGet(Top) /\ GetReached(Top) /\ stack # <<>> /\ Top.p \in script.real
        /\ n \in Nat \ {0} /\ n > 1 /\ GetTracked(Top, stack[n - 1])
        /\ stack[n - 1].fn = "addconfig"
    BY TopGetReached
  <1>2. n \in 1 .. n /\ n - 1 \in 1 .. n /\ Top = stack[n] /\ Top.fn = "getconfig"
    BY <1>1 DEF Top, GoodGet
  <1>3. GetLined(Top) /\ GetSearched(stack, configs, Top) /\ AddLined(stack[n - 1])
    BY <1>1, <1>2 DEF LinedIn, FramesLined, SearchedIn, FramesSearched
  <1>4. Top.p \in Prj /\ Top.filter \in Variant
    BY <1>1 DEF GoodGet, GetFrame
  <1>5. Top.filter # AllVariant
    BY <1>1, <1>3 DEF AddLined, GetTracked, Ordinary
  <1>6. ASSUME Top.acts # <<>>
        PROVE  /\ a \in Act /\ SoundAct(a)
               /\ a.env = [filter |-> Top.filter, bv |-> Top.filter, name |-> Top.filter]
               /\ \A e \in a.left : e.with = {}
               /\ a.call # None => a.call.with = {}
    <2>1. a \in Act /\ SoundAct(a) /\ ActReached(Top.p, Top.filter, a)
      BY <1>1, <1>6, LastActReached
    <2>2. ActLined(Top.p, Top.filter, a)
      BY <1>1, <1>3, <1>6 DEF GetLined, LastAct, GoodGet, GetFrame
    <2>3. \A e : Declared(e) => e.with = {}
      BY NothingAsked DEF Ordinary
    <2> HIDE DEF a
    <2> QED
      BY <2>1, <2>2, <2>3 DEF ActLined, ActReached, UseSound
  <1> QED
    BY <1>1, <1>3, <1>4, <1>5, <1>6

(* Following a use. *)
LEMMA UseSearched ==
    ASSUME BakeInv, Tracked, Reached, Ordinary,
           LinedIn(stack, configs, blocks, usageFilter, cache),
           SearchedIn(stack, configs, blocks, bvMap, cache),
           NEW e \in Edge, Use(e)
    PROVE  SearchedIn(stack', configs', blocks', bvMap', cache')
  <1> DEFINE a == LastAct(Top)
             x == [a EXCEPT !.left = @ \ {e}, !.call = e]
             g == [Top EXCEPT !.acts = Append(OuterActs(Top), x)]
  <1>1. TopIs("getconfig") /\ Top.acts # <<>> /\ e \in a.left /\ a.call = None
    BY DEF Use, TopIs
  <1>2. /\ GoodGet(Top) /\ GetSearched(stack, configs, Top) /\ stack # <<>>
        /\ Top.filter \in Variant /\ Top.filter # AllVariant /\ Top.p \in Prj
        /\ a \in Act /\ SoundAct(a) /\ a.env.bv = Top.filter /\ e.with = {}
    BY <1>1, TopGetSearched
  <1>3. CASE Crash
    BY <1>3 DEF Crash, SearchedIn, tables, usages
  <1>4. CASE /\ addconfig(e.to, UseVariant(a.env, e), Replace(g))
             /\ UNCHANGED <<script, configs, usages, cache, mainloop, status>>
    <2> HIDE DEF a
    <2>1. e.to \in Prj
      BY DEF Edge
    <2>2. /\ x \in Act /\ x.env = a.env /\ x.kb = a.kb /\ x.call = e
          /\ x.left = a.left \ {e}
      BY <1>2 DEF Act
    <2>3. SoundAct(x)
      BY <1>2, <2>2 DEF SoundAct
    <2>4. UseVariant(a.env, e) = Top.filter
      BY <1>2 DEF UseVariant
    <2> HIDE DEF x
    <2>5. GoodGet(g)
      BY <1>1, <1>2, <2>2, <2>3, GoodWithLast
    <2>6. /\ g.fn = "getconfig" /\ g.p = Top.p /\ g.filter = Top.filter
          /\ g.seen = Top.seen /\ g.acts = Append(OuterActs(Top), x)
          /\ Top.seen \subseteq KB
      BY <1>2 DEF GoodGet, GetFrame
    <2>7. StackSound(Replace(g)) /\ SameCalls(stack, Replace(g)) /\ g \in Frame
      BY <1>1, <2>5, ReplaceGet DEF GoodGet, Frame
    <2> HIDE DEF g
    <2>8. ASSUME NEW t, Keeps(stack, configs, t, configs),
                 e.to \in script.real => Handled(t, configs, e.to, Top.filter)
          PROVE  FramesSearched(Replace(g), t, configs)
      <3>1. GetSearched(t, configs, Top)
        BY <1>2, <2>8, FramesStay, TypedParts DEF GoodGet, Frame
      <3>2. /\ OuterActs(Top) \in Seq(Act)
            /\ ActSearched(t, configs, Top.p, Top.filter, a)
            /\ \A j \in 1 .. Len(OuterActs(Top)) :
                  ActSearched(t, configs, Top.p, Top.filter, OuterActs(Top)[j])
            /\ \A k, d : Pending(Top.acts, k, d) =>
                  \/ Pending(OuterActs(Top), k, d)
                  \/ a.kb = k /\ (d \in a.left \/ a.call = d)
        BY <1>1, <1>2, <3>1, LastActSearched DEF a
      <3>3. ActSearched(t, configs, Top.p, Top.filter, x)
        BY <1>1, <2>2, <2>8, <3>2 DEF ActSearched
      <3>4. /\ \A j \in 1 .. Len(g.acts) :
                  ActSearched(t, configs, Top.p, Top.filter, g.acts[j])
            /\ \A k, d : Pending(OuterActs(Top), k, d) => Pending(g.acts, k, d)
            /\ \A d : (d \in x.left \/ x.call = d) => Pending(g.acts, x.kb, d)
        BY <2>2, <2>6, <3>2, <3>3, PushActSearched
      <3>5. ASSUME NEW k \in Top.seen, NEW d \in DeclaredUses(k)
            PROVE  UsageKB(d.to) \in Top.seen \/ Pending(g.acts, k, d)
        <4>1. d # None
          BY <2>6, DeclaredTyped, NoneDistinct, TypedParts
        <4>2. UsageKB(d.to) \in Top.seen \/ Pending(Top.acts, k, d)
          BY <3>1 DEF GetSearched, SeenSearched
        <4> QED
          BY <1>1, <2>2, <3>2, <3>4, <4>1, <4>2
      <3>6. SeenSearched(t, configs, Top.p, Top.filter, Top.seen, g.acts)
        BY <3>1, <3>5 DEF GetSearched, SeenSearched
      <3>7. GetSearched(t, configs, g)
        BY <2>6, <3>4, <3>6 DEF GetSearched
      <3> QED
        BY <1>2, <2>6, <2>7, <2>8, <3>7, ReplaceSearched DEF SearchedIn
    <2>9. script.single = {}
      BY DEF Ordinary
    <2>10. SearchedIn(stack', configs, blocks, bvMap', cache)
      BY <1>2, <1>4, <2>1, <2>4, <2>7, <2>8, <2>9, CallSearched
    <2> QED
      BY <1>4, <2>10 DEF usages
  <1> QED
    BY <1>3, <1>4 DEF Use

(* findBlocks on a table: walked, or walked before. *)
LEMMA VisitSearched ==
    ASSUME TypeOK, NEW g, GoodGet(g), NEW s, NEW c, NEW kb \in KB, NEW env \in Env, NEW uses,
           uses \subseteq Edge,
           \A j \in 1 .. Len(g.acts) : ActSearched(s, c, g.p, g.filter, g.acts[j]),
           RealKB(g.p) \in g.seen,
           \A k \in g.seen \cup {kb} : k.tag = "usage" =>
              /\ Due(s, c, g.p, g.filter, k.p)
              /\ k.p \in script.real => Handled(s, c, k.p, g.filter),
           \A d \in uses : Due(s, c, g.p, g.filter, d.to),
           DeclaredUses(kb) \subseteq uses,
           \A k \in g.seen : \A d \in DeclaredUses(k) :
              \/ UsageKB(d.to) \in g.seen \cup {kb}
              \/ Pending(g.acts, k, d)
    PROVE  GetSearched(s, c, Visit(g, kb, env, uses, TRUE))
  <1> DEFINE x == [kb |-> kb, env |-> env, left |-> uses, call |-> None]
             h == [g EXCEPT !.seen = @ \cup {kb}, !.acts = Append(@, x)]
  <1>1. CASE kb \in g.seen
    <2>1. Visit(g, kb, env, uses, TRUE) = g /\ g.seen \cup {kb} = g.seen
      BY <1>1 DEF Visit
    <2>2. SeenSearched(s, c, g.p, g.filter, g.seen, g.acts)
      BY <2>1 DEF SeenSearched
    <2> QED
      BY <2>1, <2>2 DEF GetSearched
  <1>2. CASE kb \notin g.seen
    <2>1. Visit(g, kb, env, uses, TRUE) = h
      BY <1>2 DEF Visit
    <2>2. x \in Act /\ x.kb = kb /\ x.left = uses
      BY DEF Act
    <2>3. ActSearched(s, c, g.p, g.filter, x)
      BY DEF ActSearched
    <2> HIDE DEF x
    <2>4. /\ h.p = g.p /\ h.filter = g.filter
          /\ h.acts = Append(g.acts, x) /\ h.seen = g.seen \cup {kb}
          /\ g.acts \in Seq(Act)
      BY DEF GoodGet, GetFrame
    <2> HIDE DEF h
    <2>5. /\ \A j \in 1 .. Len(h.acts) : ActSearched(s, c, g.p, g.filter, h.acts[j])
          /\ \A k, e : Pending(g.acts, k, e) => Pending(h.acts, k, e)
          /\ \A e : (e \in x.left \/ x.call = e) => Pending(h.acts, x.kb, e)
      <3> DEFINE r == Append(g.acts, x)
      <3>1. /\ \A j \in 1 .. Len(r) : ActSearched(s, c, g.p, g.filter, r[j])
            /\ \A k, e : Pending(g.acts, k, e) => Pending(r, k, e)
            /\ \A e : (e \in x.left \/ x.call = e) => Pending(r, x.kb, e)
        BY <2>2, <2>3, <2>4, PushActSearched
      <3> HIDE DEF r
      <3> QED
        BY <2>4, <3>1 DEF r
    <2>6. \A k \in h.seen : \A d \in DeclaredUses(k) :
             UsageKB(d.to) \in h.seen \/ Pending(h.acts, k, d)
      BY <2>2, <2>4, <2>5
    <2>7. SeenSearched(s, c, h.p, h.filter, h.seen, h.acts)
      BY <2>4, <2>6 DEF SeenSearched
    <2>8. GetSearched(s, c, h)
      BY <2>4, <2>5, <2>7 DEF GetSearched
    <2> QED
      BY <2>1, <2>8
  <1> QED
    BY <1>1, <1>2

(* findBlocks works on its own frame and makes no call. *)
LEMMA FindSearched ==
    ASSUME BakeInv, BakeInv', stack # <<>>, TopIs("getconfig"),
           SearchedIn(stack, configs, blocks, bvMap, cache),
           NEW g, stack' = Replace(g), g.fn = "getconfig", GetSearched(stack, configs, g)
    PROVE  SearchedIn(stack', configs, blocks, bvMap, cache) /\ SameCalls(stack, stack')
  <1>1. /\ g \in Frame /\ Len(stack') = Len(stack) /\ Len(stack) \in Nat \ {0}
        /\ stack'[Len(stack)] = g
        /\ \A i \in 1 .. Len(stack) - 1 : stack'[i] = stack[i]
    BY NewTop
  <1>2. SameCalls(stack, stack')
    BY <1>1 DEF SameCalls, TopIs, Top
  <1>3. Keeps(stack, configs, stack', configs)
    BY <1>2, KeepsSame
  <1>4. GetSearched(stack', configs, g)
    BY <1>1, <1>3, FramesStay, TypedParts
  <1>5. FramesSearched(stack', stack', configs)
    BY <1>1, <1>3, <1>4, ReplaceSearched DEF SearchedIn
  <1>6. TablesSearched(stack', configs, blocks, bvMap, cache)
    <2>1. TablesSearched(stack, configs, blocks, bvMap, cache) /\ TypeOK
      BY TypedParts DEF SearchedIn
    <2>2. \A q \in Prj, w \in Variant : bvMap[q][w] \in Variant => bvMap[q][w] = w
      BY <2>1 DEF TablesSearched
    <2> QED
      BY <1>3, <2>1, <2>2, TablesStay
  <1> QED
    BY <1>2, <1>5, <1>6 DEF SearchedIn

(* Walking a usage: what it exports is asked for too. *)
LEMMA EnterUsageSearched ==
    ASSUME BakeInv, BakeInv', Tracked, Reached, Ordinary,
           LinedIn(stack, configs, blocks, usageFilter, cache),
           SearchedIn(stack, configs, blocks, bvMap, cache), EnterUsage
    PROVE  /\ SearchedIn(stack', configs', blocks', bvMap', cache')
           /\ SameCalls(stack, stack')
  <1> DEFINE a == LastAct(Top)
             e == a.call
             back == [Top EXCEPT !.acts = Append(OuterActs(Top), Restore(a))]
             kb == UsageKB(e.to)
             uses == script.exports[e.to]
             g == Visit(back, kb, UsageEnv(a), uses, e.to \in usageBaked')
  <1>1. TopIs("getconfig") /\ Top.acts # <<>> /\ e # None
    BY DEF EnterUsage
  <1>2. /\ GoodGet(Top) /\ GetSearched(stack, configs, Top) /\ stack # <<>>
        /\ Top.filter \in Variant /\ Top.p \in Prj
        /\ a \in Act /\ SoundAct(a) /\ e.with = {}
    BY <1>1, TopGetSearched
  <1>3. /\ usageBaked' = usageBaked \cup {e.to} /\ stack' = Replace(g)
        /\ UNCHANGED <<script, tables, blocks, cache>>
    BY <1>2 DEF EnterUsage
  <1> HIDE DEF a
  <1>4. e \in Edge /\ e.to \in Prj /\ a.env \in Env
    BY <1>1, <1>2 DEF Act, Edge
  <1>5. UsageEnv(a) \in Env
    BY <1>2, <1>4 DEF UsageEnv
  <1>6. /\ Restore(a) \in Act /\ SoundAct(Restore(a)) /\ Restore(a).kb = a.kb
        /\ Restore(a).left = a.left /\ Restore(a).call = None
    BY <1>2 DEF Act, SoundAct, Restore
  <1>7. GoodGet(back)
    BY <1>1, <1>2, <1>6, GoodWithLast
  <1>8. /\ back.p = Top.p /\ back.filter = Top.filter /\ back.seen = Top.seen
        /\ back.acts = Append(OuterActs(Top), Restore(a)) /\ Top.seen \subseteq KB
    BY <1>2 DEF GoodGet, GetFrame
  <1> HIDE DEF back
  <1>9. /\ OuterActs(Top) \in Seq(Act)
        /\ ActSearched(stack, configs, Top.p, Top.filter, a)
        /\ \A j \in 1 .. Len(OuterActs(Top)) :
              ActSearched(stack, configs, Top.p, Top.filter, OuterActs(Top)[j])
        /\ \A k, d : Pending(Top.acts, k, d) =>
              \/ Pending(OuterActs(Top), k, d)
              \/ a.kb = k /\ (d \in a.left \/ a.call = d)
    BY <1>1, <1>2, LastActSearched DEF a
  <1>10. ActSearched(stack, configs, Top.p, Top.filter, Restore(a))
    BY <1>6, <1>9 DEF ActSearched
  <1>11. /\ \A j \in 1 .. Len(back.acts) :
               ActSearched(stack, configs, Top.p, Top.filter, back.acts[j])
         /\ \A k, d : Pending(OuterActs(Top), k, d) => Pending(back.acts, k, d)
         /\ \A d : d \in a.left => Pending(back.acts, a.kb, d)
    BY <1>6, <1>8, <1>9, <1>10, PushActSearched
  <1>12. /\ kb \in KB /\ kb.p = e.to /\ kb.tag = "usage"
         /\ DeclaredUses(kb) = uses
    BY <1>4, AllIsVariant DEF UsageKB, KB, DeclaredUses
  <1>13. /\ Due(stack, configs, Top.p, Top.filter, e.to)
         /\ e.to \in script.real => Handled(stack, configs, e.to, Top.filter)
    BY <1>1, <1>9 DEF ActSearched
  <1>14. /\ uses \subseteq Edge
         /\ \A d \in uses : Due(stack, configs, Top.p, Top.filter, d.to)
    BY <1>2, <1>4, <1>13, DueFacts, UsesTyped, TypedParts
  <1>15. ASSUME NEW k \in Top.seen, NEW d \in DeclaredUses(k)
         PROVE  UsageKB(d.to) \in Top.seen \cup {kb} \/ Pending(back.acts, k, d)
    <2>1. UsageKB(d.to) \in Top.seen \/ Pending(Top.acts, k, d)
      BY <1>2 DEF GetSearched, SeenSearched
    <2>2. a.call = d => UsageKB(d.to) = kb
      OBVIOUS
    <2> HIDE DEF kb
    <2> QED
      BY <1>9, <1>11, <2>1, <2>2
  <1>16. /\ RealKB(Top.p) \in Top.seen
         /\ \A k \in Top.seen : k.tag = "usage" =>
              /\ Due(stack, configs, Top.p, Top.filter, k.p)
              /\ k.p \in script.real => Handled(stack, configs, k.p, Top.filter)
    BY <1>2 DEF GetSearched, SeenSearched
  <1>17. \A k \in Top.seen \cup {kb} : k.tag = "usage" =>
            /\ Due(stack, configs, Top.p, Top.filter, k.p)
            /\ k.p \in script.real => Handled(stack, configs, k.p, Top.filter)
    BY <1>12, <1>13, <1>16
  <1>18. g = Visit(back, kb, UsageEnv(a), uses, TRUE)
    BY <1>3
  <1> HIDE DEF kb, uses, g
  <1>19. GetSearched(stack, configs, Visit(back, kb, UsageEnv(a), uses, TRUE))
    BY <1>5, <1>7, <1>8, <1>11, <1>12, <1>14, <1>15, <1>16, <1>17, VisitSearched,
       TypedParts
  <1>20. g.fn = "getconfig"
    BY <1>7, <1>18, VisitSame DEF Visit, GoodGet, GetFrame
  <1>21. SearchedIn(stack', configs, blocks, bvMap, cache) /\ SameCalls(stack, stack')
    BY <1>1, <1>2, <1>3, <1>18, <1>19, <1>20, FindSearched
  <1> QED
    BY <1>3, <1>21 DEF tables

(* Leaving a table: nothing of it is pending.  The block of a usage names  *)
(* what was answered when it was published.                                *)
LEMMA LeaveKBSearched ==
    ASSUME BakeInv, BakeInv', Tracked, Reached, Ordinary,
           LinedIn(stack, configs, blocks, usageFilter, cache),
           SearchedIn(stack, configs, blocks, bvMap, cache), LeaveKB
    PROVE  /\ SearchedIn(stack', configs', blocks', bvMap', cache')
           /\ SameCalls(stack, stack')
  <1> DEFINE a == LastAct(Top)
             kb == a.kb
             back == [Top EXCEPT !.acts = OuterActs(Top)]
             id == usageFilter[kb.p][a.env.name]
             real == [back EXCEPT !.cfgs = @ \cup
                        (a.env.filter.feats \cap script.cond[kb.p])]
             always == blocks[kb.p][id].always
             block == Visit(back, BlockKB(kb.p, id), a.env, always, TRUE)
  <1>1. TopIs("getconfig") /\ Top.acts # <<>> /\ a.call = None /\ a.left = {}
    BY DEF LeaveKB
  <1>2. /\ GoodGet(Top) /\ GetSearched(stack, configs, Top) /\ stack # <<>>
        /\ Top.filter \in Variant /\ Top.p \in Prj
        /\ a \in Act /\ a.env.name = Top.filter
    BY <1>1, TopGetSearched
  <1>3. UNCHANGED <<configs, blocks, bvMap, cache>>
    BY DEF LeaveKB, tables, usages
  <1>4. GoodGet(back)
    BY <1>1, <1>2, GoodWithoutLast
  <1>5. /\ back.p = Top.p /\ back.filter = Top.filter /\ back.seen = Top.seen
        /\ back.acts = OuterActs(Top) /\ Top.seen \subseteq KB
    BY <1>2 DEF GoodGet, GetFrame
  <1> HIDE DEF a
  <1>6. /\ \A j \in 1 .. Len(OuterActs(Top)) :
              ActSearched(stack, configs, Top.p, Top.filter, OuterActs(Top)[j])
        /\ \A k, d : Pending(Top.acts, k, d) =>
              \/ Pending(OuterActs(Top), k, d)
              \/ a.kb = k /\ (d \in a.left \/ a.call = d)
    BY <1>1, <1>2, LastActSearched DEF a
  <1>7. ASSUME NEW k \in Top.seen, NEW d \in DeclaredUses(k)
        PROVE  UsageKB(d.to) \in Top.seen \/ Pending(OuterActs(Top), k, d)
    <2>1. d # None
      BY <1>5, DeclaredTyped, NoneDistinct, TypedParts
    <2>2. UsageKB(d.to) \in Top.seen \/ Pending(Top.acts, k, d)
      BY <1>2 DEF GetSearched, SeenSearched
    <2> QED
      BY <1>1, <1>6, <2>1, <2>2
  <1>8. GetSearched(stack, configs, back)
    <2>1. SeenSearched(stack, configs, Top.p, Top.filter, Top.seen, OuterActs(Top))
      BY <1>2, <1>7 DEF GetSearched, SeenSearched
    <2> HIDE DEF back
    <2> QED
      BY <1>5, <1>6, <2>1 DEF GetSearched
  <1>9. ASSUME NEW g, stack' = Replace(g), g.fn = "getconfig",
               GetSearched(stack, configs, g)
        PROVE  /\ SearchedIn(stack', configs', blocks', bvMap', cache')
               /\ SameCalls(stack, stack')
    BY <1>1, <1>2, <1>3, <1>9, FindSearched
  <1>10. CASE UNCHANGED stack
    BY <1>3, <1>10 DEF SearchedIn, SameCalls
  <1>11. CASE stack' = Replace(back)
    <2> HIDE DEF back
    <2> QED
      BY <1>4, <1>8, <1>9, <1>11 DEF GoodGet
  <1>12. CASE stack' = Replace(real)
    <2>1. /\ real.fn = "getconfig" /\ real.p = back.p /\ real.filter = back.filter
          /\ real.acts = back.acts /\ real.seen = back.seen
      BY <1>4 DEF GoodGet, GetFrame
    <2> HIDE DEF back, real
    <2>2. GetSearched(stack, configs, real)
      BY <1>8, <2>1 DEF GetSearched
    <2> QED
      BY <1>9, <1>12, <2>1, <2>2
  <1>13. CASE id # None /\ stack' = Replace(block)
    <2>1. kb.p \in Prj /\ a.env \in Env
      BY <1>2 DEF Act, KB
    <2>2. id = Top.filter
      BY <1>2, <1>13, <2>1 DEF LinedIn, TablesLined, NameFor, Ordinary
    <2>3. blocks[kb.p][id] # None
      BY <1>2, <1>13, <2>1, TypedParts DEF TablesSound
    <2>4. OffersSearched(stack, configs, Top.filter, blocks[kb.p][id])
      BY <1>2, <2>1, <2>2, <2>3 DEF SearchedIn, TablesSearched
    <2>5. always \subseteq Edge
      <3>1. blocks[kb.p][id] \in Block
        BY <1>2, <2>1, <2>2, <2>3, TypedParts DEF TypeOK
      <3> QED
        BY <3>1 DEF Block
    <2>6. \A d \in always : Due(stack, configs, Top.p, Top.filter, d.to)
      BY <2>4 DEF OffersSearched, Due
    <2> HIDE DEF kb, id, always
    <2> DEFINE k == BlockKB(kb.p, id)
    <2>7. k \in KB /\ k.tag = "block" /\ DeclaredUses(k) = {}
      BY <1>2, <2>1, <2>2 DEF BlockKB, KB, DeclaredUses
    <2> HIDE DEF k
    <2>8. /\ RealKB(back.p) \in back.seen
          /\ \A l \in back.seen : l.tag = "usage" =>
                /\ Due(stack, configs, back.p, back.filter, l.p)
                /\ l.p \in script.real => Handled(stack, configs, l.p, back.filter)
      BY <1>2, <1>5 DEF GetSearched, SeenSearched
    <2>9. \A l \in back.seen \cup {k} : l.tag = "usage" =>
             /\ Due(stack, configs, back.p, back.filter, l.p)
             /\ l.p \in script.real => Handled(stack, configs, l.p, back.filter)
      BY <2>7, <2>8
    <2>10. block = Visit(back, k, a.env, always, TRUE)
      BY DEF k
    <2> HIDE DEF back, block
    <2>11. GetSearched(stack, configs, Visit(back, k, a.env, always, TRUE))
      BY <1>4, <1>5, <1>6, <1>7, <2>1, <2>5, <2>6, <2>7, <2>8, <2>9, VisitSearched,
         TypedParts
    <2>12. block.fn = "getconfig"
      BY <1>4, <2>10 DEF Visit, GoodGet, GetFrame
    <2> QED
      BY <1>9, <1>13, <2>10, <2>11, <2>12
  <1> QED
    BY <1>10, <1>11, <1>12, <1>13 DEF LeaveKB, a

(* The tables found by getconfig go to its cache. *)
LEMMA CacheSearched ==
    ASSUME BakeInv, NEW s, TablesSearched(s, configs, blocks, bvMap, cache),
           NEW g, GoodGet(g), SeenSearched(s, configs, g.p, g.filter, g.seen, <<>>),
           CacheFound(g)
    PROVE  TablesSearched(s, configs, blocks, bvMap, cache')
  <1> DEFINE found == [seen |-> g.seen, cfgs |-> g.cfgs]
  <1>1. g.p \in Prj /\ g.field \in Field /\ g.filter \in Variant
    BY DEF GoodGet, GetFrame
  <1>2. cache \in [Prj -> [Field -> [Variant -> Found \cup {None}]]]
    BY TypedParts DEF TypeOK
  <1>3. \A p \in Prj, f \in Field, v \in Variant :
           \/ p = g.p /\ v = g.filter /\ cache'[p][f][v] = found
           \/ cache'[p][f][v] = cache[p][f][v]
    BY <1>1, <1>2 DEF CacheFound
  <1>4. SeenSearched(s, configs, g.p, g.filter, found.seen, <<>>)
    OBVIOUS
  <1> HIDE DEF found
  <1> QED
    BY <1>3, <1>4 DEF TablesSearched

(* getfilter ending. *)
LEMMA GotFilterSearched ==
    ASSUME BakeInv, BakeInv', Tracked, Reached, Ordinary,
           LinedIn(stack, configs, blocks, usageFilter, cache),
           SearchedIn(stack, configs, blocks, bvMap, cache), GotFilter
    PROVE  /\ SearchedIn(stack', configs', blocks', bvMap', cache')
           /\ SameCalls(stack, stack')
  <1> DEFINE g == GetStart(Top.p, Top.filter, "all")
  <1>1. /\ TopIs("getconfig") /\ stack' = Replace(g) /\ CacheFound(Top)
        /\ Top.acts = <<>>
    BY DEF GotFilter
  <1>2. /\ GoodGet(Top) /\ GetSearched(stack, configs, Top) /\ stack # <<>>
        /\ Top.filter \in Variant /\ Top.p \in Prj /\ Top.p \in script.real
    BY <1>1, TopGetSearched
  <1>3. GetSearched(stack, configs, g) /\ g.fn = "getconfig"
    BY <1>2, GetStartSearched, GetStartReads, TypedParts DEF SearchedIn, Field
  <1> HIDE DEF g
  <1>4. SearchedIn(stack', configs, blocks, bvMap, cache) /\ SameCalls(stack, stack')
    BY <1>1, <1>2, <1>3, FindSearched
  <1>5. Keeps(stack, configs, stack', configs)
    BY <1>4, KeepsSame
  <1>6. SeenSearched(stack', configs, Top.p, Top.filter, Top.seen, <<>>)
    BY <1>1, <1>2, <1>5, SearchedStay, TypedParts DEF GetSearched
  <1>7. TablesSearched(stack', configs, blocks, bvMap, cache')
    BY <1>1, <1>2, <1>4, <1>6, CacheSearched DEF SearchedIn
  <1>8. UNCHANGED <<configs, blocks, bvMap>>
    BY DEF GotFilter, tables, usages
  <1> QED
    BY <1>4, <1>7, <1>8 DEF SearchedIn

(* What the tables found merge to: when all of them are walked, everything *)
(* the project asks for is handled.                                        *)
LEMMA MergedSearched ==
    ASSUME BakeInv, Ordinary, LinedIn(stack, configs, blocks, usageFilter, cache),
           SearchedIn(stack, configs, blocks, bvMap, cache),
           NEW g, GoodGet(g), g.acts = <<>>, GetLined(g), GetSearched(stack, configs, g),
           g.p \in script.real
    PROVE  /\ OffersSearched(stack, configs, g.filter, MergedConfig(g))
           /\ \A q \in AsksFor(g.p) \cap script.real : Handled(stack, configs, q, g.filter)
  <1> DEFINE v == g.filter
             c == MergedConfig(g)
  <1>1. /\ g.p \in Prj /\ v \in Variant /\ g.seen \subseteq KB /\ TypeOK
        /\ \A k \in g.seen : BlockExists(k) /\ SeenLined(g.p, v, k)
    BY TypedParts DEF GoodGet, GetFrame, SoundGet, GetLined
  <1>2. SeenSearched(stack, configs, g.p, v, g.seen, <<>>)
    BY DEF GetSearched
  <1>3. \A q \in AsksFor(g.p) \cap script.real : Handled(stack, configs, q, v)
    BY <1>1, <1>2, AllAnswered
  <1>4. \A q : Due(stack, configs, g.p, v, q) => Answered(stack, configs, q, v)
    BY <1>1, <1>3, DueFacts
  <1>5. ASSUME NEW x \in FoundBlocks(g) PROVE OffersSearched(stack, configs, v, x)
    <2>1. PICK k \in g.seen : k.tag = "block" /\ x = blocks[k.p][k.v]
      BY DEF FoundBlocks
    <2>2. k.p \in Prj /\ k.v = v /\ x # None
      BY <1>1, <2>1 DEF KB, SeenLined, RealKB, NameFor, Ordinary, BlockExists
    <2> QED
      BY <1>1, <2>1, <2>2 DEF SearchedIn, TablesSearched
  <1>6. ASSUME NEW k \in g.seen, NEW e \in DeclaredUses(k)
        PROVE  Answered(stack, configs, e.to, v)
    <2>1. ~Pending(<<>>, k, e)
      BY DEF Pending
    <2>2. UsageKB(e.to) \in g.seen
      BY <1>2, <2>1 DEF SeenSearched
    <2>3. UsageKB(e.to).tag = "usage" /\ UsageKB(e.to).p = e.to
      BY DEF UsageKB
    <2>4. Due(stack, configs, g.p, v, e.to)
      BY <1>2, <2>2, <2>3 DEF SeenSearched
    <2> QED
      BY <1>4, <2>4
  <1>7. c.depends = MergedDepends(g) /\ c.always = MergedAlways(g)
    BY DEF MergedConfig
  <1> HIDE DEF c
  <1>8. \A q \in c.depends : configs[q][v] # None
    BY <1>5, <1>7 DEF MergedDepends, OffersSearched
  <1>9. \A e \in c.always : Answered(stack, configs, e.to, v)
    BY <1>5, <1>6, <1>7 DEF MergedAlways, OffersSearched, AlwaysAmong
  <1> QED
    BY <1>3, <1>8, <1>9 DEF OffersSearched, c

(* getconfig hands the merged configuration to its caller. *)
LEMMA GotConfigSearched ==
    ASSUME BakeInv, BakeInv', Tracked, Reached, Ordinary,
           LinedIn(stack, configs, blocks, usageFilter, cache),
           SearchedIn(stack, configs, blocks, bvMap, cache), GotConfig
    PROVE  SearchedIn(stack', configs', blocks', bvMap', cache')
  <1> DEFINE n == Len(stack) - 1
             cfg == MergedConfig(Top)
             f == [stack[n] EXCEPT !.cfg = cfg, !.left = cfg.depends]
  <1>1. /\ n \in Nat \ {0} /\ Len(stack') = n /\ stack[n] \in AddFrame
        /\ stack'[n] = f /\ \A i \in 1 .. n - 1 : stack'[i] = stack[i]
        /\ stack[n].fn = "addconfig" /\ Top = stack[n + 1]
    BY GotConfigStack
  <1>2. TopIs("getconfig") /\ CacheFound(Top) /\ Top.acts = <<>>
    BY DEF GotConfig
  <1>3. /\ GoodGet(Top) /\ GetLined(Top) /\ GetSearched(stack, configs, Top)
        /\ Top.p \in script.real /\ Top.filter \in Variant
    BY <1>2, TopGetSearched
  <1>4. GetTracked(Top, stack[n])
    BY <1>2, TopGetReached
  <1>5. /\ OffersSearched(stack, configs, Top.filter, cfg)
        /\ \A q \in AsksFor(Top.p) \cap script.real :
              Handled(stack, configs, q, Top.filter)
    BY <1>2, <1>3, MergedSearched
  <1>6. cfg \in Config /\ cfg.depends \subseteq Prj
    BY <1>3, MergedConfigTyped DEF Config
  <1> HIDE DEF cfg
  <1>7. /\ f.p = Top.p /\ f.fin = Top.filter /\ f.cfg = cfg /\ f.left = cfg.depends
        /\ f.fn = "addconfig" /\ f \in Frame
        /\ f.p = stack[n].p /\ f.fin = stack[n].fin
    BY <1>1, <1>4, <1>6 DEF AddFrame, GetTracked, Frame
  <1> HIDE DEF f
  <1>8. AddSearched(stack, configs, f)
    BY <1>5, <1>7 DEF AddSearched
  <1>9. Len(stack) = n + 1 /\ Top.fn = "getconfig"
    BY <1>1, <1>2, <1>3, StackFacts DEF GoodGet
  <1> HIDE DEF n
  <1>10. Keeps(stack, configs, stack', configs)
    <2>1. ASSUME NEW q, NEW w, UnderWay(stack, q, w) PROVE UnderWay(stack', q, w)
      <3>1. PICK i \in 1 .. Len(stack) : /\ stack[i].fn = "addconfig" /\ stack[i].p = q
                                         /\ stack[i].fin = w
        BY <2>1 DEF UnderWay
      <3>2. i # n + 1
        BY <1>1, <1>9, <3>1
      <3>3. i \in 1 .. n /\ (i \in 1 .. n - 1 \/ i = n)
        BY <1>1, <1>9, <3>2
      <3>4. stack'[i].fn = "addconfig" /\ stack'[i].p = q /\ stack'[i].fin = w
        BY <1>1, <1>7, <3>1, <3>3
      <3> QED
        BY <1>1, <3>3, <3>4 DEF UnderWay
    <2> QED
      BY <2>1 DEF Keeps, Grows, Handled
  <1>11. AddSearched(stack', configs, f)
    BY <1>7, <1>8, <1>10, FramesStay, TypedParts
  <1>12. ASSUME NEW i \in 1 .. n
         PROVE  /\ stack'[i].fn = "addconfig" => AddSearched(stack', configs, stack'[i])
                /\ stack'[i].fn = "getconfig" => GetSearched(stack', configs, stack'[i])
    <2>1. i \in 1 .. Len(stack)
      BY <1>1, <1>9
    <2>2. CASE i = n
      BY <2>2, <1>1, <1>7, <1>11
    <2>3. CASE i \in 1 .. n - 1
      <3>1. stack[i] \in Frame /\ stack'[i] = stack[i]
        BY <1>1, <2>1, <2>3, StackFacts, ElementOfSeq
      <3>2. /\ stack[i].fn = "addconfig" => AddSearched(stack, configs, stack[i])
            /\ stack[i].fn = "getconfig" => GetSearched(stack, configs, stack[i])
        BY <2>1 DEF SearchedIn, FramesSearched
      <3> QED
        BY <1>10, <3>1, <3>2, FramesStay, TypedParts
    <2> QED
      BY <2>2, <2>3, <1>1
  <1>13. FramesSearched(stack', stack', configs)
    BY <1>1, <1>12 DEF FramesSearched
  <1>14. TablesSearched(stack', configs, blocks, bvMap, cache)
    <2>1. TablesSearched(stack, configs, blocks, bvMap, cache) /\ TypeOK
      BY TypedParts DEF SearchedIn
    <2>2. \A q \in Prj, w \in Variant : bvMap[q][w] \in Variant => bvMap[q][w] = w
      BY <2>1 DEF TablesSearched
    <2> QED
      BY <1>10, <2>1, <2>2, TablesStay
  <1>15. SeenSearched(stack', configs, Top.p, Top.filter, Top.seen, <<>>)
    BY <1>2, <1>3, <1>10, SearchedStay, TypedParts DEF GetSearched
  <1>16. TablesSearched(stack', configs, blocks, bvMap, cache')
    BY <1>2, <1>3, <1>14, <1>15, CacheSearched
  <1>17. UNCHANGED <<configs, blocks, bvMap>>
    BY DEF GotConfig, tables, usages
  <1> QED
    BY <1>13, <1>16, <1>17 DEF SearchedIn

(* The innermost addconfig of an ordinary script, its blocks merged: the   *)
(* variant is the one asked for.                                           *)
LEMMA TopAddSearched ==
    ASSUME BakeInv, Tracked, Reached, Ordinary, TopIs("addconfig"), Top.cfg # None,
           LinedIn(stack, configs, blocks, usageFilter, cache),
           SearchedIn(stack, configs, blocks, bvMap, cache)
    PROVE  /\ Top \in AddFrame /\ Top.fn = "addconfig" /\ stack # <<>>
           /\ Top.p \in Prj /\ Top.p \in script.real /\ Top.cfg \in Config
           /\ Top.fin \in Variant /\ Top.fin # AllVariant
           /\ Top.cfg.bv = Top.fin /\ Top.init = Top.fin
           /\ AddSearched(stack, configs, Top)
  <1> DEFINE n == Len(stack)
             bv == Top.cfg.bv
  <1>1. Top \in AddFrame /\ Top.fn = "addconfig" /\ stack # <<>>
    BY TopAdd
  <1>2. n \in 1 .. n /\ Top = stack[n]
    BY <1>1, StackFacts, FrontOfStack DEF Top
  <1>3. /\ AddTracked(Top, prjToBuild, configs) /\ AddReached(Top) /\ AddLined(Top)
        /\ AddSearched(stack, configs, Top)
        /\ (Top.p \notin script.single => Top.init = Top.fin)
    BY <1>1, <1>2, StackFacts
       DEF Tracked, FramesTracked, Reached, FramesReached, LinedIn, FramesLined,
           SearchedIn, FramesSearched, Held
  <1>4. Top.p \in Prj /\ Top.cfg \in Config /\ Top.fin \in Variant /\ bv \in Variant
    BY <1>1 DEF AddFrame, Config
  <1>5. Top.fin.feats = {}
    BY <1>3, NothingAsked DEF AddReached, Ordinary
  <1>6. bv.cfg = Top.fin.cfg /\ bv.feats = {}
    BY <1>3, <1>5 DEF AddTracked
  <1> HIDE DEF bv
  <1>7. bv = Top.fin
    BY <1>4, <1>5, <1>6 DEF Variant
  <1> QED
    BY <1>1, <1>3, <1>4, <1>7 DEF AddTracked, AddLined, Ordinary, bv

(* A configuration recorded and published. *)
LEMMA FinishConfigSearched ==
    ASSUME BakeInv, Tracked, Reached, Ordinary,
           LinedIn(stack, configs, blocks, usageFilter, cache),
           SearchedIn(stack, configs, blocks, bvMap, cache), FinishConfig
    PROVE  SearchedIn(stack', configs', blocks', bvMap', cache')
  <1> DEFINE p == Top.p
             cfg == Top.cfg
             v == Top.fin
             n == Len(stack)
  <1>1. TopIs("addconfig") /\ cfg # None
    BY DEF FinishConfig
  <1>2. /\ Top.fn = "addconfig" /\ p \in Prj /\ cfg \in Config /\ v \in Variant
        /\ cfg.bv = v /\ Top.init = v /\ AddSearched(stack, configs, Top)
    BY <1>1, TopAddSearched
  <1>3. /\ Grows(configs, configs') /\ configs'[p][v] = cfg
        /\ \A q \in Prj, w \in Variant :
              \/ q = p /\ w = v /\ bvMap'[q][w] = v
              \/ bvMap'[q][w] = bvMap[q][w]
        /\ \A q \in Prj, w \in Variant :
              \/ q = p /\ w = v /\ blocks'[q][w] = UsageBlock(p, cfg)
              \/ blocks'[q][w] = blocks[q][w]
        /\ n \in Nat \ {0} /\ Len(stack') = n - 1
        /\ \A i \in 1 .. n - 1 : stack'[i] = stack[i]
        /\ cache' = cache
    BY <1>2, FinishFacts
  <1>4. Top = stack[n] /\ TypeOK
    BY TypedParts DEF Top
  <1>5. /\ OffersSearched(stack, configs, v, cfg)
    BY <1>1, <1>2 DEF AddSearched
  <1>6. /\ UsageBlock(p, cfg).always = cfg.always
        /\ \A q \in UsageBlock(p, cfg).depends : q \in cfg.depends \/ q = p
    BY DEF UsageBlock
  <1> HIDE DEF p, cfg, v, n
  <1>7. Keeps(stack, configs, stack', configs')
    <2>1. ASSUME NEW q \in Prj, NEW w \in Variant, UnderWay(stack, q, w)
          PROVE  Handled(stack', configs', q, w)
      <3>1. PICK i \in 1 .. n : /\ stack[i].fn = "addconfig" /\ stack[i].p = q
                                /\ stack[i].fin = w
        BY <2>1 DEF UnderWay, n
      <3>2. CASE i = n
        <4>1. q = p /\ w = v
          BY <1>4, <3>1, <3>2 DEF p, v
        <4> QED
          BY <1>1, <1>3, <4>1 DEF Handled
      <3>3. CASE i \in 1 .. n - 1
        <4>1. UnderWay(stack', q, w)
          BY <1>3, <3>1, <3>3 DEF UnderWay
        <4> QED
          BY <4>1 DEF Handled
      <3> QED
        BY <1>3, <3>2, <3>3
    <2> QED
      BY <1>3, <2>1 DEF Keeps, Grows, Handled
  <1>8. ASSUME NEW i \in 1 .. n - 1
        PROVE  /\ stack'[i].fn = "addconfig" => AddSearched(stack', configs', stack'[i])
               /\ stack'[i].fn = "getconfig" => GetSearched(stack', configs', stack'[i])
    <2>1. i \in 1 .. Len(stack)
      BY <1>3 DEF n
    <2>2. stack[i] \in Frame /\ stack'[i] = stack[i]
      BY <1>3, <2>1, StackFacts, ElementOfSeq
    <2>3. /\ stack[i].fn = "addconfig" => AddSearched(stack, configs, stack[i])
          /\ stack[i].fn = "getconfig" => GetSearched(stack, configs, stack[i])
      BY <2>1 DEF SearchedIn, FramesSearched
    <2> QED
      BY <1>4, <1>7, <2>2, <2>3, FramesStay
  <1>9. FramesSearched(stack', stack', configs')
    BY <1>3, <1>8 DEF FramesSearched
  <1>10. TablesSearched(stack', configs', blocks, bvMap', cache)
    <2>1. \A q \in Prj, w \in Variant : bvMap'[q][w] \in Variant => bvMap'[q][w] = w
      BY <1>3 DEF SearchedIn, TablesSearched
    <2> QED
      BY <1>4, <1>7, <2>1, TablesStay DEF SearchedIn
  <1>11. OffersSearched(stack', configs', v, UsageBlock(p, cfg))
    <2>1. OffersSearched(stack', configs', v, cfg)
      BY <1>2, <1>4, <1>5, <1>7, SearchedStay
    <2> QED
      BY <1>1, <1>3, <1>6, <2>1 DEF OffersSearched
  <1>12. TablesSearched(stack', configs', blocks', bvMap', cache')
    BY <1>3, <1>10, <1>11 DEF TablesSearched
  <1> QED
    BY <1>9, <1>12 DEF SearchedIn

(* Baking a compile dependency. *)
LEMMA CompileDependSearched ==
    ASSUME BakeInv, Tracked, Reached, Ordinary,
           LinedIn(stack, configs, blocks, usageFilter, cache),
           SearchedIn(stack, configs, blocks, bvMap, cache),
           NEW q \in Prj, CompileDepend(q)
    PROVE  SearchedIn(stack', configs', blocks', bvMap', cache')
  <1> DEFINE f == [Top EXCEPT !.left = @ \ {q}]
  <1>1. TopIs("addconfig") /\ Top.cfg # None
    BY DEF CompileDepend
  <1>2. /\ Top \in AddFrame /\ Top.fn = "addconfig" /\ stack # <<>>
        /\ Top.fin \in Variant /\ Top.fin # AllVariant /\ Top.cfg.bv = Top.fin
        /\ AddSearched(stack, configs, Top)
    BY <1>1, TopAddSearched
  <1>3. /\ f \in AddFrame /\ f.fn = "addconfig" /\ f.p = Top.p /\ f.init = Top.init
        /\ f.fin = Top.fin /\ f.cfg = Top.cfg /\ f.left \subseteq Top.left
    BY <1>2 DEF AddFrame
  <1> HIDE DEF f
  <1>4. AddSearched(stack, configs, f) /\ f \in Frame
    BY <1>2, <1>3 DEF AddSearched, Frame
  <1>5. StackSound(Replace(f)) /\ SameCalls(stack, Replace(f))
    BY <1>2, <1>3, <1>4, ReplaceTop
  <1>6. addconfig(q, Top.fin, Replace(f)) /\ UNCHANGED <<configs, usages, cache>>
    BY <1>2 DEF CompileDepend, f
  <1>7. ASSUME NEW t, Keeps(stack, configs, t, configs)
        PROVE  FramesSearched(Replace(f), t, configs)
    <2>1. AddSearched(t, configs, f)
      BY <1>3, <1>4, <1>7, FramesStay, TypedParts
    <2> QED
      BY <1>2, <1>3, <1>4, <1>7, <2>1, ReplaceSearched DEF SearchedIn
  <1>8. script.single = {}
    BY DEF Ordinary
  <1>9. SearchedIn(stack', configs, blocks, bvMap', cache)
    BY <1>2, <1>5, <1>6, <1>7, <1>8, CallSearched
  <1> QED
    BY <1>6, <1>9 DEF usages

(* The next configuration bakeall asks for. *)
LEMMA NextDefault ==
    ASSUME BakeInv, Tracked, Ordinary, LoopSearched, queue # <<>>
    PROVE  /\ current \in script.requested /\ current \in Prj /\ current \in script.real
           /\ Head(queue) \in Variant /\ Head(queue) # AllVariant
           /\ \E i \in DOMAIN BuildCfgs : Head(queue) = Default(i)
           /\ \A j \in 1 .. Len(Tail(queue)) :
                 \E i \in DOMAIN BuildCfgs : Tail(queue)[j] = Default(i)
  <1>1. queue \in Seq(Variant) /\ current \in script.requested
    BY TypedParts DEF TypeOK, LoopSearched
  <1>2. /\ Head(queue) = queue[1] /\ Head(queue) \in Variant /\ Len(queue) \in Nat \ {0}
        /\ Len(Tail(queue)) = Len(queue) - 1
        /\ \A j \in 1 .. Len(queue) - 1 : Tail(queue)[j] = queue[j + 1]
    BY <1>1, HeadTailProperties
  <1>3. 1 \in 1 .. Len(queue) /\ \A j \in 1 .. Len(queue) - 1 : j + 1 \in 1 .. Len(queue)
    BY <1>2
  <1>4. PICK i \in DOMAIN BuildCfgs : Head(queue) = Default(i)
    BY <1>2, <1>3 DEF LoopSearched
  <1>5. Default(i) # AllVariant
    <2>1. BuildCfgs[i] # AllCfg
      BY <1>1, ScriptsAreScripts DEF Tracked, Ordinary
    <2> QED
      BY <2>1 DEF Default, AllVariant
  <1>6. current \in Prj /\ current \in script.real
    BY <1>1, ScriptsAreScripts DEF Tracked, Script
  <1> QED
    BY <1>1, <1>2, <1>3, <1>4, <1>5, <1>6 DEF LoopSearched

(* bakeall asks for a configuration. *)
LEMMA AddDefaultSearched ==
    ASSUME BakeInv, Tracked, Ordinary, LoopSearched,
           SearchedIn(stack, configs, blocks, bvMap, cache), AddDefault
    PROVE  SearchedIn(stack', configs', blocks', bvMap', cache') /\ LoopSearched'
  <1>1. /\ stack = <<>> /\ queue # <<>> /\ addconfig(current, Head(queue), stack)
        /\ queue' = Tail(queue)
        /\ UNCHANGED <<script, configs, usages, cache, toBake, current>>
    BY DEF AddDefault
  <1>2. /\ current \in script.requested /\ current \in Prj
        /\ Head(queue) \in Variant /\ Head(queue) # AllVariant
        /\ \A j \in 1 .. Len(Tail(queue)) :
              \E i \in DOMAIN BuildCfgs : Tail(queue)[j] = Default(i)
    BY <1>1, NextDefault
  <1>3. StackSound(stack) /\ SameCalls(stack, stack) /\ script.single = {}
    BY StackFacts DEF SameCalls, Ordinary
  <1>4. \A t : FramesSearched(stack, t, configs)
    BY <1>1 DEF FramesSearched
  <1>5. SearchedIn(stack', configs, blocks, bvMap', cache)
    BY <1>1, <1>2, <1>3, <1>4, CallSearched
  <1>6. LoopSearched'
    BY <1>1, <1>2 DEF LoopSearched, Default
  <1> QED
    BY <1>1, <1>5, <1>6 DEF usages

-----------------------------------------------------------------------------
(* The invariant *)

(* The invariant holds before bakeall starts. *)
LEMMA SearchedInit == Init => Searched
  <1> SUFFICES ASSUME Init PROVE Searched
    OBVIOUS
  <1>1. Len(stack) = 0 /\ Len(queue) = 0
    BY DEF Init
  <1>2. FramesSearched(stack, stack, configs)
    BY <1>1 DEF FramesSearched
  <1>3. TablesSearched(stack, configs, blocks, bvMap, cache)
    BY NoneDistinct DEF Init, TablesSearched
  <1>4. LoopSearched
    BY <1>1 DEF Init, LoopSearched
  <1> QED
    BY <1>2, <1>3, <1>4 DEF Searched

(* A step outside bakeall's loop leaves the loop alone. *)
LEMMA LoopStays ==
    ASSUME LoopSearched, script' = script, UNCHANGED mainloop
    PROVE  LoopSearched'
  BY DEF LoopSearched, mainloop, Default

(* Every step keeps it. *)
LEMMA SearchedStep ==
    BakeInv /\ Tracked /\ Reached /\ Lined /\ Searched /\ [Next]_vars => Searched'
  <1> SUFFICES ASSUME BakeInv, Tracked, Reached, Lined, Searched, [Next]_vars, Ordinary
               PROVE  /\ SearchedIn(stack', configs', blocks', bvMap', cache')
                      /\ LoopSearched'
    BY ScriptStays, SearchedNext
  <1>0. /\ BakeInv' /\ LinedIn(stack, configs, blocks, usageFilter, cache)
        /\ SearchedIn(stack, configs, blocks, bvMap, cache) /\ LoopSearched
        /\ script' = script
    BY NextInv, ScriptStays DEF Lined, LinedIn, Searched, SearchedIn, Ordinary
  <1> DEFINE Goal == SearchedIn(stack', configs', blocks', bvMap', cache')
  <1>1. ASSUME NEW p \in Prj, StartProject(p) PROVE Goal /\ LoopSearched'
    <2>1. Goal
      BY <1>0, <1>1 DEF StartProject, usages
    <2>2. /\ toBake' \subseteq script'.requested
          /\ current' \in script'.requested
          /\ queue' = [i \in DOMAIN BuildCfgs |-> Default(i)]
      BY <1>0, <1>1 DEF StartProject, LoopSearched, Default
    <2>3. DOMAIN BuildCfgs = 1 .. Len(BuildCfgs) /\ Len(BuildCfgs) \in Nat
      BY BuildCfgsSequence, LenProperties
    <2>4. Len(queue') = Len(BuildCfgs)
      BY <2>2, <2>3
    <2>5. \A j \in 1 .. Len(queue') : queue'[j] = Default(j) /\ j \in DOMAIN BuildCfgs
      BY <2>2, <2>3, <2>4
    <2> QED
      BY <2>1, <2>2, <2>5 DEF LoopSearched, Default
  <1>2. ASSUME NEW p \in Prj, CompileDepend(p) PROVE Goal /\ UNCHANGED mainloop
    BY <1>0, <1>2, CompileDependSearched DEF CompileDepend
  <1>3. ASSUME NEW e \in Edge, Use(e) PROVE Goal /\ UNCHANGED mainloop
    BY <1>0, <1>3, UseSearched DEF Use, Crash
  <1>4. CASE AddDefault
    BY <1>0, <1>4, AddDefaultSearched
  <1>5. CASE BakeallDone
    BY <1>0, <1>5, LoopStays DEF BakeallDone, tables, usages
  <1>6. CASE EnterUsage
    <2>1. Goal
      BY <1>0, <1>6, EnterUsageSearched
    <2>2. UNCHANGED mainloop
      BY <1>6 DEF EnterUsage, Crash
    <2> QED
      BY <1>0, <2>1, <2>2, LoopStays
  <1>7. CASE LeaveKB
    <2>1. Goal
      BY <1>0, <1>7, LeaveKBSearched
    <2>2. UNCHANGED mainloop
      BY <1>7 DEF LeaveKB
    <2> QED
      BY <1>0, <2>1, <2>2, LoopStays
  <1>8. CASE GotFilter
    BY <1>0, <1>8, GotFilterSearched, LoopStays DEF GotFilter
  <1>9. CASE GotConfig
    BY <1>0, <1>9, GotConfigSearched, LoopStays DEF GotConfig
  <1>10. CASE FinishConfig
    BY <1>0, <1>10, FinishConfigSearched, LoopStays DEF FinishConfig
  <1>11. CASE UNCHANGED vars
    BY <1>0, <1>11, LoopStays DEF vars, tables, usages
  <1> QED
    BY <1>0, <1>1, <1>2, <1>3, <1>4, <1>5, <1>6, <1>7, <1>8, <1>9, <1>10, <1>11,
       LoopStays
       DEF Next, Halted

(* The invariant holds throughout, for every set of scripts. *)
LEMMA BakeSearched == Spec => [](BakeInv /\ Tracked /\ Reached /\ Lined /\ Searched)
  BY BakeReached, BakeLined, SearchedInit, SearchedStep, PTL DEF Spec

-----------------------------------------------------------------------------
(* Every step is a step of the search, or none *)

(* What the search is about depends on the script, the bakes under way and *)
(* the configurations only.                                                *)
LEMMA SearchVars ==
    ASSUME script' = script
    PROVE  /\ Asked' = Asked /\ Uses' = Uses
           /\ (Baking(stack))' = Baking(stack')
           /\ (Baked(configs))' = Baked(configs')
  <1>1. OwnUses' = OwnUses /\ Exported' = Exported
    BY DEF OwnUses, Exported
  <1>2. \A p : (AsksFor(p))' = AsksFor(p)
    BY <1>1 DEF AsksFor
  <1>3. Uses' = Uses
    BY <1>2 DEF Uses, Node
  <1>4. Asked' = Asked
    BY DEF Asked, Node
  <1>5. (Baking(stack))' = Baking(stack')
    BY DEF Baking, Node
  <1>6. (Baked(configs))' = Baked(configs')
    BY DEF Baked, Node
  <1> QED
    BY <1>3, <1>4, <1>5, <1>6

(* The search reads sequences as its user does. *)
LEMMA SearchSequences ==
    \A s : Search!Last(s) = Last(s) /\ Search!Front(s) = Front(s) /\ Search!ToSet(s) = ToSet(s)
  BY DEF Search!Last, Search!Front, Search!ToSet, Last, Front, ToSet

(* A step that begins and finishes no bake. *)
LEMMA NoSearchStep ==
    ASSUME script' = script, Baking(stack') = Baking(stack), configs' = configs,
           (status' = "done") <=> (status = "done")
    PROVE  UNCHANGED Search!vars
  BY SearchVars DEF Search!vars

(* The configurations baked. *)
LEMMA BakedNodes ==
    ASSUME NEW c
    PROVE  \A p \in Prj, v \in Variant : Node(p, v) \in Baked(c) <=> c[p][v] # None
  <1> SUFFICES ASSUME NEW p \in Prj, NEW v \in Variant
               PROVE  Node(p, v) \in Baked(c) <=> c[p][v] # None
    OBVIOUS
  <1>1. ASSUME Node(p, v) \in Baked(c) PROVE c[p][v] # None
    <2>1. PICK q \in Prj, w \in Variant : c[q][w] # None /\ Node(p, v) = Node(q, w)
      BY <1>1 DEF Baked
    <2>2. q = p /\ w = v
      BY <2>1 DEF Node
    <2> QED
      BY <2>1, <2>2
  <1>2. ASSUME c[p][v] # None PROVE Node(p, v) \in Baked(c)
    BY <1>2 DEF Baked
  <1> QED
    BY <1>1, <1>2

(* Nothing is under way on an empty stack. *)
LEMMA BakingNothing == Baking(<<>>) = <<>>
  <1>1. Len(<<>>) = 0
    OBVIOUS
  <1>2. PICK h : Counts(h, <<>>, 0) /\ Baking(<<>>) = h[0]
    BY <1>1, BakingSteps
  <1> QED
    BY <1>2 DEF Counts

(* The calls of two stacks are the same, so the bakes are. *)
LEMMA SameCallsSame ==
    ASSUME NEW s \in Seq(Frame), NEW t, SameCalls(s, t)
    PROVE  Baking(t) = Baking(s)
  <1>1. Len(s) \in Nat /\ Len(t) = Len(s)
    BY LenProperties DEF SameCalls
  <1>2. \A i \in 1 .. Len(s) : SameBake(s[i], t[i])
    BY DEF SameCalls, SameBake
  <1> QED
    BY <1>1, <1>2, BakingSame

(* A bake begun is under way innermost. *)
LEMMA BakingBegun ==
    ASSUME NEW s \in Seq(Frame), NEW r, NEW p \in Prj, NEW v \in Variant, Begun(r, s, p, v)
    PROVE  Baking(r) = Append(Baking(s), Node(p, v))
  <1> DEFINE n == Len(s)
             f == NewBake(p, v)
             u == Append(s, f)
             get == GetStart(p, v, "usesconfig")
  <1>1. n \in Nat
    BY LenProperties
  <1>2. f \in Frame /\ f.fn = "addconfig" /\ f.p = p /\ f.fin = v
    BY DEF NewBake, Frame, AddFrame
  <1>3. get.fn = "getconfig"
    BY GetStartReads
  <1> HIDE DEF f, get
  <1>4. Len(u) = n + 1 /\ u[n + 1] = f /\ \A i \in 1 .. n : u[i] = s[i]
    BY <1>2, PushOnStack
  <1> HIDE DEF u
  <1>5. /\ Len(r) = n + 2 /\ r[n + 1] = f /\ r[n + 2] = get
        /\ \A i \in 1 .. n : r[i] = s[i]
    BY DEF Begun, Pushed, f, get
  <1>6. Baking(u) = With(Baking(s), u[n + 1])
    BY <1>1, <1>4, BakingPush DEF SameBake
  <1>7. Baking(r) = With(Baking(u), r[n + 2])
    <2>1. Len(u) \in Nat /\ Len(r) = Len(u) + 1 /\ Len(u) + 1 = n + 2
      BY <1>1, <1>4, <1>5
    <2>2. \A i \in 1 .. Len(u) : r[i] = u[i]
      BY <1>1, <1>4, <1>5
    <2> QED
      BY <2>1, <2>2, BakingPush DEF SameBake
  <1> QED
    BY <1>2, <1>3, <1>4, <1>5, <1>6, <1>7 DEF With

(* The innermost bake. *)
LEMMA BakingTop ==
    ASSUME NEW s \in Seq(Frame), NEW r, Len(r) = Len(s) + 1,
           \A i \in 1 .. Len(s) : SameBake(s[i], r[i]),
           r[Len(s) + 1].fn = "addconfig", r[Len(s) + 1] \in AddFrame
    PROVE  LET n == Node(r[Len(s) + 1].p, r[Len(s) + 1].fin)
           IN  /\ n \in Target /\ Baking(r) = Append(Baking(s), n)
               /\ Baking(r) # <<>> /\ Last(Baking(r)) = n /\ Front(Baking(r)) = Baking(s)
  <1> DEFINE f == r[Len(s) + 1]
             n == Node(f.p, f.fin)
  <1>1. Len(s) \in Nat
    BY LenProperties
  <1>2. Baking(r) = With(Baking(s), f)
    BY <1>1, BakingPush
  <1>3. n \in Target
    BY DEF Node, Target, AddFrame
  <1>4. Baking(r) = Append(Baking(s), n)
    BY <1>2 DEF With
  <1>5. Baking(s) \in Seq(Target)
    BY BakingNodes
  <1> HIDE DEF n
  <1>6. /\ Baking(r) # <<>> /\ Last(Baking(r)) = n /\ Front(Baking(r)) = Baking(s)
    BY <1>3, <1>4, <1>5, FrontAndLast
  <1> QED
    BY <1>3, <1>4, <1>6 DEF n

(* While getconfig runs, its caller's bake is the innermost. *)
LEMMA BakingGet ==
    ASSUME BakeInv, Tracked, Reached, TopIs("getconfig")
    PROVE  Baking(stack) # <<>> /\ Last(Baking(stack)) = Node(Top.p, Top.filter)
  <1> DEFINE n == Len(stack)
             b == Below
             s == SubSeq(b, 1, Len(b) - 1)
  <1>1. /\ stack # <<>> /\ n \in Nat \ {0} /\ n > 1 /\ GetTracked(Top, stack[n - 1])
        /\ stack[n - 1].fn = "addconfig" /\ stack[n - 1] \in AddFrame
        /\ Top.fn = "getconfig"
    BY TopGetReached, TopGet DEF TopIs
  <1>2. /\ b \in Seq(Frame) /\ Len(b) = n - 1 /\ \A i \in 1 .. n - 1 : b[i] = stack[i]
    BY <1>1, PopTop DEF StackSound
  <1>3. b # <<>>
    BY <1>1, <1>2
  <1> HIDE DEF b
  <1>4. /\ s \in Seq(Frame) /\ Len(s) = Len(b) - 1
        /\ \A i \in 1 .. Len(b) - 1 : s[i] = b[i]
    BY <1>2, <1>3, FrontOfStack
  <1> HIDE DEF s
  <1>5. /\ Len(s) + 1 = n - 1 /\ Len(b) = Len(s) + 1 /\ Len(s) = n - 2
        /\ n - 1 \in 1 .. n - 1
    BY <1>1, <1>2, <1>4
  <1>6. \A i \in 1 .. Len(s) : SameBake(s[i], b[i])
    BY <1>4 DEF SameBake
  <1>7. b[Len(s) + 1] = stack[n - 1]
    BY <1>2, <1>5
  <1>8. /\ Baking(b) # <<>>
        /\ Last(Baking(b)) = Node(stack[n - 1].p, stack[n - 1].fin)
    BY <1>1, <1>4, <1>5, <1>6, <1>7, BakingTop
  <1>9. Baking(stack) = With(Baking(b), stack[n])
    <2>1. Len(b) \in Nat /\ Len(stack) = Len(b) + 1 /\ Len(b) + 1 = n
      BY <1>1, <1>2
    <2>2. \A i \in 1 .. Len(b) : SameBake(b[i], stack[i])
      BY <1>2 DEF SameBake
    <2> QED
      BY <2>1, <2>2, BakingPush
  <1> QED
    BY <1>1, <1>8, <1>9 DEF With, Top, GetTracked

(* A call of addconfig begins a bake that is wanted, or none. *)
LEMMA CallSearches ==
    ASSUME BakeInv, Tracked, Ordinary, SearchedIn(stack, configs, blocks, bvMap, cache),
           NEW p \in Prj, NEW v, p \in script.real => v \in Variant /\ v # AllVariant,
           NEW below, StackSound(below), SameCalls(stack, below), addconfig(p, v, below),
           (p \in script.real /\ ~Handled(stack, configs, p, v)) =>
              Node(p, v) \in Search!Wanted,
           status = "bake", UNCHANGED <<script, configs, status>>
    PROVE  Search!Next \/ UNCHANGED Search!vars
  <1>1. stack \in Seq(Frame) /\ below \in Seq(Frame) /\ script.single = {}
        /\ MapPlain(bvMap)
    BY StackFacts DEF StackSound, Ordinary, SearchedIn, TablesSearched, MapPlain
  <1>2. Baking(below) = Baking(stack)
    BY <1>1, SameCallsSame
  <1>3. \/ stack' = below
        \/ /\ p \in script.real /\ ~Handled(stack, configs, p, v)
           /\ Begun(stack', below, p, v)
    BY <1>1, CallOutcome
  <1>4. CASE stack' = below
    BY <1>2, <1>4, NoSearchStep
  <1>5. CASE /\ p \in script.real /\ ~Handled(stack, configs, p, v)
             /\ Begun(stack', below, p, v)
    <2> DEFINE n == Node(p, v)
    <2>1. v \in Variant /\ n \in Search!Wanted
      BY <1>5
    <2>2. Baking(stack') = Append(Baking(stack), n)
      BY <1>1, <1>2, <1>5, <2>1, BakingBegun
    <2>3. n \notin Baked(configs) /\ n \notin ToSet(Baking(stack))
      BY <1>1, <1>5, <2>1, BakedNodes, BakingNodes DEF Handled
    <2> HIDE DEF n
    <2>4. Search!Begin(n)
      BY <2>2, <2>3, SearchVars, SearchSequences DEF Search!Begin
    <2> QED
      BY <2>1, <2>4 DEF Search!Next
  <1> QED
    BY <1>3, <1>4, <1>5

(* What is wanted while p is read as v. *)
LEMMA UsesOf ==
    ASSUME NEW p \in Prj, NEW v \in Variant
    PROVE  Uses[Node(p, v)] = {Node(q, v) : q \in AsksFor(p) \cap script.real}
  <1> DEFINE n == Node(p, v)
  <1>1. n \in [p : Prj, v : Variant] /\ n.p = p /\ n.v = v
    BY DEF Node
  <1> HIDE DEF n
  <1> QED
    BY <1>1 DEF Uses, n

(* Following a use. *)
LEMMA UseSearches ==
    ASSUME BakeInv, Tracked, Reached, Ordinary,
           LinedIn(stack, configs, blocks, usageFilter, cache),
           SearchedIn(stack, configs, blocks, bvMap, cache),
           NEW e \in Edge, Use(e)
    PROVE  Search!Next \/ UNCHANGED Search!vars
  <1> DEFINE a == LastAct(Top)
             x == [a EXCEPT !.left = @ \ {e}, !.call = e]
             g == [Top EXCEPT !.acts = Append(OuterActs(Top), x)]
  <1>1. /\ TopIs("getconfig") /\ Top.acts # <<>> /\ e \in a.left /\ a.call = None
        /\ status = "bake"
    BY DEF Use, TopIs
  <1>2. /\ GoodGet(Top) /\ GetSearched(stack, configs, Top) /\ stack # <<>>
        /\ Top.filter \in Variant /\ Top.filter # AllVariant /\ Top.p \in Prj
        /\ a \in Act /\ SoundAct(a) /\ a.env.bv = Top.filter /\ e.with = {}
    BY <1>1, TopGetSearched
  <1>3. CASE Crash
    <2>1. script' = script /\ stack' = stack /\ configs' = configs /\ status' = "crash"
      BY <1>3 DEF Crash, tables
    <2> QED
      BY <1>1, <2>1, NoSearchStep
  <1>4. CASE /\ addconfig(e.to, UseVariant(a.env, e), Replace(g))
             /\ UNCHANGED <<script, configs, usages, cache, mainloop, status>>
    <2>0. ActSearched(stack, configs, Top.p, Top.filter, a)
      BY <1>1, <1>2, LastActSearched
    <2> HIDE DEF a
    <2>1. e.to \in Prj
      BY DEF Edge
    <2>2. x \in Act /\ x.env = a.env /\ x.kb = a.kb /\ x.call = e
      BY <1>2 DEF Act
    <2>3. SoundAct(x)
      BY <1>2, <2>2 DEF SoundAct
    <2>4. UseVariant(a.env, e) = Top.filter
      BY <1>2 DEF UseVariant
    <2> HIDE DEF x
    <2>5. GoodGet(g)
      BY <1>1, <1>2, <2>2, <2>3, GoodWithLast
    <2> HIDE DEF g
    <2>6. StackSound(Replace(g)) /\ SameCalls(stack, Replace(g))
      BY <1>1, <2>5, ReplaceGet
    <2>7. ASSUME e.to \in script.real, ~Handled(stack, configs, e.to, Top.filter)
          PROVE  Node(e.to, Top.filter) \in Search!Wanted
      <3>1. Due(stack, configs, Top.p, Top.filter, e.to)
        BY <1>1, <2>0 DEF ActSearched
      <3>2. e.to \in AsksFor(Top.p)
        BY <1>2, <2>7, <3>1, DueFacts, TypedParts DEF Due
      <3>3. Baking(stack) # <<>> /\ Last(Baking(stack)) = Node(Top.p, Top.filter)
        BY <1>1, BakingGet
      <3>4. Node(e.to, Top.filter) \in Uses[Node(Top.p, Top.filter)]
        BY <1>2, <2>7, <3>2, UsesOf
      <3> QED
        BY <3>3, <3>4, SearchSequences DEF Search!Wanted
    <2>8. UNCHANGED <<script, configs, status>>
      BY <1>4
    <2> QED
      BY <1>1, <1>2, <1>4, <2>1, <2>4, <2>6, <2>7, <2>8, CallSearches
  <1> QED
    BY <1>3, <1>4 DEF Use

(* A compile dependency was baked long before: the call returns at once. *)
LEMMA CompileDependSearches ==
    ASSUME BakeInv, Tracked, Reached, Ordinary,
           LinedIn(stack, configs, blocks, usageFilter, cache),
           SearchedIn(stack, configs, blocks, bvMap, cache),
           NEW q \in Prj, CompileDepend(q)
    PROVE  Search!Next \/ UNCHANGED Search!vars
  <1> DEFINE f == [Top EXCEPT !.left = @ \ {q}]
  <1>1. TopIs("addconfig") /\ Top.cfg # None /\ q \in Top.left /\ status = "bake"
    BY DEF CompileDepend
  <1>2. /\ Top \in AddFrame /\ Top.fn = "addconfig" /\ stack # <<>>
        /\ Top.fin \in Variant /\ Top.fin # AllVariant /\ Top.cfg.bv = Top.fin
        /\ AddSearched(stack, configs, Top)
    BY <1>1, TopAddSearched
  <1>3. /\ f \in AddFrame /\ f.fn = "addconfig" /\ f.p = Top.p /\ f.init = Top.init
        /\ f.fin = Top.fin
    BY <1>2 DEF AddFrame
  <1> HIDE DEF f
  <1>4. StackSound(Replace(f)) /\ SameCalls(stack, Replace(f))
    BY <1>2, <1>3, ReplaceTop DEF Frame
  <1>5. /\ addconfig(q, Top.fin, Replace(f))
        /\ UNCHANGED <<script, configs, status>>
    BY <1>2 DEF CompileDepend, f
  <1>6. Handled(stack, configs, q, Top.fin)
    BY <1>1, <1>2 DEF AddSearched, OffersSearched, Handled
  <1> QED
    BY <1>1, <1>2, <1>4, <1>5, <1>6, CallSearches

(* bakeall asks for a configuration. *)
LEMMA AddDefaultSearches ==
    ASSUME BakeInv, Tracked, Ordinary, LoopSearched,
           SearchedIn(stack, configs, blocks, bvMap, cache), AddDefault
    PROVE  Search!Next \/ UNCHANGED Search!vars
  <1>1. /\ stack = <<>> /\ queue # <<>> /\ addconfig(current, Head(queue), stack)
        /\ UNCHANGED <<script, configs, status>> /\ status = "bake"
    BY DEF AddDefault
  <1>2. /\ current \in script.requested /\ current \in Prj
        /\ Head(queue) \in Variant /\ Head(queue) # AllVariant
        /\ \E i \in DOMAIN BuildCfgs : Head(queue) = Default(i)
    BY <1>1, NextDefault
  <1>3. StackSound(stack) /\ SameCalls(stack, stack)
    BY StackFacts DEF SameCalls
  <1>4. Node(current, Head(queue)) \in Asked
    <2>1. PICK i \in DOMAIN BuildCfgs : Head(queue) = [cfg |-> BuildCfgs[i], feats |-> {}]
      BY <1>2 DEF Default
    <2> DEFINE N(q, j) == Node(q, [cfg |-> BuildCfgs[j], feats |-> {}])
    <2>2. Asked = {N(q, j) : q \in script.requested, j \in DOMAIN BuildCfgs}
      BY DEF Asked
    <2>3. Node(current, Head(queue)) = N(current, i)
      BY <2>1
    <2> HIDE DEF N
    <2> QED
      BY <1>2, <2>2, <2>3
  <1>5. Node(current, Head(queue)) \in Search!Wanted
    BY <1>1, <1>4, BakingNothing DEF Search!Wanted
  <1> QED
    BY <1>1, <1>2, <1>3, <1>5, CallSearches

(* getconfig returns to the bake that called it. *)
LEMMA GotConfigSearches ==
    ASSUME BakeInv, BakeInv', GotConfig
    PROVE  UNCHANGED Search!vars
  <1> DEFINE n == Len(stack) - 1
             cfg == MergedConfig(Top)
  <1>1. /\ n \in Nat \ {0} /\ Len(stack') = n /\ stack[n] \in AddFrame
        /\ stack'[n] = [stack[n] EXCEPT !.cfg = cfg, !.left = cfg.depends]
        /\ \A i \in 1 .. n - 1 : stack'[i] = stack[i]
        /\ stack[n].fn = "addconfig" /\ Top = stack[n + 1] /\ Top.fn = "getconfig"
    BY GotConfigStack
  <1>2. Len(stack) = n + 1
    BY <1>1, StackFacts
  <1> HIDE DEF n, cfg
  <1>3. SameBake(stack'[n], stack[n])
    BY <1>1 DEF SameBake, AddFrame
  <1>4. \A i \in 1 .. n : SameBake(stack'[i], stack[i])
    <2>1. \A i \in 1 .. n - 1 : SameBake(stack'[i], stack[i])
      BY <1>1 DEF SameBake
    <2>2. \A i \in 1 .. n : i = n \/ i \in 1 .. n - 1
      BY <1>1
    <2> QED
      BY <1>3, <2>1, <2>2
  <1>5. Baking(stack) = With(Baking(stack'), stack[n + 1])
    BY <1>1, <1>2, <1>4, BakingPush
  <1>6. Baking(stack') = Baking(stack)
    BY <1>1, <1>5 DEF With
  <1>7. UNCHANGED <<script, configs, status>>
    BY DEF GotConfig, tables
  <1> QED
    BY <1>6, <1>7, NoSearchStep

(* A bake finishes, after everything it asks for. *)
LEMMA FinishConfigSearches ==
    ASSUME BakeInv, BakeInv', Tracked, Reached, Ordinary,
           LinedIn(stack, configs, blocks, usageFilter, cache),
           SearchedIn(stack, configs, blocks, bvMap, cache), FinishConfig
    PROVE  Search!Finish
  <1> DEFINE p == Top.p
             v == Top.fin
             m == Node(p, v)
             n == Len(stack)
  <1>1. TopIs("addconfig") /\ Top.cfg # None
    BY DEF FinishConfig
  <1>2. /\ Top \in AddFrame /\ Top.fn = "addconfig" /\ p \in Prj /\ v \in Variant
        /\ Top.cfg.bv = v /\ Top.init = v /\ AddSearched(stack, configs, Top)
        /\ Top.cfg \in Config
    BY <1>1, TopAddSearched
  <1>3. /\ configs'[p][v] # None
        /\ \A q \in Prj, w \in Variant : (q = p /\ w = v) \/ configs'[q][w] = configs[q][w]
        /\ n \in Nat \ {0} /\ Len(stack') = n - 1
        /\ \A i \in 1 .. n - 1 : stack'[i] = stack[i]
        /\ UNCHANGED <<script, status>>
    BY <1>1, <1>2, FinishFacts
  <1>4. stack' \in Seq(Frame) /\ stack \in Seq(Frame)
    BY DEF BakeInv, TypeOK
  <1>5. Len(stack) = Len(stack') + 1 /\ Len(stack') + 1 = n
    BY <1>3
  <1>6. \A i \in 1 .. Len(stack') : SameBake(stack'[i], stack[i])
    BY <1>3 DEF SameBake
  <1>7. stack[Len(stack') + 1] = Top
    BY <1>5 DEF Top
  <1>8. /\ Baking(stack) # <<>> /\ Last(Baking(stack)) = m
        /\ Front(Baking(stack)) = Baking(stack')
    BY <1>2, <1>4, <1>5, <1>6, <1>7, BakingTop
  <1>9. Uses[m] \subseteq Baked(configs) \cup ToSet(Baking(stack))
    <2>1. AsksFor(p) \subseteq Prj
      BY <1>2, AsksFacts, TypedParts
    <2> SUFFICES ASSUME NEW q \in AsksFor(p) \cap script.real
                 PROVE  Node(q, v) \in Baked(configs) \cup ToSet(Baking(stack))
      BY <1>2, UsesOf
    <2>2. q \in Prj /\ Handled(stack, configs, q, v)
      BY <1>1, <1>2, <2>1 DEF AddSearched
    <2> QED
      BY <1>2, <1>4, <2>2, BakedNodes, BakingNodes DEF Handled
  <1>10. Baked(configs') = Baked(configs) \cup {m}
    <2>1. \A q \in Prj, w \in Variant :
             configs'[q][w] # None <=> configs[q][w] # None \/ (q = p /\ w = v)
      BY <1>3
    <2> QED
      BY <1>2, <2>1 DEF Baked, Node
  <1> HIDE DEF m
  <1>11. (status = "done")' = (status = "done")
    BY <1>3
  <1> QED
    BY <1>3, <1>8, <1>9, <1>10, <1>11, SearchVars, SearchSequences DEF Search!Finish

(* At the end everything asked for is baked. *)
LEMMA BakeallDoneSearches ==
    ASSUME BakeInv, Tracked, Ordinary, SearchedIn(stack, configs, blocks, bvMap, cache),
           BakeallDone
    PROVE  Search!End
  <1>1. /\ stack = <<>> /\ queue = <<>> /\ toBake = {} /\ status = "bake"
        /\ status' = "done" /\ UNCHANGED <<script, configs, stack>>
    BY DEF BakeallDone, tables
  <1>2. ASSUME NEW q \in script.requested, NEW i \in DOMAIN BuildCfgs
        PROVE  Node(q, Default(i)) \in Baked(configs)
    <2> DEFINE v == Default(i)
    <2>1. q \in Prj /\ BuildCfgs[i] # AllCfg
      BY ScriptsAreScripts DEF Tracked, Script, Ordinary
    <2>2. v \in Variant /\ v # AllVariant
      BY <2>1 DEF Default, Variant, Cfg, AllVariant
    <2>3. Named(q, v)
      BY <1>1 DEF Tracked, RequestsMet
    <2> HIDE DEF v
    <2>4. \A p, w : ~UnderWay(stack, p, w)
      BY <1>1 DEF UnderWay
    <2>5. /\ bvMap[q][v] \in Variant \cup {None, InProgress}
          /\ bvMap[q][v] \in Variant => bvMap[q][v] = v
      BY <2>1, <2>2, TypedParts DEF TypeOK, SearchedIn, TablesSearched
    <2>6. MapTracked(bvMap, stack, configs) /\ MapLeads(bvMap, configs)
      BY StackFacts DEF Tracked
    <2>7. configs[q][v] # None
      BY <2>1, <2>2, <2>3, <2>4, <2>5, <2>6 DEF MapTracked, MapLeads, Named, Ordinary
    <2> QED
      BY <2>1, <2>2, <2>7, BakedNodes DEF v
  <1>3. Asked \subseteq Baked(configs)
    <2> SUFFICES ASSUME NEW n \in Asked PROVE n \in Baked(configs)
      OBVIOUS
    <2>1. PICK q \in script.requested, i \in DOMAIN BuildCfgs : n = Node(q, Default(i))
      BY DEF Asked, Default
    <2> QED
      BY <1>2, <2>1
  <1>4. Baking(stack) = <<>>
    BY <1>1, BakingNothing
  <1> QED
    BY <1>1, <1>3, <1>4, SearchVars DEF Search!End

(* Every step of baking is one of the search or leaves it where it is. *)
LEMMA SearchStep ==
    ASSUME BakeInv, Tracked, Reached, Lined, Searched, Ordinary, [Next]_vars
    PROVE  [Search!Next]_(Search!vars)
  <1>0. /\ BakeInv' /\ LinedIn(stack, configs, blocks, usageFilter, cache)
        /\ SearchedIn(stack, configs, blocks, bvMap, cache) /\ LoopSearched
        /\ script' = script /\ stack \in Seq(Frame)
    BY NextInv, ScriptStays, StackFacts
       DEF Lined, LinedIn, Searched, SearchedIn, Ordinary
  <1> DEFINE Goal == Search!Next \/ UNCHANGED Search!vars
  <1>1. ASSUME NEW p \in Prj, StartProject(p) PROVE Goal
    BY <1>0, <1>1, NoSearchStep DEF StartProject
  <1>2. ASSUME NEW p \in Prj, CompileDepend(p) PROVE Goal
    BY <1>0, <1>2, CompileDependSearches
  <1>3. ASSUME NEW e \in Edge, Use(e) PROVE Goal
    BY <1>0, <1>3, UseSearches
  <1>4. CASE AddDefault
    BY <1>0, <1>4, AddDefaultSearches
  <1>5. CASE BakeallDone
    BY <1>0, <1>5, BakeallDoneSearches DEF Search!Next
  <1>6. ASSUME SameCalls(stack, stack'), status = "bake", configs' = configs,
               status' \in {"bake", "crash"}
        PROVE  Goal
    <2>1. Baking(stack') = Baking(stack)
      BY <1>0, <1>6, SameCallsSame
    <2>2. (status' = "done") <=> (status = "done")
      BY <1>6
    <2> QED
      BY <1>0, <1>6, <2>1, <2>2, NoSearchStep
  <1>7. CASE EnterUsage
    <2>1. status = "bake" /\ configs' = configs /\ status' \in {"bake", "crash"}
      BY <1>7 DEF EnterUsage, Crash, tables
    <2> QED
      BY <1>0, <1>6, <1>7, <2>1, EnterUsageSearched
  <1>8. CASE LeaveKB
    <2>1. status = "bake" /\ configs' = configs /\ status' \in {"bake", "crash"}
      BY <1>8 DEF LeaveKB, tables
    <2> QED
      BY <1>0, <1>6, <1>8, <2>1, LeaveKBSearched
  <1>9. CASE GotFilter
    <2>1. status = "bake" /\ configs' = configs /\ status' \in {"bake", "crash"}
      BY <1>9 DEF GotFilter, tables
    <2> QED
      BY <1>0, <1>6, <1>9, <2>1, GotFilterSearched
  <1>10. CASE GotConfig
    BY <1>0, <1>10, GotConfigSearches
  <1>11. CASE FinishConfig
    BY <1>0, <1>11, FinishConfigSearches DEF Search!Next
  <1>12. CASE UNCHANGED vars
    <2>1. UNCHANGED <<script, stack, configs, status>>
      BY <1>12 DEF vars, tables
    <2> QED
      BY <2>1, NoSearchStep
  <1> QED
    BY <1>1, <1>2, <1>3, <1>4, <1>5, <1>7, <1>8, <1>9, <1>10, <1>11, <1>12
       DEF Next, Halted

(* In a script without features and without projects whose one             *)
(* configuration is "All", addconfig and getconfig, which call each other, *)
(* carry out a depth-first search: a configuration is begun only for       *)
(* bakeall or for the innermost one that asks for it, never twice; it is   *)
(* recorded after everything it asks for is recorded or under way; and     *)
(* bakeall returns when all that the command line asked for is recorded.   *)
THEOREM BakeIsDepthFirst == Spec /\ Ordinary => Search!Safety
  <1>1. Init => Search!Init
    <2> SUFFICES ASSUME Init PROVE Search!Init
      OBVIOUS
    <2>1. Baking(stack) = <<>>
      BY BakingNothing DEF Init
    <2>2. Baked(configs) = {}
      BY DEF Init, Baked
    <2> QED
      BY <2>1, <2>2 DEF Init, Search!Init
  <1>2. Ordinary /\ [Next]_vars => Ordinary'
    BY ScriptStays DEF Ordinary, HasFeatures, AllUses, OwnUses
  <1>3. BakeInv /\ Tracked /\ Reached /\ Lined /\ Searched /\ Ordinary /\ [Next]_vars
           => [Search!Next]_(Search!vars)
    BY SearchStep
  <1> QED
    BY <1>1, <1>2, <1>3, BakeSearched, PTL DEF Spec, Search!Safety

-----------------------------------------------------------------------------
(* The propagation rules, read backwards *)

(* What is behind a project that reaches no cycle reaches none either. *)
LEMMA FreeBehind ==
    ASSUME TypeOK, NEW p \in Prj, FreeOfCycles(p), NEW q \in LeadsTo(p)
    PROVE  FreeOfCycles(q) /\ ~OnCycle(q) /\ p \notin LeadsTo(q)
  <1>1. LeadsTo(q) \subseteq LeadsTo(p) /\ q \in Prj
    BY LeadsFacts
  <1>2. ASSUME p \in LeadsTo(q) PROVE FALSE
    BY <1>1, <1>2 DEF FreeOfCycles, OnCycle
  <1> QED
    BY <1>1, <1>2 DEF FreeOfCycles

(* What p reaches it sees, or someone it sees reaches it. *)
LEMMA ReachSplits ==
    ASSUME TypeOK, NEW p \in Prj, NEW K, NEW r \in Reach(K, p)
    PROVE  \/ r \in Sees(p)
           \/ \E q \in Sees(p) : /\ q \in script.real /\ script.kind[q] \in K
                                 /\ r \in Reach(K, q)
  <1> DEFINE From(q) == q \in script.real /\ script.kind[q] \in K
             S == {s \in Prj : \/ s \in Sees(p)
                               \/ \E q \in Sees(p) : From(q) /\ s \in Reach(K, q)}
  <1>1. Sees(p) \subseteq Prj
    BY SeesFacts
  <1>2. \A q \in Prj : /\ Sees(q) \subseteq Reach(K, q) /\ Reach(K, q) \subseteq Prj
                       /\ Sees(q) \subseteq Prj
                       /\ Through(K)[q] = IF From(q) THEN Sees(q) ELSE {}
    BY ReachFacts, SeesFacts DEF Through
  <1>3. \A q \in Prj : \A s \in Reach(K, q) : Through(K)[s] \subseteq Reach(K, q)
    BY <1>2, ReachFacts
  <1>4. \A s \in S : Through(K)[s] \subseteq S
    <2> SUFFICES ASSUME NEW s \in S, NEW t \in Through(K)[s] PROVE t \in S
      OBVIOUS
    <2>1. t \in Prj
      BY <1>2
    <2>2. CASE s \in Sees(p)
      <3>1. From(s) /\ t \in Reach(K, s)
        BY <1>2
      <3> QED
        BY <2>1, <2>2, <3>1
    <2>3. CASE s \notin Sees(p)
      <3>1. PICK q \in Sees(p) : From(q) /\ s \in Reach(K, q)
        BY <2>3
      <3>2. t \in Reach(K, q)
        BY <1>1, <1>3, <3>1
      <3> QED
        BY <2>1, <3>1, <3>2
    <2> QED
      BY <2>2, <2>3
  <1>5. S \in SUBSET Prj /\ Sees(p) \subseteq S
    BY <1>1
  <1> HIDE DEF S, From
  <1>6. Reach(K, p) \subseteq S
    BY <1>4, <1>5, ClosureLeast DEF Reach
  <1> QED
    BY <1>6 DEF S, From

(* What the tables found merge to: when all of them are walked, nothing    *)
(* that the rules put on the link line is missing.                         *)
LEMMA MergedFull ==
    ASSUME BakeInv, Reached, Ordinary, LinedIn(stack, configs, blocks, usageFilter, cache),
           TablesFull(configs, blocks, usageFilter, cache),
           NEW g, GoodGet(g), g.acts = <<>>, GetReached(g), GetLined(g),
           GetSearched(stack, configs, g), GetFull(blocks, g),
           g.p \in script.real, FreeOfCycles(g.p), UsedVariant(g) = g.filter
    PROVE  LinesFull(g.p, g.filter, MergedConfig(g))
  <1> DEFINE p == g.p
             v == g.filter
             c == MergedConfig(g)
             S == {q \in Prj : UsageKB(q) \in g.seen}
             block(q) == blocks[q][v]
  <1>1. /\ p \in Prj /\ v \in Variant /\ g.seen \subseteq KB /\ TypeOK
        /\ script.real \subseteq Prj
        /\ \A k \in g.seen : /\ BlockExists(k) /\ SeenSound(p, v, k)
                             /\ SeenLined(p, v, k)
    BY TypedParts DEF GoodGet, GetFrame, SoundGet, GetReached, GetLined, TypeOK, Script
  <1>2. /\ SeenSearched(stack, configs, p, v, g.seen, <<>>)
        /\ SeenFull(blocks, v, g.seen, <<>>)
    BY DEF GetSearched, GetFull
  <1>3. \A k, e : ~Pending(<<>>, k, e) /\ ~Walking(<<>>, k)
    BY DEF Pending, Walking
  <1>4. \A q : /\ UsageKB(q).tag = "usage" /\ UsageKB(q).p = q
               /\ DeclaredUses(UsageKB(q)) = script.exports[q]
               /\ BlockKB(q, v).tag = "block" /\ BlockKB(q, v).p = q
               /\ BlockKB(q, v).v = v
    BY DEF UsageKB, BlockKB, DeclaredUses
  <1>5. \A k \in g.seen : \A e \in DeclaredUses(k) : UsageKB(e.to) \in g.seen
    BY <1>2, <1>3 DEF SeenSearched
  <1>6. ASSUME NEW q \in S, q \in script.real
        PROVE  /\ block(q) \in FoundBlocks(g) /\ BlockFull(q, v, block(q))
               /\ block(q) \in Block
               /\ \A e \in block(q).always : UsageKB(e.to) \in g.seen
    <2>1. q \in Prj /\ UsageKB(q) \in g.seen
      OBVIOUS
    <2>2. BlockKB(q, v) \in g.seen
      BY <1>2, <1>3, <1>4, <1>6, <2>1 DEF SeenFull
    <2>3. block(q) # None
      BY <1>1, <1>4, <2>2 DEF BlockExists
    <2>4. q \in LeadsTo(p)
      <3>1. SeenSound(p, v, UsageKB(q))
        BY <1>1, <2>1
      <3> QED
        BY <3>1, <1>4 DEF SeenSound, RealKB
    <2>5. FreeOfCycles(q)
      BY <1>1, <2>4, FreeBehind
    <2>6. BlockFull(q, v, block(q))
      BY <1>1, <2>1, <2>3, <2>5 DEF TablesFull
    <2>7. block(q) \in Block
      BY <1>1, <2>1, <2>3 DEF TypeOK
    <2>8. \A e \in block(q).always : UsageKB(e.to) \in g.seen
      BY <1>2, <1>3, <1>4, <2>2 DEF SeenFull
    <2> QED
      BY <1>4, <2>2, <2>6, <2>7, <2>8 DEF FoundBlocks
  <1>7. /\ \A q \in Prj : OwnUses[q] \subseteq AllUses[q] /\ AllUses[q] \subseteq Edge
        /\ \A q \in Prj : AllUses[q] = OwnUses[q] \cup script.exports[q]
        /\ OwnUses[p] = script.uses[p] /\ DeclaredUses(RealKB(p)) = script.uses[p]
        /\ RealKB(p) \in g.seen
    BY <1>1, <1>2, UsesTyped DEF AllUses, DeclaredUses, RealKB, SeenSearched
  <1>8. \A q \in Prj : \A e \in AllUses[q] : e.to \in Prj
    BY <1>7 DEF Edge
  <1>9. Tos(OwnUses[p]) \subseteq S
    BY <1>1, <1>5, <1>7, <1>8 DEF Tos
  <1>10. \A q \in S : Tos(script.exports[q]) \subseteq S
    BY <1>4, <1>5, <1>7, <1>8 DEF Tos
  <1>11. ASSUME NEW q \in S, q \in script.real PROVE Carries(q) \subseteq S
    <2>1. BlockFull(q, v, block(q)) /\ block(q) \in Block
          /\ \A e \in block(q).always : UsageKB(e.to) \in g.seen
      BY <1>6, <1>11
    <2>2. Tos(block(q).always) \subseteq S
      BY <2>1 DEF Block, Edge, Tos
    <2> QED
      BY <2>1, <2>2 DEF BlockFull
  <1> HIDE DEF block
  <1>12. S \in SUBSET Prj
    OBVIOUS
  <1>13. Sees(p) \subseteq S
    <2>1. \A q \in S : Exporting[q] \subseteq S
      BY <1>10, <1>11, <1>12 DEF Exporting
    <2> HIDE DEF S
    <2> QED
      BY <1>9, <1>12, <2>1, ClosureLeast DEF Sees
  <1>14. /\ c.shared = MergedShared(g) \ {Node(p, v)}
         /\ c.static = (MergedStatic(g) \ MergedShared(g)) \ {Node(p, v)}
         /\ c.depends = MergedDepends(g) /\ c.always = MergedAlways(g)
    BY DEF MergedConfig, Node
  <1> HIDE DEF c
  <1>15. Carries(p) \subseteq Tos(c.always)
    <2> DEFINE Y == {s \in Prj : s \in S \/ \E q \in S : q \in script.real /\ s \in LeadsTo(q)}
    <2>1. \A q \in S : q \in script.real => Carries(q) \subseteq Tos(c.always)
      <3> SUFFICES ASSUME NEW q \in S, q \in script.real PROVE Carries(q) \subseteq Tos(c.always)
        OBVIOUS
      <3>1. block(q) \in FoundBlocks(g) /\ BlockFull(q, v, block(q))
        BY <1>6 DEF block
      <3>2. block(q).always \subseteq c.always
        BY <1>14, <3>1 DEF MergedAlways
      <3> QED
        BY <3>1, <3>2 DEF BlockFull, Tos
    <2>2. \A k \in g.seen : \A e \in DeclaredUses(k) : e.always => e.to \in Tos(c.always)
      BY <1>14 DEF MergedAlways, AlwaysAmong, Tos
    <2>3. LeadsTo(p) \subseteq Y
      <3>1. Y \in SUBSET Prj /\ Tos(OwnUses[p]) \subseteq Y
        BY <1>9
      <3>2. ASSUME NEW s \in Y PROVE Following[s] \subseteq Y
        <4> SUFFICES ASSUME NEW e \in AllUses[s] PROVE e.to \in Y
          BY UsesTyped, <1>1
        <4>1. e.to \in Prj /\ s \in Prj
          BY <1>8
        <4>2. CASE s \in S /\ e \in script.exports[s]
          BY <1>10, <4>1, <4>2 DEF Tos
        <4>3. CASE s \in S /\ e \in OwnUses[s]
          <5>1. s \in script.real
            BY <4>1, <4>3 DEF OwnUses
          <5>2. e.to \in LeadsTo(s)
            BY <1>1, <4>1, <4>3, LeadsFacts
          <5> QED
            BY <4>1, <4>3, <5>1, <5>2
        <4>4. CASE s \notin S
          <5>1. PICK q \in S : q \in script.real /\ s \in LeadsTo(q)
            BY <4>4
          <5>2. e.to \in LeadsTo(q)
            BY <1>1, <5>1, LeadsFacts
          <5> QED
            BY <4>1, <5>1, <5>2
        <4> QED
          BY <1>7, <4>1, <4>2, <4>3, <4>4
      <3> HIDE DEF Y
      <3> QED
        BY <3>1, <3>2, ClosureLeast DEF LeadsTo
    <2>4. ASSUME NEW e \in OwnUses[p], e.always PROVE e.to \in Tos(c.always)
      BY <1>7, <2>2, <2>4
    <2>5. ASSUME NEW s \in LeadsTo(p), NEW e \in AllUses[s], e.always
          PROVE  e.to \in Tos(c.always)
      <3>1. s \in Y /\ s \in Prj
        BY <2>3
      <3>2. CASE s \in S /\ e \in script.exports[s]
        BY <1>4, <2>2, <2>5, <3>2
      <3>3. CASE s \in S /\ e \in OwnUses[s]
        <4>1. s \in script.real
          BY <3>1, <3>3 DEF OwnUses
        <4>2. e.to \in Carries(s)
          BY <1>1, <2>5, <3>1, <3>3, CarriesFacts
        <4> QED
          BY <2>1, <3>3, <4>1, <4>2
      <3>4. CASE s \notin S
        <4>1. PICK q \in S : q \in script.real /\ s \in LeadsTo(q)
          BY <3>1, <3>4
        <4>2. e.to \in Carries(q)
          BY <1>1, <2>5, <4>1, CarriesFacts
        <4> QED
          BY <2>1, <4>1, <4>2
      <3> QED
        BY <1>7, <3>1, <3>2, <3>3, <3>4
    <2>6. AlwaysTos(OwnUses[p]) \subseteq Tos(c.always)
      BY <2>4 DEF AlwaysTos, Tos, AlwaysAmong
    <2>7. \A s \in LeadsTo(p) : AlwaysTos(AllUses[s]) \subseteq Tos(c.always)
      <3> SUFFICES ASSUME NEW s \in LeadsTo(p), NEW r \in AlwaysTos(AllUses[s])
                   PROVE  r \in Tos(c.always)
        OBVIOUS
      <3>1. PICK e \in AllUses[s] : e.always /\ r = e.to
        BY DEF AlwaysTos, Tos, AlwaysAmong
      <3> QED
        BY <2>5, <3>1
    <2> QED
      BY <2>6, <2>7 DEF Carries
  <1>16. ASSUME NEW K, NEW q \in Reach(K, p), q \in script.real
        PROVE  \E r \in S : /\ r \in script.real /\ (r = q \/ script.kind[r] \in K)
                             /\ q \in Reach(K, r) \cup {r}
    BY <1>1, <1>16, <1>13, ReachSplits
  <1>17. ASSUME NEW q \in OfKind(Reach(Statics, p), "StaticLib"), q # p
         PROVE  Node(q, v) \in c.static
    <2>1. q \in Reach(Statics, p) /\ q \in script.real /\ script.kind[q] = "StaticLib"
      BY DEF OfKind
    <2>2. PICK r \in S : /\ r \in script.real /\ (r = q \/ script.kind[r] \in Statics)
                         /\ q \in Reach(Statics, r) \cup {r}
      BY <2>1, <1>16
    <2>3. block(r) \in FoundBlocks(g) /\ BlockFull(r, v, block(r))
      BY <1>6, <2>2 DEF block
    <2>4. Node(q, v) \in block(r).static
      BY <2>1, <2>2, <2>3 DEF BlockFull, OfKind, Statics
    <2>5. Node(q, v) \in MergedStatic(g)
      BY <2>3, <2>4 DEF MergedStatic
    <2>6. Node(q, v) \notin MergedShared(g)
      <3> SUFFICES ASSUME NEW x \in FoundBlocks(g), Node(q, v) \in x.shared PROVE FALSE
        BY DEF MergedShared
      <3>1. PICK k \in g.seen : k.tag = "block" /\ x = blocks[k.p][k.v]
        BY DEF FoundBlocks
      <3>2. k.p \in Prj /\ k.v \in Variant /\ x # None
        BY <1>1, <3>1 DEF KB, BlockExists
      <3>3. BlockLined(k.p, k.v, x)
        BY <3>1, <3>2 DEF LinedIn, TablesLined
      <3>4. Node(q, v).p = q
        BY DEF Node
      <3> QED
        BY <2>1, <3>3, <3>4 DEF BlockLined, OfKind
    <2>7. Node(q, v) # Node(p, v)
      BY <1>17 DEF Node
    <2> QED
      BY <1>14, <2>5, <2>6, <2>7
  <1>18. ASSUME NEW q \in OfKind(Reach(Libraries, p), "SharedLib"), q # p
         PROVE  Node(q, v) \in c.shared
    <2>1. q \in Reach(Libraries, p) /\ q \in script.real /\ script.kind[q] = "SharedLib"
      BY DEF OfKind
    <2>2. PICK r \in S : /\ r \in script.real /\ (r = q \/ script.kind[r] \in Libraries)
                         /\ q \in Reach(Libraries, r) \cup {r}
      BY <2>1, <1>16
    <2>3. block(r) \in FoundBlocks(g) /\ BlockFull(r, v, block(r))
      BY <1>6, <2>2 DEF block
    <2>4. Node(q, v) \in block(r).shared
      BY <2>1, <2>2, <2>3 DEF BlockFull, OfKind, Libraries
    <2>5. Node(q, v) \in MergedShared(g)
      BY <2>3, <2>4 DEF MergedShared
    <2>6. Node(q, v) # Node(p, v)
      BY <1>18 DEF Node
    <2> QED
      BY <1>14, <2>5, <2>6
  <1>19. OfKind(Reach(Kind, p), "Command") \subseteq c.depends
    <2> SUFFICES ASSUME NEW q \in OfKind(Reach(Kind, p), "Command") PROVE q \in c.depends
      OBVIOUS
    <2>1. q \in Reach(Kind, p) /\ q \in script.real /\ script.kind[q] = "Command"
      BY DEF OfKind
    <2>2. PICK r \in S : r \in script.real /\ q \in Reach(Kind, r) \cup {r}
      BY <2>1, <1>16
    <2>3. block(r) \in FoundBlocks(g) /\ BlockFull(r, v, block(r))
      BY <1>6, <2>2 DEF block
    <2>4. q \in block(r).depends
      BY <2>1, <2>2, <2>3 DEF BlockFull, OfKind
    <2> QED
      BY <1>14, <2>3, <2>4 DEF MergedDepends
  <1> QED
    BY <1>15, <1>17, <1>18, <1>19 DEF LinesFull, c

(* What users of a configuration inherit, if nothing is missing from it. *)
LEMMA UsageBlockFull ==
    ASSUME TypeOK, NEW p \in Prj, p \in script.real, NEW c, NEW v, c.bv = v,
           LinesFull(p, v, c)
    PROVE  BlockFull(p, v, UsageBlock(p, c))
  <1> DEFINE k == UsageBlock(p, c)
             kind == script.kind[p]
  <1>1. /\ kind = "StaticLib" => k.static = {Node(p, v)} \cup c.static
        /\ kind = "SharedLib" => k.shared = {Node(p, v)} \cup c.shared
        /\ kind = "StaticLib" => k.shared = c.shared
        /\ k.depends = c.depends \cup (IF kind = "Command" THEN {p} ELSE {})
        /\ k.always = c.always
    BY DEF UsageBlock, Node
  <1> HIDE DEF k
  <1>2. kind = "StaticLib" =>
           \A q \in OfKind(Reach(Statics, p) \cup {p}, "StaticLib") : Node(q, v) \in k.static
    BY <1>1 DEF LinesFull, OfKind
  <1>3. kind \in Libraries =>
           \A q \in OfKind(Reach(Libraries, p) \cup {p}, "SharedLib") : Node(q, v) \in k.shared
    BY <1>1 DEF LinesFull, OfKind, Libraries
  <1>4. OfKind(Reach(Kind, p) \cup {p}, "Command") \subseteq k.depends
    BY <1>1 DEF LinesFull, OfKind
  <1> QED
    BY <1>1, <1>2, <1>3, <1>4 DEF BlockFull, LinesFull, k

-----------------------------------------------------------------------------
(* The steps, in an ordinary script *)

(* The parts of the invariant, each for the next state. *)
LEMMA FullNext ==
    ASSUME script' = script,
           Ordinary => CompleteIn(stack', configs', blocks', usageFilter', cache')
    PROVE  Complete'
  <1>1. /\ HasFeatures' <=> HasFeatures
        /\ \A p : Carries(p)' = Carries(p)
        /\ \A K, p : Reach(K, p)' = Reach(K, p)
        /\ \A ps, k : OfKind(ps, k)' = OfKind(ps, k)
    BY SameRules
  <1>2. Ordinary' <=> Ordinary
    BY <1>1 DEF Ordinary
  <1>3. ASSUME NEW p PROVE FreeOfCycles(p)' <=> FreeOfCycles(p)
    BY SameScript DEF FreeOfCycles, OnCycle
  <1>4. ASSUME NEW p, NEW v, NEW x PROVE LinesFull(p, v, x)' <=> LinesFull(p, v, x)
    BY <1>1 DEF LinesFull, Node, Tos, Statics, Libraries
  <1>5. ASSUME NEW p, NEW v, NEW k PROVE BlockFull(p, v, k)' <=> BlockFull(p, v, k)
    BY <1>1 DEF BlockFull, Node, Tos, Statics, Libraries
  <1>6. ASSUME NEW k, NEW v, NEW seen, NEW acts
        PROVE  SeenFull(k, v, seen, acts)' <=> SeenFull(k, v, seen, acts)
    BY DEF SeenFull, BlockKB, UsageKB, Walking, Pending
  <1>7. ASSUME NEW k, NEW g PROVE GetFull(k, g)' <=> GetFull(k, g)
    BY <1>3, <1>6 DEF GetFull
  <1>8. ASSUME NEW f PROVE AddFull(f)' <=> AddFull(f)
    BY <1>3, <1>4 DEF AddFull
  <1>9. Ordinary => FramesFull(stack, blocks)'
    BY <1>7, <1>8 DEF FramesFull, CompleteIn
  <1>10. Ordinary => TablesFull(configs, blocks, usageFilter, cache)'
    BY <1>3, <1>4, <1>5, <1>6 DEF TablesFull, CompleteIn
  <1> QED
    BY <1>2, <1>9, <1>10 DEF Complete, CompleteIn

(* What getconfig starts with. *)
LEMMA GetStartFull ==
    ASSUME TypeOK, TablesFull(configs, blocks, usageFilter, cache),
           NEW p \in Prj, NEW v \in Variant, NEW f \in Field
    PROVE  GetFull(blocks, GetStart(p, v, f))
  <1> DEFINE hit == cache[p][f][v]
             root == [kb |-> RealKB(p),
                      env |-> [filter |-> v, bv |-> v, name |-> v],
                      left |-> script.uses[p], call |-> None]
             g == GetStart(p, v, f)
  <1>1. CASE hit = None
    <2>1. root.kb = RealKB(p)
      OBVIOUS
    <2> HIDE DEF root
    <2>2. g = [fn |-> "getconfig", p |-> p, filter |-> v, field |-> f,
               acts |-> <<root>>, seen |-> {RealKB(p)}, cfgs |-> {}]
      BY <1>1, <2>1 DEF GetStart, root
    <2>3. Len(<<root>>) = 1 /\ <<root>>[1] = root
      OBVIOUS
    <2>4. RealKB(p).tag = "real"
      BY DEF RealKB
    <2>5. SeenFull(blocks, v, {RealKB(p)}, <<root>>)
      BY <2>4 DEF SeenFull
    <2> QED
      BY <2>1, <2>2, <2>3, <2>5 DEF GetFull
  <1>2. CASE hit # None
    <2>1. g = [fn |-> "getconfig", p |-> p, filter |-> v, field |-> f,
               acts |-> <<>>, seen |-> hit.seen, cfgs |-> hit.cfgs]
      BY <1>2 DEF GetStart
    <2>2. FreeOfCycles(p) => SeenFull(blocks, v, hit.seen, <<>>)
      BY <1>2 DEF TablesFull
    <2> QED
      BY <2>1, <2>2 DEF GetFull
  <1> QED
    BY <1>1, <1>2

(* The innermost frame replaced. *)
LEMMA ReplaceFull ==
    ASSUME BakeInv, FramesFull(stack, blocks), stack # <<>>, NEW f \in Frame,
           f.fn = "getconfig" => GetFull(blocks, f), f.fn = "addconfig" => AddFull(f)
    PROVE  FramesFull(Replace(f), blocks)
  <1> DEFINE r == Replace(f)
             n == Len(stack)
  <1>1. stack \in Seq(Frame)
    BY StackFacts
  <1>2. /\ Len(r) = n /\ r[n] = f /\ n \in Nat \ {0}
        /\ \A i \in 1 .. n - 1 : r[i] = stack[i]
    <2>1. Replaced(Append(SubSeq(stack, 1, Len(stack) - 1), f), stack, f, Frame)
      BY <1>1, ReplaceOnStack
    <2>2. Replaced(r, stack, f, Frame)
      BY <2>1 DEF Replace, Below
    <2> QED
      BY <2>2 DEF Replaced
  <1> HIDE DEF r
  <1>3. FramesFull(r, blocks)
    BY <1>2 DEF FramesFull
  <1> QED
    BY <1>3 DEF r

(* A call of addconfig. *)
LEMMA CallFull ==
    ASSUME BakeInv, Tracked, script.single = {}, MapPlain(bvMap),
           TablesFull(configs, blocks, usageFilter, cache),
           NEW p \in Prj, NEW v, p \in script.real => v \in Variant /\ v # AllVariant,
           NEW below, StackSound(below), SameCalls(stack, below), addconfig(p, v, below),
           FramesFull(below, blocks)
    PROVE  FramesFull(stack', blocks)
  <1>1. stack' = below \/ (p \in script.real /\ Begun(stack', below, p, v))
    BY CallOutcome
  <1>2. CASE stack' = below
    BY <1>2
  <1>3. CASE p \in script.real /\ Begun(stack', below, p, v)
    <2> DEFINE get == GetStart(p, v, "usesconfig")
    <2>1. GetFull(blocks, get) /\ get.fn = "getconfig"
      BY <1>3, GetStartFull, GetStartReads, TypedParts DEF Field
    <2> HIDE DEF get
    <2>2. /\ Len(stack') = Len(below) + 2 /\ stack'[Len(below) + 1] = NewBake(p, v)
          /\ stack'[Len(below) + 2] = get /\ Len(below) \in Nat
          /\ \A i \in 1 .. Len(below) : stack'[i] = below[i]
      BY <1>3, LenProperties DEF Begun, Pushed, get, StackSound
    <2>3. NewBake(p, v).fn = "addconfig" /\ AddFull(NewBake(p, v))
      BY DEF NewBake, AddFull
    <2>4. ASSUME NEW i \in 1 .. Len(stack')
          PROVE  /\ stack'[i].fn = "addconfig" => AddFull(stack'[i])
                 /\ stack'[i].fn = "getconfig" => GetFull(blocks, stack'[i])
      <3>1. i \in 1 .. Len(below) \/ i = Len(below) + 1 \/ i = Len(below) + 2
        BY <2>2
      <3> QED
        BY <3>1, <2>1, <2>2, <2>3 DEF FramesFull
    <2> QED
      BY <2>4 DEF FramesFull
  <1> QED
    BY <1>1, <1>2, <1>3

(* What is pending or walked is so in the innermost activation or in an    *)
(* outer one.                                                              *)
LEMMA LastActFull ==
    ASSUME NEW g, GoodGet(g), g.acts # <<>>, \A j \in 1 .. Len(g.acts) : g.acts[j].kb \in g.seen
    PROVE  /\ OuterActs(g) \in Seq(Act) /\ LastAct(g).kb \in g.seen
           /\ \A j \in 1 .. Len(OuterActs(g)) : OuterActs(g)[j].kb \in g.seen
           /\ \A t : Walking(g.acts, t) => Walking(OuterActs(g), t) \/ t = LastAct(g).kb
           /\ \A k, e : Pending(g.acts, k, e) =>
                 \/ Pending(OuterActs(g), k, e)
                 \/ LastAct(g).kb = k /\ (e \in LastAct(g).left \/ LastAct(g).call = e)
  <1> DEFINE o == OuterActs(g)
             n == Len(g.acts)
  <1>1. g.acts \in Seq(Act)
    BY DEF GoodGet, GetFrame
  <1>2. /\ o \in Seq(Act) /\ Len(o) = n - 1 /\ \A j \in 1 .. n - 1 : o[j] = g.acts[j]
        /\ n \in Nat \ {0} /\ LastAct(g) = g.acts[n]
    BY <1>1, FrontOfStack DEF OuterActs, LastAct
  <1> HIDE DEF o
  <1>3. /\ \A j \in 1 .. n : j = n \/ j \in 1 .. n - 1
        /\ n \in 1 .. n /\ \A j \in 1 .. n - 1 : j \in 1 .. n
    BY <1>2
  <1>4. LastAct(g).kb \in g.seen /\ \A j \in 1 .. Len(o) : o[j].kb \in g.seen
    BY <1>2, <1>3
  <1>5. \A t : Walking(g.acts, t) => Walking(o, t) \/ t = LastAct(g).kb
    BY <1>2, <1>3 DEF Walking
  <1>6. \A k, e : Pending(g.acts, k, e) =>
           \/ Pending(o, k, e)
           \/ LastAct(g).kb = k /\ (e \in LastAct(g).left \/ LastAct(g).call = e)
    BY <1>2, <1>3 DEF Pending
  <1> QED
    BY <1>2, <1>4, <1>5, <1>6 DEF o

(* One more activation. *)
LEMMA PushActFull ==
    ASSUME NEW o \in Seq(Act), NEW x \in Act, NEW seen,
           \A j \in 1 .. Len(o) : o[j].kb \in seen, x.kb \in seen
    PROVE  /\ \A j \in 1 .. Len(Append(o, x)) : Append(o, x)[j].kb \in seen
           /\ \A t : Walking(o, t) => Walking(Append(o, x), t)
           /\ Walking(Append(o, x), x.kb)
           /\ \A k, e : Pending(o, k, e) => Pending(Append(o, x), k, e)
           /\ \A e : (e \in x.left \/ x.call = e) => Pending(Append(o, x), x.kb, e)
  <1> DEFINE r == Append(o, x)
  <1>1. /\ Len(r) = Len(o) + 1 /\ r[Len(o) + 1] = x
        /\ \A j \in 1 .. Len(o) : r[j] = o[j]
        /\ Len(o) \in Nat
    BY PushOnStack, LenProperties
  <1> HIDE DEF r
  <1>2. /\ \A j \in 1 .. Len(r) : j \in 1 .. Len(o) \/ j = Len(o) + 1
        /\ \A j \in 1 .. Len(o) : j \in 1 .. Len(r)
        /\ Len(o) + 1 \in 1 .. Len(r)
    BY <1>1
  <1>3. \A j \in 1 .. Len(r) : r[j].kb \in seen
    BY <1>1, <1>2
  <1>4. (\A t : Walking(o, t) => Walking(r, t)) /\ Walking(r, x.kb)
    BY <1>1, <1>2 DEF Walking
  <1>5. \A k, e : Pending(o, k, e) => Pending(r, k, e)
    BY <1>1, <1>2 DEF Pending
  <1>6. \A e : (e \in x.left \/ x.call = e) => Pending(r, x.kb, e)
    BY <1>1, <1>2 DEF Pending
  <1> QED
    BY <1>3, <1>4, <1>5, <1>6 DEF r

(* findBlocks on a table: walked, or walked before. *)
LEMMA VisitFull ==
    ASSUME NEW g, GoodGet(g), NEW kb \in KB, NEW env \in Env, NEW uses,
           uses \subseteq Edge,
           \A j \in 1 .. Len(g.acts) : g.acts[j].kb \in g.seen,
           \A t \in g.seen : (t.tag = "usage" /\ t.p \in script.real) =>
              BlockKB(t.p, g.filter) \in g.seen \cup {kb} \/ Walking(g.acts, t),
           \A t \in g.seen : t.tag = "block" =>
              \A e \in blocks[t.p][t.v].always :
                 UsageKB(e.to) \in g.seen \cup {kb} \/ Pending(g.acts, t, e),
           kb.tag = "block" => blocks[kb.p][kb.v].always \subseteq uses
    PROVE  GetFull(blocks, Visit(g, kb, env, uses, TRUE))
  <1> DEFINE x == [kb |-> kb, env |-> env, left |-> uses, call |-> None]
             h == [g EXCEPT !.seen = @ \cup {kb}, !.acts = Append(@, x)]
  <1>1. CASE kb \in g.seen
    <2>1. Visit(g, kb, env, uses, TRUE) = g /\ g.seen \cup {kb} = g.seen
      BY <1>1 DEF Visit
    <2>2. SeenFull(blocks, g.filter, g.seen, g.acts)
      BY <2>1 DEF SeenFull
    <2> QED
      BY <2>1, <2>2 DEF GetFull
  <1>2. CASE kb \notin g.seen
    <2>1. Visit(g, kb, env, uses, TRUE) = h
      BY <1>2 DEF Visit
    <2>2. x \in Act /\ x.kb = kb /\ x.left = uses
      BY DEF Act
    <2> HIDE DEF x
    <2>3. /\ h.p = g.p /\ h.filter = g.filter
          /\ h.acts = Append(g.acts, x) /\ h.seen = g.seen \cup {kb}
          /\ g.acts \in Seq(Act)
      BY DEF GoodGet, GetFrame
    <2> HIDE DEF h
    <2>4. /\ \A j \in 1 .. Len(h.acts) : h.acts[j].kb \in h.seen
          /\ \A t : Walking(g.acts, t) => Walking(h.acts, t)
          /\ Walking(h.acts, x.kb)
          /\ \A k, e : Pending(g.acts, k, e) => Pending(h.acts, k, e)
          /\ \A e : (e \in x.left \/ x.call = e) => Pending(h.acts, x.kb, e)
      <3>1. (\A j \in 1 .. Len(g.acts) : g.acts[j].kb \in h.seen) /\ x.kb \in h.seen
        BY <2>2, <2>3
      <3> DEFINE r == Append(g.acts, x)
      <3>2. /\ \A j \in 1 .. Len(r) : r[j].kb \in h.seen
            /\ \A t : Walking(g.acts, t) => Walking(r, t)
            /\ Walking(r, x.kb)
            /\ \A k, e : Pending(g.acts, k, e) => Pending(r, k, e)
            /\ \A e : (e \in x.left \/ x.call = e) => Pending(r, x.kb, e)
        BY <2>2, <2>3, <3>1, PushActFull
      <3> HIDE DEF r
      <3> QED
        BY <2>3, <3>2 DEF r
    <2>5. \A t \in h.seen : (t.tag = "usage" /\ t.p \in script.real) =>
             BlockKB(t.p, g.filter) \in h.seen \/ Walking(h.acts, t)
      BY <2>2, <2>3, <2>4
    <2>6. \A t \in h.seen : t.tag = "block" =>
             \A e \in blocks[t.p][t.v].always :
                UsageKB(e.to) \in h.seen \/ Pending(h.acts, t, e)
      BY <2>2, <2>3, <2>4
    <2>7. SeenFull(blocks, h.filter, h.seen, h.acts)
      BY <2>3, <2>5, <2>6 DEF SeenFull
    <2>8. GetFull(blocks, h)
      BY <2>4, <2>7 DEF GetFull
    <2> QED
      BY <2>1, <2>8
  <1> QED
    BY <1>1, <1>2

(* Nothing behind a project that reaches no cycle is being baked while its *)
(* uses are followed.                                                      *)
LEMMA NotUnderWay ==
    ASSUME BakeInv, Reached, TopIs("getconfig"), Top.p \in Prj, FreeOfCycles(Top.p),
           NEW q \in LeadsTo(Top.p), NEW v, UnderWay(stack, q, v)
    PROVE  FALSE
  <1> DEFINE n == Len(stack)
  <1>1. PICK i \in 1 .. n : stack[i].fn = "addconfig" /\ stack[i].p = q
    BY DEF UnderWay
  <1>2. n \in Nat \ {0} /\ stack[n].fn = "getconfig" /\ Top = stack[n]
    BY StackFacts, FrontOfStack DEF TopIs, Top
  <1>3. i # n
    BY <1>1, <1>2
  <1>4. i < n /\ n \in 1 .. n
    BY <1>2, <1>3
  <1>5. Top.p = q \/ Top.p \in LeadsTo(q)
    BY <1>1, <1>2, <1>4 DEF Reached, Chained
  <1>6. q # Top.p
    BY DEF FreeOfCycles, OnCycle
  <1> QED
    BY <1>5, <1>6, FreeBehind, TypedParts

(* findBlocks works on its own frame. *)
LEMMA FindFull ==
    ASSUME BakeInv, BakeInv', stack # <<>>,
           CompleteIn(stack, configs, blocks, usageFilter, cache),
           NEW g, stack' = Replace(g), g.fn = "getconfig", GetFull(blocks, g),
           UNCHANGED <<configs, blocks, usageFilter, cache>>
    PROVE  CompleteIn(stack', configs', blocks', usageFilter', cache')
  <1>1. g \in Frame
    BY NewTop
  <1>2. FramesFull(stack', blocks)
    BY <1>1, ReplaceFull DEF CompleteIn
  <1> QED
    BY <1>2 DEF CompleteIn

(* The innermost getconfig. *)
LEMMA TopGetFull ==
    ASSUME BakeInv, TopIs("getconfig"), CompleteIn(stack, configs, blocks, usageFilter, cache)
    PROVE  GetFull(blocks, Top)
  <1>1. Len(stack) \in 1 .. Len(stack)
    BY TopGet, StackFacts
  <1> QED
    BY <1>1 DEF CompleteIn, FramesFull, TopIs, Top

(* Following a use. *)
LEMMA UseFull ==
    ASSUME BakeInv, Tracked, Reached, Ordinary,
           LinedIn(stack, configs, blocks, usageFilter, cache),
           SearchedIn(stack, configs, blocks, bvMap, cache),
           CompleteIn(stack, configs, blocks, usageFilter, cache),
           NEW e \in Edge, Use(e)
    PROVE  CompleteIn(stack', configs', blocks', usageFilter', cache')
  <1> DEFINE a == LastAct(Top)
             x == [a EXCEPT !.left = @ \ {e}, !.call = e]
             g == [Top EXCEPT !.acts = Append(OuterActs(Top), x)]
  <1>1. TopIs("getconfig") /\ Top.acts # <<>> /\ e \in a.left /\ a.call = None
    BY DEF Use, TopIs
  <1>2. /\ GoodGet(Top) /\ stack # <<>> /\ GetFull(blocks, Top)
        /\ Top.filter \in Variant /\ Top.filter # AllVariant /\ Top.p \in Prj
        /\ a \in Act /\ SoundAct(a) /\ a.env.bv = Top.filter /\ e.with = {}
    BY <1>1, TopGetSearched, TopGetFull
  <1>3. CASE Crash
    BY <1>3 DEF Crash, CompleteIn, tables, usages
  <1>4. CASE /\ addconfig(e.to, UseVariant(a.env, e), Replace(g))
             /\ UNCHANGED <<script, configs, usages, cache, mainloop, status>>
    <2> HIDE DEF a
    <2>1. e.to \in Prj
      BY DEF Edge
    <2>2. /\ x \in Act /\ x.env = a.env /\ x.kb = a.kb /\ x.call = e
          /\ x.left = a.left \ {e}
      BY <1>2 DEF Act
    <2>3. SoundAct(x)
      BY <1>2, <2>2 DEF SoundAct
    <2>4. UseVariant(a.env, e) = Top.filter
      BY <1>2 DEF UseVariant
    <2> HIDE DEF x
    <2>5. GoodGet(g)
      BY <1>1, <1>2, <2>2, <2>3, GoodWithLast
    <2>6. /\ g.fn = "getconfig" /\ g.p = Top.p /\ g.filter = Top.filter
          /\ g.seen = Top.seen /\ g.acts = Append(OuterActs(Top), x)
          /\ Top.seen \subseteq KB /\ \A k \in Top.seen : BlockExists(k)
      BY <1>2 DEF GoodGet, GetFrame, SoundGet
    <2>7. StackSound(Replace(g)) /\ SameCalls(stack, Replace(g)) /\ g \in Frame
      BY <1>1, <2>5, ReplaceGet DEF GoodGet, Frame
    <2> HIDE DEF g
    <2>8. ASSUME FreeOfCycles(Top.p) PROVE GetFull(blocks, g)
      <3>1. /\ SeenFull(blocks, Top.filter, Top.seen, Top.acts)
            /\ \A j \in 1 .. Len(Top.acts) : Top.acts[j].kb \in Top.seen
        BY <1>2, <2>8 DEF GetFull
      <3>2. /\ OuterActs(Top) \in Seq(Act) /\ a.kb \in Top.seen
            /\ \A j \in 1 .. Len(OuterActs(Top)) : OuterActs(Top)[j].kb \in Top.seen
            /\ \A t : Walking(Top.acts, t) => Walking(OuterActs(Top), t) \/ t = a.kb
            /\ \A k, d : Pending(Top.acts, k, d) =>
                  \/ Pending(OuterActs(Top), k, d)
                  \/ a.kb = k /\ (d \in a.left \/ a.call = d)
        BY <1>1, <1>2, <3>1, LastActFull DEF a
      <3>3. /\ \A j \in 1 .. Len(g.acts) : g.acts[j].kb \in Top.seen
            /\ \A t : Walking(OuterActs(Top), t) => Walking(g.acts, t)
            /\ Walking(g.acts, x.kb)
            /\ \A k, d : Pending(OuterActs(Top), k, d) => Pending(g.acts, k, d)
            /\ \A d : (d \in x.left \/ x.call = d) => Pending(g.acts, x.kb, d)
        BY <2>2, <2>6, <3>2, PushActFull
      <3>4. \A t : Walking(Top.acts, t) => Walking(g.acts, t)
        BY <2>2, <3>2, <3>3
      <3>5. ASSUME NEW k \in Top.seen, k.tag = "block", NEW d \in blocks[k.p][k.v].always
            PROVE  UsageKB(d.to) \in Top.seen \/ Pending(g.acts, k, d)
        <4>1. blocks[k.p][k.v] \in Block
          BY <2>6, <3>5, TypedParts DEF TypeOK, KB, BlockExists
        <4>2. d # None
          BY <4>1, NoneDistinct DEF Block
        <4>3. UsageKB(d.to) \in Top.seen \/ Pending(Top.acts, k, d)
          BY <3>1, <3>5 DEF SeenFull
        <4> QED
          BY <1>1, <2>2, <3>2, <3>3, <4>2, <4>3
      <3>6. SeenFull(blocks, Top.filter, Top.seen, g.acts)
        BY <3>1, <3>4, <3>5 DEF SeenFull
      <3> QED
        BY <2>6, <3>3, <3>6 DEF GetFull
    <2>9. GetFull(blocks, g)
      BY <2>6, <2>8 DEF GetFull
    <2>10. FramesFull(Replace(g), blocks)
      BY <1>2, <2>6, <2>7, <2>9, ReplaceFull DEF CompleteIn
    <2>11. script.single = {} /\ MapPlain(bvMap)
      BY DEF Ordinary, SearchedIn, TablesSearched, MapPlain
    <2>12. FramesFull(stack', blocks)
      BY <1>2, <1>4, <2>1, <2>4, <2>7, <2>10, <2>11, CallFull DEF CompleteIn
    <2> QED
      BY <1>4, <2>12 DEF CompleteIn, usages
  <1> QED
    BY <1>3, <1>4 DEF Use

(* Walking a usage: the use that led to it is no longer pending. *)
LEMMA EnterUsageFull ==
    ASSUME BakeInv, BakeInv', Tracked, Reached, Ordinary,
           LinedIn(stack, configs, blocks, usageFilter, cache),
           SearchedIn(stack, configs, blocks, bvMap, cache),
           CompleteIn(stack, configs, blocks, usageFilter, cache), EnterUsage
    PROVE  CompleteIn(stack', configs', blocks', usageFilter', cache')
  <1> DEFINE a == LastAct(Top)
             e == a.call
             back == [Top EXCEPT !.acts = Append(OuterActs(Top), Restore(a))]
             kb == UsageKB(e.to)
             uses == script.exports[e.to]
             g == Visit(back, kb, UsageEnv(a), uses, e.to \in usageBaked')
  <1>1. TopIs("getconfig") /\ Top.acts # <<>> /\ e # None
    BY DEF EnterUsage
  <1>2. /\ GoodGet(Top) /\ GetFull(blocks, Top) /\ stack # <<>>
        /\ Top.filter \in Variant /\ Top.p \in Prj
        /\ a \in Act /\ SoundAct(a) /\ e.with = {}
    BY <1>1, TopGetSearched, TopGetFull
  <1>3. /\ usageBaked' = usageBaked \cup {e.to} /\ stack' = Replace(g)
        /\ UNCHANGED <<script, configs, blocks, usageFilter, cache>>
    BY <1>2 DEF EnterUsage, tables
  <1> HIDE DEF a
  <1>4. e \in Edge /\ e.to \in Prj /\ a.env \in Env
    BY <1>1, <1>2 DEF Act, Edge
  <1>5. UsageEnv(a) \in Env
    BY <1>2, <1>4 DEF UsageEnv
  <1>6. /\ Restore(a) \in Act /\ SoundAct(Restore(a)) /\ Restore(a).kb = a.kb
        /\ Restore(a).left = a.left /\ Restore(a).call = None
    BY <1>2 DEF Act, SoundAct, Restore
  <1>7. GoodGet(back)
    BY <1>1, <1>2, <1>6, GoodWithLast
  <1>8. /\ back.p = Top.p /\ back.filter = Top.filter /\ back.seen = Top.seen
        /\ back.acts = Append(OuterActs(Top), Restore(a)) /\ Top.seen \subseteq KB
    BY <1>2 DEF GoodGet, GetFrame
  <1> HIDE DEF back
  <1>9. kb \in KB /\ kb.p = e.to /\ kb.tag = "usage"
    BY <1>4, AllIsVariant DEF UsageKB, KB
  <1>10. uses \subseteq Edge
    BY <1>4, UsesTyped, TypedParts
  <1>11. g = Visit(back, kb, UsageEnv(a), uses, TRUE)
    BY <1>3
  <1>12. ASSUME FreeOfCycles(Top.p) PROVE GetFull(blocks, g)
    <2>1. /\ SeenFull(blocks, Top.filter, Top.seen, Top.acts)
          /\ \A j \in 1 .. Len(Top.acts) : Top.acts[j].kb \in Top.seen
      BY <1>2, <1>12 DEF GetFull
    <2>2. /\ OuterActs(Top) \in Seq(Act) /\ a.kb \in Top.seen
          /\ \A j \in 1 .. Len(OuterActs(Top)) : OuterActs(Top)[j].kb \in Top.seen
          /\ \A t : Walking(Top.acts, t) => Walking(OuterActs(Top), t) \/ t = a.kb
          /\ \A k, d : Pending(Top.acts, k, d) =>
                \/ Pending(OuterActs(Top), k, d)
                \/ a.kb = k /\ (d \in a.left \/ a.call = d)
      BY <1>1, <1>2, <2>1, LastActFull DEF a
    <2>3. /\ \A j \in 1 .. Len(back.acts) : back.acts[j].kb \in back.seen
          /\ \A t : Walking(OuterActs(Top), t) => Walking(back.acts, t)
          /\ Walking(back.acts, a.kb)
          /\ \A k, d : Pending(OuterActs(Top), k, d) => Pending(back.acts, k, d)
          /\ \A d : d \in a.left => Pending(back.acts, a.kb, d)
      BY <1>6, <1>8, <2>2, PushActFull
    <2>4. \A t : Walking(Top.acts, t) => Walking(back.acts, t)
      BY <2>2, <2>3
    <2>5. \A t \in back.seen : (t.tag = "usage" /\ t.p \in script.real) =>
             BlockKB(t.p, back.filter) \in back.seen \cup {kb} \/ Walking(back.acts, t)
      BY <1>8, <2>1, <2>4 DEF SeenFull
    <2>6. ASSUME NEW t \in back.seen, t.tag = "block", NEW d \in blocks[t.p][t.v].always
          PROVE  UsageKB(d.to) \in back.seen \cup {kb} \/ Pending(back.acts, t, d)
      <3>1. UsageKB(d.to) \in Top.seen \/ Pending(Top.acts, t, d)
        BY <1>8, <2>1, <2>6 DEF SeenFull
      <3>2. a.call = d => UsageKB(d.to) = kb
        OBVIOUS
      <3> HIDE DEF kb
      <3> QED
        BY <1>8, <2>2, <2>3, <3>1, <3>2
    <2> HIDE DEF kb, uses, g
    <2>7. GetFull(blocks, Visit(back, kb, UsageEnv(a), uses, TRUE))
      BY <1>5, <1>7, <1>9, <1>10, <2>3, <2>5, <2>6, VisitFull
    <2> QED
      BY <1>11, <2>7
  <1> HIDE DEF kb, uses, g
  <1>13. g.fn = "getconfig" /\ g.p = Top.p
    BY <1>7, <1>8, <1>11 DEF Visit, GoodGet, GetFrame
  <1>14. GetFull(blocks, g)
    BY <1>12, <1>13 DEF GetFull
  <1> QED
    BY <1>2, <1>3, <1>13, <1>14, FindFull

(* Leaving a table: a usage with a project has its block published by then, *)
(* for its project is not being baked.                                      *)
LEMMA LeaveKBFull ==
    ASSUME BakeInv, BakeInv', Tracked, Reached, Ordinary,
           LinedIn(stack, configs, blocks, usageFilter, cache),
           SearchedIn(stack, configs, blocks, bvMap, cache),
           CompleteIn(stack, configs, blocks, usageFilter, cache), LeaveKB
    PROVE  CompleteIn(stack', configs', blocks', usageFilter', cache')
  <1> DEFINE a == LastAct(Top)
             kb == a.kb
             v == Top.filter
             back == [Top EXCEPT !.acts = OuterActs(Top)]
             id == usageFilter[kb.p][a.env.name]
             real == [back EXCEPT !.cfgs = @ \cup
                        (a.env.filter.feats \cap script.cond[kb.p])]
             always == blocks[kb.p][id].always
             block == Visit(back, BlockKB(kb.p, id), a.env, always, TRUE)
  <1>1. TopIs("getconfig") /\ Top.acts # <<>> /\ a.call = None /\ a.left = {}
    BY DEF LeaveKB
  <1>2. /\ GoodGet(Top) /\ GetSearched(stack, configs, Top) /\ GetFull(blocks, Top)
        /\ stack # <<>> /\ v \in Variant /\ Top.p \in Prj
        /\ a \in Act /\ a.env.name = v
    BY <1>1, TopGetSearched, TopGetFull
  <1>3. UNCHANGED <<configs, blocks, usageFilter, cache>>
    BY DEF LeaveKB, tables, usages
  <1>4. GoodGet(back)
    BY <1>1, <1>2, GoodWithoutLast
  <1>5. /\ back.p = Top.p /\ back.filter = v /\ back.seen = Top.seen
        /\ back.acts = OuterActs(Top) /\ Top.seen \subseteq KB
        /\ \A k \in Top.seen : BlockExists(k)
    BY <1>2 DEF GoodGet, GetFrame, SoundGet
  <1>6. GetReached(Top)
    BY <1>1, TopGetReached
  <1> HIDE DEF a
  <1>7. ASSUME FreeOfCycles(Top.p)
        PROVE  /\ a.kb \in Top.seen
               /\ \A j \in 1 .. Len(back.acts) : back.acts[j].kb \in back.seen
               /\ \A t \in back.seen : (t.tag = "usage" /\ t.p \in script.real) =>
                     BlockKB(t.p, v) \in back.seen \/ Walking(back.acts, t) \/ t = a.kb
               /\ \A t \in back.seen : t.tag = "block" =>
                     \A d \in blocks[t.p][t.v].always :
                        UsageKB(d.to) \in back.seen \/ Pending(back.acts, t, d)
    <2>1. /\ SeenFull(blocks, v, Top.seen, Top.acts)
          /\ \A j \in 1 .. Len(Top.acts) : Top.acts[j].kb \in Top.seen
      BY <1>2, <1>7 DEF GetFull
    <2>2. /\ OuterActs(Top) \in Seq(Act) /\ a.kb \in Top.seen
          /\ \A j \in 1 .. Len(OuterActs(Top)) : OuterActs(Top)[j].kb \in Top.seen
          /\ \A t : Walking(Top.acts, t) => Walking(OuterActs(Top), t) \/ t = a.kb
          /\ \A k, d : Pending(Top.acts, k, d) =>
                \/ Pending(OuterActs(Top), k, d)
                \/ a.kb = k /\ (d \in a.left \/ a.call = d)
      BY <1>1, <1>2, <2>1, LastActFull DEF a
    <2> HIDE DEF back
    <2>3. ASSUME NEW t \in back.seen, t.tag = "block", NEW d \in blocks[t.p][t.v].always
          PROVE  UsageKB(d.to) \in back.seen \/ Pending(back.acts, t, d)
      <3>1. blocks[t.p][t.v] \in Block
        BY <1>5, <2>3, TypedParts DEF TypeOK, KB, BlockExists
      <3>2. d # None
        BY <3>1, NoneDistinct DEF Block
      <3>3. UsageKB(d.to) \in Top.seen \/ Pending(Top.acts, t, d)
        BY <1>5, <2>1, <2>3 DEF SeenFull
      <3> QED
        BY <1>1, <1>5, <2>2, <3>2, <3>3
    <2> QED
      BY <1>5, <2>1, <2>2, <2>3 DEF SeenFull
  <1>8. ASSUME NEW g, stack' = Replace(g), g.fn = "getconfig", g.p = Top.p,
               FreeOfCycles(Top.p) => GetFull(blocks, g)
        PROVE  CompleteIn(stack', configs', blocks', usageFilter', cache')
    <2>1. GetFull(blocks, g)
      BY <1>8 DEF GetFull
    <2> QED
      BY <1>2, <1>3, <1>8, <2>1, FindFull
  <1>9. ASSUME FreeOfCycles(Top.p), kb.tag = "usage", kb.p \in script.real
        PROVE  id # None
    <2>1. kb \in Top.seen /\ kb.p \in Prj
      BY <1>5, <1>7, <1>9 DEF KB
    <2>2. Handled(stack, configs, kb.p, v)
      BY <1>2, <1>9, <2>1 DEF GetSearched, SeenSearched
    <2>3. kb.p \in LeadsTo(Top.p)
      <3>1. SeenSound(Top.p, v, kb)
        BY <1>6, <2>1 DEF GetReached
      <3> QED
        BY <1>9, <3>1 DEF SeenSound, RealKB
    <2>4. configs[kb.p][v] # None
      <3> HIDE DEF kb
      <3> QED
        BY <1>1, <1>2, <1>9, <2>2, <2>3, NotUnderWay DEF Handled
    <2> HIDE DEF kb
    <2> QED
      BY <1>2, <2>1, <2>4 DEF CompleteIn, TablesFull
  <1>10. CASE UNCHANGED stack
    BY <1>3, <1>10 DEF CompleteIn
  <1>11. ASSUME kb.tag # "usage" \/ id = None, FreeOfCycles(Top.p)
         PROVE  GetFull(blocks, back)
    <2> HIDE DEF kb, id, back
    <2>1. kb = a.kb
      BY DEF kb
    <2>2. SeenFull(blocks, v, back.seen, back.acts)
      BY <1>7, <1>9, <1>11, <2>1 DEF SeenFull
    <2> QED
      BY <1>5, <1>7, <1>11, <2>2 DEF GetFull
  <1>12. CASE (kb.tag # "usage" \/ id = None) /\ stack' = Replace(back)
    <2> HIDE DEF back
    <2> QED
      BY <1>4, <1>5, <1>8, <1>11, <1>12 DEF GoodGet
  <1>13. CASE kb.tag = "real" /\ stack' = Replace(real)
    <2>1. /\ real.fn = "getconfig" /\ real.p = back.p /\ real.filter = back.filter
          /\ real.acts = back.acts /\ real.seen = back.seen
      BY <1>4 DEF GoodGet, GetFrame
    <2> HIDE DEF back, real
    <2>2. FreeOfCycles(Top.p) => GetFull(blocks, real)
      BY <1>11, <1>13, <2>1 DEF GetFull
    <2> QED
      BY <1>5, <1>8, <1>13, <2>1, <2>2
  <1>14. CASE id # None /\ stack' = Replace(block)
    <2>1. kb.p \in Prj /\ a.env \in Env
      BY <1>2 DEF Act, KB
    <2>2. id = v
      BY <1>2, <1>14, <2>1 DEF LinedIn, TablesLined, NameFor, Ordinary
    <2>3. blocks[kb.p][id] # None
      BY <1>2, <1>14, <2>1, TypedParts DEF TablesSound
    <2>4. always \subseteq Edge
      <3>1. blocks[kb.p][id] \in Block
        BY <1>2, <2>1, <2>2, <2>3, TypedParts DEF TypeOK
      <3> QED
        BY <3>1 DEF Block
    <2> DEFINE k == BlockKB(kb.p, id)
    <2>5. /\ k \in KB /\ k.tag = "block" /\ blocks[k.p][k.v].always = always
          /\ k = BlockKB(a.kb.p, v)
      BY <1>2, <2>1, <2>2 DEF BlockKB, KB
    <2>6. block = Visit(back, k, a.env, always, TRUE)
      BY DEF k
    <2> HIDE DEF kb, id, always, k, back, block
    <2>7. ASSUME FreeOfCycles(Top.p) PROVE GetFull(blocks, block)
      <3>1. \A t \in back.seen : (t.tag = "usage" /\ t.p \in script.real) =>
               BlockKB(t.p, back.filter) \in back.seen \cup {k} \/ Walking(back.acts, t)
        BY <1>5, <1>7, <2>5, <2>7
      <3>2. \A t \in back.seen : t.tag = "block" =>
               \A d \in blocks[t.p][t.v].always :
                  UsageKB(d.to) \in back.seen \cup {k} \/ Pending(back.acts, t, d)
        BY <1>7, <2>7
      <3>3. GetFull(blocks, Visit(back, k, a.env, always, TRUE))
        BY <1>4, <1>7, <2>1, <2>4, <2>5, <2>7, <3>1, <3>2, VisitFull
      <3> QED
        BY <2>6, <3>3
    <2>8. block.fn = "getconfig" /\ block.p = Top.p
      BY <1>4, <1>5, <2>6 DEF Visit, GoodGet, GetFrame
    <2> QED
      BY <1>8, <1>14, <2>7, <2>8
  <1> QED
    BY <1>10, <1>12, <1>13, <1>14 DEF LeaveKB, a

(* The tables found by getconfig go to its cache. *)
LEMMA CacheFull ==
    ASSUME BakeInv, TablesFull(configs, blocks, usageFilter, cache),
           NEW g, GoodGet(g), g.acts = <<>>, GetFull(blocks, g), CacheFound(g)
    PROVE  TablesFull(configs, blocks, usageFilter, cache')
  <1> DEFINE found == [seen |-> g.seen, cfgs |-> g.cfgs]
  <1>1. g.p \in Prj /\ g.field \in Field /\ g.filter \in Variant
    BY DEF GoodGet, GetFrame
  <1>2. cache \in [Prj -> [Field -> [Variant -> Found \cup {None}]]]
    BY TypedParts DEF TypeOK
  <1>3. \A p \in Prj, f \in Field, v \in Variant :
           \/ p = g.p /\ v = g.filter /\ cache'[p][f][v] = found
           \/ cache'[p][f][v] = cache[p][f][v]
    BY <1>1, <1>2 DEF CacheFound
  <1>4. FreeOfCycles(g.p) => SeenFull(blocks, g.filter, found.seen, <<>>)
    BY DEF GetFull
  <1> HIDE DEF found
  <1> QED
    BY <1>3, <1>4 DEF TablesFull

(* getfilter ending. *)
LEMMA GotFilterFull ==
    ASSUME BakeInv, BakeInv', Tracked, Reached, Ordinary,
           CompleteIn(stack, configs, blocks, usageFilter, cache), GotFilter
    PROVE  CompleteIn(stack', configs', blocks', usageFilter', cache')
  <1> DEFINE g == GetStart(Top.p, Top.filter, "all")
  <1>1. /\ TopIs("getconfig") /\ stack' = Replace(g) /\ CacheFound(Top)
        /\ Top.acts = <<>>
    BY DEF GotFilter
  <1>2. GoodGet(Top) /\ stack # <<>> /\ Top.p \in script.real /\ GetFull(blocks, Top)
    BY <1>1, TopGetReached, TopGetFull
  <1>3. Top.p \in Prj /\ Top.filter \in Variant
    BY <1>2 DEF GoodGet, GetFrame
  <1>4. g.fn = "getconfig" /\ GetFull(blocks, g)
    BY <1>2, <1>3, GetStartReads, GetStartFull, TypedParts DEF Field, CompleteIn
  <1>5. TablesFull(configs, blocks, usageFilter, cache')
    BY <1>1, <1>2, CacheFull DEF CompleteIn
  <1>6. g \in Frame
    BY <1>1, <1>2, NewTop
  <1> HIDE DEF g
  <1>7. FramesFull(stack', blocks)
    BY <1>1, <1>2, <1>4, <1>6, ReplaceFull DEF CompleteIn
  <1>8. UNCHANGED <<configs, blocks, usageFilter>>
    BY DEF GotFilter, tables, usages
  <1> QED
    BY <1>5, <1>7, <1>8 DEF CompleteIn

(* getconfig hands the merged configuration to its caller. *)
LEMMA GotConfigFull ==
    ASSUME BakeInv, Tracked, Reached, Ordinary,
           LinedIn(stack, configs, blocks, usageFilter, cache),
           SearchedIn(stack, configs, blocks, bvMap, cache),
           CompleteIn(stack, configs, blocks, usageFilter, cache), GotConfig
    PROVE  CompleteIn(stack', configs', blocks', usageFilter', cache')
  <1> DEFINE n == Len(stack) - 1
             cfg == MergedConfig(Top)
             f == [stack[n] EXCEPT !.cfg = cfg, !.left = cfg.depends]
  <1>1. /\ n \in Nat \ {0} /\ Len(stack') = n /\ stack[n] \in AddFrame
        /\ stack'[n] = f /\ \A i \in 1 .. n - 1 : stack'[i] = stack[i]
        /\ stack[n].fn = "addconfig"
    BY GotConfigStack
  <1>2. TopIs("getconfig") /\ CacheFound(Top) /\ Top.acts = <<>>
    BY DEF GotConfig
  <1>3. /\ GoodGet(Top) /\ GetReached(Top) /\ Top.p \in script.real
        /\ AllAskedOf(Top.filter.feats, Top.p) /\ GetTracked(Top, stack[n])
        /\ Len(stack) \in 1 .. Len(stack)
    BY <1>2, TopGetReached
  <1>4. GetLined(Top) /\ GetSearched(stack, configs, Top) /\ GetFull(blocks, Top)
    BY <1>2, TopGetSearched, TopGetFull
  <1>5. UsedVariant(Top) = Top.filter
    <2>1. cfg.bv = Top.filter
      BY <1>3, <1>4, MergedLined DEF Ordinary
    <2> QED
      BY <2>1 DEF MergedConfig
  <1>6. FreeOfCycles(Top.p) => LinesFull(Top.p, Top.filter, cfg)
    BY <1>2, <1>3, <1>4, <1>5, MergedFull DEF CompleteIn
  <1>7. TablesFull(configs, blocks, usageFilter, cache')
    BY <1>2, <1>3, <1>4, CacheFull DEF CompleteIn
  <1>8. n \in 1 .. Len(stack) /\ Len(stack) \in Nat
    BY <1>1
  <1> HIDE DEF cfg
  <1>9. /\ f.p = Top.p /\ f.fin = Top.filter /\ f.cfg = cfg /\ f.fn = "addconfig"
    BY <1>1, <1>3 DEF AddFrame, GetTracked
  <1> HIDE DEF f
  <1>10. AddFull(f)
    BY <1>6, <1>9 DEF AddFull
  <1> HIDE DEF n
  <1>11. ASSUME NEW i \in 1 .. n
         PROVE  /\ stack'[i].fn = "addconfig" => AddFull(stack'[i])
                /\ stack'[i].fn = "getconfig" => GetFull(blocks, stack'[i])
    <2>1. i \in 1 .. Len(stack)
      BY <1>1, <1>8
    <2>2. CASE i = n
      BY <2>2, <1>1, <1>9, <1>10
    <2>3. CASE i \in 1 .. n - 1
      BY <2>1, <2>3, <1>1 DEF CompleteIn, FramesFull
    <2> QED
      BY <2>2, <2>3, <1>1
  <1>12. FramesFull(stack', blocks)
    BY <1>1, <1>11 DEF FramesFull
  <1>13. UNCHANGED <<configs, blocks, usageFilter>>
    BY DEF GotConfig, tables, usages
  <1> QED
    BY <1>7, <1>12, <1>13 DEF CompleteIn

(* Blocks that exist do not change, so what is said of walked tables stays *)
(* true of them.                                                           *)
LEMMA SeenStay ==
    ASSUME NEW k, \A p \in Prj, v \in Variant : blocks[p][v] # None => k[p][v] = blocks[p][v],
           NEW seen, seen \subseteq KB, \A t \in seen : BlockExists(t),
           NEW v, NEW acts, SeenFull(blocks, v, seen, acts)
    PROVE  SeenFull(k, v, seen, acts)
  <1>1. \A t \in seen : t.tag = "block" => k[t.p][t.v] = blocks[t.p][t.v]
    BY DEF KB, BlockExists
  <1> QED
    BY <1>1 DEF SeenFull

(* A configuration recorded and published, once. *)
LEMMA FinishConfigFull ==
    ASSUME BakeInv, Tracked, Reached, Ordinary,
           LinedIn(stack, configs, blocks, usageFilter, cache),
           SearchedIn(stack, configs, blocks, bvMap, cache),
           CompleteIn(stack, configs, blocks, usageFilter, cache), FinishConfig
    PROVE  CompleteIn(stack', configs', blocks', usageFilter', cache')
  <1> DEFINE p == Top.p
             cfg == Top.cfg
             v == Top.fin
             n == Len(stack)
  <1>1. TopIs("addconfig") /\ cfg # None
    BY DEF FinishConfig
  <1>2. /\ Top.fn = "addconfig" /\ p \in Prj /\ p \in script.real /\ cfg \in Config
        /\ v \in Variant /\ cfg.bv = v /\ Top.init = v
    BY <1>1, TopAddSearched
  <1>3. /\ configs'[p][v] = cfg
        /\ \A q \in Prj, w \in Variant :
              (q = p /\ w = v) \/ configs'[q][w] = configs[q][w]
        /\ \A q \in Prj, w \in Variant :
              \/ q = p /\ w = v /\ blocks'[q][w] = UsageBlock(p, cfg)
              \/ blocks'[q][w] = blocks[q][w]
        /\ n \in Nat \ {0} /\ Len(stack') = n - 1
        /\ \A i \in 1 .. n - 1 : stack'[i] = stack[i]
        /\ cache' = cache
    BY <1>2, FinishFacts
  <1>4. /\ usageFilter[p][v] # None => blocks' = blocks
        /\ \A q \in Prj, w \in Variant : usageFilter'[q][w] =
              IF q = p /\ w = v
                THEN IF usageFilter[p][v] # None THEN usageFilter[p][v] ELSE v
                ELSE usageFilter[q][w]
    <2>1. usageFilter \in [Prj -> [Variant -> Variant \cup {None}]]
      BY TypedParts DEF TypeOK
    <2> DEFINE id == IF usageFilter[p][v] # None THEN usageFilter[p][v] ELSE v
    <2>2. /\ usageFilter' = [usageFilter EXCEPT ![p] = [@ EXCEPT ![v] = id, ![v] = id]]
          /\ usageFilter[p][v] # None => blocks' = blocks
      BY <1>2 DEF FinishConfig
    <2> HIDE DEF id, p, v
    <2>3. \A q \in Prj, w \in Variant : usageFilter'[q][w] =
             IF q = p /\ w = v THEN id ELSE usageFilter[q][w]
      BY <1>2, <2>1, <2>2
    <2> QED
      BY <2>2, <2>3 DEF id
  <1>5. TablesFull(configs, blocks, usageFilter, cache) /\ FramesFull(stack, blocks)
    BY DEF CompleteIn
  <1>6. FreeOfCycles(p) => LinesFull(p, v, cfg)
    <2>1. n \in 1 .. n /\ Top = stack[n]
      BY <1>3 DEF Top
    <2>2. AddFull(Top)
      BY <1>2, <1>5, <2>1 DEF FramesFull
    <2> QED
      BY <1>1, <2>2 DEF AddFull
  <1>7. FreeOfCycles(p) => BlockFull(p, v, UsageBlock(p, cfg))
    BY <1>2, <1>6, UsageBlockFull, TypedParts
  <1> HIDE DEF p, cfg, v, n
  <1>8. \A q \in Prj, w \in Variant :
           /\ blocks[q][w] # None => usageFilter[q][w] # None
           /\ configs[q][w] # None => usageFilter[q][w] # None
    BY <1>5 DEF TablesFull
  <1>9. \A q \in Prj, w \in Variant : blocks[q][w] # None => blocks'[q][w] = blocks[q][w]
    BY <1>3, <1>4, <1>8
  <1>10. v # None
    BY <1>2, NoneDistinct
  <1>11. \A q \in Prj, w \in Variant :
            (configs'[q][w] # None \/ blocks'[q][w] # None) => usageFilter'[q][w] # None
    BY <1>3, <1>4, <1>8, <1>10
  <1>12. TablesFull(configs', blocks', usageFilter', cache')
    <2> SUFFICES ASSUME NEW q \in Prj, NEW w \in Variant, FreeOfCycles(q)
                 PROVE  /\ configs'[q][w] # None => LinesFull(q, w, configs'[q][w])
                        /\ blocks'[q][w] # None => BlockFull(q, w, blocks'[q][w])
                        /\ \A f \in Field : cache'[q][f][w] # None =>
                              SeenFull(blocks', w, cache'[q][f][w].seen, <<>>)
      BY <1>11 DEF TablesFull
    <2>1. configs'[q][w] # None => LinesFull(q, w, configs'[q][w])
      BY <1>3, <1>5, <1>6 DEF TablesFull
    <2>2. blocks'[q][w] # None => BlockFull(q, w, blocks'[q][w])
      BY <1>3, <1>5, <1>7 DEF TablesFull
    <2>3. ASSUME NEW f \in Field, cache[q][f][w] # None
          PROVE  SeenFull(blocks', w, cache[q][f][w].seen, <<>>)
      <3>1. cache[q][f][w] \in Found /\ \A t \in cache[q][f][w].seen : BlockExists(t)
        BY <2>3, TypedParts DEF TypeOK, TablesSound
      <3>2. cache[q][f][w].seen \subseteq KB
        BY <3>1 DEF Found
      <3>3. SeenFull(blocks, w, cache[q][f][w].seen, <<>>)
        BY <1>5, <2>3 DEF TablesFull
      <3> QED
        BY <1>9, <3>1, <3>2, <3>3, SeenStay
    <2> QED
      BY <1>3, <2>1, <2>2, <2>3
  <1>13. ASSUME NEW i \in 1 .. n - 1
         PROVE  /\ stack'[i].fn = "addconfig" => AddFull(stack'[i])
                /\ stack'[i].fn = "getconfig" => GetFull(blocks', stack'[i])
    <2>1. i \in 1 .. Len(stack) /\ stack'[i] = stack[i]
      BY <1>3 DEF n
    <2>2. /\ stack[i].fn = "addconfig" => AddFull(stack[i])
          /\ stack[i].fn = "getconfig" => GetFull(blocks, stack[i])
      BY <1>5, <2>1 DEF FramesFull
    <2>3. ASSUME stack[i].fn = "getconfig" PROVE GetFull(blocks', stack[i])
      <3>1. StackSound(stack) /\ stack[i] \in Frame
        BY <2>1, StackFacts, ElementOfSeq
      <3>2. stack[i] \in GetFrame /\ SoundGet(stack[i])
        BY <2>1, <2>3, <3>1, FrameKinds DEF StackSound
      <3>3. stack[i].seen \subseteq KB /\ \A t \in stack[i].seen : BlockExists(t)
        BY <3>2 DEF GetFrame, SoundGet
      <3> QED
        BY <1>9, <2>2, <2>3, <3>3, SeenStay DEF GetFull
    <2> QED
      BY <2>1, <2>2, <2>3
  <1>14. FramesFull(stack', blocks')
    BY <1>3, <1>13 DEF FramesFull
  <1> QED
    BY <1>12, <1>14 DEF CompleteIn

(* Baking a compile dependency. *)
LEMMA CompileDependFull ==
    ASSUME BakeInv, Tracked, Reached, Ordinary,
           LinedIn(stack, configs, blocks, usageFilter, cache),
           SearchedIn(stack, configs, blocks, bvMap, cache),
           CompleteIn(stack, configs, blocks, usageFilter, cache),
           NEW q \in Prj, CompileDepend(q)
    PROVE  CompleteIn(stack', configs', blocks', usageFilter', cache')
  <1> DEFINE f == [Top EXCEPT !.left = @ \ {q}]
             n == Len(stack)
  <1>1. TopIs("addconfig") /\ Top.cfg # None
    BY DEF CompileDepend
  <1>2. /\ Top \in AddFrame /\ Top.fn = "addconfig" /\ stack # <<>>
        /\ Top.fin \in Variant /\ Top.fin # AllVariant /\ Top.cfg.bv = Top.fin
    BY <1>1, TopAddSearched
  <1>3. n \in 1 .. n
    BY <1>2, StackFacts, FrontOfStack
  <1>4. AddFull(Top)
    BY <1>2, <1>3 DEF CompleteIn, FramesFull, Top
  <1>5. /\ f \in AddFrame /\ f.fn = "addconfig" /\ f.p = Top.p /\ f.init = Top.init
        /\ f.fin = Top.fin /\ f.cfg = Top.cfg
    BY <1>2 DEF AddFrame
  <1> HIDE DEF f
  <1>6. AddFull(f) /\ f \in Frame
    BY <1>4, <1>5 DEF AddFull, Frame
  <1>7. FramesFull(Replace(f), blocks)
    BY <1>2, <1>5, <1>6, ReplaceFull DEF CompleteIn
  <1>8. StackSound(Replace(f)) /\ SameCalls(stack, Replace(f))
    BY <1>2, <1>5, <1>6, ReplaceTop
  <1>9. addconfig(q, Top.fin, Replace(f)) /\ UNCHANGED <<configs, usages, cache>>
    BY <1>2 DEF CompileDepend, f
  <1>10. script.single = {} /\ MapPlain(bvMap)
    BY DEF Ordinary, SearchedIn, TablesSearched, MapPlain
  <1>11. FramesFull(stack', blocks)
    BY <1>2, <1>7, <1>8, <1>9, <1>10, CallFull DEF CompleteIn
  <1> QED
    BY <1>9, <1>11 DEF CompleteIn, usages

(* bakeall asks for a configuration. *)
LEMMA AddDefaultFull ==
    ASSUME BakeInv, Tracked, Ordinary, LoopSearched,
           SearchedIn(stack, configs, blocks, bvMap, cache),
           CompleteIn(stack, configs, blocks, usageFilter, cache), AddDefault
    PROVE  CompleteIn(stack', configs', blocks', usageFilter', cache')
  <1>1. /\ queue # <<>> /\ addconfig(current, Head(queue), stack)
        /\ UNCHANGED <<configs, usages, cache>>
    BY DEF AddDefault
  <1>2. /\ current \in Prj /\ Head(queue) \in Variant /\ Head(queue) # AllVariant
    BY <1>1, NextDefault
  <1>3. /\ StackSound(stack) /\ SameCalls(stack, stack) /\ script.single = {}
        /\ MapPlain(bvMap)
    BY StackFacts DEF SameCalls, Ordinary, SearchedIn, TablesSearched, MapPlain
  <1>4. FramesFull(stack', blocks)
    BY <1>1, <1>2, <1>3, CallFull DEF CompleteIn
  <1> QED
    BY <1>1, <1>4 DEF CompleteIn, usages

-----------------------------------------------------------------------------
(* LinkLineExact *)

(* The invariant holds before bakeall starts. *)
LEMMA CompleteInit == Init => Complete
  <1> SUFFICES ASSUME Init PROVE Complete
    OBVIOUS
  <1>1. Len(stack) = 0
    BY DEF Init
  <1>2. FramesFull(stack, blocks)
    BY <1>1 DEF FramesFull
  <1>3. TablesFull(configs, blocks, usageFilter, cache)
    BY NoneDistinct DEF Init, TablesFull
  <1> QED
    BY <1>2, <1>3 DEF Complete, CompleteIn

(* Every step keeps it. *)
LEMMA CompleteStep ==
    /\ BakeInv /\ Tracked /\ Reached /\ Lined /\ Searched /\ Complete
    /\ [Next]_vars
    => Complete'
  <1> SUFFICES ASSUME BakeInv, Tracked, Reached, Lined, Searched, Complete, [Next]_vars,
                      Ordinary
               PROVE  CompleteIn(stack', configs', blocks', usageFilter', cache')
    BY ScriptStays, FullNext
  <1>0. /\ BakeInv' /\ LinedIn(stack, configs, blocks, usageFilter, cache)
        /\ SearchedIn(stack, configs, blocks, bvMap, cache) /\ LoopSearched
        /\ CompleteIn(stack, configs, blocks, usageFilter, cache)
    BY NextInv DEF Lined, LinedIn, Searched, SearchedIn, Ordinary, Complete
  <1> DEFINE Goal == CompleteIn(stack', configs', blocks', usageFilter', cache')
  <1>1. ASSUME NEW p \in Prj, StartProject(p) PROVE Goal
    BY <1>0, <1>1 DEF StartProject, usages
  <1>2. ASSUME NEW p \in Prj, CompileDepend(p) PROVE Goal
    BY <1>0, <1>2, CompileDependFull
  <1>3. ASSUME NEW e \in Edge, Use(e) PROVE Goal
    BY <1>0, <1>3, UseFull
  <1>4. CASE AddDefault
    BY <1>0, <1>4, AddDefaultFull
  <1>5. CASE BakeallDone
    BY <1>0, <1>5 DEF BakeallDone, tables, usages
  <1>6. CASE EnterUsage
    BY <1>0, <1>6, EnterUsageFull
  <1>7. CASE LeaveKB
    BY <1>0, <1>7, LeaveKBFull
  <1>8. CASE GotFilter
    BY <1>0, <1>8, GotFilterFull
  <1>9. CASE GotConfig
    BY <1>0, <1>9, GotConfigFull
  <1>10. CASE FinishConfig
    BY <1>0, <1>10, FinishConfigFull
  <1>11. CASE UNCHANGED vars
    BY <1>0, <1>11 DEF vars, tables, usages
  <1> QED
    BY <1>1, <1>2, <1>3, <1>4, <1>5, <1>6, <1>7, <1>8, <1>9, <1>10, <1>11
       DEF Next, Halted

(* The invariant holds throughout, for every set of scripts. *)
LEMMA BakeComplete == Spec => [](BakeInv /\ Reached /\ Lined /\ Complete)
  BY BakeSearched, CompleteInit, CompleteStep, PTL DEF Spec

(* In a script without features and without projects whose one             *)
(* configuration is "All", a project that reaches no cycle of uses has all *)
(* that the propagation rules put on its link line, and nothing else       *)
(* (config.addUsageConfig, keyedblocks.getconfig and their caches, in      *)
(* whatever order pairs() walks projects and uses).                        *)
THEOREM BakeLinksExactly == Spec /\ Ordinary => []LinkLineExact
  <1>1. Ordinary /\ [Next]_vars => Ordinary'
    BY ScriptStays DEF Ordinary, HasFeatures, AllUses, OwnUses
  <1>2. BakeInv /\ Reached /\ Lined /\ Complete /\ Ordinary => LinkLineExact
    <2> SUFFICES ASSUME BakeInv, Reached, Lined, Complete, Ordinary,
                        NEW p \in script.real \ script.single, NEW v \in Variant,
                        configs[p][v] # None, FreeOfCycles(p)
                 PROVE  /\ configs[p][v].static = Reference(p, v).static
                        /\ configs[p][v].shared = Reference(p, v).shared
                        /\ configs[p][v].depends = Reference(p, v).depends
      BY DEF LinkLineExact
    <2> DEFINE c == configs[p][v]
               statics == OfKind(Reach(Statics, p), "StaticLib") \ {p}
               shareds == OfKind(Reach(Libraries, p), "SharedLib") \ {p}
    <2>1. p \in Prj /\ c \in Config
      BY TypedParts DEF TypeOK, Script
    <2>2. c.bv = v /\ ConfigLined(p, c) /\ LinesFull(p, v, c)
      BY <2>1 DEF Reached, TablesReached, Lined, TablesLined, Complete, CompleteIn,
                  TablesFull, Ordinary
    <2>3. /\ Reference(p, v).static = Targets(statics, v)
          /\ Reference(p, v).shared = Targets(shareds, v)
          /\ Reference(p, v).depends = OfKind(Reach(Kind, p), "Command")
      BY DEF Reference, Statics, Libraries
    <2>4. \A ps : Targets(ps, v) = {Node(q, v) : q \in ps}
      BY DEF Targets, Node, Ordinary
    <2> HIDE DEF c, statics, shareds
    <2>5. c.static \subseteq Target /\ c.shared \subseteq Target
      BY <2>1 DEF Config
    <2>6. \A t \in c.static : t.p \in statics /\ t = Node(t.p, v)
      BY <2>2, <2>5 DEF ConfigLined, LinesSound, statics, NameFor, Ordinary, Target, Node
    <2>7. \A t \in c.shared : t.p \in shareds /\ t = Node(t.p, v)
      BY <2>2, <2>5 DEF ConfigLined, LinesSound, shareds, NameFor, Ordinary, Target, Node
    <2>8. \A q \in statics : Node(q, v) \in c.static
      BY <2>2 DEF LinesFull, statics
    <2>9. \A q \in shareds : Node(q, v) \in c.shared
      BY <2>2 DEF LinesFull, shareds
    <2>10. c.static = {Node(q, v) : q \in statics}
      BY <2>6, <2>8
    <2>11. c.shared = {Node(q, v) : q \in shareds}
      BY <2>7, <2>9
    <2>12. c.depends = OfKind(Reach(Kind, p), "Command")
      BY <2>2 DEF ConfigLined, LinesSound, LinesFull
    <2> QED
      BY <2>3, <2>4, <2>10, <2>11, <2>12 DEF c
  <1> QED
    BY <1>1, <1>2, BakeComplete, PTL DEF Spec
=============================================================================
