-------------------------- MODULE NinjaVarsProofs --------------------------
(***************************************************************************)
(* Proofs about the build-variable scope of the ninja action, for every    *)
(* set of names and values, every mangling and every bound.                *)
(***************************************************************************)
EXTENDS NinjaVars, TLAPS

\* Whatever a scope records was predefined, is blank or was declared.
RecordedIsWritten ==
    \A n \in DOMAIN nameToValue :
        \/ nameToValue[n] = Blank
        \/ <<n, nameToValue[n]>> \in Predefined
        \/ \E i \in DOMAIN decl : decl[i] = <<n, nameToValue[n]>>

\* Whatever was declared is recorded, with the same value.
WrittenIsRecorded ==
    \A i \in DOMAIN decl : Held(decl[i][1], decl[i][2])

\* The inductive invariant: the types, the agreement of the two tables, and
\* the agreement of the tables with the file in both directions.
Inv ==
    /\ TypeOK
    /\ TablesAgree
    /\ RecordedIsWritten
    /\ WrittenIsRecorded
    /\ DeclaredOnce
    /\ RefsResolve

\* The names that set can return for a name that is asked for.
LEMMA SetReturnsName ==
    ASSUME NEW n \in BaseNames, NEW v \in Value, NEW m, NEW k \in 1 .. MaxIdx,
           TypeOK, SetReturns(n, v, m, k)
    PROVE  m \in Name /\ Usable(m, v) /\ k \in Nat
  <1>1. k \in Nat /\ BaseNames \subseteq Name
    BY NameAssumption, BoundAssumption
  <1>2. CASE m = n /\ Usable(n, v)
    BY <1>1, <1>2
  <1>3. CASE k \in (findNameIdx[n] + 1) .. MaxIdx /\ m = Mangle[n][k] /\ Usable(m, v)
    <2>1. findNameIdx[n] \in Nat \ {0}
      BY DEF TypeOK
    <2>2. k \in 2 .. MaxIdx
      BY <1>3, <2>1, BoundAssumption
    <2> QED BY <1>1, <1>3, <2>2, NameAssumption
  <1> QED BY <1>2, <1>3 DEF SetReturns

\* What a call of set, with the line its caller prints, does to the invariant.
LEMMA SetStep ==
    ASSUME Inv,
           NEW n \in BaseNames, NEW v \in Value, NEW m, NEW k \in 1 .. MaxIdx,
           SetReturns(n, v, m, k), Store(n, v, m, k), Declare(m, v), Refer(m, v),
           v # Blank,
           valueToWeight' \in [Value -> Nat]
    PROVE  Inv'
  <1>1. m \in Name /\ Usable(m, v) /\ k \in Nat \ {0}
    BY SetReturnsName, BoundAssumption DEF Inv
  <1>2. findNameIdx' \in [BaseNames -> Nat \ {0}]
    BY <1>1 DEF Store, Inv, TypeOK
  <1>3. refs' \subseteq Name \X Value
    BY <1>1 DEF Refer, Inv, TypeOK
  <1>4. CASE Held(m, v)
    <2>1. UNCHANGED <<nameToValue, valueToName, decl>>
      BY <1>4 DEF Store, Declare
    <2>2. TypeOK' /\ TablesAgree' /\ RecordedIsWritten' /\ WrittenIsRecorded' /\ DeclaredOnce'
      BY <1>2, <1>3, <2>1
      DEF Inv, TypeOK, TablesAgree, RecordedIsWritten, WrittenIsRecorded, DeclaredOnce, Held, Predefined
    <2>3. <<m, v>> \in Predefined \/ \E i \in DOMAIN decl : decl[i] = <<m, v>>
      BY <1>4 DEF Inv, RecordedIsWritten, Held
    <2>4. RefsResolve'
      BY <2>1, <2>3 DEF Inv, RefsResolve, Refer, Predefined
    <2> QED BY <2>2, <2>4 DEF Inv
  <1>5. CASE ~Held(m, v)
    <2>1. m \notin DOMAIN nameToValue
      BY <1>1, <1>5 DEF Usable, Held
    <2>2. /\ nameToValue' = Put(nameToValue, m, v)
          /\ valueToName' = Put(valueToName, v, m)
          /\ decl' = Append(decl, <<m, v>>)
      BY <1>5 DEF Store, Declare
    <2>3. /\ DOMAIN nameToValue' = DOMAIN nameToValue \cup {m}
          /\ nameToValue'[m] = v
          /\ \A x \in DOMAIN nameToValue : nameToValue'[x] = nameToValue[x]
      BY <2>1, <2>2 DEF Put
    <2>4. /\ DOMAIN valueToName' = DOMAIN valueToName \cup {v}
          /\ valueToName'[v] = m
          /\ \A x \in DOMAIN valueToName : x # v => valueToName'[x] = valueToName[x]
      BY <2>2 DEF Put
    <2>5. /\ decl \in Seq(Name \X Value)
          /\ decl' \in Seq(Name \X Value)
          /\ DOMAIN decl' = DOMAIN decl \cup {Len(decl) + 1}
          /\ decl'[Len(decl) + 1] = <<m, v>>
          /\ \A i \in DOMAIN decl : decl'[i] = decl[i] /\ i # Len(decl) + 1
      BY <1>1, <2>2 DEF Inv, TypeOK
    <2>6. TypeOK'
      BY <1>1, <1>2, <1>3, <2>3, <2>4, <2>5 DEF Inv, TypeOK
    <2>7. TablesAgree'
      BY <2>1, <2>3, <2>4 DEF Inv, TablesAgree
    <2>8. RecordedIsWritten'
      <3> SUFFICES ASSUME NEW x \in DOMAIN nameToValue'
                   PROVE  \/ nameToValue'[x] = Blank
                          \/ <<x, nameToValue'[x]>> \in Predefined
                          \/ \E i \in DOMAIN decl' : decl'[i] = <<x, nameToValue'[x]>>
        BY DEF RecordedIsWritten, Predefined
      <3>1. CASE x = m
        BY <2>3, <2>5, <3>1
      <3>2. CASE x # m
        <4>1. x \in DOMAIN nameToValue /\ nameToValue'[x] = nameToValue[x]
          BY <2>3, <3>2
        <4> QED BY <2>5, <4>1 DEF Inv, RecordedIsWritten
      <3> QED BY <3>1, <3>2
    <2>9. WrittenIsRecorded'
      BY <2>1, <2>3, <2>5 DEF Inv, WrittenIsRecorded, Held
    <2>10. DeclaredOnce'
      BY <2>1, <2>5 DEF Inv, WrittenIsRecorded, DeclaredOnce, Held
    <2>11. RefsResolve'
      BY <2>5 DEF Inv, RefsResolve, Refer, Predefined
    <2> QED BY <2>6, <2>7, <2>8, <2>9, <2>10, <2>11 DEF Inv
  <1> QED BY <1>4, <1>5

\* Recording a blank writes nothing and looks nothing up.
LEMMA BlankStep ==
    ASSUME Inv, NEW n \in BaseNames, SetBlank(n)
    PROVE  Inv'
  <1>1. PICK k \in 1 .. MaxIdx, m \in {n} \cup {Mangle[n][i] : i \in 2 .. MaxIdx} :
            SetReturns(n, Blank, m, k) /\ Store(n, Blank, m, k)
    BY DEF SetBlank
  <1>2. Blank \in Value
    BY ValueAssumption
  <1>3. m \in Name /\ Usable(m, Blank) /\ k \in Nat \ {0}
    BY <1>1, <1>2, SetReturnsName, BoundAssumption DEF Inv
  <1>4. /\ UNCHANGED <<valueToWeight, decl, refs>>
        /\ findNameIdx' \in [BaseNames -> Nat \ {0}]
    BY <1>1, <1>3 DEF SetBlank, Store, Inv, TypeOK
  <1>5. CASE Held(m, Blank)
    <2>1. UNCHANGED <<nameToValue, valueToName>>
      BY <1>1, <1>5 DEF Store
    <2> QED
      BY <1>4, <2>1 DEF Inv, TypeOK, TablesAgree, RecordedIsWritten, WrittenIsRecorded,
                        DeclaredOnce, RefsResolve, Held, Predefined
  <1>6. CASE ~Held(m, Blank)
    <2>1. m \notin DOMAIN nameToValue
      BY <1>3, <1>6 DEF Usable, Held
    <2>2. /\ nameToValue' = Put(nameToValue, m, Blank)
          /\ valueToName' = Put(valueToName, Blank, m)
      BY <1>1, <1>6 DEF Store
    <2>3. /\ DOMAIN nameToValue' = DOMAIN nameToValue \cup {m}
          /\ nameToValue'[m] = Blank
          /\ \A x \in DOMAIN nameToValue : nameToValue'[x] = nameToValue[x]
      BY <2>1, <2>2 DEF Put
    <2>4. /\ DOMAIN valueToName' = DOMAIN valueToName \cup {Blank}
          /\ valueToName'[Blank] = m
          /\ \A x \in DOMAIN valueToName : x # Blank => valueToName'[x] = valueToName[x]
      BY <2>2 DEF Put
    <2>5. TypeOK'
      BY <1>2, <1>3, <1>4, <2>3, <2>4 DEF Inv, TypeOK
    <2>6. TablesAgree' /\ RecordedIsWritten' /\ WrittenIsRecorded'
      BY <1>4, <2>1, <2>3, <2>4
      DEF Inv, TablesAgree, RecordedIsWritten, WrittenIsRecorded, Held, Predefined
    <2>7. DeclaredOnce' /\ RefsResolve'
      BY <1>4 DEF Inv, DeclaredOnce, RefsResolve, Predefined
    <2> QED BY <2>5, <2>6, <2>7 DEF Inv
  <1> QED BY <1>5, <1>6

\* A value that has a name can be written as that name.
LEMMA LookupStep ==
    ASSUME Inv, NEW v \in DOMAIN valueToName, v # Blank, Refer(valueToName[v], v),
           UNCHANGED <<nameToValue, valueToName, findNameIdx, decl>>,
           valueToWeight' \in [Value -> Nat]
    PROVE  Inv'
  <1>1. /\ valueToName[v] \in DOMAIN nameToValue
        /\ nameToValue[valueToName[v]] = v
        /\ valueToName[v] \in Name /\ v \in Value
    BY DEF Inv, TablesAgree, TypeOK
  <1>2. \/ <<valueToName[v], v>> \in Predefined
        \/ \E i \in DOMAIN decl : decl[i] = <<valueToName[v], v>>
    BY <1>1 DEF Inv, RecordedIsWritten
  <1>3. RefsResolve'
    BY <1>2 DEF Inv, RefsResolve, Refer, Predefined
  <1>4. TypeOK'
    BY <1>1 DEF Inv, TypeOK, Refer
  <1> QED
    BY <1>3, <1>4 DEF Inv, TablesAgree, RecordedIsWritten, WrittenIsRecorded,
                      DeclaredOnce, Held, Predefined

\* The scope newScope makes satisfies the invariant.
LEMMA InitInv == Init => Inv
  <1> SUFFICES ASSUME Init PROVE Inv
    OBVIOUS
  <1>1. nameToValue = [n \in {EmptyName, "builddir", "root", "tmp"} |->
            IF n = EmptyName THEN Blank ELSE IF n = "builddir" THEN BuildDir
            ELSE IF n = "root" THEN RepoRoot ELSE Blank]
    BY ScopeNameAssumption DEF Init
  <1>2. /\ DOMAIN valueToName = {RepoRoot, BuildDir, Blank}
        /\ valueToName[RepoRoot] = "root"
        /\ BuildDir # RepoRoot => valueToName[BuildDir] = "builddir"
        /\ valueToName[Blank] = "tmp"
    BY ValueAssumption DEF Init
  <1>3. TypeOK
    BY <1>1, <1>2, ScopeNameAssumption, ValueAssumption DEF Init, TypeOK
  <1>4. TablesAgree
    BY <1>1, <1>2, ScopeNameAssumption, ValueAssumption DEF TablesAgree
  <1>5. RecordedIsWritten
    BY <1>1, ScopeNameAssumption DEF RecordedIsWritten, Predefined
  <1> QED
    BY <1>3, <1>4, <1>5 DEF Init, Inv, WrittenIsRecorded, DeclaredOnce, RefsResolve

\* Every call of a caller keeps the invariant.
LEMMA StepInv == Inv /\ [Next]_vars => Inv'
  <1> SUFFICES ASSUME Inv, [Next]_vars PROVE Inv'
    OBVIOUS
  <1>1. ASSUME NEW n \in BaseNames, NEW v \in Value, SetVar(n, v) PROVE Inv'
    <2>1. valueToWeight' \in [Value -> Nat]
      BY <1>1 DEF SetVar, Inv, TypeOK
    <2> QED BY <1>1, <2>1, SetStep DEF SetVar
  <1>2. ASSUME NEW n \in BaseNames, SetBlank(n) PROVE Inv'
    BY <1>2, BlankStep
  <1>3. ASSUME NEW v \in Value, GetBest(v) PROVE Inv'
    <2>1. valueToWeight' \in [Value -> Nat]
      BY <1>3 DEF GetBest, Inv, TypeOK
    <2> QED BY <1>3, <2>1, LookupStep DEF GetBest
  <1>4. ASSUME NEW v \in Value, NEW w \in Weights, NEW n \in BaseNames, GetBuildVars(v, w, n)
        PROVE  Inv'
    <2>1. valueToWeight' \in [Value -> Nat]
      BY <1>4, BoundAssumption DEF GetBuildVars, Inv, TypeOK
    <2>2. v # Blank
      BY <1>4 DEF GetBuildVars
    <2>3. CASE /\ v \in DOMAIN valueToName
               /\ Refer(valueToName[v], v)
               /\ UNCHANGED <<nameToValue, valueToName, findNameIdx, decl>>
      BY <2>1, <2>2, <2>3, LookupStep
    <2>4. CASE \E k \in 1 .. MaxIdx, m \in {n} \cup {Mangle[n][i] : i \in 2 .. MaxIdx} :
                 SetReturns(n, v, m, k) /\ Store(n, v, m, k) /\ Declare(m, v) /\ Refer(m, v)
      BY <2>1, <2>2, <2>4, SetStep
    <2>5. CASE UNCHANGED <<nameToValue, valueToName, findNameIdx, decl, refs>>
      BY <2>1, <2>5 DEF Inv, TypeOK, TablesAgree, RecordedIsWritten, WrittenIsRecorded,
                        DeclaredOnce, RefsResolve, Held, Predefined
    <2> QED BY <1>4, <2>3, <2>4, <2>5 DEF GetBuildVars
  <1>5. CASE UNCHANGED vars
    BY <1>5 DEF vars, Inv, TypeOK, TablesAgree, RecordedIsWritten, WrittenIsRecorded,
                DeclaredOnce, RefsResolve, Held, Predefined
  <1> QED BY <1>1, <1>2, <1>3, <1>4, <1>5 DEF Next

\* The scope's tables stay well-typed and agree with each other, and each
\* ${name} in buildedges.ninja was declared once, before it was used, with the
\* value it stands for (ninjaVar:set, getName, getBest, getBuildVars).
THEOREM ScopeCorrect ==
    Spec => [](TypeOK /\ TablesAgree /\ DeclaredOnce /\ RefsResolve)
  <1>1. Inv => TypeOK /\ TablesAgree /\ DeclaredOnce /\ RefsResolve
    BY DEF Inv
  <1> QED BY <1>1, InitInv, StepInv, PTL DEF Spec

\* nameToValue and valueToName never disagree, whichever of set, getBest and
\* getBuildVars wrote them: a name found for a value stands for that value.
THEOREM ScopeTablesAgree == Spec => []TablesAgree
  BY ScopeCorrect, PTL

\* No scope writes two declarations of one variable, although set returns a
\* name that is already there when the value is the same (ninjaVar:set).
THEOREM ScopeDeclaresOnce == Spec => []DeclaredOnce
  BY ScopeCorrect, PTL

\* No call of ninjaVar:set ever gives a recorded name another value.
THEOREM NamesKeepValues == Spec => NamesNeverRebound
  <1> DEFINE Kept == \A n \in DOMAIN nameToValue :
                        n \in DOMAIN nameToValue' /\ nameToValue'[n] = nameToValue[n]
  <1>1. Inv /\ [Next]_vars => [Kept]_vars
    <2> SUFFICES ASSUME Inv, Next PROVE Kept
      BY DEF vars
    <2>1. ASSUME NEW n \in BaseNames, NEW v \in Value, NEW m, NEW k \in 1 .. MaxIdx,
                 SetReturns(n, v, m, k), Store(n, v, m, k)
          PROVE  Kept
      <3>1. Usable(m, v)
        BY <2>1, SetReturnsName DEF Inv
      <3>2. CASE Held(m, v)
        BY <2>1, <3>2 DEF Store
      <3>3. CASE ~Held(m, v)
        <4>1. m \notin DOMAIN nameToValue
          BY <3>1, <3>3 DEF Usable, Held
        <4>2. nameToValue' = Put(nameToValue, m, v)
          BY <2>1, <3>3 DEF Store
        <4> QED BY <4>1, <4>2 DEF Put
      <3> QED BY <3>2, <3>3
    <2>2. CASE \E n \in BaseNames, v \in Value : SetVar(n, v)
      BY <2>1, <2>2 DEF SetVar
    <2>3. CASE \E n \in BaseNames : SetBlank(n)
      BY <2>1, <2>3, ValueAssumption DEF SetBlank
    <2>4. CASE \E v \in Value : GetBest(v)
      BY <2>4 DEF GetBest
    <2>5. CASE \E v \in Value, w \in Weights, n \in BaseNames : GetBuildVars(v, w, n)
      BY <2>1, <2>5 DEF GetBuildVars
    <2> QED BY <2>2, <2>3, <2>4, <2>5 DEF Next
  <1> QED BY <1>1, InitInv, StepInv, PTL DEF Spec, NamesNeverRebound

=============================================================================
