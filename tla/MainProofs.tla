----------------------------- MODULE MainProofs -----------------------------
(***************************************************************************)
(* Proofs about Main: for every command line, every set of actions and     *)
(* whatever scripts register and execute, the action that main calls is    *)
(* the one that was asked for, and it is called with, and the projects are *)
(* baked for, the arguments of the command line.                           *)
(***************************************************************************)
EXTENDS Main, SequenceTheorems, TLAPS

-----------------------------------------------------------------------------
(* The inductive invariant *)

Names == {w.name : w \in Words}
ActionNames == Actions \cup Names \cup {None, Unset}
Arguments == ArgLists \cup Seq(Names)
Systems == {Host} \cup {Implied[a] : a \in Actions}
Saved == [action : ActionNames, args : Arguments, os : Systems]

Types ==
    /\ given \in Seq(Words) /\ argv \in Seq(Words)
    /\ current \in ActionNames /\ args \in Arguments /\ os \in Systems
    /\ executes \in Seq(Saved)

(* What main had, and will have again, as its action and arguments. *)
MainAction == IF executes = <<>> THEN current ELSE executes[1].action
MainArgs == IF executes = <<>> THEN args ELSE executes[1].args

(* process_arguments has gone through the first words. *)
Processed == Len(given) - Len(argv)
InArguments ==
    phase = "arguments" =>
        /\ args \in Seq(Names)
        /\ Len(argv) <= Len(given)
        /\ \A i \in 1..Len(argv) : argv[i] = given[Processed + i]
        /\ Lists(args, given, PlainUpTo(given, Processed))
        /\ args = <<>> => current = None
        /\ args # <<>> => current = args[1]

(* Main still has the arguments of the command line, and the action that   *)
(* it names.                                                               *)
BeforeAction ==
    phase \in {"system", "script", "decide"} =>
        /\ GivenArgs(MainArgs)
        /\ \A i \in 1..Len(given) : NamesAction(given, i) => MainAction = given[i].name
InAction ==
    phase = "action" =>
        GivenArgs(MainArgs) /\ MainAction \in {called, Strip[called]}

NotYetCalled ==
    phase \in {"arguments", "system", "script", "decide"} =>
        called = None /\ baked = None

Inv ==
    /\ TypeOK /\ Types
    /\ InArguments /\ BeforeAction /\ InAction /\ NotYetCalled
    /\ CalledAsAsked /\ BakedForCommandLine

-----------------------------------------------------------------------------
(* Lists of words *)

(* The next word is no option and is appended. *)
LEMMA ListsNext ==
    ASSUME NEW S, NEW al \in Seq(S), NEW x \in S, NEW ws, NEW k \in Nat,
           NEW P \in SUBSET (1..k), Lists(al, ws, P), x = ws[k + 1].name
    PROVE  Lists(Append(al, x), ws, P \cup {k + 1})
  <1> DEFINE n == Len(al)
             bs == Append(al, x)
  <1>2. n \in Nat /\ Len(bs) = n + 1 /\ bs[n + 1] = x /\ \A i \in 1..n : bs[i] = al[i]
    OBVIOUS
  <1>0. \A p \in P : p \in Nat /\ p < k + 1
    OBVIOUS
  <1> HIDE DEF bs
  <1>1. PICK at \in [1..n -> P] :
            /\ \A i, j \in 1..n : i < j => at[i] < at[j]
            /\ \A p \in P : \E j \in 1..n : at[j] = p
            /\ \A j \in 1..n : al[j] = ws[at[j]].name
    BY DEF Lists
  <1> HIDE DEF n
  <1> DEFINE bt == [j \in 1..(n + 1) |-> IF j = n + 1 THEN k + 1 ELSE at[j]]
  <1>3. \A j \in 1..(n + 1) : j = n + 1 \/ (j \in 1..n /\ j # n + 1)
    BY <1>2
  <1>4. \A j \in 1..n : bt[j] = at[j] /\ at[j] \in P /\ at[j] \in Nat /\ at[j] < k + 1
    <2>1. \A j \in 1..n : at[j] \in P
      OBVIOUS
    <2>2. \A j \in 1..n : j \in 1..(n + 1) /\ j # n + 1
      BY <1>2
    <2> QED BY <1>0, <2>1, <2>2
  <1>5. bt[n + 1] = k + 1
    BY <1>2
  <1>6. bt \in [1..(n + 1) -> P \cup {k + 1}]
    BY <1>3, <1>4
  <1> HIDE DEF bt
  <1>7. \A i, j \in 1..(n + 1) : i < j => bt[i] < bt[j]
    <2> SUFFICES ASSUME NEW i \in 1..(n + 1), NEW j \in 1..(n + 1), i < j
                 PROVE  bt[i] < bt[j]
      OBVIOUS
    <2>1. i \in 1..n
      BY <1>2
    <2>2. CASE j = n + 1
      BY <1>4, <1>5, <2>1, <2>2
    <2>3. CASE j \in 1..n
      BY <1>1, <1>4, <2>1, <2>3
    <2> QED BY <1>3, <2>2, <2>3
  <1>8. \A p \in P \cup {k + 1} : \E j \in 1..(n + 1) : bt[j] = p
    <2>1. \A j \in 1..n : j \in 1..(n + 1)
      BY <1>2
    <2>2. n + 1 \in 1..(n + 1)
      BY <1>2
    <2> QED BY <1>1, <1>4, <1>5, <2>1, <2>2
  <1>9. \A j \in 1..(n + 1) : bs[j] = ws[bt[j]].name
    BY <1>1, <1>2, <1>3, <1>4, <1>5
  <1> HIDE DEF n
  <1>10. Lists(bs, ws, P \cup {k + 1})
    BY <1>2, <1>6, <1>7, <1>8, <1>9 DEF Lists
  <1> QED BY <1>10 DEF bs

(* The first of the listed words is the one at the least place. *)
LEMMA ListsFirst ==
    ASSUME NEW S, NEW al \in Seq(S), NEW ws, NEW k \in Nat,
           NEW P \in SUBSET (1..k), Lists(al, ws, P),
           NEW i \in P, \A j \in P : i <= j
    PROVE  al # <<>> /\ al[1] = ws[i].name
  <1>0. Len(al) \in Nat /\ \A p \in P : p \in Nat
    OBVIOUS
  <1>1. PICK at \in [1..Len(al) -> P] :
            /\ \A l, j \in 1..Len(al) : l < j => at[l] < at[j]
            /\ \A p \in P : \E j \in 1..Len(al) : at[j] = p
            /\ \A j \in 1..Len(al) : al[j] = ws[at[j]].name
    BY DEF Lists
  <1>2. PICK j \in 1..Len(al) : at[j] = i
    BY <1>1
  <1>3. 1 \in 1..Len(al) /\ al # <<>>
    BY <1>0
  <1>4. at[1] \in P /\ at[1] \in Nat /\ i \in Nat /\ i <= at[1]
    BY <1>0, <1>3
  <1>5. at[1] = i
    <2>1. CASE j = 1
      BY <1>2, <2>1
    <2>2. CASE j # 1
      <3>1. 1 < j
        BY <1>3, <2>2
      <3>2. at[1] < i
        BY <1>1, <1>2, <1>3, <3>1
      <3> QED BY <1>4, <3>2
    <2> QED BY <2>1, <2>2
  <1> QED BY <1>1, <1>3, <1>5

LEMMA PlainNext ==
    ASSUME NEW ws, NEW k \in Nat
    PROVE  /\ PlainUpTo(ws, k) \in SUBSET (1..k)
           /\ PlainUpTo(ws, k + 1) =
                 IF ws[k + 1].lead = "" THEN PlainUpTo(ws, k) \cup {k + 1}
                 ELSE PlainUpTo(ws, k)
  <1>1. 1..(k + 1) = (1..k) \cup {k + 1}
    OBVIOUS
  <1> QED BY <1>1 DEF PlainUpTo

-----------------------------------------------------------------------------
(* The steps preserve the invariant *)

LEMMA InitInv == Init => Inv
  <1> SUFFICES ASSUME Init PROVE Inv
    OBVIOUS
  <1>1. given \in Seq(Words) /\ argv = given
    BY MainAssumption DEF Init
  <1>2. Len(given) \in Nat /\ Processed = 0
    BY <1>1 DEF Processed
  <1>3. TypeOK /\ Types
    BY <1>1, MainAssumption
       DEF Init, TypeOK, Types, ActionNames, Arguments, ArgLists, Systems
  <1>4. Lists(args, given, PlainUpTo(given, Processed))
    <2>1. PlainUpTo(given, Processed) = {}
      BY <1>2 DEF PlainUpTo
    <2>2. args = <<>> /\ Len(args) = 0
      BY DEF Init
    <2>3. [i \in 1..0 |-> i] \in [1..0 -> {}]
      OBVIOUS
    <2> QED BY <2>1, <2>2, <2>3 DEF Lists
  <1>5. InArguments
    BY <1>1, <1>2, <1>4 DEF InArguments, Init
  <1>6. BeforeAction /\ InAction /\ NotYetCalled /\ CalledAsAsked /\ BakedForCommandLine
    BY DEF Init, BeforeAction, InAction, NotYetCalled, CalledAsAsked, BakedForCommandLine
  <1> QED BY <1>3, <1>5, <1>6 DEF Inv

LEMMA ProcessInv == ASSUME Inv, process_arguments PROVE Inv'
  <1> DEFINE k == Processed
             w == Head(argv)
  <1>1. /\ phase = "arguments" /\ argv # <<>> /\ argv' = Tail(argv)
        /\ UNCHANGED <<given, os, list, default, phase, executes, called, baked>>
        /\ ProcessOption(w) \/ ProcessWord(w)
    BY DEF process_arguments
  <1>2. /\ given \in Seq(Words) /\ argv \in Seq(Words) /\ args \in Seq(Names)
        /\ Len(argv) <= Len(given)
        /\ \A i \in 1..Len(argv) : argv[i] = given[k + i]
        /\ Lists(args, given, PlainUpTo(given, k))
        /\ (args = <<>> => current = None) /\ (args # <<>> => current = args[1])
    BY <1>1 DEF Inv, Types, InArguments
  <1>3. /\ Len(argv) \in Nat \ {0} /\ Len(given) \in Nat /\ w = argv[1] /\ w \in Words
        /\ argv' \in Seq(Words) /\ Len(argv') = Len(argv) - 1
        /\ \A i \in 1..Len(argv') : argv'[i] = argv[i + 1]
    BY <1>1, <1>2
  <1>4. k \in Nat /\ Processed' = k + 1 /\ w = given[k + 1] /\ k + 1 <= Len(given)
    BY <1>1, <1>2, <1>3 DEF Processed
  <1>5. \A i \in 1..Len(argv') : argv'[i] = given'[Processed' + i]
    <2> SUFFICES ASSUME NEW i \in 1..Len(argv') PROVE argv'[i] = given[(k + 1) + i]
      BY <1>1, <1>4
    <2>1. i + 1 \in 1..Len(argv) /\ k + (i + 1) = (k + 1) + i
      BY <1>3, <1>4
    <2> QED BY <1>2, <1>3, <2>1
  <1>6. w.name \in Names /\ w.name # None
    BY <1>3, MainAssumption DEF Names
  <1> HIDE DEF k, w
  <1>7. /\ args' \in Seq(Names) /\ current' \in ActionNames
        /\ Lists(args', given', PlainUpTo(given', k + 1))
        /\ args' = <<>> => current' = None
        /\ args' # <<>> => current' = args'[1]
    <2>1. CASE ProcessOption(w)
      <3>1. PlainUpTo(given, k + 1) = PlainUpTo(given, k)
        BY <1>4, <2>1, PlainNext DEF ProcessOption
      <3> QED BY <1>1, <1>2, <2>1, <3>1 DEF ProcessOption, Inv, Types
    <2>2. CASE ProcessWord(w)
      <3>1. PlainUpTo(given, k + 1) = PlainUpTo(given, k) \cup {k + 1}
            /\ PlainUpTo(given, k) \in SUBSET (1..k)
        BY <1>4, <2>2, PlainNext DEF ProcessWord
      <3>2. args' = Append(args, w.name) /\ current' = ActionOf(w)
        BY <2>2 DEF ProcessWord
      <3>3. Lists(args', given, PlainUpTo(given, k + 1))
        <4>1. Lists(Append(args, w.name), given, PlainUpTo(given, k) \cup {k + 1})
          <5>1. w.name = given[k + 1].name
            BY <1>4
          <5>2. Lists(args, given, PlainUpTo(given, k))
            BY <1>2
          <5> QED BY <1>2, <1>4, <1>6, <3>1, <5>1, <5>2, ListsNext
        <4> QED BY <3>1, <3>2, <4>1
      <3>4. args' \in Seq(Names) /\ args' # <<>>
        BY <1>2, <1>6, <3>2
      <3>5. current' = args'[1] /\ current' \in ActionNames
        <4>1. CASE args = <<>>
          BY <1>2, <1>6, <3>2, <4>1 DEF ActionOf, ActionNames
        <4>2. CASE args # <<>>
          <5>1. args'[1] = args[1] /\ args[1] \in Names
            BY <1>2, <1>6, <3>2, <4>2
          <5>2. current = args[1] /\ current # None
            BY <1>2, <4>2, <5>1, MainAssumption DEF Names
          <5> QED BY <3>2, <5>1, <5>2 DEF ActionOf, ActionNames
        <4> QED BY <4>1, <4>2
      <3> QED BY <1>1, <3>3, <3>4, <3>5
    <2> QED BY <1>1, <2>1, <2>2
  <1>8. InArguments'
    <2>1. Len(argv') <= Len(given')
      BY <1>1, <1>2, <1>3
    <2> QED BY <1>4, <1>5, <1>7, <2>1 DEF InArguments
  <1>9. TypeOK' /\ Types'
    BY <1>1, <1>3, <1>7 DEF Inv, TypeOK, Types, Arguments
  <1>10. BeforeAction' /\ InAction' /\ NotYetCalled' /\ CalledAsAsked' /\ BakedForCommandLine'
    BY <1>1, MainAssumption
       DEF Inv, BeforeAction, InAction, NotYetCalled, CalledAsAsked, BakedForCommandLine
  <1> QED BY <1>8, <1>9, <1>10 DEF Inv

LEMMA StartMainInv == ASSUME Inv, StartMain PROVE Inv'
  <1>1. /\ phase = "arguments" /\ argv = <<>> /\ phase' = "system"
        /\ UNCHANGED <<argv, given, args, current, os, list, default, executes, called, baked>>
    BY DEF StartMain, environment
  <1>2. /\ given \in Seq(Words) /\ args \in Seq(Names) /\ executes = <<>>
        /\ Lists(args, given, PlainUpTo(given, Processed))
        /\ args # <<>> => current = args[1]
    BY <1>1 DEF Inv, Types, InArguments, TypeOK
  <1>3. Processed = Len(given) /\ Len(given) \in Nat
    BY <1>1, <1>2 DEF Processed
  <1>4. MainArgs' = args /\ MainAction' = current
    BY <1>1, <1>2 DEF MainArgs, MainAction
  <1>5. GivenArgs(args)
    BY <1>2, <1>3 DEF GivenArgs
  <1>6. ASSUME NEW i \in 1..Len(given), NamesAction(given, i)
        PROVE  current = given[i].name
    <2>1. PlainUpTo(given, Len(given)) \in SUBSET (1..Len(given))
      BY DEF PlainUpTo
    <2>2. args # <<>> /\ args[1] = given[i].name
      BY <1>2, <1>3, <1>6, <2>1, ListsFirst DEF NamesAction
    <2> QED BY <1>2, <2>2
  <1>7. BeforeAction'
    BY <1>1, <1>4, <1>5, <1>6 DEF BeforeAction, GivenArgs
  <1>8. TypeOK' /\ Types'
    BY <1>1 DEF Inv, TypeOK, Types
  <1>9. InArguments' /\ InAction' /\ NotYetCalled' /\ CalledAsAsked' /\ BakedForCommandLine'
    BY <1>1 DEF Inv, InArguments, InAction, NotYetCalled, CalledAsAsked, BakedForCommandLine
  <1> QED BY <1>7, <1>8, <1>9 DEF Inv

LEMMA SystemType ==
    ASSUME Inv, NEW a
    PROVE  OsOf(a, os) \in Systems
  BY DEF OsOf, Inv, Types, TypeOK, Systems

(* A step of a script or an action that leaves main's own action and       *)
(* arguments as they are.                                                  *)
LEMMA MainKept ==
    ASSUME Inv, Running, UNCHANGED <<given, phase, called, baked>>,
           MainAction' = MainAction, MainArgs' = MainArgs,
           phase = "action" => default' = default
    PROVE  /\ InArguments' /\ BeforeAction' /\ InAction' /\ NotYetCalled'
           /\ CalledAsAsked' /\ BakedForCommandLine'
  <1>1. phase \in {"system", "script", "action"}
    BY DEF Running
  <1>2. InArguments' /\ NotYetCalled' /\ BakedForCommandLine'
    BY <1>1 DEF Inv, InArguments, NotYetCalled, BakedForCommandLine, GivenArgs
  <1>3. BeforeAction' /\ InAction'
    BY DEF Inv, BeforeAction, InAction, GivenArgs
  <1>4. CalledAsAsked'
    <2>1. CASE phase = "action"
      BY <2>1 DEF Inv, CalledAsAsked
    <2>2. CASE phase # "action"
      BY <1>1, <2>2 DEF Inv, NotYetCalled, CalledAsAsked
    <2> QED BY <2>1, <2>2
  <1> QED BY <1>2, <1>3, <1>4

LEMMA SetActionInv == ASSUME Inv, SetAction PROVE Inv'
  <1>1. /\ phase = "system" /\ executes = <<>> /\ phase' \in {"decide", "script"}
        /\ current' = IF current = None THEN Unset ELSE current
        /\ os' = OsOf(current', os)
        /\ UNCHANGED <<argv, given, args, list, default, executes, called, baked>>
    BY DEF SetAction
  <1>2. TypeOK' /\ Types'
    <2>1. os' \in Systems
      BY <1>1, SystemType
    <2> QED BY <1>1, <2>1 DEF Inv, TypeOK, Types, ActionNames
  <1>3. BeforeAction'
    <2>1. /\ GivenArgs(args)
          /\ \A i \in 1..Len(given) : NamesAction(given, i) => current = given[i].name
      BY <1>1 DEF Inv, BeforeAction, MainArgs, MainAction
    <2>2. \A i \in 1..Len(given) : given[i].name # None
      BY MainAssumption DEF Inv, Types
    <2>3. MainArgs' = args /\ MainAction' = current'
      BY <1>1 DEF MainArgs, MainAction
    <2> QED BY <1>1, <2>1, <2>2, <2>3 DEF BeforeAction, GivenArgs
  <1>4. InArguments' /\ InAction' /\ NotYetCalled' /\ CalledAsAsked' /\ BakedForCommandLine'
    BY <1>1 DEF Inv, InArguments, InAction, NotYetCalled, CalledAsAsked, BakedForCommandLine
  <1> QED BY <1>2, <1>3, <1>4 DEF Inv

LEMMA EndScriptInv == ASSUME Inv, EndScript PROVE Inv'
  <1>1. /\ phase = "script" /\ executes = <<>> /\ phase' = "decide"
        /\ UNCHANGED <<argv, given, args, current, os, list, default, executes, called, baked>>
    BY DEF EndScript, environment
  <1>2. TypeOK' /\ Types'
    BY <1>1 DEF Inv, TypeOK, Types
  <1>3. BeforeAction'
    BY <1>1 DEF Inv, BeforeAction, MainArgs, MainAction, GivenArgs
  <1>4. InArguments' /\ InAction' /\ NotYetCalled' /\ CalledAsAsked' /\ BakedForCommandLine'
    BY <1>1 DEF Inv, InArguments, InAction, NotYetCalled, CalledAsAsked, BakedForCommandLine
  <1> QED BY <1>2, <1>3, <1>4 DEF Inv

LEMMA NewactionInv == ASSUME Inv, NEW a \in Actions, newaction(a) PROVE Inv'
  <1>1. /\ Running /\ list' = list \cup {a}
        /\ UNCHANGED <<argv, given, args, current, os, default, phase, executes, called, baked>>
    BY DEF newaction, Statement, environment
  <1>2. TypeOK' /\ Types'
    BY <1>1 DEF Inv, TypeOK, Types
  <1>3. MainAction' = MainAction /\ MainArgs' = MainArgs
    BY <1>1 DEF MainAction, MainArgs
  <1> QED BY <1>1, <1>2, <1>3, MainKept DEF Inv

(* Only a script may say defaultaction, and only an _ACTION that no word   *)
(* of the command line gave is replaced.                                   *)
LEMMA DefaultactionInv == ASSUME Inv, NEW a \in Actions, defaultaction(a) PROVE Inv'
  <1>1. /\ phase \in {"system", "script"} /\ default' = a
        /\ current' = IF current = None THEN a ELSE current
        /\ UNCHANGED <<argv, given, args, os, list, phase, executes, called, baked>>
    BY DEF defaultaction, Statement, Running
  <1>2. TypeOK' /\ Types'
    BY <1>1 DEF Inv, TypeOK, Types, ActionNames
  <1>3. BeforeAction'
    <2>1. MainArgs' = MainArgs
      BY <1>1 DEF MainArgs
    <2>2. ASSUME NEW i \in 1..Len(given), NamesAction(given, i)
          PROVE  MainAction' = given[i].name
      <3>1. MainAction = given[i].name
        BY <1>1, <2>2 DEF Inv, BeforeAction
      <3>2. given[i].name # None
        BY MainAssumption DEF Inv, Types
      <3> QED BY <1>1, <3>1, <3>2 DEF MainAction
    <2> QED BY <1>1, <2>1, <2>2 DEF Inv, BeforeAction, GivenArgs
  <1>4. InArguments' /\ InAction' /\ NotYetCalled' /\ CalledAsAsked' /\ BakedForCommandLine'
    BY <1>1 DEF Inv, InArguments, InAction, NotYetCalled, CalledAsAsked, BakedForCommandLine
  <1> QED BY <1>2, <1>3, <1>4 DEF Inv

LEMMA ExecuteInv ==
    ASSUME Inv, NEW a \in Actions, NEW al \in ArgLists, execute(a, al)
    PROVE  Inv'
  <1> DEFINE c == [action |-> current, args |-> args, os |-> os]
  <1>1. /\ Running /\ UNCHANGED <<argv, given, called, baked, list, default>>
    BY DEF execute, Statement
  <1>2. CASE a \in list
    <2>1. /\ executes' = Append(executes, c) /\ current' = Called(a, a)
          /\ os' = OsOf(a, os) /\ args' = (IF al = <<>> THEN args ELSE al)
          /\ phase' = phase
      BY <1>2 DEF execute
    <2>2. c \in Saved /\ executes \in Seq(Saved) /\ c.action = current /\ c.args = args
      BY DEF Inv, Types, Saved
    <2> HIDE DEF c
    <2>3. executes' \in Seq(Saved) /\ executes' # <<>>
      BY <2>1, <2>2
    <2>4. executes'[1] = IF executes = <<>> THEN c ELSE executes[1]
      BY <2>1, <2>2
    <2>5. MainAction' = MainAction /\ MainArgs' = MainArgs
      BY <2>2, <2>3, <2>4 DEF MainAction, MainArgs
    <2>6. Types'
      <3>1. os' \in Systems
        BY <2>1, SystemType
      <3>2. current' \in ActionNames
        BY <2>1, MainAssumption DEF Called, ActionNames
      <3>3. args' \in Arguments
        BY <2>1 DEF Inv, Types, Arguments
      <3> QED BY <1>1, <2>3, <3>1, <3>2, <3>3 DEF Inv, Types
    <2>7. TypeOK'
      BY <1>1, <2>1 DEF Inv, TypeOK, Running
    <2> QED BY <1>1, <2>1, <2>5, <2>6, <2>7, MainKept DEF Inv
  <1>3. CASE a \notin list
    <2>1. phase' = "error" /\ UNCHANGED <<args, current, os, executes>>
      BY <1>3 DEF execute, environment
    <2>2. TypeOK' /\ Types'
      BY <1>1, <2>1 DEF Inv, TypeOK, Types
    <2>3. InArguments' /\ BeforeAction' /\ InAction' /\ NotYetCalled'
      BY <2>1 DEF InArguments, BeforeAction, InAction, NotYetCalled
    <2>4. CalledAsAsked' /\ BakedForCommandLine'
      BY <1>1 DEF Inv, CalledAsAsked, BakedForCommandLine, GivenArgs
    <2> QED BY <2>2, <2>3, <2>4 DEF Inv
  <1> QED BY <1>2, <1>3

(* All but the last of a sequence. *)
LEMMA FrontFacts ==
    ASSUME NEW S, NEW s \in Seq(S), s # <<>>
    PROVE  /\ Front(s) \in Seq(S) /\ Last(s) \in S
           /\ Front(s) = <<>> => Last(s) = s[1]
           /\ Front(s) # <<>> => Front(s)[1] = s[1]
  <1>1. Len(s) \in Nat \ {0} /\ \A i \in 1..Len(s) : s[i] \in S
    BY EmptySeq
  <1> DEFINE n == Len(s) - 1
  <1>2. n \in Int /\ 1 \in Int /\ n >= 0 /\ \A i \in 1..n : s[i] \in S
    BY <1>1
  <1> HIDE DEF n
  <1>3. /\ SubSeq(s, 1, n) \in Seq(S)
        /\ Len(SubSeq(s, 1, n)) = IF 1 <= n THEN n - 1 + 1 ELSE 0
        /\ \A i \in 1 .. n - 1 + 1 : SubSeq(s, 1, n)[i] = s[1 + i - 1]
    BY <1>2, SubSeqProperties
  <1>4. Len(SubSeq(s, 1, n)) = n
    BY <1>2, <1>3
  <1>5. 1 <= n => SubSeq(s, 1, n)[1] = s[1]
    BY <1>2, <1>3
  <1>6. Front(s) = SubSeq(s, 1, n) /\ Last(s) = s[Len(s)]
    BY DEF Front, Last, n
  <1>7. CASE n = 0
    BY <1>1, <1>3, <1>4, <1>6, <1>7, EmptySeq DEF n
  <1>8. CASE n # 0
    <2>1. 1 <= n
      BY <1>2, <1>8
    <2>2. SubSeq(s, 1, n) # <<>>
      BY <1>4, <1>8
    <2> QED BY <1>1, <1>3, <1>5, <1>6, <2>1, <2>2
  <1> QED BY <1>7, <1>8

LEMMA ExecuteReturnInv == ASSUME Inv, executeReturn PROVE Inv'
  <1>1. /\ Running /\ executes # <<>> /\ executes' = Front(executes)
        /\ current' = Last(executes).action /\ args' = Last(executes).args
        /\ os' = OsOf(Last(executes).action, os)
        /\ UNCHANGED <<argv, given, list, default, phase, called, baked>>
    BY DEF executeReturn, Restore
  <1>2. executes \in Seq(Saved)
    BY DEF Inv, Types
  <1>3. /\ executes' \in Seq(Saved) /\ Last(executes) \in Saved
        /\ executes' = <<>> => Last(executes) = executes[1]
        /\ executes' # <<>> => executes'[1] = executes[1]
    BY <1>1, <1>2, FrontFacts
  <1>4. MainAction' = MainAction /\ MainArgs' = MainArgs
    BY <1>1, <1>3 DEF MainAction, MainArgs
  <1>5. Types'
    <2>1. os' \in Systems
      BY <1>1, SystemType
    <2>2. current' \in ActionNames /\ args' \in Arguments
      BY <1>1, <1>3 DEF Saved
    <2> QED BY <1>1, <1>3, <2>1, <2>2 DEF Inv, Types
  <1>6. TypeOK'
    BY <1>1 DEF Inv, TypeOK, Running
  <1> QED BY <1>1, <1>4, <1>5, <1>6, MainKept DEF Inv

LEMMA DecideInv == ASSUME Inv, Decide PROVE Inv'
  <1>1. /\ phase = "decide" /\ executes = <<>> /\ called = None /\ baked = None
        /\ UNCHANGED <<argv, given, args, os, list, default, executes>>
    BY DEF Decide, Inv, TypeOK, NotYetCalled
  <1>2. /\ GivenArgs(args)
        /\ \A i \in 1..Len(given) : NamesAction(given, i) => current = given[i].name
    BY <1>1 DEF Inv, BeforeAction, MainArgs, MainAction
  <1>3. CASE phase' \in {"stopped", "error"} /\ UNCHANGED <<current, called, baked>>
    <2>1. TypeOK' /\ Types'
      BY <1>1, <1>3 DEF Inv, TypeOK, Types
    <2>2. /\ InArguments' /\ BeforeAction' /\ InAction' /\ NotYetCalled'
          /\ CalledAsAsked' /\ BakedForCommandLine'
      BY <1>1, <1>3 DEF InArguments, BeforeAction, InAction, NotYetCalled,
                        CalledAsAsked, BakedForCommandLine
    <2> QED BY <2>1, <2>2 DEF Inv
  <1>4. CASE /\ phase' = "action" /\ Known(Chosen) /\ called' = Chosen
             /\ baked' = (IF ishelp THEN baked
                          ELSE [action |-> Chosen, os |-> os, args |-> args])
             /\ current' = Called(Chosen, Chosen)
    <2>1. Chosen \in list /\ Chosen \in Actions
      BY <1>4 DEF Known, Inv, TypeOK
    <2>2. current' \in {Chosen, Strip[Chosen]} /\ current' \in ActionNames
      BY <1>4, <2>1, MainAssumption DEF Called, ActionNames
    <2>3. TypeOK' /\ Types'
      BY <1>1, <1>4, <2>1, <2>2 DEF Inv, TypeOK, Types
    <2>4. InAction'
      BY <1>1, <1>2, <1>4, <2>2 DEF InAction, GivenArgs, MainArgs, MainAction
    <2>5. CalledAsAsked'
      <3> SUFFICES ASSUME NEW i \in 1..Len(given), NamesAction(given, i)
                   PROVE  IF given[i].name \in Builtin THEN Chosen = given[i].name
                          ELSE Chosen \in {given[i].name, default}
        BY <1>1, <1>4 DEF CalledAsAsked
      <3>1. current = given[i].name
        BY <1>2
      <3>2. Builtin \subseteq list
        BY DEF Inv, TypeOK
      <3> QED BY <3>1, <3>2 DEF Chosen
    <2>6. BakedForCommandLine'
      BY <1>1, <1>2, <1>4 DEF BakedForCommandLine, GivenArgs
    <2>7. InArguments' /\ BeforeAction' /\ NotYetCalled'
      BY <1>4 DEF InArguments, BeforeAction, NotYetCalled
    <2> QED BY <2>3, <2>4, <2>5, <2>6, <2>7 DEF Inv
  <1> QED BY <1>3, <1>4 DEF Decide

LEMMA FinishInv == ASSUME Inv, Finish PROVE Inv'
  <1>1. /\ phase = "action" /\ executes = <<>> /\ phase' = "done"
        /\ UNCHANGED <<argv, given, args, current, os, list, default, executes, called, baked>>
    BY DEF Finish, environment
  <1>2. TypeOK' /\ Types'
    BY <1>1 DEF Inv, TypeOK, Types
  <1>3. InArguments' /\ BeforeAction' /\ InAction' /\ NotYetCalled'
    BY <1>1 DEF InArguments, BeforeAction, InAction, NotYetCalled
  <1>4. CalledAsAsked' /\ BakedForCommandLine'
    BY <1>1 DEF Inv, CalledAsAsked, BakedForCommandLine, GivenArgs
  <1> QED BY <1>2, <1>3, <1>4 DEF Inv

LEMMA StutterInv == ASSUME Inv, UNCHANGED vars PROVE Inv'
  BY DEF vars, environment, Inv, TypeOK, Types, InArguments, Processed, BeforeAction,
         InAction, NotYetCalled, CalledAsAsked, BakedForCommandLine, GivenArgs,
         MainArgs, MainAction

LEMMA NextInv == Inv /\ [Next]_vars => Inv'
  <1> SUFFICES ASSUME Inv, [Next]_vars PROVE Inv'
    OBVIOUS
  <1>1. CASE process_arguments
    BY <1>1, ProcessInv
  <1>2. CASE StartMain
    BY <1>2, StartMainInv
  <1>3. CASE SetAction
    BY <1>3, SetActionInv
  <1>4. CASE EndScript
    BY <1>4, EndScriptInv
  <1>5. ASSUME NEW a \in Actions, newaction(a) PROVE Inv'
    BY <1>5, NewactionInv
  <1>6. ASSUME NEW a \in Actions, defaultaction(a) PROVE Inv'
    BY <1>6, DefaultactionInv
  <1>7. ASSUME NEW a \in Actions, NEW al \in ArgLists, execute(a, al) PROVE Inv'
    BY <1>7, ExecuteInv
  <1>8. CASE executeReturn
    BY <1>8, ExecuteReturnInv
  <1>9. CASE Decide
    BY <1>9, DecideInv
  <1>10. CASE Finish
    BY <1>10, FinishInv
  <1>11. CASE Over \/ UNCHANGED vars
    BY <1>11, StutterInv DEF Over
  <1> QED
    BY <1>1, <1>2, <1>3, <1>4, <1>5, <1>6, <1>7, <1>8, <1>9, <1>10, <1>11 DEF Next

-----------------------------------------------------------------------------
(* The results *)

LEMMA Invariance == Spec => []Inv
  BY InitInv, NextInv, PTL DEF Spec

(* From the command line to the end of what it executes, the action that   *)
(* main runs is the one that was asked for, or the default of a script     *)
(* where the word given is no action; after every action that it executes  *)
(* it is the current one again, with the arguments of the command line.    *)
THEOREM ActionStaysSound == Spec => []ActionSound
  <1>1. Inv => ActionSound
    BY DEF Inv, ActionSound, ActionIsCurrent, InAction, MainAction, MainArgs
  <1> QED BY <1>1, Invariance, PTL

(* bakeall sees the words of the command line, in their order, and the     *)
(* action that is called afterwards, whatever scripts executed before.     *)
THEOREM BakesForCommandLine == Spec => []BakedForCommandLine
  <1>1. Inv => BakedForCommandLine
    BY DEF Inv
  <1> QED BY <1>1, Invariance, PTL
=============================================================================
