----------------------------- MODULE NinjaVars -----------------------------
(***************************************************************************)
(* The build-variable scope of the ninja action (ninjaVar in               *)
(* src/actions/ninja/_ninja.lua) together with the lines its callers in    *)
(* ninja_solution.lua write to buildedges.ninja.                           *)
(*                                                                         *)
(* Ninja evaluates ${name} where it is read, so the file is right only if  *)
(* every name it mentions was declared earlier, once, with the value the   *)
(* generator had in mind.  The generator never looks at the file again:    *)
(* it relies on four tables, which every scope shares because newScope     *)
(* copies the table of ninjaVar shallowly (globals.lua, inheritFrom).      *)
(***************************************************************************)
EXTENDS Integers, Sequences

CONSTANTS
    Name,           \* the strings that can be variable names
    BaseNames,      \* the names callers ask for: objdir, srcdir, cdeps, ...
    EmptyName,      \* the empty string, which newScope uses as a name
    Value,          \* the strings that can be values
    Mangle,         \* Mangle[varName][i]: the string varName .. tostring(i)
    BuildDir, RepoRoot, Blank,  \* the values newScope stores
    Weights,        \* the weights callers of getBuildVars pass
    MaxIdx,         \* bound: largest suffix a name is given
    MaxWeight,      \* bound: weight at which a value is no longer used
    MaxDecl         \* bound: number of declarations in the file

ASSUME NameAssumption ==
    /\ BaseNames \subseteq Name
    /\ Mangle \in [BaseNames -> [2 .. MaxIdx -> Name]]
ASSUME ScopeNameAssumption ==
    /\ {EmptyName, "builddir", "root", "tmp"} \subseteq Name
    /\ EmptyName \notin {"builddir", "root", "tmp"}
ASSUME ValueAssumption ==
    /\ {BuildDir, RepoRoot, Blank} \subseteq Value
    /\ Blank \notin {BuildDir, RepoRoot}
ASSUME BoundAssumption ==
    /\ Weights \subseteq Nat \ {0}
    /\ MaxIdx \in Nat /\ MaxWeight \in Nat /\ MaxDecl \in Nat

VARIABLES
    nameToValue,    \* name -> value, a partial function
    valueToName,    \* value -> the name last given to it, a partial function
    findNameIdx,    \* base name -> last suffix tried (1 when none was)
    valueToWeight,  \* value -> accumulated weight
    decl,           \* the lines "name=value" written so far
    refs            \* the uses written so far: <<name, the value meant>>

vars == <<nameToValue, valueToName, findNameIdx, valueToWeight, decl, refs>>

\* The table f after the assignment f[x] = y.
Put(f, x, y) == [z \in DOMAIN f \cup {x} |-> IF z = x THEN y ELSE f[z]]

(***************************************************************************)
(* ninja.newScope: '', builddir, root and tmp are stored by four calls of  *)
(* set, in this order, so the blank value ends up named tmp and the root   *)
(* directory named root even when it is also the build directory.          *)
(***************************************************************************)
Init ==
    /\ nameToValue = [n \in {EmptyName, "builddir", "root", "tmp"} |->
                         CASE n = "builddir" -> BuildDir
                           [] n = "root" -> RepoRoot
                           [] OTHER -> Blank]
    /\ valueToName = [v \in {Blank, BuildDir, RepoRoot} |->
                         CASE v = Blank -> "tmp"
                           [] v = RepoRoot -> "root"
                           [] OTHER -> "builddir"]
    /\ findNameIdx = [n \in BaseNames |-> 1]
    /\ valueToWeight = [v \in Value |-> 0]
    /\ decl = <<>>
    /\ refs = {}

-----------------------------------------------------------------------------
(* ninjaVar:set *)

Held(n, v) == n \in DOMAIN nameToValue /\ nameToValue[n] = v

\* Mutant: a name counts as usable whatever value it holds.
UsableAlways(n, v) == n \in Name /\ v \in Value

\* The loop of set stops at a name that is unused or already has this value.
Usable(n, v) == n \in DOMAIN nameToValue => nameToValue[n] = v

\* set(n, v) returns the name m and leaves the suffix counter of n at k.
SetReturns(n, v, m, k) ==
    \/ /\ Usable(n, v)
       /\ m = n
       /\ k = findNameIdx[n]
    \/ /\ ~Usable(n, v)
       /\ k \in (findNameIdx[n] + 1) .. MaxIdx
       /\ m = Mangle[n][k]
       /\ Usable(m, v)
       /\ \A j \in (findNameIdx[n] + 1) .. (k - 1) : ~Usable(Mangle[n][j], v)

\* Mutant: the value is recorded under the name asked for, not the mangled one.
StoreUnmangled(n, v, m, k) ==
    /\ findNameIdx' = [findNameIdx EXCEPT ![n] = k]
    /\ nameToValue' = Put(nameToValue, m, v)
    /\ valueToName' = Put(valueToName, v, n)

\* The writes of set: none when the name already has the value.
Store(n, v, m, k) ==
    /\ findNameIdx' = [findNameIdx EXCEPT ![n] = k]
    /\ IF Held(m, v)
       THEN UNCHANGED <<nameToValue, valueToName>>
       ELSE /\ nameToValue' = Put(nameToValue, m, v)
            /\ valueToName' = Put(valueToName, v, m)

\* Mutants: a line for every call; a line for the first call only.
DeclareAlways(m, v) == decl' = Append(decl, <<m, v>>)
DeclareFirst(m, v) == decl' = IF decl # <<>> THEN decl ELSE <<(<<m, v>>)>>

\* Callers print "name=value" exactly when set reports that the name is new.
Declare(m, v) == decl' = IF Held(m, v) THEN decl ELSE Append(decl, <<m, v>>)

Refer(m, v) == refs' = refs \cup {<<m, v>>}

-----------------------------------------------------------------------------
(* The callers *)

\* writeProjectTargets: objdir, targetdir_<cfg> and srcdir of a configuration
\* with more than two files to compile; writeToolsets: a tool's build variable.
SetVar(n, v) ==
    /\ v # Blank
    /\ Len(decl) < MaxDecl
    /\ \E k \in 1 .. MaxIdx, m \in {n} \cup {Mangle[n][i] : i \in 2 .. MaxIdx} :
          /\ SetReturns(n, v, m, k)
          /\ Store(n, v, m, k)
          /\ Declare(m, v)
          /\ Refer(m, v)
    /\ UNCHANGED valueToWeight

\* writeToolsets keeps a record of a blank tool variable and prints nothing.
SetBlank(n) ==
    /\ \E k \in 1 .. MaxIdx, m \in {n} \cup {Mangle[n][i] : i \in 2 .. MaxIdx} :
          SetReturns(n, Blank, m, k) /\ Store(n, Blank, m, k)
    /\ UNCHANGED <<valueToWeight, decl, refs>>

\* getBest: a value with a name is written as ${name}, any other as itself.
GetBest(v) ==
    /\ v # Blank
    /\ v \in DOMAIN valueToName
    /\ Refer(valueToName[v], v)
    /\ UNCHANGED <<nameToValue, valueToName, findNameIdx, valueToWeight, decl>>

\* getBuildVars on one input, by way of getName: below the threshold of 5 only
\* a name the value already has is used; above it, a name is made if need be.
GetBuildVars(v, weight, n) ==
    LET w == valueToWeight[v] + weight IN
    /\ v # Blank
    /\ w <= MaxWeight
    /\ Len(decl) < MaxDecl
    /\ valueToWeight' = [valueToWeight EXCEPT ![v] = w]
    /\ \/ /\ v \in DOMAIN valueToName
          /\ Refer(valueToName[v], v)
          /\ UNCHANGED <<nameToValue, valueToName, findNameIdx, decl>>
       \/ /\ v \notin DOMAIN valueToName
          /\ w > 5
          /\ \E k \in 1 .. MaxIdx, m \in {n} \cup {Mangle[n][i] : i \in 2 .. MaxIdx} :
                /\ SetReturns(n, v, m, k)
                /\ Store(n, v, m, k)
                /\ Declare(m, v)
                /\ Refer(m, v)
       \/ /\ v \notin DOMAIN valueToName
          /\ w <= 5
          /\ UNCHANGED <<nameToValue, valueToName, findNameIdx, decl, refs>>

Next ==
    \/ \E n \in BaseNames, v \in Value : SetVar(n, v)
    \/ \E n \in BaseNames : SetBlank(n)
    \/ \E v \in Value : GetBest(v)
    \/ \E v \in Value, w \in Weights, n \in BaseNames : GetBuildVars(v, w, n)

Spec == Init /\ [][Next]_vars

-----------------------------------------------------------------------------
(* Properties *)

\* Types of the four tables of a scope and of what was written to the file.
TypeOK ==
    /\ DOMAIN nameToValue \subseteq Name
    /\ \A n \in DOMAIN nameToValue : nameToValue[n] \in Value
    /\ DOMAIN valueToName \subseteq Value
    /\ \A v \in DOMAIN valueToName : valueToName[v] \in Name
    /\ findNameIdx \in [BaseNames -> Nat \ {0}]
    /\ valueToWeight \in [Value -> Nat]
    /\ decl \in Seq(Name \X Value)
    /\ refs \subseteq Name \X Value

\* The names newScope stores: writeRoot declares builddir and root in every
\* file that includes buildedges.ninja, and a blank needs no declaration.
Predefined == {<<EmptyName, Blank>>, <<"tmp", Blank>>, <<"builddir", BuildDir>>, <<"root", RepoRoot>>}

\* The two tables never disagree: the name a value is looked up under (getBest,
\* getName) is one whose recorded value is that value.
TablesAgree ==
    \A v \in DOMAIN valueToName :
        /\ valueToName[v] \in DOMAIN nameToValue
        /\ nameToValue[valueToName[v]] = v

\* No name is declared twice in buildedges.ninja, whatever mixture of base and
\* mangled names the callers of set and getBuildVars ask for.
DeclaredOnce ==
    \A i, j \in DOMAIN decl : decl[i][1] = decl[j][1] => i = j

\* Every ${name} written to buildedges.ninja was declared before it with the
\* value it stands for.
RefsResolve ==
    \A r \in refs : r \in Predefined \/ \E i \in DOMAIN decl : decl[i] = r

\* A name keeps its value for ever: text written earlier is never redefined by
\* a later call of set (set's loop skips names that hold another value).
NamesNeverRebound ==
    [][\A n \in DOMAIN nameToValue :
          n \in DOMAIN nameToValue' /\ nameToValue'[n] = nameToValue[n]]_vars
==============================================================================
