------------------------------ MODULE Targets ------------------------------
(***************************************************************************)
(* Names of projects and the choice of what to build: createproject,       *)
(* getNameParts and getProject of project/project.lua, api.alias,          *)
(* filterTargets and findBuildTarget of base/globalcontainer.lua, and      *)
(* solution.bake of base/solution.lua.                                     *)
(*                                                                         *)
(* Scripts declare projects, usages and aliases in any order; the command  *)
(* line then names targets, and solutions are baked.  A name is a path:    *)
(* "S/p" is <<"S", "p">>; as scripts give it, "/p" is [abs, <<"p">>].      *)
(* Left out: projectset, defaultbuilddir, name fragments, export, and the  *)
(* ":configuration" and "#version" suffixes.                               *)
(***************************************************************************)
EXTENDS Naturals, Sequences, SequencesExt, FiniteSets

CONSTANTS
    Sln,            \* solutions, named by strings
    Given,          \* the names that scripts give to projects and usages
    Spaces,         \* Spaces[s]: namespaces in which s declares
    Begins,         \* Begins[n]: names that the string of namespace n begins with
    AliasNames,     \* names of aliases
    MaxDeclared,    \* bound on the declarations
    MaxAliased,     \* bound on the names that are aliases
    MaxAliases      \* aliases followed before getProject gives up

AllSpaces == UNION {Spaces[s] : s \in Sln}

Path == Seq(STRING)

ASSUME TargetsAssumption ==
    /\ Given \subseteq [abs : BOOLEAN, path : Path \ {<<>>}]
    /\ Sln \subseteq STRING /\ AliasNames \subseteq STRING
    /\ \A s \in Sln : Spaces[s] \subseteq Path
    /\ \A n \in AllSpaces : n \in Begins[n]
    /\ MaxDeclared \in Nat /\ MaxAliased \in Nat
    /\ MaxAliases \in Nat /\ MaxAliases > MaxAliased

VARIABLES
    allReal, allUsage,  \* full names of the projects and usages
    owner,              \* full name of a project -> its solution
    projects, keys,     \* sln.projects: its list, and the names it holds
    aliases,            \* targets.aliases
    declared,           \* the declarations made, and the names they got
    phase,              \* "declare", "filter", "bake", "baked", ...
    args,               \* _ARGS, what is left of them
    asked,              \* the names that were in _ARGS
    slnToBuild, prjToBuild

declarations == <<allReal, allUsage, owner, projects, keys, declared>>
choice == <<args, asked, slnToBuild, prjToBuild>>
vars == <<declarations, aliases, phase, choice>>

Of(full, isUsage) == [name |-> full, isUsage |-> isUsage]
Relative(path) == [abs |-> FALSE, path |-> path]
Solution(v) == {s \in Sln : v = <<s>>}

(* Declaration d has put the name g in the list of solution s: the name it *)
(* was given, and for a project the one that its usage is asked for by.    *)
Takes(d, s, g) ==
    d.sln = s /\ (g = d.given \/ (~d.isUsage /\ g = Relative(d.full)))

-----------------------------------------------------------------------------
(* getNameParts: the namespace goes before a name that has none. *)
fullname(g, n) ==
    IF g.abs \/ Len(g.path) > 1 THEN g.path ELSE n \o g.path

(* A usage whose name the namespace begins with keeps its name.            *)
(* Mutant: every usage without "/" does.                                   *)
usageNameAny(g, n) == g.path
usageName(g, n) ==
    IF ~g.abs /\ g.path \in Begins[n] THEN g.path ELSE fullname(g, n)

(* A list with the entry of a new project or usage: made only if the name, *)
(* as it was given, is free in the solution.                               *)
Insert(list, key, held, entry) ==
    IF key \in held THEN list ELSE Append(list, entry)

(* The usage that createproject makes for a new project is asked for by    *)
(* the project's full name.                                                *)
(* Mutant: none is made.                                                   *)
NoUsage(full, n) == {}
DefaultUsage(full, n) ==
    IF full \in allUsage THEN {} ELSE {usageName(Relative(full), n)}

Init ==
    /\ allReal = {} /\ allUsage = {}
    /\ owner = [f \in {} |-> {}]
    /\ projects = [s \in Sln |-> <<>>]
    /\ keys = [s \in Sln |-> {}]
    /\ aliases = [f \in {} |-> <<>>]
    /\ declared = {}
    /\ phase = "declare"
    /\ args = {} /\ asked = {}
    /\ slnToBuild = {} /\ prjToBuild = {}

Declare(g, s, n, full, isUsage) ==
    /\ phase = "declare"
    /\ Cardinality(declared) < MaxDeclared
    /\ declared' = declared \cup {[given |-> g, sln |-> s, space |-> n,
                                   full |-> full, isUsage |-> isUsage,
                                   late |-> ~isUsage /\
                                             \E d \in declared : Takes(d, s, g)]}
    /\ declared' # declared
    /\ UNCHANGED <<aliases, phase, choice>>

(* project(g) of a new project in solution s, namespace n *)
project(g, s, n) ==
    LET full == fullname(g, n)
        more == DefaultUsage(full, n) \ allUsage
        list == Insert(projects[s], g, keys[s], Of(full, FALSE))
        key == Relative(full)
    IN  /\ Declare(g, s, n, full, FALSE)
        /\ full \notin allReal
        /\ allReal' = allReal \cup {full}
        /\ owner' = [f \in DOMAIN owner \cup {full} |->
                       IF f = full THEN s ELSE owner[f]]
        /\ allUsage' = allUsage \cup more
        /\ projects' = [projects EXCEPT ![s] =
             IF more = {} THEN list
             ELSE Insert(list, key, keys[s] \cup {g},
                         Of(CHOOSE u \in more : TRUE, TRUE))]
        /\ keys' = [keys EXCEPT ![s] =
                      @ \cup {g} \cup {k \in {key} : more # {}}]

(* usage(g) in solution s, namespace n *)
usage(g, s, n) ==
    LET full == usageName(g, n)
        new == full \notin allUsage
    IN  /\ Declare(g, s, n, full, TRUE)
        /\ allUsage' = allUsage \cup {full}
        /\ projects' = [projects EXCEPT ![s] =
             IF new THEN Insert(@, g, keys[s], Of(full, TRUE)) ELSE @]
        /\ keys' = [keys EXCEPT ![s] = IF new THEN @ \cup {g} ELSE @]
        /\ UNCHANGED <<allReal, owner>>

(* alias(a, f) in solution s: a later one replaces an earlier one. *)
alias(a, f, s) ==
    /\ phase = "declare" /\ <<s, a>> # f
    /\ Cardinality(DOMAIN aliases \cup {<<s, a>>}) <= MaxAliased
    /\ aliases' = [n \in DOMAIN aliases \cup {<<s, a>>} |->
                     IF n = <<s, a>> THEN f ELSE aliases[n]]
    /\ UNCHANGED <<declarations, phase, choice>>

-----------------------------------------------------------------------------
(* getProject without namespaces: the name itself, else the end of the     *)
(* chain of aliases.  It fails when it has followed too many.              *)
Chain(v) ==
    LET link[i \in 0..MaxAliases] ==
            IF i = 0 THEN v
            ELSE LET m == link[i - 1]
                 IN  IF m \in DOMAIN aliases THEN aliases[m] ELSE m
    IN  link[MaxAliases]
Recursive(v) == v \notin allReal /\ Chain(v) \in DOMAIN aliases
(* Mutants: one alias is followed; what it leads to is taken as it is.     *)
getProjectAny(all, v) == {Chain(v)}
getProjectOnce(all, v) ==
    IF v \in all THEN {v}
    ELSE {aliases[m] : m \in {v} \cap DOMAIN aliases} \cap all
getProject(all, v) == IF v \in all THEN {v} ELSE {Chain(v)} \cap all
getRealProject(v) == getProject(allReal, v)

(* The scripts have run; the command line names up to two targets.         *)
Targetable ==
    {<<s>> : s \in Sln} \cup allReal \cup {<<Last(f)>> : f \in allReal}
    \cup allUsage \cup DOMAIN aliases
StartFilter ==
    /\ phase = "declare"
    /\ phase' = "filter"
    /\ args' \in {{v, w} : v, w \in Targetable} \cup {{}}
    /\ UNCHANGED <<declarations, aliases, asked, slnToBuild, prjToBuild>>

(* The projects of a solution that was asked for: the entries of its list  *)
(* that are not usages.                                                    *)
(* Mutant: the first one only.                                             *)
ListedFirst(s) ==
    {projects[s][i].name : i \in {j \in 1..Len(projects[s]) : j = 1 /\ ~projects[s][j].isUsage}}
Listed(s) ==
    {projects[s][i].name : i \in {j \in 1..Len(projects[s]) : ~projects[s][j].isUsage}}

(* findBuildTarget(v): a solution; a project or usage by its full name or  *)
(* an alias; if it is none of them, the projects with that short name.     *)
Found(v) ==
    IF Solution(v) # {} \/ getRealProject(v) # {} \/ getProject(allUsage, v) # {}
    THEN getRealProject(v)
    ELSE {f \in allReal : <<Last(f)>> = v}
findBuildTarget(v) ==
    /\ phase = "filter" /\ v \in args /\ ~Recursive(v)
    /\ args' = args \ {v}
    /\ asked' = asked \cup {v}
    /\ slnToBuild' = slnToBuild \cup Solution(v)
    /\ prjToBuild' = prjToBuild \cup Found(v) \cup UNION {Listed(s) : s \in Solution(v)}
    /\ UNCHANGED <<declarations, aliases, phase>>

(* "Recursive project alias" *)
AliasError(v) ==
    /\ phase = "filter" /\ v \in args /\ Recursive(v)
    /\ phase' = "error"
    /\ UNCHANGED <<declarations, aliases, choice>>

(* When nothing is specified everything is built. *)
filterTargets ==
    /\ phase = "filter" /\ args = {}
    /\ LET all == slnToBuild = {} /\ prjToBuild = {}
       IN  /\ slnToBuild' = IF all THEN Sln ELSE slnToBuild
           /\ prjToBuild' = IF all THEN allReal ELSE prjToBuild
    /\ phase' = IF prjToBuild' = {} THEN "nothing" ELSE "bake"
    /\ UNCHANGED <<declarations, aliases, args, asked>>

(* solution.bake replaces the entries of the list by the real projects of  *)
(* the same name, each once.                                               *)
(* Mutant: usages have no project behind them.                             *)
BakedListReal(s) == SelectSeq(projects[s], LAMBDA e : ~e.isUsage)
BakedList(s) ==
    LET list == projects[s]
        prjList[i \in 0..Len(list)] ==
            IF i = 0 THEN <<>>
            ELSE LET l == prjList[i - 1]
                     new == getRealProject(list[i].name) \ {e.name : e \in ToSet(l)}
                 IN  IF new = {} THEN l
                     ELSE Append(l, Of(CHOOSE f \in new : TRUE, FALSE))
    IN  prjList[Len(list)]
bakeSolutions ==
    /\ phase = "bake"
    /\ phase' = "baked"
    /\ projects' = [s \in Sln |-> BakedList(s)]
    /\ UNCHANGED <<allReal, allUsage, owner, keys, declared, aliases, choice>>

Ended == phase \in {"baked", "nothing", "error"} /\ UNCHANGED vars

Next ==
    \/ \E s \in Sln, g \in Given : \E n \in Spaces[s] :
          project(g, s, n) \/ usage(g, s, n)
    \/ \E s \in Sln, a \in AliasNames :
          \E f \in allReal \cup allUsage \cup (Sln \X AliasNames) : alias(a, f, s)
    \/ StartFilter
    \/ \E v \in args : findBuildTarget(v) \/ AliasError(v)
    \/ filterTargets \/ bakeSolutions \/ Ended

Spec == Init /\ [][Next]_vars

-----------------------------------------------------------------------------
(* The variables have their types: lists, owners and targets name projects *)
(* that exist.                                                             *)
TypeOK ==
    /\ DOMAIN owner = allReal /\ \A f \in allReal : owner[f] \in Sln
    /\ \A s \in Sln : \A i \in 1..Len(projects[s]) :
          projects[s][i].name \in IF projects[s][i].isUsage THEN allUsage ELSE allReal
    /\ phase \in {"declare", "filter", "bake", "baked", "nothing", "error"}
    /\ slnToBuild \subseteq Sln /\ prjToBuild \subseteq allReal

(* "/p": the usage of this project is asked for as "p", which then gets    *)
(* the namespace.                                                          *)
Rooted(g) == g.abs /\ Len(g.path) = 1

(* Every project has a usage under its own full name: "Create a default    *)
(* usage project if there isn't one".  (Not so "/p".)                      *)
RealHasUsage ==
    \A d \in declared : ~d.isUsage /\ ~Rooted(d.given) => d.full \in allUsage

(* usage(name), where project(name) declares a project, is that project's  *)
(* usage: it "defines the usage requirements for the project".  (Not so    *)
(* for a name that is the beginning of the namespace.)                     *)
UsageIsProjects ==
    \A u \in declared, d \in declared :
        /\ u.isUsage /\ ~d.isUsage /\ u.given = d.given /\ u.space = d.space
        /\ Len(u.given.path) = 1 => u.given.path \notin Begins[u.space]
        => u.full = d.full

Chosen == phase \in {"bake", "baked", "nothing"}

(* A solution named on the command line brings the projects it declared,   *)
(* but for those whose name, as it was given, an earlier declaration has   *)
(* put in the solution's list, mostly a usage declared before its project: *)
(* createproject leaves them out of the list until it is baked.            *)
SolutionBuildsAll ==
    Chosen => \A d \in declared :
        ~d.isUsage /\ ~d.late /\ <<owner[d.full]>> \in asked => d.full \in prjToBuild

(* The names that an alias leads to, directly or not. *)
LeadsTo(v) ==
    LET names == {v} \cup {aliases[n] : n \in DOMAIN aliases}
    IN  {m \in names : \A S \in SUBSET names :
            v \in S /\ (\A n \in S \cap DOMAIN aliases : aliases[n] \in S) => m \in S}

(* A project named on the command line is built: by its full name; by an   *)
(* alias, or an alias of an alias, unless these go on from the project; or *)
(* by its short name, if that is nothing else.                             *)
NamedIsBuilt ==
    Chosen => \A v \in asked, f \in allReal :
        \/ v = f
        \/ v \notin allReal /\ f \in LeadsTo(v) \ DOMAIN aliases
        \/ v = <<Last(f)>> /\ v \notin allReal \cup allUsage \cup DOMAIN aliases
             /\ Solution(v) = {}
        => f \in prjToBuild

(* After baking the list of a solution holds exactly the projects declared *)
(* in it and those for which it declares a usage, each once; also one      *)
(* whose name a usage had taken.  It may miss a project only if its name,  *)
(* as it was given, stands for another one in the solution.  (A usage      *)
(* without a project, whose name is also an alias, brings what the alias   *)
(* leads to; and "/p" may bring the namespace's p.)                        *)
BakedListsExact ==
    /\ phase = "baked" /\ DOMAIN aliases \cap allUsage = {}
    /\ \A d \in declared : ~Rooted(d.given)
    => \A s \in Sln :
          /\ \A i \in 1..Len(projects[s]) :
                projects[s][i].name \in allReal \cap {d.full : d \in {e \in declared : e.sln = s}}
          /\ \A d \in declared :
                /\ ~d.isUsage /\ d.sln = s
                /\ \A e \in declared : Takes(e, s, d.given) => e.full = d.full
                => \E i \in 1..Len(projects[s]) : projects[s][i].name = d.full
          /\ \A i, j \in 1..Len(projects[s]) :
                i # j => projects[s][i] # projects[s][j]

(* A name leads to one project and its usage, in any order of declaration. *)
NamesSound == TypeOK /\ RealHasUsage /\ UsageIsProjects
=============================================================================
