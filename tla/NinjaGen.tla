------------------------------ MODULE NinjaGen ------------------------------
(***************************************************************************)
(* The ninja generator: actions/ninja/_ninja.lua, ninja_solution.lua and   *)
(* the loop of premake.action.call that drives them.                       *)
(*                                                                         *)
(* What the script declared and what is to be built is a record chosen in  *)
(* Init; baking has ended, so every project of prjToBuild is baked and     *)
(* also in prjToGenerate (Bake!NothingDangles).  One file receives all     *)
(* build edges (buildedges.ninja); each build.ninja only names its default *)
(* targets.  pairs() walks in any order.                                   *)
(*                                                                         *)
(* A name is <<path, suffix>>: "x/a.Debug" is <<<<"x","a">>, <<"Debug">>>>.*)
(* Left out: compile edges, rules, variables (module NinjaVars), the help  *)
(* text, ignore files and the run of ninja itself.                         *)
(***************************************************************************)
EXTENDS Naturals, Sequences, SequencesExt, FiniteSets

CONSTANTS
    Sln,       \* solutions declared, named by paths
    Prj,       \* real projects, named by paths
    Scripts,   \* the declarations and command lines considered
    MaxDepth,  \* calls of onSolution that fit on Lua's stack
    Nobody     \* the owner of an edge that runs no project's command

ASSUME NinjaGenAssumption == MaxDepth \in Nat /\ Cardinality(Sln) < MaxDepth

VARIABLES
    script,      \* what was declared and asked for
    phase,       \* "solutions", "projects", "end" or "overflow"
    todo,        \* solutions or projects that action.call has yet to visit
    stack,       \* the activations of onSolution
    slnDone, generated,          \* slnDone, prjHasBeenGenerated
    opened,      \* buildFileHandle has an entry for buildedges.ninja
    output,      \* io.output(): "stdout", "edges" or "closed"
    file, lost,  \* edges written to buildedges.ninja, or to a closed file
    alltargets, slntargets,      \* of the scope
    defaults     \* directory -> the default targets of its build.ninja

generator == <<slnDone, generated, opened, output, file, lost, alltargets,
               slntargets, defaults>>
vars == <<script, phase, todo, stack, generator>>

Plain(path) == <<path, <<>>>>
nothingtobuild == Plain(<<"nothingtobuild">>)
printBinaries == Plain(<<"printBinaries">>)
NoTargets == [c \in {} |-> <<>>]

-----------------------------------------------------------------------------
(* Names and edges of a project.                                           *)
getProjectName(p) ==
    <<p, IF p = script.owner[p] THEN <<"Project">> ELSE <<>>>>

Binary(p, c) == <<p, <<c, "bin">>>>

(* The edge of a command project is named after the project's last part. *)
buildRuleName(p) == Plain(<<Last(p)>>)

finalTargetN(p, c) ==
    IF p \in script.command THEN buildRuleName(p)
    ELSE <<p, Append(getProjectName(p)[2], c)>>

(* The targets writeProjectTargets returns: those built by default.        *)
(* Mutants: all of them; the project's name as it is.                      *)
prjTargetsAll(p) ==
    [c \in script.cfgs[p] \cup {""} |->
        <<IF c = "" THEN getProjectName(p) ELSE finalTargetN(p, c)>>]
prjTargetsPlain(p) ==
    LET cs == script.cfgs[p] \ script.explicit[p]
    IN  [c \in cs \cup {d \in {""} : cs # {}} |->
            <<IF c = "" THEN Plain(p) ELSE finalTargetN(p, c)>>]
prjTargets(p) ==
    LET cs == script.cfgs[p] \ script.explicit[p]
    IN  [c \in cs \cup {d \in {""} : cs # {}} |->
            <<IF c = "" THEN getProjectName(p) ELSE finalTargetN(p, c)>>]

Edge(out, in, of) == [out |-> out, in |-> in, of |-> of]
phony(out, in) == Edge(out, in, Nobody)

buildEdges(es) == {es[i].out : i \in 1..Len(es)}

(* The project's own target builds all its configurations.                 *)
(* Mutant: those built by default.                                         *)
defaultTargetsAlways(p) ==
    LET cs == SetToSeq(script.cfgs[p] \ script.explicit[p])
    IN  [i \in 1..Len(cs) |-> finalTargetN(p, cs[i])]
defaultTargets(p) ==
    LET cs == SetToSeq(script.cfgs[p])
    IN  [i \in 1..Len(cs) |-> finalTargetN(p, cs[i])]

(* The edges of p, es being those written before.  A command's edge, and   *)
(* the project's own target, are written only if no edge has the name.     *)
writeProjectTargets(p, es) ==
    LET cs == SetToSeq(script.cfgs[p])
        own == IF p \in script.command
               THEN IF buildRuleName(p) \in buildEdges(es) THEN <<>>
                    ELSE <<Edge(buildRuleName(p), <<>>, p)>>
               ELSE [i \in 1..Len(cs) |-> Edge(Binary(p, cs[i]), <<>>, p)] \o
                    [i \in 1..Len(cs) |->
                       phony(finalTargetN(p, cs[i]), <<Binary(p, cs[i])>>)]
    IN  IF getProjectName(p) \in buildEdges(es \o own) THEN own
        ELSE Append(own, phony(getProjectName(p), defaultTargets(p)))

(* mergeTargets: command projects' targets under "All" are not merged.     *)
(* Mutant: the later list replaces the earlier one.                        *)
mergeTargetsLast(dest, src) ==
    [c \in DOMAIN dest \cup (DOMAIN src \ {"All"}) |->
        IF c \in DOMAIN src \ {"All"} THEN src[c] ELSE dest[c]]
mergeTargets(dest, src) ==
    [c \in DOMAIN dest \cup (DOMAIN src \ {"All"}) |->
        (IF c \in DOMAIN dest THEN dest[c] ELSE <<>>) \o
        (IF c \in DOMAIN src \ {"All"} THEN src[c] ELSE <<>>)]

-----------------------------------------------------------------------------
Init ==
    /\ script \in Scripts
    /\ phase = "solutions"
    /\ todo = script.slns
    /\ stack = <<>>
    /\ slnDone = {} /\ generated = {}
    /\ opened = FALSE /\ output = "stdout"
    /\ file = <<>> /\ lost = {}
    /\ alltargets = NoTargets
    /\ slntargets = [s \in Sln |-> NoTargets]
    /\ defaults = [d \in {} |-> <<>>]

(* openFile for buildedges.ninja creates it, or makes it the output again. *)
(* Mutant: only the creation makes it the output.                          *)
openOnce == IF opened THEN output ELSE "edges"
openFile == "edges"

(* Lines written with _p go to the output, wherever it leads. *)
Write(es, out) ==
    /\ file' = IF out = "edges" THEN file \o es ELSE file
    /\ lost' = IF out = "edges" THEN lost
               ELSE lost \cup {es[i].out : i \in 1..Len(es)}

(* generateProject: once per project, and only for those to build.         *)
(* Mutant: the cache of generated projects is not looked at.               *)
ProjectEdgesAgain(p) ==
    IF p \notin script.build THEN <<>> ELSE writeProjectTargets(p, file)
ProjectEdges(p) ==
    IF p \in generated \/ p \notin script.build THEN <<>>
    ELSE writeProjectTargets(p, file)
generateProject(p, out) ==
    /\ Write(ProjectEdges(p), out)
    /\ generated' = generated \cup ({p} \cap script.build)

Top == stack[Len(stack)]
Rest == SubSeq(stack, 1, Len(stack) - 1)
Frame(s) == [sln |-> s, inc |-> 0, step |-> "includes", k |-> 0,
             left |-> script.build, targets |-> NoTargets]

(* onSolution(s), called above the activations st.  It returns at once for *)
(* an unknown solution and for one that is done.                           *)
(* Mutant: slnDone is not looked at.                                       *)
onSolutionAgain(s, st) ==
    /\ \/ s \notin Sln /\ stack' = st
       \/ s \in Sln /\ stack' = Append(st, Frame(s))
    /\ UNCHANGED phase
onSolution(s, st) ==
    \/ s \notin Sln \ slnDone /\ stack' = st /\ UNCHANGED phase
    \/ /\ s \in Sln \ slnDone /\ Len(st) < MaxDepth
       /\ stack' = Append(st, Frame(s)) /\ UNCHANGED phase
    \/ /\ s \in Sln \ slnDone /\ Len(st) = MaxDepth
       /\ stack' = <<>> /\ phase' = "overflow"

(* action.call hands each solution of slnToBuild to the action. *)
CallOnSolution(s) ==
    /\ phase = "solutions" /\ stack = <<>> /\ s \in todo
    /\ todo' = todo \ {s}
    /\ onSolution(s, <<>>)
    /\ UNCHANGED <<script, generator>>

(* Included solutions come first.                                          *)
(* Mutant: the same include again and again.                               *)
SameInclude(f) == f
NextInclude(f) == [f EXCEPT !.inc = @ + 1]
IncludeSolution ==
    /\ stack # <<>> /\ Top.step = "includes"
    /\ Top.inc < Len(script.includes[Top.sln])
    /\ onSolution(script.includes[Top.sln][Top.inc + 1],
                  Append(Rest, NextInclude(Top)))
    /\ UNCHANGED <<script, todo, generator>>

(* Then the file is opened, or made the output again. *)
OpenEdges ==
    /\ stack # <<>> /\ Top.step = "includes"
    /\ Top.inc = Len(script.includes[Top.sln])
    /\ output' = openFile /\ opened' = TRUE
    /\ Write(IF file = <<>> THEN <<Edge(nothingtobuild, <<>>, Nobody)>>
             ELSE <<>>, output')
    /\ stack' = Append(Rest, [Top EXCEPT !.step = "projects"])
    /\ UNCHANGED <<script, phase, todo, slnDone, generated, alltargets,
                   slntargets, defaults>>

(* generateSolution: the solution's own projects, in order, ... *)
SolutionProject ==
    /\ stack # <<>> /\ Top.step = "projects"
    /\ Top.k < Len(script.projects[Top.sln])
    /\ LET p == script.projects[Top.sln][Top.k + 1]
       IN  /\ generateProject(p, output)
           /\ stack' = Append(Rest,
                [Top EXCEPT !.k = @ + 1,
                   !.targets = IF p \in script.build
                               THEN mergeTargets(@, prjTargets(p)) ELSE @])
    /\ UNCHANGED <<script, phase, todo, slnDone, opened, output, alltargets,
                   slntargets, defaults>>

(* ... then what is left of prjToGenerate, in any order, ... *)
RemainingProject(p) ==
    /\ stack # <<>> /\ Top.step = "projects"
    /\ Top.k = Len(script.projects[Top.sln])
    /\ p \in Top.left
    /\ generateProject(p, output)
    /\ stack' = Append(Rest, [Top EXCEPT !.left = @ \ {p}])
    /\ UNCHANGED <<script, phase, todo, slnDone, opened, output, alltargets,
                   slntargets, defaults>>

(* ... then a target for each configuration of the solution.               *)
slnCfg(s, c) == <<s, IF c = "" THEN <<>> ELSE <<c>>>>
SolutionEdges(s, t) ==
    LET cs == SetToSeq({c \in DOMAIN t : t[c] # <<slnCfg(s, c)>>})
    IN  [i \in 1..Len(cs) |-> phony(slnCfg(s, cs[i]), t[cs[i]])]
slnTargets(s, t) == [c \in DOMAIN t |-> <<slnCfg(s, c)>>]

(* writeDefaultTargets: the default targets of t, then printBinaries. *)
hasBinaries == script.printBins /\ generated \cap script.apps # {}
DefaultOf(t) ==
    IF "" \in DOMAIN t /\ t[""] # <<>> THEN t[""]
    ELSE SetToSeq({Plain(<<c>>) : c \in DOMAIN t})
writeDefaultTargets(t) ==
    IF DefaultOf(t) = <<>> THEN <<nothingtobuild>>
    ELSE IF hasBinaries THEN Append(DefaultOf(t), printBinaries)
    ELSE DefaultOf(t)

(* It appends printBinaries to the list of the table it was given. *)
AfterDefault(t) ==
    IF hasBinaries /\ "" \in DOMAIN t /\ t[""] # <<>>
    THEN [t EXCEPT ![""] = Append(@, printBinaries)] ELSE t

(* Mutant: only the solution's own targets. *)
DefaultTargetsOwn(s, tables) == tables[s]

(* generateDefaultBuild(sln.basedir, scope, sln) merges the targets of the *)
(* included solutions into those of s; tables is scope.slntargets.         *)
WithIncluded(s, tables) ==
    LET inc == script.includes[s]
        merged[i \in 0..Len(inc)] ==
            IF i = 0 THEN tables[s]
            ELSE IF inc[i] \in Sln
                 THEN mergeTargets(merged[i - 1], tables[inc[i]])
                 ELSE merged[i - 1]
    IN  merged[Len(inc)]

FinishSolution ==
    /\ stack # <<>> /\ Top.step = "projects"
    /\ Top.k = Len(script.projects[Top.sln]) /\ Top.left = {}
    /\ LET s == Top.sln
           own == slnTargets(s, Top.targets)
           all == WithIncluded(s, [slntargets EXCEPT ![s] = own])
       IN  /\ Write(SolutionEdges(s, Top.targets), output)
           /\ alltargets' = mergeTargets(alltargets, own)
           /\ slntargets' = [slntargets EXCEPT ![s] = AfterDefault(all)]
           /\ defaults' = [d \in DOMAIN defaults \cup {script.dir[s]} |->
                             IF d = script.dir[s] THEN writeDefaultTargets(all)
                             ELSE defaults[d]]
           /\ slnDone' = slnDone \cup {s}
    /\ output' = "closed"
    /\ stack' = Rest
    /\ UNCHANGED <<script, phase, todo, generated, opened>>

(* After the solutions, each project of prjToBuild. *)
StartProjects ==
    /\ phase = "solutions" /\ stack = <<>> /\ todo = {}
    /\ phase' = "projects"
    /\ todo' = script.build
    /\ UNCHANGED <<script, stack, generator>>

(* onProject: a project generated here is built by default. *)
onProject(p) ==
    /\ phase = "projects" /\ p \in todo
    /\ todo' = todo \ {p}
    /\ output' = openFile /\ opened' = TRUE
    /\ LET header == IF file = <<>>
                     THEN <<Edge(nothingtobuild, <<>>, Nobody)>> ELSE <<>>
       IN  Write(header \o ProjectEdges(p), output')
    /\ generated' = generated \cup {p}
    /\ alltargets' = IF p \in generated THEN alltargets
                     ELSE mergeTargets(alltargets, prjTargets(p))
    /\ UNCHANGED <<script, phase, stack, slnDone, slntargets, defaults>>

(* writeFooter: binaries, aliases, and a target for each configuration. *)
Footer ==
    LET cs == SetToSeq(DOMAIN alltargets \ {""})
        as == SetToSeq({a \in script.aliases : a[2] \in script.build})
    IN  (IF script.printBins THEN <<Edge(printBinaries, <<>>, Nobody)>>
         ELSE <<>>)
        \o [i \in 1..Len(as) |-> phony(Plain(as[i][1]), <<Plain(as[i][2])>>)]
        \o [i \in 1..Len(cs) |-> phony(Plain(<<cs[i]>>), alltargets[cs[i]])]

(* The build files onEnd writes with all targets: in the root, unless the  *)
(* edges are there; where premake was started, if nothing was asked for;   *)
(* and the one handed to ninja.  Each one writes to the list of targets.   *)
onEndFiles ==
    (IF script.builddir # "root" THEN <<"root">> ELSE <<>>) \o
    (IF script.asked = {} /\ script.slns = {} THEN <<"cwd">> ELSE <<>>) \o
    <<"lastcmd">>

onEnd ==
    /\ phase = "projects" /\ todo = {}
    /\ phase' = "end"
    /\ opened' = FALSE
    /\ output' = "closed"
    /\ Write(Footer, openFile)
    /\ LET n == Len(onEndFiles)
           all[i \in 0..n] == IF i = 0 THEN alltargets
                              ELSE AfterDefault(all[i - 1])
           written == {onEndFiles[i] : i \in 1..n}
           nth(d) == CHOOSE i \in 1..n : onEndFiles[i] = d
       IN  /\ alltargets' = all[n]
           /\ defaults' = [d \in DOMAIN defaults \cup written |->
                             IF d \in written
                             THEN writeDefaultTargets(all[nth(d) - 1])
                             ELSE defaults[d]]
    /\ slnDone' = {}
    /\ UNCHANGED <<script, todo, stack, generated, slntargets>>

Ended == phase \in {"end", "overflow"} /\ UNCHANGED vars

Next ==
    \/ \E s \in Sln : CallOnSolution(s)
    \/ IncludeSolution \/ OpenEdges \/ SolutionProject
    \/ \E p \in Prj : RemainingProject(p)
    \/ FinishSolution \/ StartProjects
    \/ \E p \in Prj : onProject(p)
    \/ onEnd \/ Ended

Spec == Init /\ [][Next]_vars /\ WF_vars(Next)
-----------------------------------------------------------------------------
(* Properties.                                                             *)
Edges == {file[i] : i \in 1..Len(file)}
Outputs == {e.out : e \in Edges}

(* What ninja builds for the targets ts: a default names configurations or *)
(* solutions, these name projects, projects final targets, these binaries. *)
Depth == 5
Reached(ts) ==
    LET reach[n \in 0..Depth] ==
            IF n = 0 THEN ts
            ELSE LET r == reach[n - 1]
                 IN  r \cup UNION {ToSet(e.in) : e \in {f \in Edges : f.out \in r}}
    IN  reach[Depth]
Builds(d) == Reached(ToSet(defaults[d]))

(* The commands that make p: one per configuration, or the single command. *)
Commands(p, cs) ==
    IF p \in script.command THEN {buildRuleName(p)}
    ELSE {Binary(p, c) : c \in cs}
Always(p) == script.cfgs[p] \ script.explicit[p]
BuiltByDefault(p, d) ==
    Always(p) # {} => Commands(p, Always(p)) \subseteq Builds(d)

(* s and the solutions it includes, directly or not. *)
Included(s) ==
    LET inc[n \in 0..Cardinality(Sln)] ==
            IF n = 0 THEN {s}
            ELSE LET i == inc[n - 1]
                 IN  i \cup (Sln \cap UNION {ToSet(script.includes[t]) : t \in i})
    IN  inc[Cardinality(Sln)]
ProjectsOf(s) ==
    script.build \cap UNION {ToSet(script.projects[t]) : t \in Included(s)}

(* The variables have their types; a solution is never on the stack when    *)
(* it is done.                                                             *)
TypeOK ==
    /\ script \in Scripts
    /\ phase \in {"solutions", "projects", "end", "overflow"}
    /\ todo \subseteq Sln \cup Prj
    /\ Len(stack) <= MaxDepth
    /\ \A i \in 1..Len(stack) :
          /\ stack[i].sln \in Sln \ slnDone
          /\ stack[i].left \subseteq script.build
    /\ generated \subseteq script.build
    /\ output \in {"stdout", "edges", "closed"}
    /\ DOMAIN slntargets = Sln

(* ninja refuses a file with two edges for one output.  The generator     *)
(* writes an edge's name in ninja.buildEdges but seldom looks there:       *)
(* across shared and included solutions, cached projects, configuration    *)
(* targets and aliases, no output may get a second edge.                   *)
OneEdgePerOutput ==
    \A i, j \in 1..Len(file) : i # j => file[i].out # file[j].out

(* Everything a phony edge or a default statement names is the output of   *)
(* an edge, in whatever order the solutions and projects were visited.     *)
TargetsExist ==
    phase = "end" =>
        /\ \A e \in Edges : ToSet(e.in) \subseteq Outputs
        /\ \A d \in DOMAIN defaults : ToSet(defaults[d]) \subseteq Outputs

(* generateDefaultBuild leaves the output at a file it has closed; no edge *)
(* may be written before openFile has led it back to buildedges.ninja.     *)
NothingLost == lost = {}

(* The build.ninja of a solution builds the projects of that solution and, *)
(* although only direct includes are merged, of all solutions it includes  *)
(* directly or not; it still does when onEnd has replaced the root's file. *)
SolutionFileComplete ==
    \A s \in IF phase = "end" THEN UNION {Included(t) : t \in script.slns}
              ELSE slnDone :
        \A p \in ProjectsOf(s) : BuiltByDefault(p, script.dir[s])

(* The file handed to ninja builds every project asked for on the command  *)
(* line, by its name or by its solution's.  (A project named beside a      *)
(* solution is generated with that solution, and then left out.)           *)
AskedIsBuilt ==
    phase = "end" =>
        \A p \in UNION {ProjectsOf(s) : s \in script.slns} \cup
                 {q \in script.asked : script.slns = {}} :
            BuiltByDefault(p, "lastcmd")

(* A project's target runs that project's commands.  (Command projects     *)
(* whose names end alike share the name of the edge, and the first edge.)  *)
Alone(p) ==
    p \in script.command =>
        \A q \in script.command \cap generated : Last(q) = Last(p) => q = p
ProjectBuildsItself ==
    \A p \in {q \in generated : Alone(q)} :
        \A t \in Commands(p, script.cfgs[p]) :
            /\ t \in Reached({getProjectName(p)})
            /\ \E e \in Edges : e.out = t /\ e.of = p

(* No default statement builds a project that is buildwhen "explicit" in   *)
(* all its configurations.                                                 *)
ExplicitProjectWaits ==
    phase = "end" =>
        \A d \in DOMAIN defaults, p \in generated :
            Always(p) = {} => Commands(p, script.cfgs[p]) \cap Builds(d) = {}

(* The generator ends, unless a solution includes itself through others:   *)
(* onSolution follows the includes before it marks the solution as done.   *)
GeneratorEnds ==
    (\A s, t \in Sln : t \in ToSet(script.includes[s]) => s \notin Included(t))
        => <>(phase = "end")

(* buildedges.ninja is a file that ninja accepts: one edge per output,     *)
(* none written elsewhere, and everything named there exists.              *)
EdgesSound == TypeOK /\ OneEdgePerOutput /\ NothingLost /\ TargetsExist

(* A name builds what it stands for, and no more than was asked for. *)
TargetsMeant == ProjectBuildsItself /\ ExplicitProjectWaits
=============================================================================
