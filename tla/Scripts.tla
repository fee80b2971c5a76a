------------------------------ MODULE Scripts ------------------------------
(***************************************************************************)
(* Running build scripts: dofile and include of base/globals.lua, and the  *)
(* script scope of base/api.lua (solution, project, usage, namespace,      *)
(* scopepush, scopepop).                                                   *)
(*                                                                         *)
(* What the scripts say is left open: the chunk that runs takes any        *)
(* statement, up to MaxStatements in all.  It pops only scopes it pushed,  *)
(* and has popped them when it ends.  Names of projects are in module      *)
(* Targets; here a project is known by the solution it is declared in, and *)
(* a name may be that of a project or usage that exists, of any solution.  *)
(***************************************************************************)
EXTENDS Naturals, Sequences, SequencesExt, FiniteSets

CONSTANTS
    Dir, Root, Parent,  \* directories below the repository root Root
    File, DirOf,        \* scripts and the directory each one is in
    Main,               \* the script premake starts with
    Excluded,           \* directories given to excludedir
    Sln, Global,        \* solutions; the container of global()
    MaxStatements,      \* bound on the statements executed
    None

(* A container: a solution, or a project or usage in one.  For the         *)
(* properties it also holds the solution in scope when it was named.       *)
Containers == [kind : {"solution", "project", "usage"},
               sln : Sln \cup {Global}, under : Sln \cup {Global}]

ASSUME ScriptsAssumption ==
    /\ Root \in Dir /\ Parent \in [Dir \ {Root} -> Dir]
    /\ IsFiniteSet(File) /\ DirOf \in [File -> Dir] /\ Main \in File
    /\ Excluded \subseteq Dir
    /\ Global \notin Sln
    /\ None \notin Dir \cup File \cup Sln \cup {Global} \cup Containers
    /\ MaxStatements \in Nat

VARIABLES
    cwd, running,   \* _CWD, _SCRIPT
    scope,          \* api.scope: solution, project, namespace, configuration
    container,      \* premake.CurrentContainer
    scopeStack,     \* api.scopeStack
    slnScope,       \* io.slnScope: directory -> solution created there
    includedFiles,  \* io._includedFiles
    calls,          \* activations of dofile and include
    loads,          \* how often include handed each file to dofile
    declared,       \* projects declared so far
    usages,         \* solutions that have usages
    statements      \* executed so far

vars == <<cwd, running, scope, container, scopeStack, slnScope,
          includedFiles, calls, loads, declared, usages, statements>>

Of(kind, s, u) == [kind |-> kind, sln |-> s, under |-> u]
SlnOf(c) == c.sln

Saved == [scope |-> scope, container |-> container]

-----------------------------------------------------------------------------
(* api.solution: the scope becomes the solution's, without a project; its  *)
(* namespace too, which is "/" for global().                               *)
ScopeOfSolution(s) ==
    [solution |-> s, project |-> None,
     namespace |-> IF s = Global THEN None ELSE s,
     configuration |-> Of("solution", s, s)]

(* The directories above each directory. *)
Above ==
    LET up[n \in 0..Cardinality(Dir)] ==
            IF n = 0 THEN [d \in Dir |-> {Parent[e] : e \in {d} \ {Root}}]
            ELSE LET u == up[n - 1]
                 IN  [d \in Dir |-> u[d] \cup {Parent[e] : e \in u[d] \ {Root}}]
    IN  up[Cardinality(Dir)]

isExcludeDir(d) == Excluded \cap (Above[d] \cup {d}) # {}

(* The solution that a file in directory d belongs to: the one created in  *)
(* the nearest directory above d.                                          *)
(* Mutant: the directory instead of its solution.                          *)
NearestHome(d, f) ==
    LET homes == {e \in Dir : e \in Above[d] /\ f[e] # None}
        nearest == {e \in homes : homes \subseteq Above[e] \cup {e}}
    IN  IF nearest = {} THEN None ELSE CHOOSE e \in nearest : TRUE
NearestSln(d, f) ==
    LET homes == {e \in Dir : e \in Above[d] /\ f[e] # None}
        nearest == {e \in homes : homes \subseteq Above[e] \cup {e}}
    IN  IF nearest = {} THEN None ELSE f[CHOOSE e \in nearest : TRUE]

(* dofile's setup enters that solution unless it is entered already, and   *)
(* its namespace, or "/" where there is none.                              *)
(* Mutant: the namespace only.                                             *)
setupNamespace(f) ==
    /\ running' = f
    /\ cwd' = DirOf[f]
    /\ scope' = [scope EXCEPT !.namespace = NearestSln(DirOf[f], slnScope)]
    /\ UNCHANGED container
setup(f) ==
    LET s == NearestSln(DirOf[f], slnScope)
        entered == IF s \notin {None, scope.solution} THEN ScopeOfSolution(s)
                   ELSE scope
    IN  /\ running' = f
        /\ cwd' = DirOf[f]
        /\ scope' = [entered EXCEPT !.namespace = s]
        /\ container' = IF s \notin {None, scope.solution}
                        THEN Of("solution", s, s) ELSE container

-----------------------------------------------------------------------------
DofileCall(f) == [fn |-> "dofile", oldcwd |-> cwd, oldfile |-> running,
                  file |-> f, pushed |-> 0, moved |-> FALSE,
                  home |-> NearestSln(DirOf[f], slnScope)]
IncludeCall(fs) == [fn |-> "include", left |-> fs, saved |-> Saved]

(* _premake_main has called global(), and dofile of the build script. *)
Init ==
    /\ cwd = DirOf[Main] /\ running = Main
    /\ scope = ScopeOfSolution(Global)
    /\ container = Of("solution", Global, Global)
    /\ scopeStack = <<>>
    /\ slnScope = [d \in Dir |-> None]
    /\ includedFiles = {}
    /\ calls = <<[fn |-> "dofile", oldcwd |-> DirOf[Main], oldfile |-> None,
                  file |-> Main, pushed |-> 0, moved |-> FALSE, home |-> None]>>
    /\ loads = [f \in File |-> 0]
    /\ declared = {} /\ usages = {}
    /\ statements = 0

Top == calls[Len(calls)]
Rest == SubSeq(calls, 1, Len(calls) - 1)
Running == calls # <<>> /\ Top.fn = "dofile"
Statement ==
    /\ Running /\ statements < MaxStatements
    /\ statements' = statements + 1
Files == <<cwd, running, includedFiles, loads>>
Declarations == <<declared, usages>>

(* solution(s): a new one is noted under the current directory.  For       *)
(* Global it is global().                                                  *)
solution(s) ==
    /\ Statement
    /\ scope' = ScopeOfSolution(s)
    /\ container' = Of("solution", s, s)
    /\ slnScope' = IF s = Global \/ \E d \in Dir : slnScope[d] = s THEN slnScope
                   ELSE [slnScope EXCEPT ![cwd] = s]
    /\ calls' = Append(Rest, [Top EXCEPT !.moved = TRUE])
    /\ UNCHANGED <<Files, scopeStack, Declarations>>

(* project and usage make c the current container. *)
Enter(c) ==
    /\ container' = c
    /\ scope' = [scope EXCEPT !.project = c, !.configuration = c]

(* project(name): a new one goes to the solution in scope, with a usage    *)
(* there unless there is one of its full name somewhere; one that exists   *)
(* is entered where it is, and the solution in scope stays.                *)
project ==
    /\ Statement /\ scope.solution \in Sln
    /\ \/ /\ Enter(Of("project", scope.solution, scope.solution))
          /\ declared' = declared \cup
               {[sln |-> scope.solution, namespace |-> scope.namespace,
                 home |-> Top.home, moved |-> Top.moved]}
          /\ \/ usages' = usages \cup {scope.solution}
             \/ usages # {} /\ UNCHANGED usages
       \/ /\ \E p \in declared : Enter(Of("project", p.sln, scope.solution))
          /\ UNCHANGED Declarations
    /\ UNCHANGED <<Files, scopeStack, slnScope, calls>>

(* usage(name): a new one goes to the solution of the current container. *)
usage ==
    /\ Statement
    /\ \E s \in usages \cup {SlnOf(container)} :
          /\ Enter(Of("usage", s, scope.solution))
          /\ usages' = usages \cup {s}
    /\ UNCHANGED <<Files, scopeStack, slnScope, calls, declared>>

scopepush ==
    /\ Statement
    /\ scopeStack' = Append(scopeStack, Saved)
    /\ calls' = Append(Rest, [Top EXCEPT !.pushed = @ + 1])
    /\ UNCHANGED <<Files, scope, container, slnScope, Declarations>>

(* scopepop restores the scope and the container.                          *)
(* Mutants: the scope only; the scope pushed first.                        *)
PopScopeOnly ==
    /\ scope' = Last(scopeStack).scope
    /\ UNCHANGED container
    /\ scopeStack' = Front(scopeStack)
PopFirst ==
    /\ scope' = Head(scopeStack).scope
    /\ container' = Head(scopeStack).container
    /\ scopeStack' = Tail(scopeStack)
PopScope ==
    /\ scope' = Last(scopeStack).scope
    /\ container' = Last(scopeStack).container
    /\ scopeStack' = Front(scopeStack)

scopepop ==
    /\ Running /\ Top.pushed > 0
    /\ PopScope
    /\ calls' = Append(Rest, [Top EXCEPT !.pushed = @ - 1])
    /\ UNCHANGED <<Files, slnScope, Declarations, statements>>

(* A call of dofile above the activations cs.  Nothing happens for a file  *)
(* in an excluded directory.                                               *)
Dofile(f, cs) ==
    \/ /\ isExcludeDir(DirOf[f])
       /\ calls' = cs
       /\ UNCHANGED <<cwd, running, scope, container>>
    \/ /\ ~isExcludeDir(DirOf[f])
       /\ calls' = Append(cs, DofileCall(f))
       /\ setup(f)

(* include of a file that is not included yet *)
IncludeFirst(f, cs) ==
    /\ Dofile(f, cs)
    /\ loads' = [loads EXCEPT ![f] = @ + 1]

(* The script goes on in whatever solution the single file leaves. *)
Moved == Append(Rest, [Top EXCEPT !.moved = TRUE])

dofile(f) ==
    /\ Statement
    /\ Dofile(f, Moved)
    /\ UNCHANGED <<includedFiles, loads, scopeStack, slnScope, Declarations>>

(* include(f) of a file runs it once. *)
includeFile(f) ==
    /\ Statement
    /\ includedFiles' = includedFiles \cup {f}
    /\ IF f \in includedFiles
       THEN UNCHANGED <<cwd, running, scope, container, calls, loads>>
       ELSE IncludeFirst(f, Moved)
    /\ UNCHANGED <<scopeStack, slnScope, Declarations>>

(* include(d) of a directory pushes the scope and runs the scripts of d    *)
(* and then those below d.                                                 *)
Under(d) == {f \in File : d \in Above[DirOf[f]] \cup {DirOf[f]}}
(* Directories are read in any order, a directory's own files before those *)
(* of its subdirectories.                                                  *)
matchfiles ==
    [d \in Dir |->
        {o \in SetToSeqs(Under(d)) :
            \A e \in Dir, i, j \in 1..Len(o) : i < j /\ o[j] \in Under(e) =>
                /\ DirOf[o[j]] = e => DirOf[o[i]] = e \/ o[i] \notin Under(e)
                /\ o[i] \in Under(e) => \A k \in i..j : o[k] \in Under(e)}]
ScriptsIn(d) == IF isExcludeDir(d) THEN {<<>>} ELSE matchfiles[d]
(* Mutant: without scopepush and scopepop. *)
includeDirUnscoped(d) ==
    /\ Statement
    /\ \E fs \in ScriptsIn(d) : calls' = Append(calls, IncludeCall(fs))
    /\ UNCHANGED <<Files, scope, container, scopeStack, slnScope, Declarations>>
includeDir(d) ==
    /\ Statement
    /\ scopeStack' = Append(scopeStack, Saved)
    /\ \E fs \in ScriptsIn(d) : calls' = Append(calls, IncludeCall(fs))
    /\ UNCHANGED <<Files, scope, container, slnScope, Declarations>>

(* Mutant: only files included by name are tracked. *)
TrackByName(f) == includedFiles
Track(f) == includedFiles \cup {f}

includeNext ==
    /\ calls # <<>> /\ Top.fn = "include" /\ Top.left # <<>>
    /\ LET f == Head(Top.left)
           cs == Append(Rest, [Top EXCEPT !.left = Tail(@)])
       IN  /\ includedFiles' = Track(f)
           /\ IF f \in includedFiles
              THEN /\ calls' = cs
                   /\ UNCHANGED <<cwd, running, scope, container, loads>>
              ELSE IncludeFirst(f, cs)
    /\ UNCHANGED <<scopeStack, slnScope, Declarations, statements>>

includeDone ==
    /\ calls # <<>> /\ Top.fn = "include" /\ Top.left = <<>>
    /\ PopScope
    /\ calls' = Rest
    /\ UNCHANGED <<Files, slnScope, Declarations, statements>>

(* The chunk ends: dofile restores the directory and the script's name.    *)
(* Mutant: the directory of the script that goes on is the caller's own.   *)
RestoreFileOnly == cwd' = cwd /\ running' = Top.oldfile
Restore == cwd' = Top.oldcwd /\ running' = Top.oldfile
dofileDone ==
    /\ Running /\ Top.pushed = 0
    /\ Restore
    /\ calls' = Rest
    /\ UNCHANGED <<scope, container, scopeStack, slnScope, includedFiles,
                   loads, Declarations, statements>>

Done == calls = <<>> /\ UNCHANGED vars

Next ==
    \/ \E s \in Sln \cup {Global} : solution(s)
    \/ project \/ usage \/ scopepush \/ scopepop
    \/ \E f \in File : dofile(f) \/ includeFile(f)
    \/ \E d \in Dir : includeDir(d)
    \/ includeNext \/ includeDone \/ dofileDone \/ Done

Spec == Init /\ [][Next]_vars

-----------------------------------------------------------------------------
(* The variables have their types.                                         *)
TypeOK ==
    /\ cwd \in Dir /\ running \in File \cup {None}
    /\ scope.solution \in Sln \cup {Global}
    /\ scope.project \in Containers \cup {None}
    /\ scope.namespace \in Sln \cup {None}
    /\ scope.configuration \in Containers
    /\ container \in Containers
    /\ usages \subseteq Sln \cup {Global}
    /\ slnScope \in [Dir -> Sln \cup {None}]
    /\ includedFiles \subseteq File

(* Paths in a script are relative to the script: whatever it included      *)
(* before, a chunk runs in its own directory and under its own name.       *)
RunsAtHome == Running => cwd = DirOf[Top.file] /\ running = Top.file

(* project() takes its solution from api.scope, usage() from               *)
(* premake.CurrentContainer, fields go to the configuration in scope.      *)
(* After any nesting of scopes and includes the three belong together: the *)
(* container is the one whose fields are set and the project in scope, if  *)
(* any, and it was named under the solution that is in scope again.  They  *)
(* are not always of one solution: a project or usage of another solution, *)
(* named in full, is entered there while the solution in scope stays, and  *)
(* so is what usage() declares next; a solution entered is both.           *)
ScopeAgrees ==
    /\ scope.configuration = container
    /\ scope.project = IF container.kind = "solution" THEN None ELSE container
    /\ container.under = scope.solution
    /\ container.kind = "solution" => SlnOf(container) = scope.solution

(* include of a directory leaves the scope as it was, however deep the     *)
(* scripts it ran include others.                                          *)
IncludeKeepsScope ==
    [][calls # <<>> /\ Top.fn = "include" /\ calls' = Rest
         => /\ scope' = Top.saved.scope
            /\ container' = Top.saved.container]_vars

(* The scopes that the activations cs have pushed, from the first one on. *)
Owns(c) == IF c.fn = "include" THEN 1 ELSE c.pushed
Heights(cs) ==
    LET h[i \in 0..Len(cs)] == IF i = 0 THEN 0 ELSE h[i - 1] + Owns(cs[i]) IN h

(* The scopes on the stack are those of the activations under way. *)
StackAccounted == Len(scopeStack) = Heights(calls)[Len(calls)]

(* "All files in subdirs of a premake solution will be included in that    *)
(* sln": a project declared by such a file is in the nearest solution      *)
(* above it, whose namespace applies to names that have none, as things    *)
(* were when the file began, unless the file says solution() or has loaded *)
(* a single file by name, after which it goes on in the solution of that   *)
(* file.  (Nothing like it holds for usages, see ScopeAgrees.)             *)
SubdirsInSolution ==
    \A p \in declared :
        p.home # None /\ ~p.moved => p.sln = p.home /\ p.namespace = p.home

(* "each file is tracked, and loaded only once": by include, in whatever   *)
(* way and order directories and files are included.  (Files loaded with   *)
(* dofile, as the build script is, are not tracked.)                       *)
IncludedOnce == \A f \in File : loads[f] <= 1

(* The records of the scope belong together, and every push is accounted   *)
(* for, whatever scripts and includes do.                                  *)
ScopeSound == TypeOK /\ ScopeAgrees /\ StackAccounted

(* A script runs in its own directory, and include runs it once. *)
RunsOnceAtHome == RunsAtHome /\ IncludedOnce
=============================================================================
