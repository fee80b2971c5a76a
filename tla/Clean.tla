------------------------------- MODULE Clean -------------------------------
(***************************************************************************)
(* The file system as premake changes it: io.open for writing, with the    *)
(* directories os.mkdir makes on the way, and the clean action, which      *)
(* removes directories with `rm -rf` and then every parent that is left    *)
(* empty.  src/src/base/io.lua, base/os.lua, actions/clean/_clean.lua and  *)
(* host/os_mkdir.c, os_rmdir.c, os_isdir.c, os_isfile.c, os_match.c.       *)
(*                                                                         *)
(* A path is the sequence of the names on it.  The paths considered are    *)
(* fixed; what stands at each of them varies.                              *)
(***************************************************************************)
EXTENDS Naturals, Sequences

CONSTANTS
    Name,        \* names of files and directories
    Hidden,      \* those that start with a dot
    Node,        \* absolute paths
    RepoRoot,    \* the directory $root stands for
    Start,       \* the file systems premake may find
    Cwd,         \* the working directories it may be started in
    Dirs,        \* sets of directories the configurations may ask to clean
    Outputs,     \* files an action may write
    MaxRuns,     \* bound: invocations of premake
    Nil

Top == <<>>      \* "/"

\* The directories above n.
Above(n) == {SubSeq(n, 1, i) : i \in 0 .. Len(n) - 1}
Within(n, d) == n = d \/ d \in Above(n)
Parent(n) == SubSeq(n, 1, Len(n) - 1)

\* A file system: what stands somewhere stands in a directory.
FileSystem == [Node -> {"none", "dir", "file"}]
Tree(t) ==
    t[Top] = "dir" /\ \A n \in Node \ {Top} : t[n] = "none" \/ t[Parent(n)] = "dir"

ASSUME PathsAssumption ==
    /\ Node \subseteq Seq(Name) /\ Top \in Node
    /\ \A n \in Node : Above(n) \subseteq Node
    /\ RepoRoot \in Node /\ Nil \notin Node

ASSUME RunsAssumption ==
    /\ Start \subseteq FileSystem /\ \A t \in Start : Tree(t)
    /\ Cwd \subseteq Node /\ Outputs \subseteq Node \ {Top}
    /\ \A ds \in Dirs : ds \subseteq Node
    /\ MaxRuns \in Nat

VARIABLES
    fs,          \* Node -> "none", "dir" or "file"
    cwd,         \* _CWD
    dryrun,      \* the option of the current invocation
    phase,       \* "idle", "write", "clean" or "error"
    out,         \* the file being opened for writing, or Nil
    part,        \* the part of its path that os.mkdir is at
    asked,       \* the directories the configurations give clean.directory
    left,        \* those it was not called for yet
    climb,       \* the argument of rmdirParentsIfEmpty, or Nil
    removeList,  \* what the dry run has printed
    before,      \* fs when the invocation began
    runs

writing == <<out, part>>
vars == <<fs, cwd, dryrun, phase, writing, asked, left, climb, removeList,
          before, runs>>

Children(t, d) == {n \in Node \ {Top} : Parent(n) = d /\ t[n] # "none"}

isdir(t, p) == t[p] = "dir"

-----------------------------------------------------------------------------
(* io.open(fname, "wb") *)

\* Mutant: only the directory itself is made, as the host function does.
onlyPart(f) == Len(f) - 1
\* os.mkdir goes along the path from its first part.
firstPart(f) == 1

\* premake.generateStart calls io.open, which calls os.mkdir for the directory.
\* The dry run prints the name.
open(f, dry) ==
    /\ phase = "idle" /\ runs < MaxRuns
    /\ runs' = runs + 1 /\ before' = fs /\ dryrun' = dry
    /\ asked' = {} /\ removeList' = {}
    /\ \/ dry /\ UNCHANGED <<phase, writing>>
       \/ ~dry /\ phase' = "write" /\ out' = f /\ part' = firstPart(f)
    /\ UNCHANGED <<fs, cwd, left, climb>>

\* The host's mkdir: one directory, in one that exists.
builtin_mkdir(p) == fs[p] = "none" /\ isdir(fs, Parent(p))

\* One part of the directory's path; a failure is an error, which ends premake.
mkdirPart ==
    /\ phase = "write" /\ part < Len(out)
    /\ LET dir == SubSeq(out, 1, part)
       IN  \/ isdir(fs, dir) /\ UNCHANGED <<fs, phase>>
          \/ /\ ~isdir(fs, dir) /\ builtin_mkdir(dir)
             /\ fs' = [fs EXCEPT ![dir] = "dir"]
             /\ UNCHANGED phase
          \/ /\ ~isdir(fs, dir) /\ ~builtin_mkdir(dir)
             /\ phase' = "error"
             /\ UNCHANGED fs
    /\ part' = part + 1
    /\ UNCHANGED <<cwd, dryrun, out, asked, left, climb, removeList, before, runs>>

\* The directory is there; so is an error if the file cannot be opened.
builtin_open ==
    /\ phase = "write" /\ part >= Len(out)
    /\ \/ /\ isdir(fs, out) \/ ~isdir(fs, Parent(out))
          /\ phase' = "error" /\ UNCHANGED fs
       \/ /\ ~isdir(fs, out) /\ isdir(fs, Parent(out))
          /\ phase' = "idle" /\ fs' = [fs EXCEPT ![out] = "file"]
    /\ out' = Nil /\ part' = 0
    /\ UNCHANGED <<cwd, dryrun, asked, left, climb, removeList, before, runs>>

-----------------------------------------------------------------------------
(* The clean action *)

StartClean(ds, dry) ==
    /\ phase = "idle" /\ runs < MaxRuns
    /\ runs' = runs + 1 /\ before' = fs /\ dryrun' = dry
    /\ phase' = "clean" /\ asked' = ds /\ left' = ds /\ removeList' = {}
    /\ UNCHANGED <<fs, cwd, writing, climb>>

\* rm refuses a path that ends in "." or "..", which is how path.getrelative
\* spells the working directory and those above it.
Refused(d) == Within(cwd, d)

\* repoRoot is kept with a slash at its end, and os.readlink returns a path
\* without one.
repoRoot == [dir |-> RepoRoot, slash |-> TRUE]
readlink(d) == [dir |-> d, slash |-> FALSE]
isRepoRoot(d) == readlink(d) = repoRoot

\* Mutant: the directory is removed, but not what it holds.
rmNode(t, d) == [t EXCEPT ![d] = "none"]
rmTree(t, d) == [n \in Node |-> IF Within(n, d) THEN "none" ELSE t[n]]

\* clean.directory up to the call of rmdirParentsIfEmpty: os.rmdir.  It returns
\* early for the pattern ".", but its callers give it absolute paths.
cleanDirectory(d) ==
    /\ phase = "clean" /\ climb = Nil /\ d \in left
    /\ left' = left \ {d}
    /\ \/ /\ dryrun
          /\ removeList' = IF fs[d] # "none" THEN removeList \cup {d} ELSE removeList
          /\ climb' = d
          /\ UNCHANGED <<fs, phase>>
       \/ /\ ~dryrun
          /\ phase' = IF isRepoRoot(d) THEN "error" ELSE phase
          /\ fs' = IF isRepoRoot(d) \/ Refused(d) THEN fs ELSE rmTree(fs, d)
          /\ climb' = IF isRepoRoot(d) THEN Nil ELSE d
          /\ UNCHANGED removeList
    /\ UNCHANGED <<cwd, dryrun, writing, asked, before, runs>>

\* What matchdirs and matchfiles of p.."/*" find: os_matchnext passes over names
\* with a dot, and a directory that cannot be opened has no entries.  path.getabsolute
\* makes "/" the empty string, and of "/*" os_matchstart opens the directory "".
matches(p) ==
    IF isdir(fs, p) /\ p # Top THEN {n \in Children(fs, p) : n[Len(n)] \notin Hidden} ELSE {}

\* Mutant: a directory that does not exist is not looked at.
looksEmptyIfThere(p) == isdir(fs, p) /\ matches(p) = {}
looksEmpty(p) == matches(p) = {}

\* Mutant: os.rmdir, which removes what the directory holds as well.
builtin_rmdirAll(p) == rmTree(fs, p)
\* The host's rmdir removes a directory without entries, never "/", which it is
\* given as the empty string; a failure is ignored.
builtin_rmdir(p) ==
    IF isdir(fs, p) /\ Children(fs, p) = {} /\ p # Top THEN [fs EXCEPT ![p] = "none"] ELSE fs

\* Mutant: the recursive call is given the same directory.
parentSame(p) == p
\* path.getdirectory of the empty string is ".", and the recursive call makes that
\* the working directory.
parent(p) == IF p = Top THEN cwd ELSE Parent(p)

rmdirParentsIfEmpty ==
    /\ climb # Nil
    /\ \/ /\ looksEmpty(climb) /\ dryrun
          /\ removeList' = removeList \cup {climb}
          /\ climb' = parent(climb)
          /\ UNCHANGED fs
       \/ /\ looksEmpty(climb) /\ ~dryrun
          /\ fs' = builtin_rmdir(climb)
          /\ climb' = parent(climb)
          /\ UNCHANGED removeList
       \/ /\ ~looksEmpty(climb)
          /\ climb' = Nil
          /\ UNCHANGED <<fs, removeList>>
    /\ UNCHANGED <<cwd, dryrun, phase, writing, asked, left, before, runs>>

CleanDone ==
    /\ phase = "clean" /\ climb = Nil /\ left = {}
    /\ phase' = "idle"
    /\ UNCHANGED <<fs, cwd, dryrun, writing, asked, left, climb, removeList,
                   before, runs>>

-----------------------------------------------------------------------------
Init ==
    /\ fs \in Start /\ cwd \in Cwd
    /\ dryrun = FALSE /\ phase = "idle" /\ out = Nil /\ part = 0
    /\ asked = {} /\ left = {} /\ climb = Nil /\ removeList = {}
    /\ before = fs /\ runs = 0

Over ==
    /\ phase = "error" \/ (phase = "idle" /\ runs = MaxRuns)
    /\ UNCHANGED vars

Step ==
    \/ \E d \in left : cleanDirectory(d)
    \/ rmdirParentsIfEmpty
    \/ CleanDone
    \/ mkdirPart \/ builtin_open

Next ==
    \/ \E f \in Outputs, dry \in BOOLEAN : open(f, dry)
    \/ \E ds \in Dirs, dry \in BOOLEAN : StartClean(ds, dry)
    \/ Step
    \/ Over

Spec == Init /\ [][Next]_vars /\ WF_vars(Step)

-----------------------------------------------------------------------------
(* Correctness *)

\* The variables have their types, and everything stands in a directory.
TypeOK ==
    /\ fs \in FileSystem /\ Tree(fs)
    /\ cwd \in Cwd /\ dryrun \in BOOLEAN
    /\ phase \in {"idle", "write", "clean", "error"}
    /\ out \in Outputs \cup {Nil} /\ part \in Nat
    /\ asked \subseteq Node /\ left \subseteq asked
    /\ climb \in Node \cup {Nil} /\ removeList \subseteq Node
    /\ before \in FileSystem /\ runs \in 0..MaxRuns

\* The clean action removes no file outside the directories it was asked to
\* clean, although a directory with hidden files looks empty to os.match on the
\* way up (os.rmdirParentsIfEmpty).
OthersStand ==
    \A n \in Node :
        before[n] = "file" /\ (\A d \in asked : ~Within(n, d)) => fs[n] = "file"

\* "Remove a directory if it's empty, and any parents if they're empty too":
\* once an invocation has cleaned, no directory above a cleaned one is empty.
NoEmptyParents ==
    phase = "idle" /\ ~dryrun =>
        \A d \in asked : \A a \in Above(d) :
            isdir(fs, a) => Children(fs, a) # {}

\* Writing fails only where a file stands in the place of a directory, or the
\* other way round: directories that clean took away are made again.
ErrorHasCause ==
    phase = "error" =>
        \E f \in Outputs : before[f] = "dir" \/ \E a \in Above(f) : before[a] = "file"

\* The climb has passed every directory up to "/", and goes on at a working
\* directory that looks empty.
Astray == climb = Top /\ looksEmpty(cwd)

\* Climbing to the parents ends, beyond "/" too, where os.rmdirParentsIfEmpty goes
\* on at the working directory.  The exception: it comes to "/" when the working
\* directory looks empty, which it then removes.
CleanEnds == phase = "clean" ~> phase \in {"idle", "error"} \/ Astray

\* The file system stays one, files that nobody asked to clean stay, and
\* writing fails only where it must.
FilesSound == TypeOK /\ OthersStand /\ ErrorHasCause
=============================================================================
