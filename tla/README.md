# Verification of premake

premake (this is the fork with a ninja generator, projects "uses" and build
variants) runs a build script written in Lua, collects what it declares into
solutions, projects, usages and configuration blocks, *bakes* these into
concrete build configurations, and hands them to an action that writes build
files. This directory holds TLA+ models of the parts of it whose correctness
depends on the order of many steps, the TLC runs that check them on small
instances, and TLAPS proofs of the invariants that matter most.

Paths below are relative to the repository; `src/src/...` is the repository's
own `src` directory inside the checkout at `src/`.

## 1. Inventory

premake is one Lua program inside a small C host. It has no threads and keeps
nothing between two invocations but the files it writes, so there is no
concurrency and no recovery after a crash. What makes it hard is elsewhere:

* `pairs()` walks tables in an unspecified order, and steps taken during one
  walk change what later steps find;
* baking is a mutual recursion between `project.addconfig` and
  `keyedblocks.getconfig`, over a graph that the script author may make cyclic,
  with a hand-made recursion guard;
* results are cached under several keys while they are still being made;
* shared upvalues are changed around a recursive call and restored after it;
* names are invented (variants, mangled ninja variables, lower-case and alias
  spellings of options) and must not collide or go stale;
* global state (scope, working directory, `_ACTION`, the output file) is changed
  around nested calls of scripts, solutions and actions, in any nesting;
* clean removes directories and their parents from a file system that earlier
  invocations, the user and hidden files have shaped.

| Component | State | Operations | Interacts with | Correct when |
|---|---|---|---|---|
| **Baking** `project/project.lua`, `project/keyedblocks.lua`, `project/config.lua`, `base/globalcontainer.lua` | per project `buildVariantMap`, `configs`, `keyedblocks` with `__cache`; per usage `keyedblocks.__filter`; `targets.prjToBuild`, `prjToGenerate` | `bakeall`, `addconfig`, `getconfig`/`findBlocks`, `config.bake`, `addUsageConfig` | reads what the API collected; its result is all a generator sees | it ends; no configuration is baked inside its own bake; link lines follow the propagation rules in any order of walking; everything referred to exists |
| **Ninja variables** `actions/ninja/_ninja.lua` (`ninjaVar`) | `nameToValue`, `valueToName`, `findNameIdx`, `valueToWeight`, shared by all scopes | `newScope`, `set`, `getName`, `getBest`, `getBuildVars` | called by `ninja_solution.lua`, which writes the declarations | each `${name}` written is declared earlier, once, with the value meant |
| **Command-line options** `base/option.lua`, `base/cmdline.lua` | `_OPTIONS`, `option.list`, `option.aliases` | `add`/`newoption`, `get`, `refresh`, `validate` | `premake.c` fills `_OPTIONS`; scripts register more | each option reaches its trigger with the user's value; a list is refused if and only if it is invalid |
| **Ninja generator** `actions/ninja/ninja_solution.lua`, `_ninja.lua` | `slnDone`, open files, generated targets per project, default targets | `onSolution`, `generateSolution`, `generateProject`, `mergeTargets`, `writeFooter`, `generateDefaultBuild` | baking, ninja variables | one edge per output; every phony target's inputs exist; includes end |
| **Main program and actions** `_premake_main.lua`, `base/action.lua` | `_ACTION`, `_OS`, `_ARGS` | the phases of `_premake_main`, `action.call`, `action.execute` | options, API, baking, generators | globals are restored after a nested action; phases run in order |
| **Configuration filter** `keyedblocks.getfilter`, `oven.lua` | the filter under construction | `usesconfig` fixed point, term matching | baking | the loop ends and returns a stable filter |
| **Script scope and API** `base/api.lua`, `base/globals.lua` | `premake.CurrentContainer`, configuration, scope stack, cwd | `scopepush`/`scopepop`, `dofile`, field setters | everything a script declares | the scope after a file is the scope before it |
| **Names** `project.createproject`, `getRealProject`, `getUsageProject`, `globalcontainer.lua` | `allReal`, `allUsage`, aliases, namespaces | declaration, lookup, target filtering | API, baking | a name leads to one project, in any order of declaration |
| **Merging and tokens** `oven.lua` | – | `mergefield`, `removefromfield`, `expandtokens` | baking | expansion ends |
| **Paths** `base/path.lua`, `host/path_isabsolute.c` | – | `getabsolute`, `getrelative`, `join` | everything | agree with resolution of segments |
| **Tables, sequences, strings, trees** `base/table.lua`, `seq.lua`, `string.lua`, `tree.lua` | – | pure helpers | everything | – |
| **Toolsets** `src/tools` | – | format command lines | generator | – |
| **clean, print, misc actions** `actions/clean/_clean.lua`, `base/os.lua` | the file system | `clean.directory`, `os.rmdir`, `rmdirParentsIfEmpty`, `os.mkdir` | the directories that baking computed | nothing but what was asked for is removed, no empty directory stays, writing works again afterwards |
| **Host** `src/host/*.c` | – | calls of the operating system | – | – |
| **Legacy** `actions/make`, `vstudio`, `xcode`, `codeblocks`, `codelite`, `base/bake.lua`, ... | – | previous generation, not loaded by `_manifest.lua` | – | – |

`PROJECT.json` lists the same components with their status, and every hazard of
the kinds above at the line where it bites. `src/host/lua-5.1.4` and
`luajit-2.0` are vendored.

## 2. The modules

| Module | Models | Used by |
|---|---|---|
| `Bake` | baking of configurations | `MCBake`, `BakeProofs` |
| `DepthFirst` | what baking promises: a depth-first search | `BakeRefinement`, which maps `Bake` to it |
| `BakeRefinement` | the mapping | `MCBakeRefinement`, `BakeProofs` |
| `BakeInvariants` | the inductive invariants of the proofs about baking | `BakeProofs` |
| `NinjaVars` | the variable scope of the ninja action, and the lines written with it | `MCNinjaVars`, `NinjaVarsProofs` |
| `NinjaGen` | the ninja generator: solutions, projects, edges and default targets | `MCNinjaGen` |
| `Scripts` | `dofile`, `include` and the script scope | `MCScripts`, `ScriptsProofs` |
| `Targets` | names of projects, usages and aliases, and the choice of what to build | `MCTargets`, `TargetsProofs` |
| `Filter` | the keywords that select configuration blocks | `MCFilter`, `FilterProofs` |
| `Options` | command-line options | `MCOptions`, `OptionsProofs` |
| `Main` | from the command line to the action | `MCMain`, `MainProofs` |
| `Paths` | absolute, relative and rebased paths, and their cache | `MCPaths` |
| `Clean` | the file system: directories made for output, and the clean action | `MCClean`, `CleanProofs` |

The parts follow one another in one invocation: `Main` and `Options` take the
command line, `Scripts` runs the build scripts, whose declarations `Targets`
collects and chooses from, `Bake` makes configurations of them with the keywords
of `Filter`, and `NinjaGen` (with `NinjaVars`) writes them out. Each module starts
from the results that the one before it can produce, as a set of scripts: for
`NinjaGen` that every project to build is baked and to be generated is what
`Bake!NothingDangles` says. They are not composed in one specification: each
ends before the next begins, so the product would only multiply states.

Definitions marked "Mutant" are seeded mistakes. They are in no specification:
each one replaces a definition in a check that the property would notice.

### Bake

The script is a record chosen in `Init`: which names are projects (`real`) and
which only usages, which are command projects with the single configuration
"All" (`single`), the kind of each, the features it has blocks for (`cond`),
what its own blocks and its usage's blocks use, and what the command line asked
for.

| Model | Code |
|---|---|
| `StartProject`, `AddDefault`, `BakeallDone` | `globalContainer.bakeall` walking a copy of `prjToBuild`, and for each project the variants of `solution.getBuildVariants` |
| `addconfig(p, init, below)` | `project.addconfig` up to its first `getconfig`, with its four early returns; `Built`, `HasProject`, `applyBuildVariantMap` are the functions it calls |
| a frame with `fn = "getconfig"`, its `acts` | an activation of `keyedblocks.getconfig` and, inside it, those of `findBlocks` |
| `Use(e)` | one entry of `kb.__uses`: `addconfig` is called for the usage named |
| `EnterUsage` | after it returned: the usage's keyedblocks are created if need be and walked, under the filter of a use with features |
| `LeaveKB` | the rest of `findBlocks`: condition blocks, then `kb.__filter[buildVariantName]` |
| `GotFilter`, `GotConfig` | the two calls of `getconfig` that `addconfig` makes (filter, then everything), their caching, merging and `config.bake` |
| `CompileDepend`, `FinishConfig` | the rest of `addconfig`: dependencies, `prj.configs`, the variant map, `addUsageConfig` and the entry in the usage's `__filter` |
| `Halted` | premake went on to the action, or stopped with an error |

The Lua call stack is the variable `stack`. A Lua error (`assert`, an index of
nil) is `status = "crash"`. A `\E` over the edges still to follow stands for
`pairs()`.

Data: a build name is the pair of a configuration and a set of features, of
which `getBuildName` is an injective spelling; link lines are sets of targets;
all other fields are left out.

### NinjaVars

One action per call the generator makes: `SetVar` (set and, if the name is new,
the line), `SetBlank` (a tool variable that is blank, which is recorded and not
written), `GetBest` and `GetBuildVars`. `decl` is the sequence of lines
`name=value` in `buildedges.ninja`, `refs` the uses written, each with the value
the generator meant. `Mangle[n][i]` is the string `n .. tostring(i)`; nothing is
assumed of it, so mangled names may collide with one another and with names that
callers ask for. `trySet`, `add`, `include` and `alternateVarNames` have no
caller and are not modelled.

### Options

`given` is what `process_arguments` (premake.c) made of the command line. The
phases are those of `_premake_main`: refresh, system script, refresh, build
script, validate (which refreshes again). `RefreshKey` is one iteration of
`option.refresh`, `Validate` one of `option.validate`, both over a table walked
with `pairs()`; `newoption` is a script registering an option. What main does
with single options on the way (`define` adds to `usevariant`; `--version` and
`--help` end the program before `validate`) is left out.

### DepthFirst and BakeRefinement

`DepthFirst` knows nothing of variants, caches or placeholders: nodes are begun
once, from the roots or from the innermost node under way, and finish when all
they use is finished or under way. `BakeRefinement` instantiates it: the nodes
under way are the `addconfig` frames on the stack, the finished ones those with a
configuration, and a node uses the projects behind its uses and behind whatever
plain usages among them export (`AsksFor`). It is stated for scripts without
features and without command projects of a single configuration (`Ordinary`);
cycles are allowed, and it is there that the placeholder must act as "under way".

### NinjaGen

`script` holds the solutions with their projects and includes, the projects to
build with their configurations, which of them are explicit, and what the
command line asked for.

| Model | Code |
|---|---|
| `CallOnSolution`, `StartProjects` | the loops of `premake.action.call` over `slnToBuild` and `prjToBuild` |
| `stack`, `onSolution`, `IncludeSolution` | the recursion of `ninja.onSolution` through `includesolution`; `slnDone` is set only at its end |
| `OpenEdges`, `SolutionProject`, `RemainingProject`, `FinishSolution` | the rest of `onSolution`: `openFile`, `generateSolution` with the solution's own projects and then what is left of `prjToGenerate`, its phony targets, and `generateDefaultBuild` |
| `generateProject`, `writeProjectTargets` | one project: its edges, once, and the targets it returns |
| `onProject`, `onEnd` | projects that no solution generated; footer, aliases and the `build.ninja` files of the root, the working directory and the one handed to ninja |
| `file`, `lost`, `output` | edges written to `buildedges.ninja`, or while `io.output` was at a file that is closed |

`MaxDepth` stands for Lua's stack: a deeper recursion is `phase = "overflow"`.
Compile edges, rules and variables are left out; a configuration's binary is one
edge.

### Scripts

The chunk that runs takes any statement (`solution`, `project`, `usage`,
`scopepush`, `scopepop`, `dofile`, `include` of a file or of a directory), so every
nesting of scripts is covered up to `MaxStatements`. `calls` is the stack of
activations of `dofile` and `include`; `setup` is the local function of that name,
which enters the solution of the nearest directory above the script, and `Restore`
what `dofile` does after the chunk. `includeDir` pushes the scope, runs the scripts
of a directory and below in any order `os.matchfiles` may return them, and pops it.
`project` and `usage` may name what is new or what exists, also in another solution
(full names): `project.createproject` returns that, and the container moves there
while the solution in scope stays. `solution(Global)` is `global()`. `usages` are the
solutions that have some usage; names are not told apart. `loads`, `declared`, the
field `moved` and the field `under` of a container (the solution in scope when it was
named) are history for the properties.

### Targets

`project`, `usage` and `alias` are the API calls with `project.createproject`, each
possible in any order; `StartFilter` ... `filterTargets` are
`globalContainer.filterTargets`, with one step of `findBuildTarget` per argument;
`bakeSolutions` is the part of `solution.bake` that rebuilds the list of projects.
A name is any sequence of parts; `Rooted` and `Begins` are the two spellings that the
code does not qualify with the namespace. `Takes` is the rule by which a solution's
list, and the global one, keep the first declaration of a name. A declaration in
`declared` records the solution it was made in and whether another one had taken its
place before; these are history for the properties. `projectset`, name fragments,
`export` and the suffixes for configurations and versions are left out.

### Filter

One `Repeat` is one iteration of the loop in `keyedblocks.getfilter`: the blocks
that the filter selects are merged in some order in which outer blocks come before
inner ones, their keywords (`usesconfig`, from `api.callback` through `useValue`)
update the filter, and `After` decides as the code does between repeating,
returning and the error. A block is a sequence of calls: a keyword field with a string,
one with a table, or `usesconfig`. A value is plain or belongs to a key (`config=...`); a
plain one is entered under itself in lower case, unless it was given as a string, which
goes under the name of the field (`KeyOf`). Of a table only the last plain value is
kept (`useValue`), and `key=value` in a table or string is kept whole, so that no term
selects by it. `Variants` are the filters that a bake starts from.

### Main

`process_arguments` and `StartMain` are `premake.c`; `SetAction`, `EndScript`,
`Decide` and `Finish` the phases of `_premake_main`. Scripts and actions may
register actions, declare a default and call `action.execute`, nested; `executes`
is the stack of its activations. What an action does besides is left out. An action
that needs baking and is not `isnextgen` is an error.

### Paths

A path is the sequence of its parts between slashes, `""` first if it starts with
one. `chdir` and the calls of `getabsolute`, `getrelative` and `rebase` come in any
order; `absPathCache` is the cache of `getabsolute`. The reference `Meaning` resolves
parts one by one. `HasName` says of which paths the properties speak (not of the root
itself, nor of `$v/..`), `ByTheRoot` which ones get no normal name.

### Clean

A path is the sequence of its names; the paths considered are fixed and `fs` says
what stands at each. `open`, `mkdirPart` and `builtin_open` are `io.open` for writing:
`os.mkdir` goes along the directory's path part by part, then the file is opened.
`StartClean`, `cleanDirectory`, `rmdirParentsIfEmpty` and `CleanDone` are the clean
action, with `rm -rf` and the climb to the parents through `os_match.c`, which does
not see names with a dot, and `os_rmdir.c`, which does. "/" becomes the empty string on
the way: nothing is found in it (`matches`), and its parent is the working directory
(`parent`), where the climb goes on. Several invocations follow
one another, each with or without `--dryrun`.

## 3. The runs

| Run | Instance | Shows |
|---|---|---|
| `bake` | 3 projects, 1 feature, 2 configurations: all acyclic graphs of uses, alwaysuses and exports with all kinds; uses with features, cyclic ones and plain usages too; a command project with the one configuration "All", also with an alwaysuse; 812k states, 1.5 min | `LinkLineExact`: link lines are those of plain reachability over the script, whatever the order of walking. `PlaceholdersHeld`: the recursion guard. `NothingDangles`: every link target is baked and built. `FeaturesConfined`, `CrashOnlyOnFeatures`: features reach only what stands behind a use that asked, and errors have the one cause they may have. `MapSettled`: every name leads to a configuration |
| `bake_cyclic` | 3 projects, all graphs of uses, self-use included; two projects that refer to each other by use, alwaysuse or export, one of them perhaps a plain usage; 330k states, 3 min | `BakesDepthFirst`: the refinement of `DepthFirst`; `Termination`; `NoReentrantBake`; `LinkLineSound`: nothing is on a link line that the rules do not put there |
| `ninja_vars` | 3 base names, one of which is a mangled form of another and one of which newScope took; 3 declarations; 530k states | `TablesAgree`, `DeclaredOnce`, `RefsResolve`, `NamesNeverRebound` |
| `ninja_gen` | 3 solutions with includes (acyclic, missing, mutual), 6 projects, explicit ones, commands, aliases; by solution, by project, both or none; 101k states | `EdgesSound`: ninja accepts the file. `SolutionFileComplete`: a solution's file builds all it includes. `AskedIsBuilt`: what was asked for is built. `TargetsMeant`: a name builds what it stands for and explicit projects wait. `GeneratorEnds` |
| `scripts` | 4 directories with a script each, one excluded, 2 solutions (symmetric) and the global one, 5 statements; 1.20M states, 1.5 min | `ScopeSound`: the records of the scope belong together, projects of other solutions included, and pushes are accounted for. `RunsOnceAtHome`. `SubdirsInSolution`: projects are in the nearest solution above. `IncludeKeepsScope` |
| `targets` | 2 solutions, one in a namespace, 2 names, one of them also a namespace, 3 declarations, 2 aliases, up to 2 targets; 4.4M states, 1 min | `NamesSound`, `SolutionBuildsAll`, `NamedIsBuilt`, `BakedListsExact` |
| `filter` | any 3 of 16 blocks (nested, negative, keyed and plain keywords, given as strings, in tables or with `usesconfig`) beside a fixed one, two and three flags in one block, values in upper case, chains of 1 to 10 keywords with and without an iteration spent on lower case, a key that goes through more values than there are iterations; 25.6k states | `FilterIsClosed`: the filter is the fixed point the comment promises. `FilterSound`: keywords have a source, no plain value is lost but those named below, and a filter is refused only if a keyword changed its value or `LoopMax - 2` keywords were added. `FilterEnds` |
| `options` | up to 3 options under any of 11 spellings, an alias in upper case, and one registered by a script; 585k states | `Delivered`, `AcceptedSound`, `FailsForCause` |
| `main` | up to 2 words out of 7, 5 actions of which one is a help action and one implies an operating system and one is not next-gen, 3 statements; 94k states | `ActionSound`: the action that was asked for is called and is current again after what it executes. `BakedForCommandLine` |
| `paths` | 2 working directories, 12 paths and 3 bases, some of which are the root or climb to it, 3 calls; 231k states | `CacheSound`: the cache is never stale. `PlacesKept`: the three conversions keep the place a path means, where it has a name, and the name is normal unless the path climbs to the root |
| `clean` | 14 paths, every state of the build directory, cleaned and written in 2 invocations, started in four places, of which one outside the repository is empty and one is not; 669k states, 1.5 min | `FilesSound`: nothing else is removed, and writing fails only where it must. `NoEmptyParents`. `CleanEnds`, unless the climb passes "/" while the working directory looks empty |
| `bake_command_users` | a violation, see below | |

**Bounds.** Three projects are the least with which a use can be indirect, a
project can be reached along two ways (a diamond with the requester), a cycle can
lie behind a project that is not on it, and a bake can be two bakes deep when it
meets its own placeholder; two configurations the least in which one can leak
into another; one feature is enough for a variant to differ from the default and
for a project to ignore it. In `NinjaVars`, `MaxDecl = 3` lets a base name be
taken, mangled and mangled again into the name of another caller; `MaxIdx = 4`
allows a name three suffixes, one for each of the other values, before repeated
calls are cut off; and `MaxWeight = 6` is just beyond the threshold of 5. In
`NinjaGen`, three solutions allow an include of an include and one that is
included twice; `MaxDepth = 4` is one more than the deepest recursion without a
cycle. In `Scripts`, five statements are what it takes for a script below a second
solution to be loaded while the first is in scope. In `Targets`, three
declarations allow a usage before its project beside a project of the same short
name, and two aliases a chain and a cycle; `MaxAliases = 3` in place of 100 is beyond
any chain. `LoopMax = 10` is the code's own limit, which the longest chains of
keywords exceed. In `Options`, three options allow the trigger, the alias and
another spelling of one option at once, or one of each kind of fault with a valid
option. In `Main`, three statements allow a registered action to be executed and to
execute another. In `Paths`, `MaxCalls = 3` is a call, a change of directory and the
call again. In `Clean`, two invocations are clean after writing and writing after
clean; the first file system is any state of the build directory.

**Fairness.** `Bake`, `DepthFirst` and `NinjaGen` assume `WF_vars(Next)`, `Filter`
`WF_vars(Repeat)` and `Clean` `WF_vars(Step)`, where `Step` is what an invocation of
clean does once it has been started: premake is one Lua program that keeps running
while there is a next statement. Nobody is assumed to start it again, and which of
several entries `pairs()` gives next is left open. The other modules state safety
only.

**Deadlock** is checked wherever the program ends: `Halted`, `Over`, `Ended` and
`Done` say explicitly when it is over, and a state from which no step of the code
is modelled would be reported. `NinjaVars` and `Paths` model libraries that may be
called any number of times up to their bounds, so their runs say
`CHECK_DEADLOCK FALSE`.

### Disagreements found

In one run, `bake_command_users`, TLC must find `CommandReachesUsers` violated:
`addconfig` returns a command project that is already baked (`project.lua:97`)
before it enters the requested name in the usage's `__filter` (`:148`). From the
second configuration on, users of the command do not depend on it, although
`project.lua` says that its one configuration "is equivalent to all variants".

The following were met in the same way. The instances above contain most of
them, and the property named is stated so that it holds beside them; the comment
above it says which case it leaves out.

| Property | What the code does |
|---|---|
| `LinkLineExact` | What the early return for a command project loses (above) is its whole usage block, so its alwaysuses do not reach the users either, and their libraries are missing there; the property is about projects with no such project behind them. |
| `NoReentrantBake` | The guard (`project.lua:90`) looks at the entry for the requested name. For a command project that entry leads to "All" and not to the placeholder stored under "All", so the bake of "All" can be entered inside itself (once per name without features; a use with features behind the command project may ask for "All" again and again, so `Termination` is checked of scripts without either). |
| – | A request with a feature the project ignores replaces the configuration of the plain name, but `addUsageConfig` (`config.lua:65`) keeps the usage block of the old one. |
| `DeclaredOnce` | `set` resumes its search after the last suffix it tried (`_ninja.lua:438`), so a value held under an earlier suffix is declared again, under another name. |
| `AcceptedSound` | `validate` returns true at the first option with an allowed value (`option.lua:143`); which others it has checked depends on `pairs()`. |
| `FailsForCause` | An alias in upper case that a script registers: `refresh` adds its lower-case form, which names no option, and `validate` refuses the list or indexes nil (`option.lua:135`). |
| `GeneratorEnds` | `onSolution` follows `includesolution` before it marks the solution as done (`_ninja.lua:84`); two solutions that include "*", which `solution.bake` replaces by all others, recurse without end. |
| `AskedIsBuilt` | A project named beside a solution is generated with that solution, as one of the remaining projects, and its targets are then not added to those built (`ninja_solution.lua:209`). |
| `TargetsMeant` | A project with some explicit configurations lists the final targets of all of them (`ninja_solution.lua:700`), so building the project builds them. Two command projects whose names end alike share one edge (`:732`). |
| `ScopeSound` | `project "A/x"` of an existing project, said in solution B, enters that project (`project.lua:451`) while `api.scope.solution` stays B: a `usage` said next is entered in A (`api.lua:1888`), a `project` in B. So the records are not always of one solution; the property says which still belong together. |
| `SubdirsInSolution` | `setup` enters the solution of a file that is loaded by name, and nothing leaves it again: the rest of the loading script declares its projects there (`globals.lua:107`). |
| `RunsOnceAtHome` | Files loaded with `dofile`, the build script among them, are not tracked, and an include of their directory runs them again (`globals.lua:165`). |
| `SolutionBuildsAll` | A usage declared before its project takes its name in the solution's list (`project.lua:473`); the project is not built with the solution. The same holds for two projects of one name in two namespaces of a solution; the property excepts both, and nothing else. |
| `NamesSound` | A name that starts with "/", or that has a namespace of its own, or that the namespace begins with as a string, is not qualified as `api.lua:1391` says (`project.lua:406`, `:442`, `:490`); the property excepts such names. |
| `FilterSound` | Plain values of one call are numbered by `#useValue`, which stays 0, and overwrite one another (`api.lua:275`). A value given as a string is stored under the name of its field (`api.lua:286`): `flags "A"` in one selected block and `flags "B"` in another leave one of the two. Both although the values "will automatically be added to the filter list" (`api.lua:38`). `key=value` in a table or string is kept whole (`api.lua:280`), while terms are stripped to what follows "=" (`keyedblocks.lua:94`), so no block is selected by it. A filter that becomes stable in the last iteration allowed is refused as oscillating (`keyedblocks.lua:333`). |
| – | Terms are put in lower case, values of the filter only if some selected block has keywords (`keyedblocks.lua:86`): without, "Debug" does not select the block "debug". |
| `PlacesKept` | `getabsolute("/ProjectA/../ProjectB/bin")` is "//ProjectB/bin" (`path.lua:102`), where the repository's test expects "/ProjectB/bin" (`src/tests/base/test_path.lua:25`): it is the same place, but not the one name of it. The root itself becomes the empty string (`path.lua:118`), which is the working directory to whatever is called next, and "$v/.." becomes "." (`path.lua:153`). The property excepts the root and `$v/..`, and claims a normal name only of paths that do not climb to the root; the instance has all of them. |
| `CleanEnds` | `os.rmdirParentsIfEmpty` does not stop at "/", which `path.getabsolute` makes the empty string (`path.lua:118`): `os_matchstart` opens "" and finds nothing (`os_match.c:105`), and the parent of "" is "." (`path.lua:153`), the working directory (`os.lua:446`). If that looks empty it is removed in its turn, and the recursion goes from "/" to it and back until Lua's stack is full. |
| `ActionSound` | `action.set(_ACTION or '')` runs before the build script, so `defaultaction` finds `_ACTION` set and no default is taken when no action is given (`_premake_main.lua:239`). |
| – | `action.execute` restores `_ACTION` and `_ARGS`, but `_OS` only if the old action implies one (`action.lua:149`); an action that the script registers, and the default action, never set `_OS`. |
| `FilesSound` | The check for "." in `clean.directory` (`_clean.lua:24`) is made of an absolute path, and that for the repository's root compares a path with a slash at its end with one without (`os.lua:430`): a directory that was asked for is removed, whatever it holds. |
| – | A dry run of clean does not print the parents that the real one would find empty (`os.lua:456`). |

## 4. The proofs

`tlapm` checks them for every value of the constants that satisfies the named
assumptions; in particular for any number of projects, features, configurations
and any script, cyclic or not.

**`BakeProofs`** assumes `BuildCfgsSequence`, `ScriptsAreScripts` (only existing
projects are asked for) and `NoneDistinct` (nil and the placeholder are not
values). Theorem `BakeInvariant` is `Spec => []BakeInv` with

    BakeInv == TypeOK /\ CallsSound /\ TablesSound /\ PlaceholdersHeld /\ NoReentrantBake

and from it follow `BakeTypes`, `BakePlaceholders` and `BakeNotReentrant`. None
of the parts is inductive alone:

* `NoReentrantBake` needs to know, when `addconfig` pushes a frame, that no frame
  for the same final name is below. That is `PlaceholdersHeld`: every bake under
  way still has its placeholder in the map, or a configuration under its final
  name, and in both cases `addconfig` returns early. The second case is real: a
  bake of `p` with an ignored feature, nested in the bake of plain `p`, settles on
  the plain name and overwrites the outer placeholder.
* `PlaceholdersHeld` needs its other half, that the map of an ordinary project
  leads only to names that have configurations: otherwise a requested name could
  lead to a name whose bake is under way.
* `TypeOK` needs `CallsSound`: a `getconfig` frame has an `addconfig` frame
  below it to return to, and a walk has a variant wherever it reads one
  (`SoundAct`); and `TablesSound`: whatever a cache entry or `__filter` names
  exists when it is merged.

Each action is a lemma: it preserves each of the parts it can disturb. Facts about
stacks (replacing, pushing, dropping a frame) and about `addconfig` as a whole
are lemmas of their own, since four actions call it or return from it.

*What is linked is baked.* The second part of the module goes on from `BakeInv`. Its
invariant `Tracked` (this one and those below are defined in `BakeInvariants`) follows what `addconfig` will leave behind: whatever a configuration, a usage block or a bake
under way links is among the projects to build and has its configuration; every
placeholder in a map stands for a bake on the stack (but for "All" of an ordinary
project, which nobody asks for), and every name of a command project leads to
"All"; and each request of `bakeall` is still queued or has been met. When the
stack is empty this gives `MapSettled` (theorem `BakeSettlesNames`) and
`NothingDangles` (`BakeLeavesNothingDangling`).

*Features and links come from the script.* The third part relates tables and frames
to the script. `Reached` says
that a frame, a cached block or a link for a project `p` with a feature exists only
if `p` has a block for the feature and stands behind a use that asked for it, that
configurations do not mix, and that the frames of the stack form a path of uses, so
that a request that meets a placeholder closes a cycle of uses. From it follow
`FeaturesConfined` (`BakeConfinesFeatures`) and `CrashOnlyOnFeatures`
(`BakeFailsForFeatures`). `Lined` says, of a script without features, that every
link and every exported use that a block or a frame holds is one the propagation
rules give to that project, and so does theorem `BakeLinksByTheRules`
(`LinkLineSound`), with cycles or without. The rules are stated with `Closure`, the
smallest set that holds some projects and is closed under a relation; that it is the
smallest is what these proofs use, and no induction along a path is needed. The
third part of `ScriptsAreScripts`, that "All" is not a configuration of a requested
ordinary project, is how the name is used in `project.lua`.

*Baking is a depth-first search.* The fourth part proves `BakeIsDepthFirst`: in a script
that is `Ordinary`, `Spec` implements `DepthFirst!Safety`. A call of `addconfig` that
pushes a frame is `Begin`, one that returns early is a stutter, `FinishConfig` is
`Finish` and `BakeallDone` is `End`. Two facts carry it, both parts of the
invariant `Searched`:

* whatever a walk visits or is about to follow, the project whose bake it belongs to
  asks for (`AsksFor`), or it was answered before (`Due`); so what is begun is used by the innermost bake;
* whatever a walked table uses has been walked or is pending in the same activation,
  and what was answered stays answered (`Keeps`). When `getconfig` ends nothing is
  pending, so the set walked is closed under the uses and exports, and as `AsksFor` is
  the smallest such set, all of it is finished or under way.

Caches make the second one delicate: a walk may be answered from a cache filled by an
earlier bake, which has then asked for all that this one would. The map of an
ordinary project without features leads from each name to itself, which lets a
request and its final name be the same node.

*Nothing is missing on a link line.* `LinkLineSound` is one half of `LinkLineExact`;
the last part proves the other, and `BakeLinksExactly` puts them together: in a script
that is `Ordinary`, a project that reaches no cycle links exactly what the rules say,
whatever cycles there are elsewhere. The invariant is `Complete`. Of every project that
reaches no cycle (`FreeOfCycles`) it says:

* its configuration has the whole link line (`LinesFull`), also while its bake is under
  way, and its usage block all that a user must inherit (`BlockFull`);
* the tables that a walk has gone through, and those a cache holds, are closed: a usage
  brings its project's block, and a block brings its alwaysuses, unless the walk is still
  going to follow them (`SeenFull`).

Both are wrong of a project that leads to a cycle, where a project being baked is
skipped and the gap is cached. So the proof has to keep the two kinds apart: what is
behind a project free of cycles is free of cycles (`FreeBehind`), and as the frames form
a path of uses, none of it is under way when it is asked for (`NotUnderWay`); no
placeholder is met, and the use is answered in full. That closed tables hold the whole link
line is `MergedFull`: the rules start from what the project sees, which is the smallest
set closed under exports and alwaysuses, and each library further away is in the block of
some project that is seen (`ReachSplits`). A block is published once and never changes in such a script, so what a
cache took from it does not become stale. The attempt corrected the property, which
had claimed libraries of projects with a command project of one configuration behind
them (section 3).

**`NinjaVarsProofs`** assumes `NameAssumption`, `ScopeNameAssumption`,
`ValueAssumption` and `BoundAssumption`, and nothing of `Mangle` beyond its type. Theorem
`ScopeCorrect` shows `TypeOK`, `TablesAgree`, `DeclaredOnce` and `RefsResolve`
together from one inductive invariant that ties the tables to the file in both
directions: every recorded name that is not predefined and whose value is not
blank was declared, with that value (`RecordedIsWritten`, needed because
`getBest` writes a reference long after the declaration, knowing only the
tables), and whatever was declared is recorded (`WrittenIsRecorded`, needed for
`DeclaredOnce`, since `set` decides from the tables whether a name is new).
Theorem `NamesKeepValues` is the action property `NamesNeverRebound`.
`ScopeTablesAgree` and `ScopeDeclaresOnce` state two of the parts by themselves.

**`ScriptsProofs`** assumes `ScriptsAssumption` (a directory has a parent, files are
finite). The invariant is

    Inv == Types /\ StackAccounted /\ FramesSound /\ TopSound /\ ScopesAgree
             /\ Loaded /\ SubdirsInSolution

The stack of scopes holds what the activations of `dofile` and `include` own, and
`Heights` says where each one's part begins. An activation of `include` keeps the
scope it will restore (`FramesSound`: it is the one on the stack at its height, and
all saved scopes agree with themselves), so a script that pushes scopes and does not
pop them cannot make `include` restore another. To agree is that the records belong
together, not that they are of one solution, which `project` and `usage` of a full name
break (section 3). Theorems: `ScopeStaysSound`,
`ScriptsRunOnceAtHome`, `ScriptsStayInSolution` and the action property
`IncludeRestoresScope`. That heights grow along the stack is an induction; it is
done with the least counterexample (`LeastNatural`).

**`OptionsProofs`** assumes `OptionsAssumption` and `NamesAssumption`: no two options
share a name in any case. The code does not check it; with a shared name the last
one registered takes it. The invariant says where every entry of `_OPTIONS` comes
from (`FromUser`) and what a refresh under way has still to visit (`RefreshSound`), so
that the order of `pairs()` cannot matter; `ValidateSound` is the same for `validate`.
Theorems: `OptionsDelivered`, `OptionsFailForCause`, `AcceptanceSound`.

**`MainProofs`** assumes `MainAssumption`. Whatever scripts and actions execute, the
bottom of the stack of `action.execute` (`MainAction`, `MainArgs`) keeps what the
command line gave, and `InArguments` ties the words processed so far to those to
come. Theorems: `ActionStaysSound`, `BakesForCommandLine`.

**`CleanProofs`** assumes `PathsAssumption` (the paths considered are closed under
taking the directory) and `RunsAssumption` (each run starts from a tree). `CleanInv`
adds to the properties what `os.mkdir` has passed (`PassedAreDirs`) and changed
(`MakesMissing`), and `EmptyAhead`: a directory above a cleaned one is empty only
while `rmdirParentsIfEmpty` is on its way to it. Without the last part the
climb that stops early, at a parent that is not empty, would say nothing of the
parents further up; with it, a parent that holds an entry keeps its own parents from
being empty. Both hold although the climb may go on at the working directory, and remove
that: it has come from "/", below which no such directory is left empty. Theorems: `CleanKeepsFiles` (`FilesSound`), `CleanLeavesNoEmptyParents`
(`NoEmptyParents`), for any tree and any number of invocations.

**`TargetsProofs`** assumes `TargetsAssumption`: names and namespaces are sequences of
strings, and the bounds are natural numbers. The tables of projects, usages and
aliases are tied to the declarations in both directions (`KeysHeld`,
`EntriesDeclared`): an entry was declared under that name, and a declaration that is
not `late` is still the one its name leads to, so that later declarations cannot
take it away. `NamedSoFar` says what `filterTargets` has chosen for the arguments
already done. Aliases lead to their targets along a chain: `Chain` and `BakedList` are
recursive functions whose equations are proved first, and facts about every link of a
chain by the least counterexample. Theorems: `TargetsNamesSound` (`NamesSound`),
`SolutionsBuildAll`, `NamedAreBuilt`, `BakedListsAreExact`.

**`FilterProofs`** assumes `FilterAssumption`: lower case of lower case is itself,
variants and blocks have their types, blocks are finitely many, and no table gives one
name both as a plain value and as a key. The invariant has,
besides `Types` and `KeywordsHaveASource`,

* `Settled`: when the loop returns, its last iteration changed nothing, so merging
  the blocks of the filter once more gives the filter itself. `FilterIsClosed` follows
  (theorem `ReturnedIsClosed`);
* `Growing`: every iteration but the first has added a keyword, or a keyword has
  changed its value. This bounds the iterations by the keywords, and with the rest
  gives `FilterSound` (theorem `FilterHolds`).

What merging does to one key is a lemma by the least counterexample over the order of
merging. The proof attempt corrected the property: a filter was said to be refused
only if a value *came back*, or for `LoopMax - 1` keywords. The first is an accident of
a small instance (a key may go through ten different values), and the second misses
that one iteration may be spent on putting values in lower case. The instance now has
both cases.

**Only model-checked:**

* `Termination`, the fairness in `BakesDepthFirst`, `GeneratorEnds`, `FilterEnds`,
  `CleanEnds`: liveness under fairness is out of TLAPS' reach here.
* `LinkLineExact` of scripts with command projects of one configuration, for the
  projects that have none of them behind them. `CommandReachesUsers` is violated.
* The properties of `NinjaGen` (`EdgesSound`, `SolutionFileComplete`, `AskedIsBuilt`,
  `TargetsMeant`).
* `CacheSound` and `PlacesKept` of `Paths`: they compare with a walk along a sequence,
  where induction over data is needed.

## 5. Not modelled

Inside the modelled components: solution-level blocks, platforms, `removes` and
field values (`Bake`, `Filter`); compile edges, rules and build variables in the
context of a project (`NinjaGen`); the setters of single fields, `configuration` terms and
errors inside a chunk, which end the program (`Scripts`); `projectset`, name
fragments, `export`, suffixes of targets (`Targets`); of the options, the effect of each
one; drive letters and backslashes (`Paths`); symbolic links and permissions
(`Clean`).

Whole components, with the reason, are in `PROJECT.json`: toolsets and the small
actions format text and keep no state; tables, sequences, strings and trees are
pure helpers that the models take for granted; legacy actions are not loaded; token
expansion runs strings of Lua.

Most lines of C in the repository are two vendored interpreters,
`src/host/lua-5.1.4` and `src/host/luajit-2.0`. They are third-party code with
specifications of their own and are no part of this project. premake's own logic is
Lua, with a few hundred lines of C for the host, of which `premake.c`, `os_mkdir.c`,
`os_rmdir.c`, `os_isdir.c`, `os_match.c`, `os_chdir.c`, `path_isabsolute.c` and
`string_endswith.c` are mapped.

## 6. Plan

Left to prove: `EdgesSound` of `NinjaGen`, from an invariant that ties `generated`,
`slnDone` and the stack to the outputs in the file.
