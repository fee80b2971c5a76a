-------------------------------- MODULE Bake --------------------------------
(***************************************************************************)
(* Baking: how premake turns the projects a script declared into concrete  *)
(* build configurations.                                                   *)
(*                                                                         *)
(* globalContainer.bakeall asks for every configuration of every project   *)
(* to build.  project.addconfig bakes one of them: it reads the project's  *)
(* blocks (keyedblocks.getconfig), which follows the project's "uses" and  *)
(* so bakes the projects used first, then records the configuration and    *)
(* publishes in the project's usage what its users must link with          *)
(* (config.addUsageConfig).  addconfig and getconfig call each other; the  *)
(* recursion is the variable stack.  Tables walked with pairs() are walked *)
(* in any order.                                                           *)
(*                                                                         *)
(* The script is chosen in Init and never changes.  Left out: field values *)
(* other than the link line and the uses, solution-level blocks, platforms *)
(* and usesconfig.                                                         *)
(***************************************************************************)
EXTENDS Naturals, Sequences, FiniteSets

CONSTANTS
    Prj,         \* names of projects and usages
    Feature,     \* build features (the ":feature" of a use)
    BuildCfgs,   \* the solution's configurations, a sequence
    AllCfg,      \* the configuration of a command project
    Scripts,     \* the scripts considered
    None,        \* Lua's nil
    InProgress   \* the __buildinprogress placeholder

Cfg == {BuildCfgs[i] : i \in DOMAIN BuildCfgs} \cup {AllCfg}

(* A build variant, and equally a build name: getBuildName is injective on *)
(* a configuration with a set of features.                                 *)
Variant == [cfg : Cfg, feats : SUBSET Feature]

AllVariant == [cfg |-> AllCfg, feats |-> {}]

Kind == {"StaticLib", "SharedLib", "App", "Command"}

(* One entry of a block's __uses: the usage it names, the features asked   *)
(* of it, and whether it came from alwaysuses.                             *)
Edge == [to : Prj, with : SUBSET Feature, always : BOOLEAN]

Script == [real : SUBSET Prj,              \* declared with project()
           single : SUBSET Prj,            \* configurations "All"
           kind : [Prj -> Kind],
           cond : [Prj -> SUBSET Feature], \* features with a block
           uses : [Prj -> SUBSET Edge],    \* of the project
           exports : [Prj -> SUBSET Edge], \* of its usage
           requested : SUBSET Prj]

ASSUME BuildCfgsSequence == BuildCfgs \in Seq(Cfg)

(* "All" is the name of the one configuration of a command project.  A     *)
(* solution that has no other gives it to all of its projects.             *)
ASSUME ScriptsAreScripts ==
    /\ Scripts \subseteq Script
    /\ \A s \in Scripts : s.requested \subseteq s.real
    /\ \A s \in Scripts, i \in DOMAIN BuildCfgs :
          BuildCfgs[i] = AllCfg => s.requested \subseteq s.single

VARIABLES
    script,      \* what the script declared
    baked,       \* targets.prjToGenerate
    prjToBuild,  \* targets.prjToBuild
    bvMap,       \* prj.buildVariantMap
    configs,     \* prj.configs
    usageBaked,  \* usages whose keyedblocks exist
    usageFilter, \* usage keyedblocks.__filter, name to block
    blocks,      \* those blocks, by the name they were created under
    cache,       \* keyedblocks.__cache
    stack,       \* the calls in progress, innermost last
    ret,         \* what the last addconfig returned
    toBake,      \* projects bakeall has not reached
    current,     \* the project bakeall is at
    queue,       \* the variants of it still to be added
    status       \* "bake", "done", or "crash" for a Lua error

tables == <<baked, prjToBuild, bvMap, configs>>
usages == <<usageBaked, usageFilter, blocks>>
mainloop == <<toBake, current, queue>>
vars == <<script, tables, usages, cache, stack, ret, mainloop, status>>

-----------------------------------------------------------------------------
Target == [p : Prj, v : Variant]

Config == [filter : Variant, bv : Variant, static : SUBSET Target,
           shared : SUBSET Target, depends : SUBSET Prj,
           always : SUBSET Edge]

Block == [static : SUBSET Target, shared : SUBSET Target,
          depends : SUBSET Prj, always : SUBSET Edge]

(* The tables findBlocks walks: a project's own keyedblocks, a usage's, or *)
(* one of the usage's per-variant blocks.                                  *)
KB == [tag : {"real", "usage", "block"}, p : Prj, v : Variant]

RealKB(p) == [tag |-> "real", p |-> p, v |-> AllVariant]
UsageKB(p) == [tag |-> "usage", p |-> p, v |-> AllVariant]
BlockKB(p, v) == [tag |-> "block", p |-> p, v |-> v]

(* findBlocks' filter, buildVariant and buildVariantName.                  *)
Env == [filter : Variant \cup {None}, bv : Variant \cup {None},
        name : Variant]

(* An activation of findBlocks: the uses still to follow, and the one      *)
(* whose addconfig has been called.                                        *)
Act == [kb : KB, env : Env, left : SUBSET Edge, call : Edge \cup {None}]

Found == [seen : SUBSET KB, cfgs : SUBSET Feature]

Field == {"usesconfig", "all"}

ASSUME NoneDistinct ==
    /\ None \notin Variant /\ None \notin Edge /\ None \notin Config
    /\ None \notin Block /\ None \notin Found /\ None \notin Prj
    /\ InProgress \notin Variant /\ InProgress # None

AddFrame == [fn : {"addconfig"}, p : Prj, init : Variant, fin : Variant,
             cfg : Config \cup {None}, left : SUBSET Prj]

GetFrame == [fn : {"getconfig"}, p : Prj, filter : Variant, field : Field,
             acts : Seq(Act), seen : SUBSET KB, cfgs : SUBSET Feature]

Return == [kind : {"nil", "blank", "config"},
           filter : Variant \cup {None}, bv : Variant \cup {None}]

NilReturn == [kind |-> "nil", filter |-> None, bv |-> None]
Blank == [kind |-> "blank", filter |-> None, bv |-> None]
Returned(c) == [kind |-> "config", filter |-> c.filter, bv |-> c.bv]

Top == stack[Len(stack)]
Below == SubSeq(stack, 1, Len(stack) - 1)
Replace(f) == Append(Below, f)

TopIs(fn) == stack # <<>> /\ Top.fn = fn

-----------------------------------------------------------------------------
Init ==
    /\ script \in Scripts
    /\ baked = {}
    /\ prjToBuild = script.requested
    /\ bvMap = [p \in Prj |-> [v \in Variant |-> None]]
    /\ configs = [p \in Prj |-> [v \in Variant |-> None]]
    /\ usageBaked = {}
    /\ usageFilter = [p \in Prj |-> [v \in Variant |-> None]]
    /\ blocks = [p \in Prj |-> [v \in Variant |-> None]]
    /\ cache = [p \in Prj |-> [f \in Field |-> [v \in Variant |-> None]]]
    /\ stack = <<>>
    /\ ret = NilReturn
    /\ toBake = script.requested
    /\ current = None
    /\ queue = <<>>
    /\ status = "bake"

(* project.getRealProject: a usage need not have a project behind it. *)
HasProject(p) == p \in script.real

(* Mutant: only what the command line asked for is built. *)
BuildOnlyRequested(p) == prjToBuild \cup ({p} \cap script.requested)

(* A project that is baked for someone is built, even one the command line *)
(* did not ask for.                                                        *)
Built(p) == prjToBuild \cup {p}

(* Mutant: the placeholder is not noticed. *)
applyIgnoringPlaceholder(p, v) ==
    IF bvMap[p][v] \in Variant THEN bvMap[p][v]
    ELSE IF p \in script.single THEN AllVariant ELSE v

(* project.applyBuildVariantMap *)
applyBuildVariantMap(p, v) ==
    IF bvMap[p][v] # None THEN bvMap[p][v]
    ELSE IF p \in script.single THEN AllVariant ELSE v

(* keyedblocks.getconfig up to findBlocks, or straight to its cached result *)
GetStart(p, filter, field) ==
    LET hit == cache[p][field][filter]
        root == [kb |-> RealKB(p),
                 env |-> [filter |-> filter, bv |-> filter, name |-> filter],
                 left |-> script.uses[p], call |-> None]
    IN  [fn |-> "getconfig", p |-> p, filter |-> filter, field |-> field,
         acts |-> IF hit = None THEN <<root>> ELSE <<>>,
         seen |-> IF hit = None THEN {root.kb} ELSE hit.seen,
         cfgs |-> IF hit = None THEN {} ELSE hit.cfgs]

(* The call project.addconfig(p, init) up to its first getconfig; below is *)
(* the caller's stack.  It returns at once for a usage without a project,  *)
(* for a configuration being baked, for one already baked, and for "All"   *)
(* of an ordinary project.                                                 *)
addconfig(p, init, below) ==
    LET fin == applyBuildVariantMap(p, init)
        Bake == [fn |-> "addconfig", p |-> p, init |-> init, fin |-> fin,
                 cfg |-> None, left |-> {}]
        Give(r) == ret' = r /\ stack' = below
    IN  \/ /\ ~HasProject(p)
           /\ Give(NilReturn)
           /\ UNCHANGED <<baked, prjToBuild, bvMap>>
        \/ /\ HasProject(p)
           /\ baked' = baked \cup {p}
           /\ prjToBuild' = Built(p)
           /\ \/ fin = InProgress /\ Give(Blank) /\ UNCHANGED bvMap
              \/ /\ fin # InProgress
                 /\ configs[p][fin] # None
                 /\ Give(Returned(configs[p][fin]))
                 /\ UNCHANGED bvMap
              \/ /\ fin # InProgress
                 /\ configs[p][fin] = None
                 /\ bvMap' = [bvMap EXCEPT ![p] =
                                [@ EXCEPT ![init] = fin, ![fin] = InProgress]]
                 /\ IF fin = AllVariant /\ p \notin script.single
                      THEN Give(Blank)
                      ELSE /\ ret' = NilReturn
                           /\ stack' = Append(Append(below, Bake),
                                             GetStart(p, fin, "usesconfig"))

-----------------------------------------------------------------------------
(* globalContainer.bakeall *)

StartProject(p) ==
    /\ status = "bake" /\ stack = <<>> /\ queue = <<>>
    /\ p \in toBake
    /\ toBake' = toBake \ {p}
    /\ current' = p
    /\ queue' = [i \in DOMAIN BuildCfgs |->
                    [cfg |-> BuildCfgs[i], feats |-> {}]]
    /\ baked' = baked \cup {p}
    /\ UNCHANGED <<script, prjToBuild, bvMap, configs, usages, cache, stack,
                   ret, status>>

AddDefault ==
    /\ status = "bake" /\ stack = <<>> /\ queue # <<>>
    /\ addconfig(current, Head(queue), stack)
    /\ queue' = Tail(queue)
    /\ UNCHANGED <<script, configs, usages, cache, toBake, current, status>>

BakeallDone ==
    /\ status = "bake" /\ stack = <<>> /\ queue = <<>> /\ toBake = {}
    /\ status' = "done"
    /\ UNCHANGED <<script, tables, usages, cache, stack, ret, mainloop>>

-----------------------------------------------------------------------------
(* keyedblocks.getconfig *)

Crash ==
    /\ status' = "crash"
    /\ UNCHANGED <<script, tables, usages, cache, stack, ret, mainloop>>

LastAct(g) == g.acts[Len(g.acts)]
OuterActs(g) == SubSeq(g.acts, 1, Len(g.acts) - 1)

(* findBlocks(kb): nothing to do for an absent table or one already walked. *)
Visit(g, kb, env, uses, exists) ==
    IF ~exists \/ kb \in g.seen THEN g
    ELSE [g EXCEPT !.seen = @ \cup {kb},
                   !.acts = Append(@, [kb |-> kb, env |-> env,
                                       left |-> uses, call |-> None])]

(* The variant a use asks its usage for. *)
UseVariant(env, e) ==
    IF e.with = {} THEN env.bv ELSE [env.bv EXCEPT !.feats = @ \cup e.with]

(* Mutant: every usage is walked under the configuration just returned. *)
UsageEnvReturned(a) ==
    [filter |-> ret.filter, bv |-> ret.bv, name |-> UseVariant(a.env, a.call)]

(* The filter and variant a usage is walked under: the user's own, or that *)
(* of the configuration just baked for a use with features.                *)
UsageEnv(a) ==
    IF a.call.with = {} THEN a.env
    ELSE [filter |-> ret.filter, bv |-> ret.bv,
          name |-> UseVariant(a.env, a.call)]

(* Mutant: the user goes on under the filter of what it used. *)
KeepFilter(a) ==
    [a EXCEPT !.call = None, !.env = IF ret.bv = None THEN @ ELSE UsageEnv(a)]

(* Back at the user, its filter and variant are restored. *)
Restore(a) == [a EXCEPT !.call = None]

(* Follow one entry of kb.__uses: have the project used baked for this     *)
(* variant.  Without a build variant that is an error, unless the usage is *)
(* a plain one.                                                            *)
Use(e) ==
    /\ status = "bake" /\ TopIs("getconfig") /\ Top.acts # <<>>
    /\ LET a == LastAct(Top)
       IN  /\ a.call = None
           /\ e \in a.left
           /\ IF a.env.bv = None /\ (e.with # {} \/ e.to \in script.real)
                THEN Crash
                ELSE /\ addconfig(e.to, UseVariant(a.env, e),
                          Replace([Top EXCEPT !.acts = Append(OuterActs(Top),
                             [a EXCEPT !.left = @ \ {e}, !.call = e])]))
                     /\ UNCHANGED <<script, configs, usages, cache, mainloop,
                                    status>>

(* ... and then walk the usage.  A plain use creates the usage's tables; a *)
(* use with features reads them as they are, under the filter of the       *)
(* configuration it was given.                                             *)
EnterUsage ==
    /\ status = "bake" /\ TopIs("getconfig") /\ Top.acts # <<>>
    /\ LET a == LastAct(Top)
           e == a.call
           back == [Top EXCEPT !.acts = Append(OuterActs(Top), Restore(a))]
       IN  /\ e # None
           /\ IF e.with # {} /\ ret.kind = "nil" THEN Crash
              ELSE /\ usageBaked' = usageBaked \cup
                                      (IF e.with = {} THEN {e.to} ELSE {})
                   /\ stack' = Replace(Visit(back, UsageKB(e.to), UsageEnv(a),
                                             script.exports[e.to],
                                             e.to \in usageBaked'))
                   /\ UNCHANGED <<script, tables, usageFilter, blocks, cache,
                                  ret, mainloop, status>>

(* The uses are done: note which features the table has blocks for, and    *)
(* apply the usage's block for the build name at hand.                     *)
LeaveKB ==
    /\ status = "bake" /\ TopIs("getconfig") /\ Top.acts # <<>>
    /\ LET a == LastAct(Top)
           kb == a.kb
           back == [Top EXCEPT !.acts = OuterActs(Top)]
           id == usageFilter[kb.p][a.env.name]
       IN  /\ a.call = None /\ a.left = {}
           /\ \/ /\ kb.tag = "real"
                 /\ stack' = Replace([back EXCEPT !.cfgs = @ \cup
                                (a.env.filter.feats \cap script.cond[kb.p])])
                 /\ UNCHANGED status
              \/ kb.tag = "block" /\ stack' = Replace(back) /\ UNCHANGED status
              \/ /\ kb.tag = "usage"
                 /\ IF id = None THEN stack' = Replace(back) /\ UNCHANGED status
                    ELSE IF a.env.bv = None
                      THEN status' = "crash" /\ UNCHANGED stack
                      ELSE /\ stack' = Replace(Visit(back, BlockKB(kb.p, id),
                                         a.env, blocks[kb.p][id].always, TRUE))
                           /\ UNCHANGED status
           /\ UNCHANGED <<script, tables, usages, cache, ret, mainloop>>

CacheFound(g) ==
    cache' = [cache EXCEPT ![g.p][g.field][g.filter] =
                [seen |-> g.seen, cfgs |-> g.cfgs]]

(* keyedblocks.getfilter ends: no usesconfig, so the filter is stable.     *)
GotFilter ==
    /\ status = "bake" /\ TopIs("getconfig")
    /\ Top.acts = <<>> /\ Top.field = "usesconfig"
    /\ CacheFound(Top)
    /\ stack' = Replace(GetStart(Top.p, Top.filter, "all"))
    /\ UNCHANGED <<script, tables, usages, ret, mainloop, status>>

FoundBlocks(g) == {blocks[k.p][k.v] : k \in {k \in g.seen : k.tag = "block"}}

(* Features that no block asked about are dropped from the variant. *)
UsedVariant(g) == [g.filter EXCEPT !.feats = @ \cap g.cfgs]

MergedShared(g) == UNION {x.shared : x \in FoundBlocks(g)}
MergedStatic(g) == UNION {x.static : x \in FoundBlocks(g)}
MergedDepends(g) == UNION {x.depends : x \in FoundBlocks(g)}

DeclaredUses(k) == CASE k.tag = "real" -> script.uses[k.p]
                     [] k.tag = "usage" -> script.exports[k.p]
                     [] k.tag = "block" -> {}
AlwaysAmong(edges) == {e \in edges : e.always}
MergedAlways(g) ==
    (UNION {x.always : x \in FoundBlocks(g)}) \cup
    (UNION {AlwaysAmong(DeclaredUses(k)) : k \in g.seen})

(* What the blocks found merge to, as config.bake leaves it: no library is *)
(* linked both ways, and none is linked with itself.                       *)
MergedConfig(g) ==
    LET self == [p |-> g.p, v |-> UsedVariant(g)]
    IN  [filter |-> g.filter, bv |-> UsedVariant(g),
         static |-> (MergedStatic(g) \ MergedShared(g)) \ {self},
         shared |-> MergedShared(g) \ {self},
         depends |-> MergedDepends(g), always |-> MergedAlways(g)]

GotConfig ==
    /\ status = "bake" /\ TopIs("getconfig")
    /\ Top.acts = <<>> /\ Top.field = "all"
    /\ CacheFound(Top)
    /\ LET cfg == MergedConfig(Top)
           n == Len(stack) - 1
       IN  stack' = [Below EXCEPT ![n] = [@ EXCEPT !.cfg = cfg,
                                                   !.left = cfg.depends]]
    /\ UNCHANGED <<script, tables, usages, ret, mainloop, status>>

-----------------------------------------------------------------------------
(* project.addconfig, after the blocks are merged *)

(* Mutant: a dependency is never ticked off. *)
CompileDependForever(q) ==
    /\ status = "bake" /\ TopIs("addconfig")
    /\ Top.cfg # None
    /\ q \in Top.left
    /\ addconfig(q, Top.cfg.bv, stack)
    /\ UNCHANGED <<script, configs, usages, cache, mainloop, status>>

(* Bake the projects that must be built before this one compiles. *)
CompileDepend(q) ==
    /\ status = "bake" /\ TopIs("addconfig")
    /\ Top.cfg # None
    /\ q \in Top.left
    /\ addconfig(q, Top.cfg.bv, Replace([Top EXCEPT !.left = @ \ {q}]))
    /\ UNCHANGED <<script, configs, usages, cache, mainloop, status>>

(* Mutants: everything is inherited through every kind of project; shared  *)
(* libraries are inherited from their direct users only.                   *)
UsageBlockAlways(p, c) ==
    LET kind == script.kind[p]
        target == {[p |-> p, v |-> c.bv]}
    IN  [static |-> c.static \cup IF kind = "StaticLib" THEN target ELSE {},
         shared |-> c.shared \cup IF kind = "SharedLib" THEN target ELSE {},
         depends |-> c.depends \cup (IF kind = "Command" THEN {p} ELSE {}),
         always |-> c.always]
UsageBlockOneDeep(p, c) ==
    LET kind == script.kind[p]
        target == {[p |-> p, v |-> c.bv]}
    IN  [static |-> IF kind = "StaticLib" THEN target \cup c.static ELSE {},
         shared |-> IF kind = "SharedLib" THEN target ELSE {},
         depends |-> c.depends \cup (IF kind = "Command" THEN {p} ELSE {}),
         always |-> c.always]

(* config.addUsageConfig: what a user of this configuration inherits. *)
UsageBlock(p, c) ==
    LET kind == script.kind[p]
        target == {[p |-> p, v |-> c.bv]}
    IN  [static |-> IF kind = "StaticLib" THEN target \cup c.static ELSE {},
         shared |-> CASE kind = "SharedLib" -> target \cup c.shared
                      [] kind = "StaticLib" -> c.shared
                      [] OTHER -> {},
         depends |-> c.depends \cup (IF kind = "Command" THEN {p} ELSE {}),
         always |-> c.always]

(* Mutants: one of the two entries is not updated. *)
SettleInitial(p, init, fin) == [bvMap EXCEPT ![p] = [@ EXCEPT ![init] = fin]]
SettleRequested(p, init, fin) ==
    [bvMap EXCEPT ![p] = [@ EXCEPT ![fin] = fin, ![init] = init]]

(* "Add the build variants to the map" *)
SettleMap(p, init, fin) ==
    [bvMap EXCEPT ![p] = [@ EXCEPT ![init] = fin, ![fin] = fin]]

(* Record the configuration under its final name, publish its usage block  *)
(* unless there already is one, and let the requested name find it too.    *)
FinishConfig ==
    /\ status = "bake" /\ TopIs("addconfig")
    /\ Top.cfg # None /\ Top.left = {}
    /\ LET p == Top.p
           cfg == Top.cfg
           fin == cfg.bv
           found == usageFilter[p][fin] # None
           id == IF found THEN usageFilter[p][fin] ELSE fin
       IN  /\ configs' = [configs EXCEPT ![p][fin] = cfg]
           /\ bvMap' = SettleMap(p, Top.init, fin)
           /\ usageBaked' = usageBaked \cup {p}
           /\ blocks' = IF found THEN blocks
                        ELSE [blocks EXCEPT ![p][fin] = UsageBlock(p, cfg)]
           /\ usageFilter' = [usageFilter EXCEPT ![p] =
                                [@ EXCEPT ![fin] = id, ![Top.init] = id]]
           /\ ret' = Returned(cfg)
    /\ stack' = Below
    /\ UNCHANGED <<script, baked, prjToBuild, cache, mainloop, status>>

(* premake has moved on, to the action or to an error message. *)
Halted == status # "bake" /\ UNCHANGED vars

Next ==
    \/ \E p \in Prj : StartProject(p) \/ CompileDepend(p)
    \/ \E e \in Edge : Use(e)
    \/ AddDefault \/ BakeallDone
    \/ EnterUsage \/ LeaveKB \/ GotFilter \/ GotConfig
    \/ FinishConfig
    \/ Halted

Spec == Init /\ [][Next]_vars /\ WF_vars(Next)

-----------------------------------------------------------------------------
(* Correctness *)

Frame == AddFrame \cup GetFrame

(* Every table keeps its shape: in particular a frame is never resumed by  *)
(* a return meant for another, which would leave a getconfig result in an  *)
(* addconfig frame or the reverse.                                         *)
TypeOK ==
    /\ script \in Script
    /\ baked \subseteq script.real
    /\ prjToBuild \subseteq script.real
    /\ bvMap \in [Prj -> [Variant -> Variant \cup {None, InProgress}]]
    /\ configs \in [Prj -> [Variant -> Config \cup {None}]]
    /\ usageBaked \subseteq Prj
    /\ usageFilter \in [Prj -> [Variant -> Variant \cup {None}]]
    /\ blocks \in [Prj -> [Variant -> Block \cup {None}]]
    /\ cache \in [Prj -> [Field -> [Variant -> Found \cup {None}]]]
    /\ stack \in Seq(Frame)
    /\ ret \in Return
    /\ toBake \subseteq Prj
    /\ current \in Prj \cup {None}
    /\ queue \in Seq(Variant)
    /\ status \in {"bake", "done", "crash"}

(* The reference for link lines: plain reachability over the script.       *)
Tos(edges) == {e.to : e \in edges}
AlwaysTos(edges) == Tos(AlwaysAmong(edges))

(* The smallest set that holds from and whatever its members lead to. *)
Closure(from, next) ==
    {q \in Prj : \A S \in SUBSET Prj :
        (from \subseteq S /\ \A r \in S : next[r] \subseteq S) => q \in S}

OwnUses == [p \in Prj |-> IF p \in script.real THEN script.uses[p] ELSE {}]
AllUses == [p \in Prj |-> OwnUses[p] \cup script.exports[p]]

(* Every usage that p leads to, in any way, and what stands behind the     *)
(* usage p.                                                                *)
Following == [q \in Prj |-> Tos(AllUses[q])]
LeadsTo(p) == Closure(Tos(OwnUses[p]), Following)
Behind(p) == Closure({p}, Following)

(* The usages p itself reads: those it names, those they export, and the   *)
(* alwaysuses of whatever stands behind the projects among them.           *)
Carries(p) == AlwaysTos(OwnUses[p]) \cup
              UNION {AlwaysTos(AllUses[q]) : q \in LeadsTo(p)}
Exporting == [q \in Prj |-> Tos(script.exports[q]) \cup
                              IF q \in script.real THEN Carries(q) ELSE {}]
Sees(p) == Closure(Tos(OwnUses[p]), Exporting)

(* What p reaches through projects of the kinds K. *)
Through(K) == [q \in Prj |-> IF q \in script.real /\ script.kind[q] \in K
                               THEN Sees(q) ELSE {}]
Reach(K, p) == Closure(Sees(p), Through(K))

OfKind(ps, k) == {q \in ps \cap script.real : script.kind[q] = k}

Targets(ps, v) ==
    {[p |-> q, v |-> IF q \in script.single THEN AllVariant ELSE v] : q \in ps}

(* The link line by the propagation rules: static libraries come through   *)
(* static libraries, shared ones through libraries of both kinds, commands *)
(* to run first through everything.                                        *)
Reference(p, v) ==
    [static |-> Targets(OfKind(Reach({"StaticLib"}, p), "StaticLib") \ {p}, v),
     shared |-> Targets(OfKind(Reach({"StaticLib", "SharedLib"}, p),
                               "SharedLib") \ {p}, v),
     depends |-> OfKind(Reach(Kind, p), "Command")]

OnCycle(p) == p \in LeadsTo(p)
FreeOfCycles(p) == \A q \in LeadsTo(p) \cup {p} : ~OnCycle(q)

HasFeatures ==
    \E p \in Prj : \E e \in AllUses[p] : e.with # {}

(* A project that reaches no cycle of uses links exactly what the          *)
(* propagation rules say, in whatever order pairs() visited the projects   *)
(* and their uses, whichever of them the command line asked for, and with  *)
(* the dependencies of the same configuration.  (Scripts without features; *)
(* what a project with the one configuration "All" passes on to its users  *)
(* is CommandReachesUsers's business.)                                     *)
LinkLineExact ==
    (status = "done" /\ ~HasFeatures) =>
        \A p \in script.real \ script.single, v \in Variant :
            /\ configs[p][v] # None
            /\ FreeOfCycles(p) /\ LeadsTo(p) \cap script.single = {}
            => LET c == configs[p][v]  r == Reference(p, v)
               IN  /\ c.static = r.static
                   /\ c.shared = r.shared
                   /\ c.depends = r.depends

(* On a cycle the project being baked is skipped, so something may be      *)
(* missing from the link line; but nothing is on it that the rules do not  *)
(* put there, and never the project itself.                                *)
LinkLineSound ==
    (status = "done" /\ ~HasFeatures) =>
        \A p \in script.real \ script.single, v \in Variant :
            configs[p][v] # None =>
                LET c == configs[p][v]  r == Reference(p, v)
                IN  /\ c.static \subseteq r.static
                    /\ c.shared \subseteq r.shared
                    /\ c.depends \subseteq r.depends

(* At the end every configuration asked for is there to be generated, and  *)
(* so is every one that a link line or a command dependency refers to: the *)
(* generator finds it among the projects to build, under the name the      *)
(* variant map gives.                                                      *)
NothingDangles ==
    status = "done" =>
        /\ \A p \in script.requested, i \in DOMAIN BuildCfgs :
               LET v == applyBuildVariantMap(p, [cfg |-> BuildCfgs[i],
                                                 feats |-> {}])
               IN  v \in Variant /\ configs[p][v] # None
        /\ \A p \in Prj, v \in Variant : configs[p][v] # None =>
               \A t \in configs[p][v].static \cup configs[p][v].shared :
                   t.p \in prjToBuild /\ configs[t.p][t.v] # None
        /\ prjToBuild \subseteq baked

(* When baking is over the placeholder survives only where it is never     *)
(* replaced ("All" of an ordinary project); every other name ever asked    *)
(* for leads in one lookup to a configuration.                             *)
MapSettled ==
    status = "done" =>
        \A p \in Prj, v \in Variant :
            \/ bvMap[p][v] = None
            \/ bvMap[p][v] = InProgress /\ v = AllVariant
                                        /\ p \notin script.single
            \/ bvMap[p][v] \in Variant /\ configs[p][bvMap[p][v]] # None

(* project.addconfig: "Return blank if we've called addConfig recursively" *)
(* - the bake of a configuration is never entered while it is under way.   *)
(* This is the part that holds, for ordinary projects.                     *)
NoReentrantBake ==
    \A i, j \in DOMAIN stack :
        /\ stack[i].fn = "addconfig" /\ stack[j].fn = "addconfig"
        /\ stack[i].p = stack[j].p /\ stack[i].fin = stack[j].fin
        /\ stack[i].p \notin script.single
        => i = j

(* "A command project has only one configuration (& output) which is       *)
(* equivalent to all variants": so whoever uses it runs it first, in every *)
(* configuration.                                                          *)
CommandReachesUsers ==
    (status = "done" /\ ~HasFeatures) =>
        \A p \in script.real \ script.single, v \in Variant :
            (configs[p][v] # None /\ FreeOfCycles(p)) =>
                configs[p][v].depends = Reference(p, v).depends

(* A use with features goes wrong only when it meets a plain usage or a    *)
(* project that is being baked: without either, baking never fails.        *)
CrashOnlyOnFeatures ==
    status = "crash" =>
        \E p \in Prj : \E e \in AllUses[p] :
            /\ e.with # {}
            /\ e.to \notin script.real \/ OnCycle(e.to)

(* A feature asked of one use does not spill over to the others: a library *)
(* is linked in a variant with a feature only if it has a block for it and *)
(* stands behind some use that asked for it; and debug never links release. *)
(* (What stands behind a command project with the one configuration "All"   *)
(* may be asked for under that name.)                                       *)
FeaturesConfined ==
    status = "done" =>
        \A p \in Prj, v \in Variant : configs[p][v] # None =>
            \A t \in configs[p][v].static \cup configs[p][v].shared :
                /\ t.v.cfg = v.cfg \/ (t.v.cfg = AllCfg /\ script.single # {})
                /\ t.v.feats \subseteq script.cond[t.p]
                /\ \A f \in t.v.feats : \E q \in Prj : \E e \in AllUses[q] :
                      f \in e.with /\ t.p \in Behind(e.to)

(* Baking ends, cycles or not. *)
Termination == <>(status # "bake")

-----------------------------------------------------------------------------
(* The inductive invariant behind TypeOK and NoReentrantBake *)

Adds(i) == stack[i].fn = "addconfig"
Gets(i) == stack[i].fn = "getconfig"

BlockExists(k) == k.tag = "block" => blocks[k.p][k.v] # None

(* A variant goes missing together with its filter, never from a project's *)
(* own tables and never from a use with features that is being followed.   *)
SoundAct(x) ==
    /\ x.env.bv = None <=> x.env.filter = None
    /\ x.kb.tag = "real" => x.env.bv # None
    /\ (x.call # None /\ x.call.with # {}) => x.env.bv # None

(* getconfig was called by addconfig, and whatever it, its cache or a      *)
(* usage's __filter names is there to be merged.                           *)
CallsSound ==
    \A i \in DOMAIN stack : Gets(i) =>
        /\ i > 1 /\ Adds(i - 1)
        /\ \A j \in DOMAIN stack[i].acts : SoundAct(stack[i].acts[j])
        /\ \A k \in stack[i].seen : BlockExists(k)

TablesSound ==
    /\ \A p \in Prj, f \in Field, v \in Variant :
          cache[p][f][v] # None => \A k \in cache[p][f][v].seen : BlockExists(k)
    /\ \A p \in Prj, v \in Variant :
          usageFilter[p][v] # None => blocks[p][usageFilter[p][v]] # None
    /\ ret.bv = None <=> ret.filter = None
    /\ toBake \subseteq script.real
    /\ current = None => queue = <<>>
    /\ current # None => current \in script.real

(* The recursion guard of project.addconfig: an ordinary project's map     *)
(* leads to configurations only, never to a name without one, and each     *)
(* bake under way is protected by its placeholder - or, if a bake of       *)
(* another name settled on the same final name meanwhile, by that          *)
(* configuration.                                                          *)
PlaceholdersHeld ==
    /\ \A p \in Prj \ script.single, v \in Variant :
          bvMap[p][v] \in Variant => configs[p][bvMap[p][v]] # None
    /\ \A i \in DOMAIN stack : (Adds(i) /\ stack[i].p \notin script.single) =>
          /\ stack[i].init = stack[i].fin
          /\ \/ bvMap[stack[i].p][stack[i].fin] = InProgress
             \/ configs[stack[i].p][stack[i].fin] # None

BakeInv ==
    TypeOK /\ CallsSound /\ TablesSound /\ PlaceholdersHeld /\ NoReentrantBake
=============================================================================
