--------------------------- MODULE BakeInvariants ---------------------------
(***************************************************************************)
(* The inductive invariants behind the proofs about Bake: what tables and  *)
(* frames say of each other while projects are being baked.  Each one is   *)
(* shown to hold throughout in BakeProofs, on top of the ones before it.   *)
(***************************************************************************)
EXTENDS BakeRefinement

-----------------------------------------------------------------------------
(* The invariant behind MapSettled and NothingDangles *)

(* What a configuration or a block puts on a link line is among the        *)
(* projects to build, b, and has its configuration in c.                   *)
LinksExist(x, b, c) ==
    \A t \in x.static \cup x.shared : t.p \in b /\ c[t.p][t.v] # None

(* A call of addconfig is of a project to build; a command project is      *)
(* baked as "All"; and the variant baked has no feature that was not asked. *)
AddTracked(f, b, c) ==
    /\ f.p \in script.real /\ f.p \in b
    /\ f.p \in script.single => f.fin = AllVariant
    /\ f.cfg # None =>
          /\ LinksExist(f.cfg, b, c)
          /\ f.cfg.bv.cfg = f.fin.cfg /\ f.cfg.bv.feats \subseteq f.fin.feats

(* A call of getconfig reads the project that its caller, f, is baking. *)
GetTracked(g, f) == g.p = f.p /\ g.filter = f.fin

FramesTracked(s, b, c) ==
    \A i \in 1 .. Len(s) :
        /\ s[i].fn = "addconfig" => AddTracked(s[i], b, c)
        /\ s[i].fn = "getconfig" => GetTracked(s[i], s[i - 1])

UnderWay(s, p, v) ==
    \E i \in 1 .. Len(s) : s[i].fn = "addconfig" /\ s[i].p = p /\ s[i].fin = v

(* A placeholder in the map m stands for a bake on the stack s, except     *)
(* under the name "All" of an ordinary project; a name of a command        *)
(* project leads to "All", which is baked or on the stack.                 *)
MapTracked(m, s, c) ==
    \A p \in Prj, v \in Variant :
        /\ m[p][v] = InProgress =>
              (v = AllVariant /\ p \notin script.single) \/ UnderWay(s, p, v)
        /\ (p \in script.single /\ m[p][v] \in Variant) =>
              /\ m[p][v] = AllVariant
              /\ c[p][AllVariant] # None \/ UnderWay(s, p, AllVariant)

TablesLinked(k, b, c) ==
    \A p \in Prj, v \in Variant :
        /\ c[p][v] # None => LinksExist(c[p][v], b, c)
        /\ k[p][v] # None => LinksExist(k[p][v], b, c)

Default(i) == [cfg |-> BuildCfgs[i], feats |-> {}]

(* The name v of project p was asked for: it is in the map, or the         *)
(* configuration it stands for was there.                                  *)
Named(p, v) ==
    \/ bvMap[p][v] # None
    \/ configs[p][IF p \in script.single THEN AllVariant ELSE v] # None

(* bakeall has still to ask for a configuration, or has done so. *)
RequestsMet ==
    \A p \in script.requested, i \in DOMAIN BuildCfgs :
        \/ p \in toBake
        \/ p = current /\ \E j \in 1 .. Len(queue) : queue[j] = Default(i)
        \/ Named(p, Default(i))

Tracked ==
    /\ script \in Scripts
    /\ FramesTracked(stack, prjToBuild, configs)
    /\ MapTracked(bvMap, stack, configs)
    /\ TablesLinked(blocks, prjToBuild, configs)
    /\ RequestsMet
    /\ prjToBuild \subseteq baked \cup toBake

-----------------------------------------------------------------------------
(* The invariant behind FeaturesConfined and CrashOnlyOnFeatures *)

Declared(e) == \E q \in Prj : e \in AllUses[q]

(* Feature f was asked of a use behind which p stands. *)
AskedOf(f, p) == \E q \in Prj : \E e \in AllUses[q] : f \in e.with /\ p \in Behind(e.to)
AllAskedOf(fs, p) == \A f \in fs : AskedOf(f, p)

(* The use that an error is to be blamed on. *)
Culprit ==
    \E p \in Prj : \E e \in AllUses[p] :
        e.with # {} /\ (e.to \notin script.real \/ OnCycle(e.to))

SameCfg(c, d) == c = d \/ (c = AllCfg /\ script.single # {})

LinkConfined(t, v) ==
    /\ SameCfg(t.v.cfg, v.cfg)
    /\ t.v.feats \subseteq script.cond[t.p]
    /\ AllAskedOf(t.v.feats, t.p)

(* What p, built as v, offers: links with the features they may have, and  *)
(* uses that lead to what p leads to.                                      *)
OffersSound(p, v, x) ==
    /\ \A t \in x.static \cup x.shared : LinkConfined(t, v)
    /\ \A e \in x.always : Declared(e) /\ e.to \in LeadsTo(p)

ConfigSound(p, c) ==
    /\ OffersSound(p, c.bv, c)
    /\ c.depends \subseteq LeadsTo(p)
    /\ c.bv.feats \subseteq script.cond[p] /\ AllAskedOf(c.bv.feats, p)

BlockSound(p, v, k) ==
    /\ OffersSound(p, v, k)
    /\ k.depends \subseteq LeadsTo(p) \cup {p}

(* A table that findBlocks may walk for p, built as v. *)
SeenSound(p, v, k) ==
    \/ k = RealKB(p)
    \/ /\ k.tag # "real" /\ k.p \in LeadsTo(p)
       /\ k.tag = "block" => SameCfg(k.v.cfg, v.cfg)

UseSound(p, k, e) == Declared(e) /\ e.to \in LeadsTo(p) /\ e.to \in Behind(k.p)

(* An activation of findBlocks: the variant has only features that were    *)
(* asked for, and is missing only when there is a use to blame.            *)
ActReached(p, v, a) ==
    /\ SeenSound(p, v, a.kb)
    /\ \A e \in a.left : UseSound(p, a.kb, e)
    /\ a.call # None => UseSound(p, a.kb, a.call)
    /\ a.env.bv = None => Culprit
    /\ a.env.bv # None => /\ SameCfg(a.env.bv.cfg, v.cfg)
                          /\ AllAskedOf(a.env.bv.feats, a.kb.p)
    /\ SameCfg(a.env.name.cfg, v.cfg)

(* Only the innermost activation waits for a call. *)
ActsReached(p, v, acts) ==
    /\ \A j \in 1 .. Len(acts) : ActReached(p, v, acts[j])
    /\ \A j \in 1 .. Len(acts) - 1 : acts[j].call = None

GetReached(g) ==
    /\ ActsReached(g.p, g.filter, g.acts)
    /\ \A k \in g.seen : SeenSound(g.p, g.filter, k)
    /\ g.cfgs \subseteq script.cond[g.p]

AddReached(f) ==
    /\ AllAskedOf(f.fin.feats, f.p)
    /\ SameCfg(f.fin.cfg, f.init.cfg)
    /\ f.cfg # None => ConfigSound(f.p, f.cfg)
    /\ f.left \subseteq LeadsTo(f.p)

(* The call that findBlocks, in the frame h, is waiting for. *)
CalledFor(p, v, h) ==
    h.fn = "getconfig" =>
        /\ h.acts # <<>> /\ LastAct(h).call # None
        /\ p = LastAct(h).call.to
        /\ v = UseVariant(LastAct(h).env, LastAct(h).call)

FramesReached(s) ==
    \A i \in 1 .. Len(s) :
        /\ s[i].fn = "addconfig" =>
              /\ AddReached(s[i])
              /\ i > 1 => CalledFor(s[i].p, s[i].init, s[i - 1])
        /\ s[i].fn = "getconfig" => GetReached(s[i])

(* Every call is made on the way from the calls it is made in. *)
Chained(s) ==
    \A i, j \in 1 .. Len(s) :
        i < j => s[j].p = s[i].p \/ s[j].p \in LeadsTo(s[i].p)

(* What addconfig gives a use with features. *)
AnswerSound(a, r) ==
    (a.call # None /\ a.call.with # {}) =>
        /\ r.bv = None => Culprit
        /\ r.bv # None => /\ SameCfg(r.bv.cfg, a.env.bv.cfg)
                          /\ AllAskedOf(r.bv.feats, a.call.to)

AnswersSound(s, r) ==
    (s # <<>> /\ s[Len(s)].fn = "getconfig" /\ s[Len(s)].acts # <<>>) =>
        AnswerSound(LastAct(s[Len(s)]), r)

(* The tables: configurations c, blocks k, map m, __filter u and cache h. *)
TablesReached(c, k, m, u, h) ==
    \A p \in Prj, v \in Variant :
        /\ c[p][v] # None => c[p][v].bv = v /\ ConfigSound(p, c[p][v])
        /\ k[p][v] # None => BlockSound(p, v, k[p][v])
        /\ m[p][v] \in Variant => SameCfg(m[p][v].cfg, v.cfg)
        /\ u[p][v] # None => SameCfg(u[p][v].cfg, v.cfg)
        /\ \A f \in Field : h[p][f][v] # None =>
              /\ \A x \in h[p][f][v].seen : SeenSound(p, v, x)
              /\ h[p][f][v].cfgs \subseteq script.cond[p]

Reached ==
    /\ FramesReached(stack)
    /\ Chained(stack)
    /\ AnswersSound(stack, ret)
    /\ ret.kind = "nil" => ret.bv = None
    /\ \A j \in 1 .. Len(queue) : queue[j].feats = {}
    /\ TablesReached(configs, blocks, bvMap, usageFilter, cache)
    /\ status = "crash" => Culprit

-----------------------------------------------------------------------------
(* The invariant behind LinkLineSound *)

Statics == {"StaticLib"}
Libraries == {"StaticLib", "SharedLib"}

(* The name of a configuration of q that is linked as part of v. *)
NameFor(q, v) == IF q \in script.single THEN AllVariant ELSE v

(* What p, built as v, may have on its link line: what the propagation      *)
(* rules put there.                                                         *)
LinesSound(p, v, x) ==
    /\ \A t \in x.static : /\ t.p \in OfKind(Reach(Statics, p), "StaticLib")
                           /\ t.v = NameFor(t.p, v)
    /\ \A t \in x.shared : /\ t.p \in OfKind(Reach(Libraries, p), "SharedLib")
                           /\ t.v = NameFor(t.p, v)
    /\ x.depends \subseteq OfKind(Reach(Kind, p), "Command")
    /\ \A e \in x.always : e.to \in Carries(p)

ConfigLined(p, c) ==
    /\ LinesSound(p, c.bv, c)
    /\ p \notin script.single => \A t \in c.static \cup c.shared : t.p # p

(* What a user of p inherits: p itself, and its link line as far as the     *)
(* kind of p lets it through.                                               *)
BlockLined(p, v, k) ==
    /\ p \in script.real
    /\ \A t \in k.static : /\ script.kind[p] = "StaticLib"
                           /\ \/ t.p = p
                              \/ t.p \in OfKind(Reach(Statics, p), "StaticLib")
                           /\ t.v = NameFor(t.p, v)
    /\ \A t \in k.shared : /\ script.kind[p] \in Libraries
                           /\ \/ t.p = p /\ script.kind[p] = "SharedLib"
                              \/ t.p \in OfKind(Reach(Libraries, p), "SharedLib")
                           /\ t.v = NameFor(t.p, v)
    /\ k.depends \subseteq OfKind(Reach(Kind, p) \cup {p}, "Command")
    /\ \A e \in k.always : e.to \in Carries(p)

(* A table that is walked for p, built as v. *)
SeenLined(p, v, k) ==
    \/ k = RealKB(p)
    \/ /\ k.tag # "real" /\ k.p \in Sees(p)
       /\ k.tag = "block" => k.v = NameFor(k.p, v)

(* Without features the variant is the same throughout a getconfig. *)
ActLined(p, v, a) ==
    /\ a.env = [filter |-> v, bv |-> v, name |-> v]
    /\ SeenLined(p, v, a.kb)
    /\ \A e \in a.left : e.to \in Sees(p)
    /\ a.call # None => a.call.to \in Sees(p)

GetLined(g) ==
    /\ \A j \in 1 .. Len(g.acts) : ActLined(g.p, g.filter, g.acts[j])
    /\ \A k \in g.seen : SeenLined(g.p, g.filter, k)

(* An ordinary project is never baked as "All". *)
AddLined(f) ==
    /\ f.p \notin script.single => f.fin # AllVariant
    /\ f.cfg # None => ConfigLined(f.p, f.cfg)

FramesLined(s) ==
    \A i \in 1 .. Len(s) :
        /\ s[i].fn = "addconfig" => AddLined(s[i])
        /\ s[i].fn = "getconfig" => GetLined(s[i])

TablesLined(c, k, u, h) ==
    \A p \in Prj, v \in Variant :
        /\ c[p][v] # None => /\ ConfigLined(p, c[p][v])
                             /\ p \notin script.single => v # AllVariant
        /\ k[p][v] # None => BlockLined(p, v, k[p][v])
        /\ u[p][v] # None => u[p][v] = NameFor(p, v)
        /\ \A f \in Field : h[p][f][v] # None =>
              \A x \in h[p][f][v].seen : SeenLined(p, v, x)

Lined ==
    ~HasFeatures =>
        FramesLined(stack) /\ TablesLined(configs, blocks, usageFilter, cache)

-----------------------------------------------------------------------------
(* The invariant behind BakesDepthFirst *)

(* Project p is baked as v, in c, or its bake is on the stack s. *)
Handled(s, c, p, v) == c[p][v] # None \/ UnderWay(s, p, v)

(* Whoever uses q, built as v, has nothing left to ask for. *)
Reexports(q) == Closure({q}, Exported)
Answered(s, c, q, v) == \A r \in Reexports(q) \cap script.real : Handled(s, c, r, v)

(* What is followed for p is what p asks for, or was asked for before. *)
Due(s, c, p, v, q) == q \in AsksFor(p) \/ Answered(s, c, q, v)

(* The use e of the table k is still being followed. *)
Pending(acts, k, e) ==
    \E j \in 1 .. Len(acts) : acts[j].kb = k /\ (e \in acts[j].left \/ acts[j].call = e)

(* The tables walked for p, built as v: their projects are handled, and    *)
(* whatever they use is walked too unless it is pending.                   *)
SeenSearched(s, c, p, v, seen, acts) ==
    /\ RealKB(p) \in seen
    /\ \A k \in seen : k.tag = "usage" =>
          /\ Due(s, c, p, v, k.p)
          /\ k.p \in script.real => Handled(s, c, k.p, v)
    /\ \A k \in seen : \A e \in DeclaredUses(k) :
          UsageKB(e.to) \in seen \/ Pending(acts, k, e)

ActSearched(s, c, p, v, a) ==
    /\ \A e \in a.left : Due(s, c, p, v, e.to)
    /\ a.call # None =>
          /\ Due(s, c, p, v, a.call.to)
          /\ a.call.to \in script.real => Handled(s, c, a.call.to, v)

GetSearched(s, c, g) ==
    /\ SeenSearched(s, c, g.p, g.filter, g.seen, g.acts)
    /\ \A j \in 1 .. Len(g.acts) : ActSearched(s, c, g.p, g.filter, g.acts[j])

(* What a user of a configuration v will follow on account of x.           *)
OffersSearched(s, c, v, x) ==
    /\ \A q \in x.depends : c[q][v] # None
    /\ \A e \in x.always : Answered(s, c, e.to, v)

(* A configuration is merged after all that its project asks for.          *)
AddSearched(s, c, f) ==
    f.cfg # None =>
        /\ OffersSearched(s, c, f.fin, f.cfg)
        /\ f.left \subseteq f.cfg.depends
        /\ \A q \in AsksFor(f.p) \cap script.real : Handled(s, c, q, f.fin)

(* The frames of r, where s is the stack that tells what is under way. *)
FramesSearched(r, s, c) ==
    \A i \in 1 .. Len(r) :
        /\ r[i].fn = "addconfig" => AddSearched(s, c, r[i])
        /\ r[i].fn = "getconfig" => GetSearched(s, c, r[i])

TablesSearched(s, c, k, m, h) ==
    \A p \in Prj, v \in Variant :
        /\ k[p][v] # None => OffersSearched(s, c, v, k[p][v])
        /\ m[p][v] \in Variant => m[p][v] = v
        /\ \A f \in Field : h[p][f][v] # None =>
              SeenSearched(s, c, p, v, h[p][f][v].seen, <<>>)

(* bakeall asks for what the command line asked for. *)
LoopSearched ==
    /\ toBake \subseteq script.requested
    /\ queue # <<>> => current \in script.requested
    /\ \A j \in 1 .. Len(queue) : \E i \in DOMAIN BuildCfgs : queue[j] = Default(i)

Searched ==
    Ordinary =>
        /\ FramesSearched(stack, stack, configs)
        /\ TablesSearched(stack, configs, blocks, bvMap, cache)
        /\ LoopSearched

-----------------------------------------------------------------------------
(* The invariant behind LinkLineExact *)

(* What p, built as v, must have on its link line: what the propagation    *)
(* rules put there.                                                        *)
LinesFull(p, v, x) ==
    /\ \A q \in OfKind(Reach(Statics, p), "StaticLib") : q # p => Node(q, v) \in x.static
    /\ \A q \in OfKind(Reach(Libraries, p), "SharedLib") : q # p => Node(q, v) \in x.shared
    /\ OfKind(Reach(Kind, p), "Command") \subseteq x.depends
    /\ Carries(p) \subseteq Tos(x.always)

(* What a user of p must inherit. *)
BlockFull(p, v, k) ==
    /\ script.kind[p] = "StaticLib" =>
          \A q \in OfKind(Reach(Statics, p) \cup {p}, "StaticLib") : Node(q, v) \in k.static
    /\ script.kind[p] \in Libraries =>
          \A q \in OfKind(Reach(Libraries, p) \cup {p}, "SharedLib") : Node(q, v) \in k.shared
    /\ OfKind(Reach(Kind, p) \cup {p}, "Command") \subseteq k.depends
    /\ Carries(p) \subseteq Tos(k.always)

(* The table t is being walked. *)
Walking(acts, t) == \E j \in 1 .. Len(acts) : acts[j].kb = t

(* The tables walked for a variant v, k being the blocks of the usages: a  *)
(* usage with a project brings its block, and the block its alwaysuses.    *)
SeenFull(k, v, seen, acts) ==
    /\ \A t \in seen : (t.tag = "usage" /\ t.p \in script.real) =>
          BlockKB(t.p, v) \in seen \/ Walking(acts, t)
    /\ \A t \in seen : t.tag = "block" =>
          \A e \in k[t.p][t.v].always : UsageKB(e.to) \in seen \/ Pending(acts, t, e)

GetFull(k, g) ==
    FreeOfCycles(g.p) =>
        /\ SeenFull(k, g.filter, g.seen, g.acts)
        /\ \A j \in 1 .. Len(g.acts) : g.acts[j].kb \in g.seen

AddFull(f) == (f.cfg # None /\ FreeOfCycles(f.p)) => LinesFull(f.p, f.fin, f.cfg)

FramesFull(s, k) ==
    \A i \in 1 .. Len(s) :
        /\ s[i].fn = "addconfig" => AddFull(s[i])
        /\ s[i].fn = "getconfig" => GetFull(k, s[i])

(* A configuration or a block is published in the usage's __filter, and    *)
(* nothing is missing from it unless its project reaches a cycle.          *)
TablesFull(c, k, u, h) ==
    \A p \in Prj, v \in Variant :
        /\ (c[p][v] # None \/ k[p][v] # None) => u[p][v] # None
        /\ FreeOfCycles(p) =>
              /\ c[p][v] # None => LinesFull(p, v, c[p][v])
              /\ k[p][v] # None => BlockFull(p, v, k[p][v])
              /\ \A f \in Field : h[p][f][v] # None =>
                    SeenFull(k, v, h[p][f][v].seen, <<>>)

CompleteIn(s, c, k, u, h) == FramesFull(s, k) /\ TablesFull(c, k, u, h)

Complete == Ordinary => CompleteIn(stack, configs, blocks, usageFilter, cache)
=============================================================================
