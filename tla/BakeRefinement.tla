--------------------------- MODULE BakeRefinement ---------------------------
(***************************************************************************)
(* Baking implements a depth-first search over what the script's projects  *)
(* ask for, in scripts without features and without command projects of a  *)
(* single configuration; cycles of uses are allowed.                       *)
(***************************************************************************)
EXTENDS Bake, SequencesExt

Ordinary == ~HasFeatures /\ script.single = {}

Node(p, v) == [p |-> p, v |-> v]

(* p asks for the projects behind its uses and behind what the usages      *)
(* among them export; built as v, it asks for them as v.                   *)
Exported == [q \in Prj |-> Tos(script.exports[q])]
AsksFor(p) == Closure(Tos(OwnUses[p]), Exported)

Uses == [n \in [p : Prj, v : Variant] |->
            {Node(q, n.v) : q \in AsksFor(n.p) \cap script.real}]
Asked == {Node(q, [cfg |-> BuildCfgs[i], feats |-> {}]) :
             q \in script.requested, i \in DOMAIN BuildCfgs}

(* The bakes under way are the calls of addconfig on the stack s. *)
Baking(s) ==
    LET upTo[n \in 0..Len(s)] ==
          IF n = 0 THEN <<>>
          ELSE IF s[n].fn = "addconfig"
                 THEN Append(upTo[n - 1], Node(s[n].p, s[n].fin))
                 ELSE upTo[n - 1]
    IN  upTo[Len(s)]

(* The configurations baked. *)
Baked(c) == UNION {{Node(p, v) : v \in {w \in Variant : c[p][w] # None}} : p \in Prj}

Search == INSTANCE DepthFirst WITH
    roots <- Asked,
    uses <- Uses,
    under <- Baking(stack),
    finished <- Baked(configs),
    ended <- (status = "done")

(* addconfig and getconfig call each other through uses, caches and        *)
(* placeholders; seen from outside that is one depth-first search: no      *)
(* configuration is baked twice or left half baked, each is baked after    *)
(* what it uses, and the search ends.                                      *)
BakesDepthFirst == Search!Spec
=============================================================================
