-------------------------- MODULE MCBakeRefinement --------------------------
(* Scripts for model checking that baking is a depth-first search. *)
EXTENDS MCBake, BakeRefinement

(* prjA uses prjB and prjC, which refer to each other in any way: by a     *)
(* use, an alwaysuse or an export; prjB may be a plain usage.              *)
Uses1(q, m) == CASE m = "use" -> {Edge1(q)} [] m = "always" -> {Always1(q)} [] OTHER -> {}
Exports1(q, m) == IF m = "export" THEN {Edge1(q)} ELSE {}
Ways == {"none", "use", "always", "export"}
MutualScripts ==
    {[real |-> r, single |-> {}, cond |-> NoConds,
      kind |-> (prjA :> "App") @@ (prjB :> "StaticLib") @@ (prjC :> "Command"),
      uses |-> (prjA :> {Edge1(q) : q \in g}) @@ (prjB :> Uses1(prjC, m))
                 @@ (prjC :> Uses1(prjB, n) \cup Uses1(prjA, k)),
      exports |-> (prjA :> {}) @@ (prjB :> Exports1(prjC, m))
                    @@ (prjC :> Exports1(prjB, n) \cup Exports1(prjA, k)),
      requested |-> {prjA}] :
        r \in {MCPrj, {prjA, prjC}}, g \in (SUBSET {prjB, prjC}) \ {{}},
        m \in Ways, n \in Ways, k \in {"none", "export"}}

SearchScripts == CyclicScripts \cup MutualScripts
=============================================================================
