------------------------------- MODULE MCBake -------------------------------
(* Scripts for model checking Bake. *)
EXTENDS Bake, TLC

CONSTANTS prjA, prjB, prjC

Edge1(q) == [to |-> q, with |-> {}, always |-> FALSE]
Always1(q) == [to |-> q, with |-> {}, always |-> TRUE]

MCPrj == {prjA, prjB, prjC}
OneCfg == <<"debug">>
TwoCfgs == <<"debug", "release">>

NoEdges == [p \in MCPrj |-> {}]
NoConds == [p \in MCPrj |-> {}]

(* Every way for prjA to use prjB and prjC and for prjB to use prjC, as a  *)
(* use, an alwaysuse or an export of the usage; prjB may be a plain usage. *)
Earlier(p) == CASE p = prjA -> {prjB, prjC} [] p = prjB -> {prjC} [] p = prjC -> {}
AcyclicScripts ==
    {[real |-> r, single |-> {}, kind |-> k, cond |-> NoConds,
      uses |-> [p \in MCPrj |->
          {Edge1(q) : q \in {q \in Earlier(p) : m[p, q] = "use"}} \cup
          {Always1(q) : q \in {q \in Earlier(p) : m[p, q] = "always"}}],
      exports |-> [p \in MCPrj |->
          {Edge1(q) : q \in {q \in Earlier(p) : m[p, q] = "export"}}],
      requested |-> r] :
        r \in {{prjA, prjB, prjC}, {prjA, prjC}},
        k \in {k \in [MCPrj -> Kind] : k[prjA] = "App"},
        m \in [{<<prjA, prjB>>, <<prjA, prjC>>, <<prjB, prjC>>} ->
                  {"none", "use", "always", "export"}]}

(* Every graph of uses over three projects, cycles included; prjA may use  *)
(* itself.                                                                 *)
CyclicScripts ==
    {[real |-> MCPrj, single |-> {}, kind |-> k, cond |-> NoConds,
      uses |-> [p \in MCPrj |-> {Edge1(q) : q \in g[p]}],
      exports |-> NoEdges, requested |-> r] :
        r \in {MCPrj, {prjA}},
        k \in {k \in [MCPrj -> {"StaticLib", "SharedLib", "Command"}] :
                  k[prjA] # "Command" /\ k[prjB] = "StaticLib"},
        g \in {g \in [MCPrj -> SUBSET MCPrj] : prjB \notin g[prjB] /\ prjC \notin g[prjC]}}

(* Uses with and without a feature, in both directions between prjB and    *)
(* prjC; either may be a plain usage.                                      *)
With(q, fs, al) == [to |-> q, with |-> fs, always |-> al]
OneOf(q) == {{}} \cup {{With(q, fs, FALSE)} : fs \in SUBSET Feature}
AnyOf(q) == {{}} \cup {{With(q, fs, al)} : fs \in SUBSET Feature, al \in BOOLEAN}
FeatureScripts ==
    {LET edges == (prjA :> (x \cup y)) @@ (prjB :> z) @@ (prjC :> w)
     IN  [real |-> r, single |-> {}, kind |-> k, cond |-> d,
          uses |-> [p \in MCPrj |-> IF p \in r THEN edges[p] ELSE {}],
          exports |-> [p \in MCPrj |-> IF p \in r THEN {} ELSE edges[p]],
          requested |-> {prjA}] :
        r \in {MCPrj, {prjA, prjB}, {prjA, prjC}},
        k \in {k \in [MCPrj -> {"App", "StaticLib", "SharedLib"}] :
                    k[prjA] = "App" /\ k[prjB] = "StaticLib" /\ k[prjC] # "App"},
        d \in {d \in [MCPrj -> SUBSET Feature] : d[prjA] = {}},
        x \in OneOf(prjB), y \in OneOf(prjC), z \in AnyOf(prjC), w \in OneOf(prjB)}

(* A command project prjC with only the configuration "All".               *)
CommandScripts ==
    {[real |-> MCPrj, single |-> {prjC}, cond |-> NoConds,
      kind |-> (prjA :> "App") @@ (prjB :> k) @@ (prjC :> "Command"),
      uses |-> (prjA :> x) @@ (prjB :> y) @@ (prjC :> z),
      exports |-> NoEdges, requested |-> r] :
        k \in Kind, x \in SUBSET {Edge1(prjB), Edge1(prjC)},
        y \in SUBSET {Edge1(prjC)},
        z \in OneOf(prjB) \cup {{Always1(prjB)}},
        r \in {MCPrj, {prjA}}}

AllScripts == AcyclicScripts \cup FeatureScripts \cup CommandScripts
=============================================================================
