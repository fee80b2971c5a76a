----------------------------- MODULE MCNinjaGen -----------------------------
(* Three solutions S, T, U in directories of their own (S in the root).    *)
(* Projects: S in S (named like it), q in T, the command gen in T, r in U. *)
EXTENDS NinjaGen, TLC

S == <<"S">>
T == <<"T">>
U == <<"U">>
Q == <<"q">>
Gen == <<"gen">>
A == <<"x", "a">>
B == <<"y", "a">>
R == <<"r">>
MCSln == {S, T, U}
MCPrj == {S, Q, Gen, A, B, R}
Missing == <<"missing">>

Owner == (S :> S) @@ (Q :> T) @@ (Gen :> T) @@ (A :> T) @@ (B :> U) @@ (R :> U)
Projects == (S :> <<S>>) @@ (T :> <<Q, Gen>>) @@ (U :> <<R>>)
Cfgs == [p \in MCPrj |-> IF p \in {Gen, A, B} THEN {"All"}
                         ELSE IF p = Q THEN {"Debug", "Release"} ELSE {"Debug"}]
NoneExplicit == [p \in MCPrj |-> {}]

Script(inc, slns, asked, build, explicit, aliases, builddir, bins) ==
    [projects |-> Projects, includes |-> inc, owner |-> Owner,
     cfgs |-> Cfgs, explicit |-> explicit, command |-> {Gen, A, B}, apps |-> {Q},
     slns |-> slns, asked |-> asked, build |-> build, aliases |-> aliases,
     builddir |-> builddir, printBins |-> bins,
     dir |-> (S :> "root") @@ (T :> "t") @@ (U :> "u")]

Includes(a, b, c) == (S :> a) @@ (T :> b) @@ (U :> c)
Acyclic == {Includes(a, b, <<>>) :
              a \in {<<>>, <<T>>, <<U, T>>, <<T, Missing, U>>},
              b \in {<<>>, <<U>>}}
Explicit == {NoneExplicit, [NoneExplicit EXCEPT ![R] = {"Debug"}]}
Rooted == {[builddir |-> "root", aliases |-> {}],
           [builddir |-> "bin",
            aliases |-> {<<<<"alias">>, Q>>, <<<<"other">>, R>>}]}

OfSolutions(slns) == UNION {ToSet(Projects[s]) : s \in slns}

(* Solutions are asked for: their projects and some dependencies are built *)
BySolution ==
    {Script(inc, slns, {}, OfSolutions(slns) \cup more, ex,
            r.aliases, r.builddir, b) :
        inc \in Acyclic, slns \in {{S}, {T}, {S, U}, MCSln},
        more \in {{}, {Gen, R}}, ex \in Explicit, b \in BOOLEAN, r \in Rooted}

(* Projects are asked for by name, with or without dependencies. *)
ByProject ==
    {Script(inc, {}, asked, asked \cup more, ex, r.aliases, r.builddir, b) :
        inc \in {Includes(<<T>>, <<U>>, <<>>)}, asked \in {{Q}, {S, Gen}, {Q, R}}, more \in {{}, {Gen}},
        ex \in Explicit, b \in BOOLEAN, r \in Rooted}

(* Nothing is asked for, and there is no solution to build. *)
ByDirectory ==
    {Script(inc, {}, {}, build, NoneExplicit, {}, d, FALSE) :
        inc \in {Includes(<<>>, <<>>, <<>>)}, build \in {{Q, Gen}, {R}}, d \in {"root", "bin"}}

(* Solutions that include each other, as "*" in two of them does. *)
Star == {Script(Includes(<<T, U>>, <<S, U>>, <<>>), {S}, {}, {S, Q},
                NoneExplicit, {}, "bin", FALSE)}

(* A solution and a project of another one. *)
Mixed == {Script(Includes(<<>>, <<>>, <<>>), {S}, {Q}, {S, Q},
                 NoneExplicit, {}, "bin", FALSE)}

(* A project with one explicit configuration. *)
PartlyExplicit == {Script(Includes(<<>>, <<>>, <<>>), {T}, {}, {Q, Gen},
                     [NoneExplicit EXCEPT ![Q] = {"Release"}], {}, "bin", FALSE)}

(* Two command projects x/a and y/a. *)
SameLastPart == {Script(Includes(<<>>, <<>>, <<>>), {}, {A, B}, {A, B},
                        NoneExplicit, {}, "bin", FALSE)}

MCScripts == BySolution \cup ByProject \cup ByDirectory
             \cup Star \cup Mixed \cup PartlyExplicit \cup SameLastPart
=============================================================================
