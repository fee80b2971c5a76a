------------------------------ MODULE MCFilter ------------------------------
(* Blocks of a project with the build variants Debug and Release.          *)
EXTENDS Filter, TLC

Letters == {"debug", "release", "a", "b", "c"}
Chained == {"n" \o ToString(i) : i \in 1..12}
MCLower == [v \in Letters \cup Chained \cup {"Debug", "Release", "A", "kind=a"} |->
              CASE v = "Debug" -> "debug" [] v = "Release" -> "release"
                [] v = "A" -> "a" [] OTHER -> v]
MCVariants == {[buildcfg |-> "Debug"], [buildcfg |-> "Release"]}

MakeBlock(terms, nots, calls) == [terms |-> terms, nots |-> nots, calls |-> calls]
Plain(v) == [key |-> "", v |-> v]
Keyed(k, v) == [key |-> k, v |-> v]
Text(field, v) == [field |-> field, form |-> "string", values |-> <<Plain(v)>>]
Table(values) == [field |-> "flags", form |-> "table", values |-> values]
UsesConfig(values) == [field |-> "usesconfig", form |-> "usesconfig", values |-> values]

(* kind "c" for every configuration: the filter is put in lower case. *)
Always == MakeBlock(<<>>, {}, <<Text("kind", "c")>>)
Some ==
    {MakeBlock(t, {}, v) : t \in {<<"debug">>, <<"a">>, <<"a", "debug">>},
                       v \in {<<Table(<<Plain("A")>>)>>, <<Text("kind", "a")>>,
                              <<UsesConfig(<<Keyed("kind", "b"), Plain("b")>>)>>}} \cup
    {MakeBlock(<<>>, {n}, v) : n \in {"a", "release"},
                           v \in {<<UsesConfig(<<Plain("b")>>)>>, <<Text("kind", "a")>>}} \cup
    {MakeBlock(<<"debug">>, {}, <<Text("flags", "a")>>),
     MakeBlock(<<>>, {"release"}, <<Text("flags", "b")>>),
     MakeBlock(<<"debug">>, {}, <<Table(<<Keyed("kind", "kind=a"), Plain("b")>>)>>)}
(* flags { "a", "b" }, and after it flags { "c" } or usesconfig "c" *)
TwoFlags ==
    {{Always, MakeBlock(<<"debug">>, {}, <<Table(<<Plain("a"), Plain("b")>>)>> \o more)} :
        more \in {<<>>, <<Table(<<Plain("c")>>)>>, <<UsesConfig(<<Plain("c")>>)>>}}

(* n1 asks for n2, n2 for n3: each is found one iteration after the other, *)
(* and a block is no longer selected once the next one is.                 *)
Nth(i) == "n" \o ToString(i)
Ask(v) == <<UsesConfig(<<Plain(v)>>)>>
Link(i) == MakeBlock(<<Nth(i)>>, {Nth(i + 2)}, Ask(Nth(i + 1)))
Chain == {{MakeBlock(<<>>, {Nth(2)}, Ask(Nth(1)))} \cup {Link(i) : i \in 1..n} : n \in 1..10}

(* The same after an iteration that only puts the filter in lower case.    *)
Lowered == {{MakeBlock(<<>>, {}, <<UsesConfig(<<Keyed("buildcfg", "debug")>>)>>),
             MakeBlock(<<"debug">>, {Nth(2)}, Ask(Nth(1)))}
            \cup {Link(i) : i \in 1..n} : n \in 6..10}

(* kind goes through more values than there are iterations. *)
Kinds == {{MakeBlock(<<>>, {}, <<Text("kind", Nth(1))>>)} \cup
          {MakeBlock(<<Nth(i)>>, {}, <<Text("kind", Nth(i + 1))>>) : i \in 1..11}}

MCProjects ==
    {{Always, b, c, d} : b, c, d \in Some} \cup TwoFlags \cup Chain \cup Lowered \cup Kinds
=============================================================================
