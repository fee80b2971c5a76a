----------------------------- MODULE MCTargets -----------------------------
EXTENDS Targets, TLC
Plain(n) == [abs |-> FALSE, path |-> <<n>>]
TwoNames == {Plain("core"), Plain("x")}

(* app declares in the namespace "base", libs in its own. *)
AppInBase == [s \in Sln |-> IF s = "app" THEN {<<"base">>} ELSE {<<s>>}]

OwnName == [n \in AllSpaces |-> {n}]
============================================================================
