------------------------------ MODULE MCPaths ------------------------------
EXTENDS Paths
MCCwds == {<<"", "r", "a", "b">>, <<"", "r", "c", "d">>}
(* "x", "../c", "./x/", "../../a/b", "", "/r/a/../c", "/z/x", "$v/x";       *)
(* by the root or to it: "/p/../z/x", "../../../z", "/", "$v/../x".        *)
MCGiven == {<<"x">>, <<"..", "c">>, <<".", "x", "">>, <<"..", "..", "a", "b">>,
            empty, <<"", "r", "a", "..", "c">>, <<"", "z", "x">>, <<"$v", "x">>,
            <<"", "p", "..", "z", "x">>, <<"..", "..", "..", "z">>, <<"", "">>,
            <<"$v", "..", "x">>}
MCBases == {<<"", "r", "a", "b", "">>, <<"..", "d">>, <<"", "p", "..", "z">>}
=============================================================================
