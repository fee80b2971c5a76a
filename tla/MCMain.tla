------------------------------- MODULE MCMain -------------------------------
(* Actions: ninja and help are premake's own; vs, which implies an          *)
(* operating system, toolng and tool, which is not next-gen, are a script's.*)
EXTENDS Main, TLC
MCActions == {"ninja", "help", "vs", "toolng", "tool"}
MCImplied == [a \in MCActions |-> IF a = "vs" THEN "windows" ELSE None]
MCStrip == [a \in MCActions |-> IF a = "toolng" THEN "tool" ELSE a]
Word(w) == [lead |-> "", name |-> w]
Option(w) == [lead |-> "--", name |-> w]
MCWords == {Word(w) : w \in {"ninja", "help", "vs", "toolng", "prj"}}
           \cup {Option("version"), Option("define")}
MCCommandLines ==
    {<<>>} \cup {<<v>> : v \in MCWords} \cup {<<v, w>> : v, w \in MCWords}
=============================================================================
