---------------------------- MODULE MCNinjaVars ----------------------------
(* NinjaVars with real name mangling: "objdir2" is both a name a caller asks *)
(* for and what the second value of "objdir" is mangled to.                  *)
EXTENDS NinjaVars, TLC

MCName == STRING
MCMangle == [n \in BaseNames |-> [i \in 2 .. MaxIdx |-> n \o ToString(i)]]
MCBaseNames == {"objdir", "objdir2", "tmp"}
=============================================================================
