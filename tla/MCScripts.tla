----------------------------- MODULE MCScripts -----------------------------
(* A root with a/, a/sub/ and b/, and a script in each.                     *)
EXTENDS Scripts, TLC
SolutionsAlike == Permutations(Sln)
MCDir == {"root", "a", "a/sub", "b"}
MCParent == ("a" :> "root") @@ ("a/sub" :> "a") @@ ("b" :> "root")
MCDirOf == ("main" :> "root") @@ ("fa" :> "a") @@ ("fs" :> "a/sub") @@ ("fb" :> "b")
=============================================================================
