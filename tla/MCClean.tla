------------------------------ MODULE MCClean ------------------------------
(* /repo with a build directory bin, which holds bin/p (objects of project   *)
(* p) and bin/q, a hidden file and a hidden directory, and with src/code.    *)
(* Beside it are /home, which holds a file, and /other, which is empty.      *)
EXTENDS Clean

Repo == <<"repo">>
Src == <<"repo", "src">>
Bin == <<"repo", "bin">>
P == <<"repo", "bin", "p">>
Q == <<"repo", "bin", "q">>
Keep == <<"repo", "bin", ".keep">>
Obj == <<"repo", "bin", "p", "obj">>
D == <<"repo", "bin", "p", ".d">>

Names == {"repo", "script", "bin", "p", "obj", "q", ".keep", ".d", "src", "code",
          "home", "other"}
Dots == {".keep", ".d"}

Home == <<"home">>
Other == <<"other">>
Sources == {<<"repo", "script">>, <<"repo", "src", "code">>, <<"home", "code">>}
Standing == {Top, Repo, Src, Home, Other} \cup Sources
Building == {Bin, P, Q, Keep, Obj, D}
N == Standing \cup Building

\* Every state of the build directory, with the sources in place.
Systems ==
    {t \in {[n \in N |-> IF n \in Sources THEN "file"
                         ELSE IF n \in Standing THEN "dir" ELSE u[n]] :
              u \in [Building -> {"none", "dir", "file"}]} : Tree(t)}

\* Directories of objects and binaries in the build directory.
BuildDirs == (SUBSET {Bin, P, Q, D}) \ {{}}
\* targetdir "." of a project in src, and targetdir "$root/".
InPlace == {{Src}, {P, Src}, {Repo}}
AllDirs == BuildDirs \cup InPlace
Files == {Obj, Q}
\* From outside /repo the climb may pass "/" and go on at the working directory.
Anywhere == {Repo, Src, Home, Other}
=============================================================================
