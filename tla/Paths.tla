------------------------------- MODULE Paths -------------------------------
(***************************************************************************)
(* base/path.lua: getabsolute with its cache, getdirectory, getrelative,   *)
(* join and rebase, called in any order while scripts change directory.    *)
(*                                                                         *)
(* A string is the sequence of its parts between slashes: "/a/b" is        *)
(* <<"", "a", "b">>, "a/" is <<"a", "">>, "" is <<"">>.  Backslashes,      *)
(* drive letters, quotes and "$root" are left out; callers give no double  *)
(* slashes, but getabsolute makes some: "/p/../q" becomes "//q".           *)
(***************************************************************************)
EXTENDS Naturals, Sequences, SequencesExt

CONSTANTS
    Given,     \* the paths that callers give
    Bases,     \* the directories that getrelative and rebase start from
    Cwds,      \* the values of _CWD
    Macros,    \* parts such as "$(HOME)"
    MaxCalls   \* bound on the calls

Started(p) == p[1] = "" /\ Len(p) > 1

ASSUME PathsAssumption ==
    /\ \A p \in Given \cup Bases : p # <<>>
    /\ \A d \in Cwds : Started(d) /\ Last(d) # ""
    /\ MaxCalls \in Nat

VARIABLES
    cwd,           \* _CWD
    absPathCache,
    last,          \* the last call and its result
    calls          \* how many there were

vars == <<cwd, absPathCache, last, calls>>

empty == <<"">>
dot == <<".">>
endsWithSlash(p) == Len(p) > 1 /\ Last(p) = ""
isabsolute(p) == Started(p) \/ p[1] \in Macros

(* The directory of a path; that of a file in the root is "/". *)
getdirectory(p) ==
    IF Len(p) = 1 THEN dot
    ELSE IF Len(p) = 2 /\ p[1] = "" THEN <<"", "">>
    ELSE Front(p)

(* The parts of p applied to r, one by one. *)
Walk(r, p) ==
    LET step[i \in 0..Len(p)] ==
            IF i = 0 THEN r
            ELSE LET s == step[i - 1]
                 IN  CASE p[i] = ".." -> getdirectory(s)
                       [] p[i] = "." -> s
                       [] OTHER -> Append(s, p[i])
    IN  step[Len(p)]

(* getabsolute of q in directory d, without the cache.  An absolute path   *)
(* is walked only if it has a part that begins with "." or a macro.        *)
(* Mutant: an absolute path is returned as it is.                          *)
absoluteAsIs(q, d) ==
    LET p == IF q = empty THEN dot ELSE q
        r == IF ~isabsolute(p) THEN Walk(d, p) ELSE p
    IN  IF endsWithSlash(r) THEN Front(r) ELSE r
absolute(q, d) ==
    LET p == IF q = empty THEN dot ELSE q
        walked == \E i \in 1..Len(p) : p[i] \in Macros \/ (i > 1 /\ p[i] \in {".", ".."})
        r == IF ~isabsolute(p) THEN Walk(d, p)
             ELSE IF walked THEN Walk(<<p[1]>>, Tail(p)) ELSE p
    IN  IF endsWithSlash(r) THEN Front(r) ELSE r

(* The cache after getabsolute of p.                                       *)
(* Mutant: relative paths are cached, too.                                 *)
CachedAny(cache, p, d) ==
    [q \in DOMAIN cache \cup {p} |-> IF q \in DOMAIN cache THEN cache[q] ELSE absolute(q, d)]
Cached(cache, p, d) ==
    [q \in DOMAIN cache \cup {r \in {p} : isabsolute(r)} |->
        IF q \in DOMAIN cache THEN cache[q] ELSE absolute(q, d)]
getabsolute(cache, p, d) == IF p \in DOMAIN cache THEN cache[p] ELSE absolute(p, d)

(* How many leading directories a and b have in common. *)
Common(a, b) ==
    LET n == IF Len(a) < Len(b) THEN Len(a) ELSE Len(b)
    IN  CHOOSE i \in 0..n :
            /\ \A j \in 1..i : a[j] = b[j]
            /\ i < n => a[i + 1] # b[i + 1]

(* getrelative between absolute paths.                                     *)
(* Mutant: the directory that they have in common last is left.            *)
relativeFurther(src, dst) ==
    LET n == Common(src, dst) - 1
        up == SelectSeq(SubSeq(src, n + 1, Len(src)), LAMBDA part : part # "")
    IN  IF src = dst THEN dot
        ELSE IF dst[1] \in Macros \/ n <= 1 THEN dst
        ELSE [i \in 1..Len(up) |-> ".."] \o SubSeq(dst, n + 2, Len(dst))
relative(src, dst) ==
    LET n == Common(src, dst)
        up == SelectSeq(SubSeq(src, n + 1, Len(src)), LAMBDA part : part # "")
    IN  IF src = dst THEN dot
        ELSE IF dst[1] \in Macros \/ n <= 1 THEN dst
        ELSE [i \in 1..Len(up) |-> ".."] \o SubSeq(dst, n + 1, Len(dst))

(* join of two paths: nothing is left of an empty one, and of whatever     *)
(* stands before an absolute one.                                          *)
(* Mutant: the first one is always kept.                                   *)
Trimmed(p) == IF endsWithSlash(p) THEN Front(p) ELSE p
joinBoth(p, q) == Trimmed(p) \o Trimmed(q)
join(p, q) ==
    IF q \in {empty, dot} THEN Trimmed(p)
    ELSE IF isabsolute(Trimmed(q)) \/ p \in {empty, dot} THEN Trimmed(q)
    ELSE Trimmed(p) \o Trimmed(q)

-----------------------------------------------------------------------------
Init ==
    /\ cwd \in Cwds
    /\ absPathCache = [p \in {} |-> <<>>]
    /\ last = [fn |-> "none"]
    /\ calls = 0

Call == calls < MaxCalls /\ calls' = calls + 1

(* A script is entered or left. *)
chdir(d) ==
    /\ Call
    /\ cwd' = d
    /\ last' = [fn |-> "chdir"]
    /\ UNCHANGED absPathCache

getabsoluteCall(p) ==
    /\ Call
    /\ last' = [fn |-> "getabsolute", in |-> p, out |-> getabsolute(absPathCache, p, cwd)]
    /\ absPathCache' = Cached(absPathCache, p, cwd)
    /\ UNCHANGED cwd

(* getrelative of src and dst, cache being the one before. *)
Relative(cache, src, dst) ==
    relative(getabsolute(cache, src, cwd),
             getabsolute(Cached(cache, src, cwd), dst, cwd))

getrelative(src, dst) ==
    /\ Call
    /\ last' = [fn |-> "getrelative", src |-> src, dst |-> dst,
                out |-> Relative(absPathCache, src, dst)]
    /\ absPathCache' = Cached(Cached(absPathCache, src, cwd), dst, cwd)
    /\ UNCHANGED cwd

(* rebase: p, which is relative to old, made relative to new. *)
rebase(p, old, new) ==
    LET j == join(old, p)
        abs == getabsolute(absPathCache, j, cwd)
        c1 == Cached(absPathCache, j, cwd)
    IN  /\ Call
        /\ last' = [fn |-> "rebase", p |-> p, old |-> old, new |-> new,
                    out |-> Relative(c1, new, abs)]
        /\ absPathCache' = Cached(Cached(c1, new, cwd), abs, cwd)
        /\ UNCHANGED cwd

Next ==
    \/ \E d \in Cwds : chdir(d)
    \/ \E p \in Given : getabsoluteCall(p)
    \/ \E src \in Bases, dst \in Given : getrelative(src, dst)
    \/ \E p \in Given, old, new \in Bases : rebase(p, old, new)

Spec == Init /\ [][Next]_vars

-----------------------------------------------------------------------------
(* What a path means in directory d: its parts, without "", "." and those  *)
(* that a ".." takes back.                                                 *)
Normal(parts) ==
    LET keep[i \in 0..Len(parts)] ==
            IF i = 0 THEN <<>>
            ELSE LET k == keep[i - 1]
                 IN  CASE parts[i] \in {"", "."} -> k
                       [] parts[i] = ".." -> IF k = <<>> THEN k ELSE Front(k)
                       [] OTHER -> Append(k, parts[i])
    IN  keep[Len(parts)]
Meaning(p, d) ==
    IF p[1] \in Macros THEN Normal(p)
    ELSE <<"">> \o Normal(IF Started(p) THEN p ELSE d \o p)

(* The two kinds of paths for which path.lua has no name of its own.  The  *)
(* root becomes the empty string, which is the working directory to the    *)
(* next function; and "$v/.." becomes ".".                                 *)
Root == <<"">>
LeavesMacro(p) ==
    p[1] \in Macros /\ \E i \in 1..Len(p) : Normal(SubSeq(p, 1, i)) = <<>>
HasName(p, d) == Meaning(p, d) # Root /\ ~LeavesMacro(p)

(* A path that climbs to the root on its way: getdirectory of "/p" is "/", *)
(* and what is appended to that stands behind two slashes.                 *)
ByTheRoot(p, d) ==
    \E i \in 1..Len(p) : p[i] = ".." /\ Meaning(SubSeq(p, 1, i), d) = Root

(* Only absolute paths are in the cache, and they lead to absolute ones,   *)
(* but for the root and what leaves a macro.                               *)
TypeOK ==
    /\ cwd \in Cwds
    /\ \A p \in DOMAIN absPathCache :
          isabsolute(p) /\ (HasName(p, cwd) => isabsolute(absPathCache[p]))

(* A cached path is what it would be if it were computed now, wherever the *)
(* scripts have gone since.                                                *)
CacheIsFresh ==
    \A p \in DOMAIN absPathCache : absPathCache[p] = absolute(p, cwd)

(* getabsolute keeps the place, unless it is the root or leaves a macro.   *)
(* It gives the one normal name of it, which is compared as a string by    *)
(* everybody who asks whether two paths are the same, unless the path      *)
(* climbs to the root on its way, as the one in test_path.lua:25 does.     *)
AbsoluteIsNormal ==
    last.fn = "getabsolute" /\ HasName(last.in, cwd) =>
        /\ Meaning(last.out, cwd) = Meaning(last.in, cwd)
        /\ ~ByTheRoot(last.in, cwd) => last.out = Meaning(last.in, cwd)

(* A relative path leads from src to dst, neither of them the root or one  *)
(* that leaves a macro, and turns back only where the two part.            *)
RelativeLeadsThere ==
    last.fn = "getrelative" /\ HasName(last.src, cwd) /\ HasName(last.dst, cwd) =>
        /\ Meaning(last.out, Meaning(last.src, cwd)) = Meaning(last.dst, cwd)
        /\ ~isabsolute(last.out) =>
              \A i \in 2..Len(last.out) : last.out[i] = ".." => last.out[i - 1] = ".."

(* rebase does not move a file, unless that or the new base is the root or *)
(* leaves a macro.                                                         *)
RebaseKeepsPlace ==
    last.fn = "rebase" =>
        LET place == Meaning(last.p, Meaning(last.old, cwd))
        IN  HasName(last.new, cwd) /\ HasName(last.p, Meaning(last.old, cwd)) =>
                Meaning(last.out, Meaning(last.new, cwd)) = place

(* The cache holds absolute paths, and they are fresh. *)
CacheSound == TypeOK /\ CacheIsFresh

(* The three conversions keep the place that a path means, where path.lua  *)
(* has a name for it; that name is normal but for paths by the root.       *)
PlacesKept == AbsoluteIsNormal /\ RelativeLeadsThere /\ RebaseKeepsPlace
=============================================================================
