------------------------------- MODULE Filter -------------------------------
(***************************************************************************)
(* The keywords that select a project's configuration blocks: api.callback *)
(* and api.setusesconfig of base/api.lua, which turn the values of some    *)
(* fields into keywords, and keyedblocks.getfilter, which adds the keywords *)
(* of the selected blocks to the filter until nothing changes.             *)
(*                                                                         *)
(* A filter is a function from keys to values; a block is selected by its  *)
(* terms.  Parents and usages are one more source of blocks and are not    *)
(* told apart; the blocks are those of one project.                        *)
(***************************************************************************)
EXTENDS Naturals, Sequences, SequencesExt, FiniteSets

CONSTANTS
    Projects,   \* the projects considered: the sets of their blocks
    Variants,   \* the build variants considered
    Lower,      \* Lower[v]: the value v in lower case
    LoopMax     \* loopMax

(* A value: [key, v]; key is "" for a plain one such as "Symbols".  A keyed *)
(* one, { k = "x" } or "k=x", is stored as the text v; only usesconfig     *)
(* strips it to the "x" that terms are stripped to as well.  Keys are      *)
(* written in lower case.                                                  *)
Value == [key : STRING, v : DOMAIN Lower]

(* A call in a block: a keyword field with a string or a table of values,  *)
(* or usesconfig with the words of its string.                             *)
Call == [field : STRING, form : {"string", "table", "usesconfig"}, values : Seq(Value)]
Block == [terms : Seq(STRING), nots : SUBSET STRING, calls : Seq(Call)]

(* No table gives one name both as a plain value and as a key: which one   *)
(* lasts depends on pairs().                                               *)
Unambiguous(c) ==
    c.form = "table" =>
        \A i, j \in 1..Len(c.values) :
            c.values[i].key = "" => c.values[j].key # Lower[c.values[i].v]

ASSUME FilterAssumption ==
    /\ LoopMax \in Nat \ {0}
    /\ DOMAIN Lower \subseteq STRING
    /\ \A v \in DOMAIN Lower : Lower[v] \in DOMAIN Lower /\ Lower[Lower[v]] = Lower[v]
    /\ \A f \in Variants : DOMAIN f \subseteq STRING /\ f \in [DOMAIN f -> DOMAIN Lower]
    /\ \A bs \in Projects : bs \subseteq Block /\ IsFiniteSet(bs)
    /\ \A bs \in Projects : \A b \in bs : \A i \in 1..Len(b.calls) : Unambiguous(b.calls[i])

VARIABLES
    blocks,      \* the project's blocks: [terms, nots, calls]
    variant,     \* the build variant asked for
    filter,
    filterList,  \* the filters of the iterations so far; loop is its length
    phase        \* "repeat", "done" or "error"

vars == <<blocks, variant, filter, filterList, phase>>

Values(f) == {f[k] : k \in DOMAIN f}
Update(f, g) == [k \in DOMAIN f \cup DOMAIN g |-> IF k \in DOMAIN g THEN g[k] ELSE f[k]]

-----------------------------------------------------------------------------
(* Numbered by #useValue, plain values of a table all take the same place. *)
(* Mutant: only the first value is kept.                                   *)
useValueFirst(c) == (1..Len(c.values)) \cap {1}
useValue(c) ==
    {i \in 1..Len(c.values) :
        c.form = "table" /\ c.values[i].key = ""
            => \A l \in (i + 1)..Len(c.values) : c.values[l].key # ""}

(* The value of a string takes the name of its field, a plain value of a   *)
(* table or of usesconfig is its own key.  Keys are in lower case in the   *)
(* filter.                                                                 *)
KeyOf(c, u) ==
    IF u.key # "" THEN u.key ELSE IF c.form = "string" THEN c.field ELSE Lower[u.v]

(* setusesconfig: of the values a block's calls give one key, the last.    *)
Places(b) == UNION {{i} \X useValue(b.calls[i]) : i \in 1..Len(b.calls)}
ValueAt(b, p) == b.calls[p[1]].values[p[2]]
KeyAt(b, p) == KeyOf(b.calls[p[1]], ValueAt(b, p))
Later(q, p) == q[1] > p[1] \/ (q[1] = p[1] /\ q[2] > p[2])
usesconfig(b) ==
    [k \in {KeyAt(b, p) : p \in Places(b)} |->
        LET given == {p \in Places(b) : KeyAt(b, p) = k}
        IN  ValueAt(b, CHOOSE p \in given : \A q \in given : ~Later(q, p)).v]

(* findBlocks: terms in the order in which they nest; terms were put in    *)
(* lower case when the blocks were made, the filter's values were not.     *)
SelectedBlocks(f) ==
    {b \in blocks : ToSet(b.terms) \subseteq Values(f) /\ b.nots \cap Values(f) = {}}

(* pairs() walks the terms in any order, outer blocks before inner ones. *)
Orders(bs) ==
    {o \in SetToSeqs(bs) :
        \A i, j \in 1..Len(o) : IsStrictPrefix(o[i].terms, o[j].terms) => i < j}
(* Mutants: the first value of a key stays; every block counts. *)
MergedAll(o) ==
    LET all == SetToSeq(blocks)
        m[i \in 0..Len(all)] ==
            IF i = 0 THEN [k \in {} |-> ""] ELSE Update(m[i - 1], usesconfig(all[i]))
    IN  m[Len(all)]
MergedFirst(o) ==
    LET m[i \in 0..Len(o)] ==
            IF i = 0 THEN [k \in {} |-> ""] ELSE Update(usesconfig(o[i]), m[i - 1])
    IN  m[Len(o)]
Merged(o) ==
    LET m[i \in 0..Len(o)] ==
            IF i = 0 THEN [k \in {} |-> ""] ELSE Update(m[i - 1], usesconfig(o[i]))
    IN  m[Len(o)]

(* The filter after usesconfig u.  Nothing is done to it if there is none. *)
(* Mutant: usesconfig replaces the filter.                                 *)
AppliedOnly(f, u) == IF DOMAIN u = {} THEN f ELSE [k \in DOMAIN u |-> Lower[u[k]]]
Applied(f, u) ==
    IF DOMAIN u = {} THEN f
    ELSE LET g == Update(f, u) IN [k \in DOMAIN g |-> Lower[g[k]]]

Init ==
    /\ blocks \in Projects
    /\ variant \in Variants
    /\ filter = variant
    /\ filterList = <<>>
    /\ phase = "repeat"

(* Where an iteration leads: table.equals breaks out of the loop, but the  *)
(* loop count is looked at all the same.                                   *)
(* Mutant: no second iteration.                                            *)
OneIteration(stable, loop) == IF stable THEN "done" ELSE "error"
After(stable, loop) ==
    IF ~stable /\ loop <= LoopMax THEN "repeat"
    ELSE IF loop >= LoopMax THEN "error" ELSE "done"

(* Mutant: only iterations with a new filter are counted. *)
RepeatUncounted ==
    /\ phase = "repeat"
    /\ \E o \in Orders(SelectedBlocks(filter)) : filter' = Applied(filter, Merged(o))
    /\ filterList' = IF filter \in ToSet(filterList) THEN filterList
                      ELSE Append(filterList, filter)
    /\ phase' = After(filter' = filter, Len(filterList'))
    /\ UNCHANGED <<blocks, variant>>
Repeat ==
    /\ phase = "repeat"
    /\ \E o \in Orders(SelectedBlocks(filter)) : filter' = Applied(filter, Merged(o))
    /\ filterList' = Append(filterList, filter)
    /\ phase' = After(filter' = filter, Len(filterList'))
    /\ UNCHANGED <<blocks, variant>>

Ended == phase # "repeat" /\ UNCHANGED vars

Next == Repeat \/ Ended

Spec == Init /\ [][Next]_vars /\ WF_vars(Repeat)

-----------------------------------------------------------------------------
(* The variables have their types: the filter keeps the keys of the build  *)
(* variant, and no more than LoopMax + 1 iterations are made.              *)
TypeOK ==
    /\ phase \in {"repeat", "done", "error"}
    /\ DOMAIN variant \subseteq DOMAIN filter
    /\ \A k \in DOMAIN filter : filter[k] \in DOMAIN Lower
    /\ Len(filterList) <= LoopMax + 1

(* "Apply usesconfig, repeat until the filter is stable": the filter that  *)
(* is returned holds every keyword of the blocks it selects; when blocks   *)
(* disagree, the keyword of one of them, and of a block that is nested in  *)
(* another the inner one's.                                                *)
FilterIsClosed ==
    phase = "done" =>
        \A b \in SelectedBlocks(filter) : \A k \in DOMAIN usesconfig(b) :
            \E c \in SelectedBlocks(filter) :
                /\ k \in DOMAIN usesconfig(c) \cap DOMAIN filter
                /\ filter[k] = Lower[usesconfig(c)[k]]
                /\ ~IsStrictPrefix(c.terms, b.terms)

(* A keyword is in the filter only if the build variant or a block that an *)
(* iteration selected put it there.                                        *)
KeywordsHaveASource ==
    \A k \in DOMAIN filter :
        \/ k \in DOMAIN variant /\ filter[k] \in {variant[k], Lower[variant[k]]}
        \/ \E i \in 1..Len(filterList) : \E b \in SelectedBlocks(filterList[i]) :
              k \in DOMAIN usesconfig(b) /\ filter[k] = Lower[usesconfig(b)[k]]

(* A value of a keyword field "will automatically be added to the filter   *)
(* list".  What holds of it: a plain value that a selected block gives in  *)
(* a table or with usesconfig is in the filter, whatever other blocks set, *)
(* if none gives its name as the key of another value.  Left out, because  *)
(* the code loses them, are all but the last plain value of a table, and   *)
(* values given as strings: they share the name of their field, and the    *)
(* string of one block takes the place of another's, so that flags "A" in  *)
(* one selected block and flags "B" in another leave one of the two.       *)
IsFlag(c, u) == u.key = "" /\ c.form # "string"
LastPlain(c, i) == c.form = "table" => \A j \in (i + 1)..Len(c.values) : c.values[j].key # ""
Written(b) == UNION {{b.calls[i]} \X (1..Len(b.calls[i].values)) : i \in 1..Len(b.calls)}
EveryFlagCounts ==
    phase = "done" =>
        \A b \in SelectedBlocks(filter) : \A w \in Written(b) :
            LET u == w[1].values[w[2]]
            IN  /\ IsFlag(w[1], u) /\ LastPlain(w[1], w[2])
                /\ \A c \in blocks : \A x \in Written(c) :
                      LET y == x[1].values[x[2]]
                      IN  KeyOf(x[1], y) = Lower[u.v] => IsFlag(x[1], y)
                => Lower[u.v] \in Values(filter)

(* The filter is refused as "oscillating" only if a keyword did change its *)
(* value, or LoopMax - 2 keywords or more were added: a chain of so many   *)
(* is refused even if it becomes stable with the last one.                 *)
Changed ==
    \E i, j \in 1..Len(filterList) :
        \E k \in DOMAIN filterList[i] \cap DOMAIN filterList[j] :
            Lower[filterList[i][k]] # Lower[filterList[j][k]]
RefusedOscillates ==
    phase = "error" =>
        Changed \/ Cardinality(DOMAIN filter \ DOMAIN variant) >= LoopMax - 2

(* getfilter returns or fails, also for blocks that undo each other. *)
FilterEnds == <>(phase # "repeat")

(* The filter holds what it should and nothing else, and is refused only   *)
(* for a cause.                                                            *)
FilterSound ==
    TypeOK /\ KeywordsHaveASource /\ EveryFlagCounts /\ RefusedOscillates
=============================================================================
