----------------------------- MODULE DepthFirst -----------------------------
(***************************************************************************)
(* What baking promises: a depth-first search.  From the configurations    *)
(* asked for, each one reached is begun once, finishes after everything it *)
(* uses is finished or was already under way, innermost first, and at the  *)
(* end everything asked for is finished.                                   *)
(***************************************************************************)
EXTENDS Sequences, SequencesExt

VARIABLES
    roots,     \* the nodes asked for
    uses,      \* node -> the nodes that it uses
    under,     \* the nodes under way, innermost last
    finished,
    ended

vars == <<under, finished, ended, roots, uses>>

Init == under = <<>> /\ finished = {} /\ ~ended

(* What may be begun: whatever was asked for, or the innermost node uses. *)
Wanted == IF under = <<>> THEN roots ELSE uses[Last(under)]

Begin(n) ==
    /\ n \notin finished \cup ToSet(under) /\ ~ended
    /\ under' = Append(under, n)
    /\ UNCHANGED <<finished, ended, roots, uses>>

Finish ==
    /\ under # <<>>
    /\ uses[Last(under)] \subseteq finished \cup ToSet(under)
    /\ finished' = finished \cup {Last(under)}
    /\ under' = Front(under)
    /\ UNCHANGED <<ended, roots, uses>>

End ==
    /\ under = <<>> /\ roots \subseteq finished /\ ~ended
    /\ ended' = TRUE
    /\ UNCHANGED <<under, finished, roots, uses>>

Next == (\E n \in Wanted : Begin(n)) \/ Finish \/ End

(* The search may not go wrong, and it ends. *)
Safety == Init /\ [][Next]_vars
Spec == Safety /\ WF_vars(Next)
=============================================================================
