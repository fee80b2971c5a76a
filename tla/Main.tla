-------------------------------- MODULE Main --------------------------------
(***************************************************************************)
(* From the command line to the action: process_arguments of host/premake.c, *)
(* _premake_main, defaultaction and newaction of base/api.lua, and         *)
(* action.set, action.call and action.execute of base/action.lua.          *)
(*                                                                         *)
(* A word of the command line is [lead, name]; lead is "" if it is not an  *)
(* option.  Of the options only those that end the program are told apart; *)
(* registration and validation are in module Options, what an action does  *)
(* in NinjaGen.  A script is there, and scripts and actions take any of    *)
(* the statements below.                                                   *)
(***************************************************************************)
EXTENDS Naturals, Sequences, SequencesExt

CONSTANTS
    Words,         \* the words that a command line may have
    CommandLines,  \* the command lines considered
    Actions,       \* the triggers that actions may have
    Builtin,       \* the actions that premake registers itself
    Help,          \* those that are help actions
    NextGen,       \* those that are written for projects as they are baked now
    Implied,       \* Implied[a]: the operating system that a implies, or None
    Strip,         \* Strip[a]: a without "ng" at its end
    Host,          \* the operating system premake was built for
    Unset,         \* the empty string that _ACTION is when it is not given
    MaxStatements, \* bound on the statements of scripts and actions
    None

ASSUME MainAssumption ==
    /\ CommandLines \subseteq Seq(Words)
    /\ \A w \in Words : w.name # None
    /\ Builtin \subseteq Actions /\ Help \subseteq Actions /\ NextGen \subseteq Actions
    /\ Strip \in [Actions -> Actions] /\ DOMAIN Implied = Actions
    /\ None \notin Actions /\ Unset \notin Actions
    /\ MaxStatements \in Nat

VARIABLES
    argv,           \* words not yet processed
    given,          \* the whole command line
    options, args,  \* _OPTIONS (its keys), _ARGS
    current,        \* _ACTION
    os,             \* _OS
    list,           \* premake.action.list (its triggers)
    default,        \* premake.defaultaction
    phase,          \* "arguments", "system", "script", "action", ...
    executes,       \* activations of action.execute
    called,         \* the action that main calls, once it does
    baked,          \* what bakeall saw, once it ran
    statements      \* taken so far

environment == <<args, current, os>>
vars == <<argv, given, options, environment, list, default, phase, executes,
          called, baked, statements>>

Init ==
    /\ given \in CommandLines /\ argv = given
    /\ options = {} /\ args = <<>>
    /\ current = None /\ os = Host
    /\ list = Builtin /\ default = None
    /\ phase = "arguments"
    /\ executes = <<>> /\ called = None /\ baked = None
    /\ statements = 0

(* The first argument that is not an option is the action.                 *)
(* Mutant: the last one is.                                                *)
ActionOfLast(w) == w.name
ActionOf(w) == IF current = None THEN w.name ELSE current

ProcessOption(w) ==
    /\ w.lead # ""
    /\ options' = options \cup {w.name}
    /\ UNCHANGED <<args, current>>
ProcessWord(w) ==
    /\ w.lead = ""
    /\ args' = Append(args, w.name)
    /\ current' = ActionOf(w)
    /\ UNCHANGED options

process_arguments ==
    /\ phase = "arguments" /\ argv # <<>>
    /\ ProcessOption(Head(argv)) \/ ProcessWord(Head(argv))
    /\ argv' = Tail(argv)
    /\ UNCHANGED <<given, os, list, default, phase, executes, called, baked, statements>>

StartMain ==
    /\ phase = "arguments" /\ argv = <<>>
    /\ phase' = "system"
    /\ UNCHANGED <<argv, given, options, environment, list, default, executes,
                   called, baked, statements>>

(* action.set: some actions imply an operating system. *)
OsOf(a, o) == IF a \in list /\ Implied[a] # None THEN Implied[a] ELSE o

(* The system script has run. *)
SetAction ==
    /\ phase = "system" /\ executes = <<>>
    /\ current' = IF current = None THEN Unset ELSE current
    /\ os' = OsOf(current', os)
    /\ phase' = IF current' \in list \cap Help THEN "decide" ELSE "script"
    /\ UNCHANGED <<argv, given, options, args, list, default, executes,
                   called, baked, statements>>

EndScript ==
    /\ phase = "script" /\ executes = <<>>
    /\ phase' = "decide"
    /\ UNCHANGED <<argv, given, options, environment, list, default, executes,
                   called, baked, statements>>

-----------------------------------------------------------------------------
(* What scripts and actions do.                                            *)
Running == phase \in {"system", "script", "action"}
Statement ==
    /\ Running /\ statements < MaxStatements
    /\ statements' = statements + 1
    /\ UNCHANGED <<argv, given, options, called, baked>>

newaction(a) ==
    /\ Statement
    /\ list' = list \cup {a}
    /\ UNCHANGED <<environment, default, phase, executes>>

(* _ACTION keeps a value it has, and the empty string is one. *)
defaultaction(a) ==
    /\ Statement /\ phase # "action"
    /\ current' = IF current = None THEN a ELSE current
    /\ default' = a
    /\ UNCHANGED <<args, os, list, phase, executes>>

(* action.call strips "ng" from _ACTION for a next-gen action.             *)
Called(a, c) == IF a \in NextGen \ Help THEN Strip[c] ELSE c

(* action.execute(a, al), up to the call of the action; al is <<>> if it   *)
(* is not given.                                                           *)
execute(a, al) ==
    /\ Statement
    /\ IF a \in list
       THEN /\ executes' = Append(executes, [action |-> current, args |-> args, os |-> os])
            /\ current' = Called(a, a)
            /\ os' = OsOf(a, os)
            /\ args' = IF al = <<>> THEN args ELSE al
            /\ UNCHANGED phase
       ELSE phase' = "error" /\ UNCHANGED <<environment, executes>>
    /\ UNCHANGED <<list, default>>

(* The action returns: "restore old state".                                *)
(* Mutants: the arguments, or the action, are not restored.                *)
RestoreAction(old) ==
    /\ current' = old.action
    /\ os' = OsOf(old.action, os)
    /\ UNCHANGED args
RestoreArgs(old) ==
    /\ args' = old.args
    /\ UNCHANGED <<current, os>>
Restore(old) ==
    /\ current' = old.action
    /\ os' = OsOf(old.action, os)
    /\ args' = old.args

executeReturn ==
    /\ Running /\ executes # <<>>
    /\ Restore(Last(executes))
    /\ executes' = Front(executes)
    /\ UNCHANGED <<argv, given, options, list, default, phase, called, baked, statements>>

-----------------------------------------------------------------------------
(* _premake_main after the scripts: --version and --help, no action at     *)
(* all, the default action, an unknown action; else the action is called,  *)
(* after baking unless a help action was given.  What needs baking but is  *)
(* not next-gen is "not implemented".                                      *)
Chosen == IF current \notin list /\ default # None THEN default ELSE current

(* Mutant: it is not looked up. *)
KnownAny(a) == TRUE
Known(a) == a \in list
ishelp == current \in list \cap Help

Decide ==
    /\ phase = "decide"
    /\ IF options \cap {"version", "help"} # {} \/ current = Unset
       THEN phase' = "stopped" /\ UNCHANGED <<current, called, baked>>
       ELSE IF ~Known(Chosen) \/ (~ishelp /\ Chosen \notin NextGen)
       THEN phase' = "error" /\ UNCHANGED <<current, called, baked>>
       ELSE /\ phase' = "action"
            /\ called' = Chosen
            /\ baked' = IF ishelp THEN baked
                        ELSE [action |-> Chosen, os |-> os, args |-> args]
            /\ current' = Called(Chosen, Chosen)
    /\ UNCHANGED <<argv, given, options, args, os, list, default, executes, statements>>

Finish ==
    /\ phase = "action" /\ executes = <<>>
    /\ phase' = "done"
    /\ UNCHANGED <<argv, given, options, environment, list, default, executes,
                   called, baked, statements>>

Over == phase \in {"stopped", "error", "done"} /\ UNCHANGED vars

ArgLists == {<<>>} \cup {<<w>> : w \in {"other"}}

Next ==
    \/ process_arguments \/ StartMain \/ SetAction \/ EndScript
    \/ \E a \in Actions : newaction(a) \/ defaultaction(a)
    \/ \E a \in Actions, al \in ArgLists : execute(a, al)
    \/ executeReturn \/ Decide \/ Finish \/ Over

Spec == Init /\ [][Next]_vars

-----------------------------------------------------------------------------
(* The places among the first k words of ws that hold no option. *)
PlainUpTo(ws, k) == {i \in 1..k : ws[i].lead = ""}

(* The sequence al has the words of ws at the places P, in their order. *)
Lists(al, ws, P) ==
    \E at \in [1..Len(al) -> P] :
        /\ \A i, j \in 1..Len(al) : i < j => at[i] < at[j]
        /\ \A p \in P : \E j \in 1..Len(al) : at[j] = p
        /\ \A j \in 1..Len(al) : al[j] = ws[at[j]].name

(* The arguments, and the place of the action, that the command line gives. *)
GivenArgs(al) == Lists(al, given, PlainUpTo(given, Len(given)))
NamesAction(ws, i) ==
    i \in PlainUpTo(ws, Len(ws)) /\ \A j \in PlainUpTo(ws, Len(ws)) : i <= j

(* The variables have their types, and a call of action.execute has       *)
(* returned before main goes on.                                           *)
TypeOK ==
    /\ phase \in {"arguments", "system", "script", "decide", "action",
                  "stopped", "error", "done"}
    /\ Builtin \subseteq list /\ list \subseteq Actions
    /\ default \in Actions \cup {None}
    /\ called \in list \cup {None}
    /\ phase \in {"arguments", "decide", "done"} => executes = <<>>

(* Whatever scripts registered, declared as default and executed, main     *)
(* calls the action that the command line names first if it is one of      *)
(* premake's own; if it is not, that or one that a script made the default *)
(* is called, for a script may have registered the one named or not.       *)
CalledAsAsked ==
    called # None =>
        \A i \in 1..Len(given) : NamesAction(given, i) =>
            IF given[i].name \in Builtin THEN called = given[i].name
            ELSE called \in {given[i].name, default}

(* Targets are chosen, and the projects baked, for the words of the        *)
(* command line and for the action that is called afterwards, although     *)
(* scripts may have executed actions with other arguments.                 *)
BakedForCommandLine ==
    baked # None => GivenArgs(baked.args) /\ baked.action = called

(* When main's action goes on after one that it executed, it is the        *)
(* current action again, with its arguments.                               *)
ActionIsCurrent ==
    phase = "action" /\ executes = <<>> =>
        current \in {called, Strip[called]} /\ GivenArgs(args)

(* The action that runs is the one that was asked for, from the command    *)
(* line to the end of what it executes.                                    *)
ActionSound == TypeOK /\ CalledAsAsked /\ ActionIsCurrent
=============================================================================
