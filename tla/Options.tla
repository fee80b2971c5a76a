------------------------------ MODULE Options ------------------------------
(***************************************************************************)
(* Command-line options: base/option.lua and the way _premake_main uses it *)
(*                                                                         *)
(* _OPTIONS holds what the user typed.  It is refreshed three times, each  *)
(* time re-keying it by the options registered so far: at the start, after *)
(* the system script and, in validate, after the build script; both        *)
(* scripts may register more options with newoption.  The walks over the   *)
(* table use pairs() and so run in any order.                              *)
(*                                                                         *)
(* Left out: what main does with single options on the way (define adds to *)
(* usevariant, --version and --help end the program before validate).      *)
(***************************************************************************)
CONSTANTS
    Key,         \* the strings that can name an option
    EmptyKey,    \* the empty string among them
    Lower,       \* Lower[k]: k in lower case
    Val,         \* values
    EmptyVal,    \* the value of an option given without one
    Opt,         \* option objects
    Trigger,     \* Trigger[o]: the name of o
    Aliases,     \* Aliases[o]: its one-letter names
    NeedsValue,  \* options whose "value" does not start with '['
    Allowed,     \* Allowed[o]: its "allowed" values, or None
    BuiltIn,     \* the options cmdline.lua registers
    Given,       \* the command lines considered
    None

ASSUME OptionsAssumption ==
    /\ EmptyKey \in Key
    /\ Lower \in [Key -> Key] /\ \A k \in Key : Lower[Lower[k]] = Lower[k]
    /\ Trigger \in [Opt -> Key \ {EmptyKey}]
    /\ Aliases \in [Opt -> SUBSET (Key \ {EmptyKey})]
    /\ NeedsValue \subseteq Opt /\ BuiltIn \subseteq Opt
    /\ \A o \in Opt : Allowed[o] = None \/ Allowed[o] \subseteq Val
    /\ Given \subseteq [Key -> Val \cup {None}]
    /\ EmptyVal \in Val /\ None \notin Val \cup Opt
    /\ \A k \in Key : Lower[k] = EmptyKey <=> k = EmptyKey

(* The names under which option.add registers an option.  No two of the    *)
(* options considered share one, in any case: a script may register new    *)
(* options, and none that is there already.                                *)
NamesOf(o) == {Trigger[o], Lower[Trigger[o]]} \cup Aliases[o]
ASSUME NamesAssumption ==
    \A o, p \in Opt : o # p =>
        \A m \in NamesOf(o), n \in NamesOf(p) : Lower[m] # Lower[n]

VARIABLES
    given,      \* _OPTIONS as process_arguments left it
    options,    \* _OPTIONS
    list,       \* premake.option.list
    aliases,    \* premake.option.aliases
    phase,      \* where _premake_main is
    left,       \* the keys pairs() has yet to visit
    new,        \* refresh's newOptions
    unknown     \* refresh's unrecognisedOptions

vars == <<given, options, list, aliases, phase, left, new, unknown>>

Keys(f) == {k \in Key : f[k] # None}

-----------------------------------------------------------------------------
(* option.add writes the option under its trigger, as spelt and in lower   *)
(* case, and under its aliases.                                            *)
ListWith(f, o) == [f EXCEPT ![Trigger[o]] = o, ![Lower[Trigger[o]]] = o]

(* Mutant: the aliases lead to the option's name. *)
AliasesByName(f, o) ==
    [k \in Key |-> IF k \in Aliases[o] THEN Trigger[o] ELSE f[k]]
AliasesWith(f, o) == [k \in Key |-> IF k \in Aliases[o] THEN o ELSE f[k]]

(* option.get *)
Get(k) ==
    LET Look(n) == IF list[n] # None THEN list[n] ELSE aliases[n]
    IN  IF Look(k) # None THEN Look(k) ELSE Look(Lower[k])

Blank == [k \in Key |-> None]

Init ==
    /\ given \in Given
    /\ options = given
    /\ list = [k \in Key |->
                 IF \E o \in BuiltIn : k \in {Trigger[o], Lower[Trigger[o]]}
                 THEN CHOOSE o \in BuiltIn :
                        k \in {Trigger[o], Lower[Trigger[o]]}
                 ELSE None]
    /\ aliases = [k \in Key |-> IF \E o \in BuiltIn : k \in Aliases[o]
                                THEN CHOOSE o \in BuiltIn : k \in Aliases[o]
                                ELSE None]
    /\ phase = "refresh1"
    /\ left = Keys(given)
    /\ new = Blank
    /\ unknown = {}

(* A script calls newoption. *)
newoption(o) ==
    /\ phase \in {"system", "script"}
    /\ list' = ListWith(list, o)
    /\ aliases' = AliasesWith(aliases, o)
    /\ UNCHANGED <<given, options, phase, left, new, unknown>>

(* A script ends, and _OPTIONS is refreshed. *)
Refresh ==
    /\ \/ phase = "system" /\ phase' = "refresh2"
       \/ phase = "script" /\ phase' = "refresh3"
    /\ left' = Keys(options)
    /\ new' = Blank
    /\ unknown' = {}
    /\ UNCHANGED <<given, options, list, aliases>>

Refreshing == phase \in {"refresh1", "refresh2", "refresh3"}

(* Mutant: the value at hand wins over one given under the trigger. *)
RekeyLastWins(k, o) ==
    [new EXCEPT ![k] = options[k], ![Lower[k]] = options[k],
                ![Trigger[o]] = options[k]]

(* What refresh stores for the key k of the option o. *)
Rekey(k, o) ==
    LET byTrigger == options[Trigger[o]]
    IN  [new EXCEPT ![k] = options[k], ![Lower[k]] = options[k],
                    ![Trigger[o]] = IF byTrigger # None THEN byTrigger
                                    ELSE options[k]]

RefreshKey(k) ==
    /\ Refreshing /\ k \in left
    /\ left' = left \ {k}
    /\ \/ k = EmptyKey /\ UNCHANGED <<new, unknown>>
       \/ /\ k # EmptyKey /\ Get(k) = None
          /\ new' = [new EXCEPT ![k] = options[k]]
          /\ unknown' = unknown \cup {k}
       \/ /\ k # EmptyKey /\ Get(k) # None
          /\ new' = Rekey(k, Get(k))
          /\ UNCHANGED unknown
    /\ UNCHANGED <<given, options, list, aliases, phase>>

(* Only validate looks at what was not recognised.                         *)
(* Mutant: it does not.                                                    *)
RefreshDoneUnchecked ==
    /\ Refreshing /\ left = {}
    /\ options' = new
    /\ \/ phase = "refresh1" /\ phase' = "system" /\ UNCHANGED left
       \/ phase = "refresh2" /\ phase' = "script" /\ UNCHANGED left
       \/ phase = "refresh3" /\ phase' = "validate" /\ left' = Keys(new)
    /\ UNCHANGED <<given, list, aliases, new, unknown>>
RefreshDone ==
    /\ Refreshing /\ left = {}
    /\ options' = new
    /\ \/ phase = "refresh1" /\ phase' = "system" /\ UNCHANGED left
       \/ phase = "refresh2" /\ phase' = "script" /\ UNCHANGED left
       \/ phase = "refresh3" /\ unknown # {} /\ phase' = "error"
                             /\ UNCHANGED left
       \/ phase = "refresh3" /\ unknown = {} /\ phase' = "validate"
                             /\ left' = Keys(new)
    /\ UNCHANGED <<given, list, aliases, new, unknown>>

(* Mutant: every value may be left out. *)
ValueOptional(o, v) == o \in {} /\ v = EmptyVal

(* A mandatory value is missing, or a value is not an allowed one. *)
ValueMissing(o, v) == o \in NeedsValue /\ v = EmptyVal
ValueRefused(o, v) == Allowed[o] # None /\ v \notin Allowed[o]

(* Mutant: a value that is not mandatory may not be left out either. *)
ValidateEager(k) ==
    /\ phase = "validate" /\ k \in left
    /\ left' = left \ {k}
    /\ phase' = IF Get(k) = None THEN "crash"
                ELSE IF options[k] = EmptyVal THEN "error"
                ELSE IF Allowed[Get(k)] = None THEN phase
                ELSE IF ValueRefused(Get(k), options[k]) THEN "error" ELSE "ok"
    /\ UNCHANGED <<given, options, list, aliases, new, unknown>>

(* validate, one option: a key that names none is a Lua error; a bad value *)
(* ends in an error message, and an allowed one ends the walk with true.   *)
Validate(k) ==
    /\ phase = "validate" /\ k \in left
    /\ left' = left \ {k}
    /\ \/ Get(k) = None /\ phase' = "crash"
       \/ /\ Get(k) # None
          /\ LET o == Get(k)  v == options[k]
             IN  \/ ValueMissing(o, v) /\ phase' = "error"
                 \/ /\ ~ValueMissing(o, v)
                    /\ \/ Allowed[o] = None /\ UNCHANGED phase
                       \/ ValueRefused(o, v) /\ phase' = "error"
                       \/ /\ Allowed[o] # None /\ ~ValueRefused(o, v)
                          /\ phase' = "ok"
    /\ UNCHANGED <<given, options, list, aliases, new, unknown>>

ValidateDone ==
    /\ phase = "validate" /\ left = {}
    /\ phase' = "ok"
    /\ UNCHANGED <<given, options, list, aliases, left, new, unknown>>

Over == phase \in {"ok", "error", "crash"} /\ UNCHANGED vars

Next ==
    \/ \E o \in Opt \ BuiltIn : newoption(o)
    \/ Refresh \/ RefreshDone
    \/ \E k \in Key : RefreshKey(k) \/ Validate(k)
    \/ ValidateDone
    \/ Over

Spec == Init /\ [][Next]_vars

-----------------------------------------------------------------------------
(* Correctness *)

(* The two tables of options and _OPTIONS keep their types: a name leads   *)
(* to an option object, never to another name.                             *)
TypeOK ==
    /\ given \in [Key -> Val \cup {None}]
    /\ options \in [Key -> Val \cup {None}]
    /\ list \in [Key -> Opt \cup {None}]
    /\ aliases \in [Key -> Opt \cup {None}]
    /\ phase \in {"refresh1", "system", "refresh2", "script", "refresh3",
                  "validate", "ok", "error", "crash"}
    /\ left \subseteq Key
    /\ new \in [Key -> Val \cup {None}]
    /\ unknown \subseteq Key

(* What the user typed, what reaches the option, and what is wrong with it. *)
Asked == Keys(given) \ {EmptyKey}
Unrecognised(k) == Get(k) = None
Reaching(k) == options[Trigger[Get(k)]]
BadValue(o, v) == \/ o \in NeedsValue /\ v = EmptyVal
                  \/ Allowed[o] # None /\ v \notin Allowed[o]

(* "reregister .trigger in the table in case the option is an alias":      *)
(* after three refreshes and whatever the scripts registered in between,   *)
(* an option is found under its trigger exactly when the user asked for it *)
(* under one of its names, in any case; its value is one the user gave,    *)
(* and the trigger's own value wins.                                       *)
Delivered ==
    phase \in {"validate", "ok"} =>
        \A o \in Opt : Get(Trigger[o]) = o =>
            LET t == Trigger[o]
                names == {k \in Asked : Get(k) = o}
            IN  IF names = {} THEN options[t] = None
                ELSE /\ options[t] \in {given[k] : k \in names}
                     /\ t \in names => options[t] = given[t]

(* refresh adds the lower-case form of what it recognises; that of an alias *)
(* in upper case may name no option.                                       *)
UpperAlias(k) == aliases[k] # None /\ Get(Lower[k]) = None

(* A list of valid options is never refused, in whatever order validate    *)
(* meets them, unless it holds an alias in upper case.                     *)
RefusedForCause ==
    phase = "error" =>
        \E k \in Asked :
            Unrecognised(k) \/ BadValue(Get(k), given[k]) \/ UpperAlias(k)

(* What an accepted list is sure to satisfy: every option is known, and if *)
(* none has a list of allowed values, each one that must have a value has. *)
AcceptedSound ==
    phase = "ok" =>
        /\ \A k \in Asked : ~Unrecognised(k)
        /\ (\A k \in Asked : Allowed[Get(k)] = None) =>
               \A k \in Asked : ~BadValue(Get(k), Reaching(k))

(* validate fails with a Lua error only for an alias in upper case of an   *)
(* option that a script registered: refresh adds its lower-case form,      *)
(* which names no option, after the unrecognised ones were collected.      *)
CrashHasCause ==
    phase = "crash" =>
        \E k \in Asked : UpperAlias(k) /\ aliases[k] \notin BuiltIn

(* The tables keep their types, and a list of options is refused, or stops *)
(* validate, only for a cause.                                             *)
FailsForCause == TypeOK /\ RefusedForCause /\ CrashHasCause
=============================================================================
