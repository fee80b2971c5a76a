--------------------------- MODULE OptionsProofs ---------------------------
(***************************************************************************)
(* Proofs about Options: for all options with distinct names, all command  *)
(* lines and whatever options the scripts register, in whatever order the  *)
(* tables are walked, _OPTIONS holds what the user gave under the names of *)
(* the options, and options are refused, or stop validate, for a cause.    *)
(***************************************************************************)
EXTENDS Options, TLAPS

-----------------------------------------------------------------------------
(* The inductive invariant *)

(* The options registered in the table l, and the keys that lead to o. *)
Registered(l) == {o \in Opt : l[Trigger[o]] = o}
Named(k, o) == k \in NamesOf(o) \/ Lower[k] \in NamesOf(o)

TablesSound ==
    /\ \A k \in Key, o \in Opt :
          list[k] = o <=> o \in Registered(list) /\ k \in {Trigger[o], Lower[Trigger[o]]}
    /\ \A k \in Key, o \in Opt :
          aliases[k] = o <=> o \in Registered(list) /\ k \in Aliases[o]
    /\ BuiltIn \subseteq Registered(list)

(* The user gave v under k, or under another name of an option that        *)
(* refresh stores under k too; R are the registered options.               *)
Origin(g, R, k, v) ==
    \/ g[k] # None /\ v = g[k]
    \/ \E a \in Keys(g) \ {EmptyKey}, o \in R :
          /\ Named(a, o) /\ v = g[a]
          /\ k \in {Lower[a], Trigger[o], Lower[Trigger[o]]}
FromUser(f, g, R) == \A k \in Keys(f) : Origin(g, R, k, f[k])

(* Whatever refreshes there were, _OPTIONS holds nothing but what the user *)
(* gave, all the keys that the user gave, under a trigger the value given  *)
(* under it, and what the first refresh added for built-in options.        *)
OptionsSound ==
    /\ FromUser(options, given, Registered(list))
    /\ Asked \subseteq Keys(options)
    /\ \A o \in Opt : Trigger[o] \in Asked => options[Trigger[o]] = given[Trigger[o]]
    /\ phase # "refresh1" =>
          /\ options[EmptyKey] = None
          /\ \A a \in Asked, o \in BuiltIn : Named(a, o) => options[Lower[a]] # None

(* A key that a refresh has visited. *)
Visited(k) ==
    /\ new[k] # None
    /\ \/ k \in unknown
       \/ \E o \in Registered(list) :
             Named(k, o) /\ new[Lower[k]] # None /\ new[Trigger[o]] # None
RefreshSound ==
    Refreshing =>
        /\ left \subseteq Keys(options)
        /\ FromUser(new, given, Registered(list)) /\ new[EmptyKey] = None
        /\ \A k \in unknown :
              /\ k \in Keys(options) \ {EmptyKey}
              /\ \A o \in Registered(list) : ~Named(k, o)
        /\ \A k \in Keys(options) \ {EmptyKey} : k \in left \/ Visited(k)
        /\ \A o \in Opt : Trigger[o] \in Asked =>
              new[Trigger[o]] \in {None, given[Trigger[o]]}

(* After validate's own refresh every key that the user gave names an      *)
(* option, and so does the lower-case form of a built-in option's name.    *)
Settled ==
    phase \in {"validate", "ok", "crash"} =>
        /\ \A k \in Asked : \E o \in Registered(list) :
              Named(k, o) /\ options[Trigger[o]] # None
        /\ \A a \in Asked, o \in BuiltIn : Named(a, o) =>
              \E p \in Registered(list) : Named(Lower[a], p)

(* validate has passed the keys that it has visited. *)
Passed(k) == \E o \in Registered(list) : Named(k, o) /\ ~BadValue(o, options[k])
ValidateSound ==
    /\ phase = "validate" =>
          /\ left \subseteq Keys(options)
          /\ \A k \in Keys(options) : k \in left \/ Passed(k)
    /\ phase = "ok" =>
          \/ \E a \in Asked, o \in Registered(list) : Named(a, o) /\ Allowed[o] # None
          \/ \A k \in Keys(options) : Passed(k)

Inv ==
    /\ TypeOK /\ TablesSound /\ OptionsSound /\ RefreshSound /\ Settled
    /\ ValidateSound /\ RefusedForCause /\ CrashHasCause

-----------------------------------------------------------------------------
(* Names *)

(* A key is a name of o in some case. *)
Fits(k, o) == \E m \in NamesOf(o) : Lower[m] = Lower[k]

LEMMA LowerFacts ==
    ASSUME NEW k \in Key
    PROVE  /\ Lower[k] \in Key /\ Lower[Lower[k]] = Lower[k]
           /\ Lower[k] = EmptyKey <=> k = EmptyKey
  BY OptionsAssumption

LEMMA NamesFacts ==
    ASSUME NEW o \in Opt
    PROVE  /\ Trigger[o] \in Key \ {EmptyKey} /\ NamesOf(o) \subseteq Key \ {EmptyKey}
           /\ Trigger[o] \in NamesOf(o) /\ Lower[Trigger[o]] \in NamesOf(o)
           /\ Lower[Trigger[o]] \in Key /\ Lower[Lower[Trigger[o]]] = Lower[Trigger[o]]
           /\ Named(Trigger[o], o) /\ Named(Lower[Trigger[o]], o)
  <1>1. Trigger[o] \in Key \ {EmptyKey} /\ Aliases[o] \subseteq Key \ {EmptyKey}
    BY OptionsAssumption
  <1>2. /\ Lower[Trigger[o]] \in Key \ {EmptyKey}
        /\ Lower[Lower[Trigger[o]]] = Lower[Trigger[o]]
    BY <1>1, LowerFacts
  <1> QED BY <1>1, <1>2 DEF NamesOf, Named

LEMMA NamedFits ==
    ASSUME NEW k \in Key, NEW o \in Opt
    PROVE  /\ Named(k, o) => Fits(k, o)
           /\ Fits(Lower[k], o) <=> Fits(k, o)
  BY LowerFacts DEF Named, Fits

(* A key is a name of one option at most. *)
LEMMA FitsOne ==
    ASSUME NEW k \in Key, NEW o \in Opt, NEW p \in Opt, Fits(k, o), Fits(k, p)
    PROVE  o = p
  BY NamesAssumption DEF Fits

LEMMA NamedOne ==
    ASSUME NEW k \in Key, NEW o \in Opt, NEW p \in Opt, Named(k, o), Named(k, p)
    PROVE  o = p
  BY NamedFits, FitsOne

(* option.get finds the registered option that a key is a name of. *)
LEMMA GetFacts ==
    ASSUME TypeOK, TablesSound, NEW k \in Key
    PROVE  /\ Get(k) \in Opt \cup {None}
           /\ Get(k) # None => Get(k) \in Registered(list) /\ Named(k, Get(k))
           /\ \A o \in Registered(list) : Named(k, o) => Get(k) = o
           /\ Get(k) = None => \A o \in Registered(list) : ~Named(k, o)
  <1> DEFINE Look(n) == IF list[n] # None THEN list[n] ELSE aliases[n]
  <1>1. ASSUME NEW n \in Key
        PROVE  /\ Look(n) \in Opt \cup {None}
               /\ Look(n) # None => Look(n) \in Registered(list) /\ n \in NamesOf(Look(n))
               /\ \A o \in Registered(list) : n \in NamesOf(o) => Look(n) # None
    <2>1. list[n] \in Opt \cup {None} /\ aliases[n] \in Opt \cup {None}
      BY DEF TypeOK
    <2>2. Look(n) # None => Look(n) \in Registered(list) /\ n \in NamesOf(Look(n))
      BY <2>1 DEF TablesSound, NamesOf
    <2>3. ASSUME NEW o \in Registered(list), n \in NamesOf(o) PROVE Look(n) # None
      <3>1. o \in Opt /\ o # None
        BY OptionsAssumption DEF Registered
      <3>2. list[n] = o \/ aliases[n] = o
        BY <2>3, <3>1 DEF TablesSound, NamesOf
      <3> QED BY <3>1, <3>2
    <2> QED BY <2>1, <2>2, <2>3
  <1>2. Lower[k] \in Key
    BY LowerFacts
  <1>3. Get(k) = IF Look(k) # None THEN Look(k) ELSE Look(Lower[k])
    BY DEF Get
  <1> HIDE DEF Look
  <1>4. Get(k) \in Opt \cup {None}
    BY <1>1, <1>2, <1>3
  <1>5. Get(k) # None => Get(k) \in Registered(list) /\ Named(k, Get(k))
    BY <1>1, <1>2, <1>3 DEF Named
  <1>6. ASSUME NEW o \in Registered(list), Named(k, o) PROVE Get(k) # None
    BY <1>1, <1>2, <1>3, <1>6 DEF Named
  <1>7. ASSUME NEW o \in Registered(list), Named(k, o) PROVE Get(k) = o
    <2>1. o \in Opt /\ Get(k) \in Opt /\ Named(k, Get(k))
      BY <1>4, <1>5, <1>6, <1>7 DEF Registered
    <2> QED BY <1>7, <2>1, NamedOne
  <1> QED BY <1>4, <1>5, <1>6, <1>7

-----------------------------------------------------------------------------
(* What refresh stores comes from the user *)

LEMMA OriginKept ==
    ASSUME NEW g, NEW R \in SUBSET Opt, NEW k \in Key \ {EmptyKey}, NEW v,
           Origin(g, R, k, v), NEW o \in R, Named(k, o), g[k] # None => k \in Keys(g)
    PROVE  Origin(g, R, Lower[k], v) /\ Origin(g, R, Trigger[o], v)
  <1>1. CASE g[k] # None /\ v = g[k]
    <2>1. k \in Keys(g) \ {EmptyKey}
      BY <1>1
    <2> QED BY <1>1, <2>1 DEF Origin
  <1>2. ASSUME NEW a \in Keys(g) \ {EmptyKey}, NEW p \in R, Named(a, p), v = g[a],
               k \in {Lower[a], Trigger[p], Lower[Trigger[p]]}
        PROVE  Origin(g, R, Lower[k], v) /\ Origin(g, R, Trigger[o], v)
    <2>1. a \in Key /\ p \in Opt /\ o \in Opt
      BY DEF Keys
    <2>2. Fits(k, p)
      <3>1. Fits(a, p)
        BY <1>2, <2>1, NamedFits
      <3>2. Fits(Trigger[p], p) /\ Fits(Lower[Trigger[p]], p)
        BY <2>1, NamesFacts, NamedFits
      <3> QED BY <1>2, <2>1, <3>1, <3>2, NamedFits
    <2>3. p = o
      BY <2>1, <2>2, NamedFits, FitsOne
    <2>4. Lower[k] \in {Lower[a], Lower[Trigger[p]]}
      BY <1>2, <2>1, LowerFacts, NamesFacts
    <2> QED BY <1>2, <2>3, <2>4 DEF Origin
  <1> QED BY <1>1, <1>2 DEF Origin

(* A key that names no option, although _OPTIONS has it, was given, or is  *)
(* the lower-case form of an alias in upper case that was.                 *)
LEMMA UnknownHasCause ==
    ASSUME TypeOK, TablesSound, NEW k \in Key \ {EmptyKey}, NEW v,
           Origin(given, Registered(list), k, v), Get(k) = None
    PROVE  \/ k \in Asked /\ Unrecognised(k)
           \/ \E a \in Asked : k = Lower[a] /\ UpperAlias(a) /\ Get(a) = aliases[a]
  <1>1. CASE given[k] # None
    BY <1>1 DEF Asked, Keys, Unrecognised
  <1>2. ASSUME NEW a \in Keys(given) \ {EmptyKey}, NEW o \in Registered(list), Named(a, o),
               k \in {Lower[a], Trigger[o], Lower[Trigger[o]]}
        PROVE  \E b \in Asked : k = Lower[b] /\ UpperAlias(b) /\ Get(b) = aliases[b]
    <2>1. a \in Asked /\ a \in Key /\ o \in Opt /\ Lower[a] \in Key
      BY LowerFacts DEF Asked, Keys, Registered
    <2>2. ~Named(k, o) /\ k = Lower[a]
      BY <1>2, <2>1, GetFacts, NamesFacts
    <2>3. Get(a) = o /\ o # None
      BY <1>2, <2>1, GetFacts, OptionsAssumption
    <2>4. a \in NamesOf(o) /\ Lower[a] \notin NamesOf(o)
      BY <1>2, <2>1, <2>2, LowerFacts DEF Named
    <2>5. a \in Aliases[o]
      <3>1. Lower[a] # Lower[Trigger[o]]
        BY <2>1, <2>4, NamesFacts
      <3>2. a # Trigger[o] /\ a # Lower[Trigger[o]]
        BY <2>1, <3>1, NamesFacts
      <3> QED BY <2>4, <3>2 DEF NamesOf
    <2>6. aliases[a] = o
      BY <2>1, <2>5 DEF TablesSound
    <2> QED BY <2>1, <2>2, <2>3, <2>6 DEF UpperAlias
  <1> QED BY <1>1, <1>2 DEF Origin

(* The value under a key that names an option is one that the user gave    *)
(* for that option.                                                        *)
LEMMA ValueHasOrigin ==
    ASSUME TypeOK, TablesSound, NEW k \in Key \ {EmptyKey}, NEW v,
           Origin(given, Registered(list), k, v), NEW o \in Registered(list), Named(k, o)
    PROVE  \E a \in Asked : Named(a, o) /\ Get(a) = o /\ v = given[a]
  <1>1. CASE given[k] # None /\ v = given[k]
    BY <1>1, GetFacts DEF Asked, Keys
  <1>2. ASSUME NEW a \in Keys(given) \ {EmptyKey}, NEW p \in Registered(list), Named(a, p),
               v = given[a], k \in {Lower[a], Trigger[p], Lower[Trigger[p]]}
        PROVE  \E b \in Asked : Named(b, o) /\ Get(b) = o /\ v = given[b]
    <2>1. a \in Asked /\ a \in Key /\ p \in Opt /\ o \in Opt
      BY DEF Asked, Keys, Registered
    <2>2. Fits(k, p)
      <3>1. Fits(a, p)
        BY <1>2, <2>1, NamedFits
      <3>2. Fits(Trigger[p], p) /\ Fits(Lower[Trigger[p]], p)
        BY <2>1, NamesFacts, NamedFits
      <3> QED BY <1>2, <2>1, <3>1, <3>2, NamedFits
    <2>3. p = o
      BY <2>1, <2>2, NamedFits, FitsOne
    <2>4. Get(a) = o
      BY <1>2, <2>1, <2>3, GetFacts
    <2> QED BY <1>2, <2>1, <2>3, <2>4
  <1> QED BY <1>1, <1>2 DEF Origin

-----------------------------------------------------------------------------
(* The steps preserve the invariant *)

LEMMA BlankFacts == Blank \in [Key -> Val \cup {None}] /\ Keys(Blank) = {}
  BY DEF Blank, Keys

(* The tables that cmdline.lua leaves. *)
LEMMA InitTables ==
    ASSUME Init
    PROVE  /\ list \in [Key -> Opt \cup {None}] /\ aliases \in [Key -> Opt \cup {None}]
           /\ TablesSound
  <1>0. BuiltIn \subseteq Opt /\ None \notin Opt
    BY OptionsAssumption
  <1> DEFINE ByTrigger(k, o) == k \in {Trigger[o], Lower[Trigger[o]]}
             ByAlias(k, o) == k \in Aliases[o]
  <1>1. ASSUME NEW k \in Key
        PROVE  /\ list[k] \in Opt \cup {None}
               /\ \A o \in Opt : list[k] = o <=> o \in BuiltIn /\ ByTrigger(k, o)
    <2>1. list[k] = IF \E o \in BuiltIn : ByTrigger(k, o)
                    THEN CHOOSE o \in BuiltIn : ByTrigger(k, o) ELSE None
      BY DEF Init
    <2>2. \A o, p \in Opt : ByTrigger(k, o) /\ ByTrigger(k, p) => o = p
      BY NamedOne DEF Named, NamesOf
    <2> HIDE DEF ByTrigger
    <2>3. CASE \E o \in BuiltIn : ByTrigger(k, o)
      <3>1. list[k] \in BuiltIn /\ ByTrigger(k, list[k])
        BY <2>1, <2>3
      <3> QED BY <1>0, <2>2, <3>1
    <2>4. CASE ~\E o \in BuiltIn : ByTrigger(k, o)
      BY <1>0, <2>1, <2>4
    <2> QED BY <2>3, <2>4
  <1>2. ASSUME NEW k \in Key
        PROVE  /\ aliases[k] \in Opt \cup {None}
               /\ \A o \in Opt : aliases[k] = o <=> o \in BuiltIn /\ ByAlias(k, o)
    <2>1. aliases[k] = IF \E o \in BuiltIn : ByAlias(k, o)
                       THEN CHOOSE o \in BuiltIn : ByAlias(k, o) ELSE None
      BY DEF Init
    <2>2. \A o, p \in Opt : ByAlias(k, o) /\ ByAlias(k, p) => o = p
      BY NamedOne DEF Named, NamesOf
    <2> HIDE DEF ByAlias
    <2>3. CASE \E o \in BuiltIn : ByAlias(k, o)
      <3>1. aliases[k] \in BuiltIn /\ ByAlias(k, aliases[k])
        BY <2>1, <2>3
      <3> QED BY <1>0, <2>2, <3>1
    <2>4. CASE ~\E o \in BuiltIn : ByAlias(k, o)
      BY <1>0, <2>1, <2>4
    <2> QED BY <2>3, <2>4
  <1>3. Registered(list) = BuiltIn
    <2>1. \A o \in Opt : list[Trigger[o]] = o <=> o \in BuiltIn
      BY <1>1, NamesFacts
    <2> QED BY <1>0, <2>1 DEF Registered
  <1>4. list \in [Key -> Opt \cup {None}] /\ aliases \in [Key -> Opt \cup {None}]
    <2>1. list = [k \in Key |-> list[k]] /\ aliases = [k \in Key |-> aliases[k]]
      BY DEF Init
    <2> QED BY <1>1, <1>2, <2>1
  <1>5. TablesSound
    BY <1>1, <1>2, <1>3 DEF TablesSound
  <1> QED BY <1>4, <1>5

LEMMA InitInv == Init => Inv
  <1> SUFFICES ASSUME Init PROVE Inv
    OBVIOUS
  <1>1. /\ given \in [Key -> Val \cup {None}] /\ options = given /\ phase = "refresh1"
        /\ left = Keys(given) /\ new = Blank /\ unknown = {}
    BY OptionsAssumption DEF Init
  <1>2. TypeOK
    BY <1>1, InitTables, BlankFacts DEF TypeOK, Keys
  <1>3. TablesSound
    BY InitTables
  <1>4. OptionsSound
    BY <1>1 DEF OptionsSound, FromUser, Origin, Asked, Keys
  <1>5. RefreshSound
    <2>1. new[EmptyKey] = None
      BY <1>1, OptionsAssumption DEF Blank
    <2>2. \A o \in Opt : new[Trigger[o]] = None
      BY <1>1, NamesFacts DEF Blank
    <2> QED BY <1>1, <2>1, <2>2, BlankFacts DEF RefreshSound, FromUser
  <1>6. Settled /\ ValidateSound /\ RefusedForCause /\ CrashHasCause
    BY <1>1 DEF Settled, ValidateSound, RefusedForCause, CrashHasCause
  <1> QED BY <1>2, <1>3, <1>4, <1>5, <1>6 DEF Inv

(* Scripts register options without losing any. *)
LEMMA NewoptionInv == ASSUME Inv, NEW o \in Opt \ BuiltIn, newoption(o) PROVE Inv'
  <1>1. /\ phase \in {"system", "script"} /\ list' = ListWith(list, o)
        /\ aliases' = AliasesWith(aliases, o)
        /\ UNCHANGED <<given, options, phase, left, new, unknown>>
    BY DEF newoption
  <1>2. TypeOK /\ TablesSound /\ OptionsSound
    BY DEF Inv
  <1>3. /\ list' \in [Key -> Opt \cup {None}]
        /\ \A k \in Key : list'[k] = IF k \in {Trigger[o], Lower[Trigger[o]]} THEN o
                                      ELSE list[k]
    <2>1. list \in [Key -> Opt \cup {None}] /\ Trigger[o] \in Key /\ Lower[Trigger[o]] \in Key
      BY <1>2, NamesFacts DEF TypeOK
    <2> QED BY <1>1, <2>1 DEF ListWith
  <1>4. /\ aliases' \in [Key -> Opt \cup {None}]
        /\ \A k \in Key : aliases'[k] = IF k \in Aliases[o] THEN o ELSE aliases[k]
    BY <1>1, <1>2 DEF AliasesWith, TypeOK
  <1>5. \A k \in Key, p \in Opt : k \in NamesOf(o) /\ k \in NamesOf(p) => p = o
    BY NamedOne DEF Named
  <1>6. Registered(list') = Registered(list) \cup {o}
    <2>1. ASSUME NEW p \in Opt, p # o PROVE list'[Trigger[p]] = list[Trigger[p]]
      <3>1. Trigger[p] \in Key /\ Trigger[p] \in NamesOf(p)
        BY NamesFacts
      <3>2. Trigger[p] \notin {Trigger[o], Lower[Trigger[o]]}
        BY <1>5, <2>1, <3>1 DEF NamesOf
      <3> QED BY <1>3, <3>1, <3>2
    <2>2. list'[Trigger[o]] = o
      BY <1>3, NamesFacts
    <2> QED BY <2>1, <2>2 DEF Registered
  <1>7. TablesSound'
    <2>1. ASSUME NEW k \in Key, NEW p \in Opt
          PROVE  /\ list'[k] = p <=> /\ p \in Registered(list')
                                     /\ k \in {Trigger[p], Lower[Trigger[p]]}
                 /\ aliases'[k] = p <=> p \in Registered(list') /\ k \in Aliases[p]
      <3>1. CASE p = o
        BY <1>2, <1>3, <1>4, <1>6, <3>1 DEF TablesSound
      <3>2. CASE p # o
        <4>1. k \in NamesOf(p) => k \notin NamesOf(o)
          BY <1>5, <3>2
        <4> QED BY <1>2, <1>3, <1>4, <1>6, <3>2, <4>1 DEF TablesSound, NamesOf
      <3> QED BY <3>1, <3>2
    <2> QED BY <1>2, <1>6, <2>1 DEF TablesSound
  <1>8. OptionsSound'
    <2>1. FromUser(options, given, Registered(list'))
      BY <1>2, <1>6 DEF OptionsSound, FromUser, Origin
    <2> QED BY <1>1, <1>2, <2>1 DEF OptionsSound, Asked
  <1>9. TypeOK'
    BY <1>1, <1>2, <1>3, <1>4 DEF TypeOK
  <1>10. RefreshSound' /\ Settled' /\ ValidateSound' /\ RefusedForCause' /\ CrashHasCause'
    BY <1>1 DEF RefreshSound, Refreshing, Settled, ValidateSound, RefusedForCause, CrashHasCause
  <1> QED BY <1>7, <1>8, <1>9, <1>10 DEF Inv

LEMMA RefreshInv == ASSUME Inv, Refresh PROVE Inv'
  <1>1. /\ phase \in {"system", "script"} /\ phase' \in {"refresh2", "refresh3"}
        /\ left' = Keys(options) /\ new' = Blank /\ unknown' = {}
        /\ UNCHANGED <<given, options, list, aliases>>
    BY DEF Refresh
  <1>2. TypeOK'
    BY <1>1, BlankFacts DEF Inv, TypeOK, Keys
  <1>3. TablesSound' /\ OptionsSound'
    BY <1>1 DEF Inv, TablesSound, OptionsSound, Asked
  <1>4. RefreshSound'
    <2>1. Blank[EmptyKey] = None /\ \A o \in Opt : Blank[Trigger[o]] = None
      BY OptionsAssumption, NamesFacts DEF Blank
    <2> QED BY <1>1, <2>1, BlankFacts DEF RefreshSound, FromUser
  <1>5. Settled' /\ ValidateSound' /\ RefusedForCause' /\ CrashHasCause'
    BY <1>1 DEF Settled, ValidateSound, RefusedForCause, CrashHasCause
  <1> QED BY <1>2, <1>3, <1>4, <1>5 DEF Inv

(* refresh visits a key: what it stores comes from the user, and leaves    *)
(* what is stored already in its place.                                    *)
LEMMA RekeyFacts ==
    ASSUME Inv, Refreshing, NEW k \in Keys(options) \ {EmptyKey},
           NEW o \in Registered(list), Named(k, o), new' = Rekey(k, o)
    PROVE  /\ new' \in [Key -> Val \cup {None}]
           /\ FromUser(new', given, Registered(list)) /\ new'[EmptyKey] = None
           /\ \A n \in Key : new[n] # None => new'[n] # None
           /\ new'[k] # None /\ new'[Lower[k]] # None /\ new'[Trigger[o]] # None
           /\ \A p \in Opt : Trigger[p] \in Asked =>
                 new'[Trigger[p]] \in {None, given[Trigger[p]]}
  <1> DEFINE t == Trigger[o]
             v == IF options[t] # None THEN options[t] ELSE options[k]
  <1>1. TypeOK /\ TablesSound /\ OptionsSound /\ RefreshSound
    BY DEF Inv
  <1>2. /\ k \in Key /\ options[k] # None /\ options[k] \in Val /\ Lower[k] \in Key \ {EmptyKey}
        /\ o \in Opt /\ t \in Key \ {EmptyKey} /\ v # None /\ v \in Val
    BY <1>1, LowerFacts, NamesFacts DEF Keys, TypeOK, Registered
  <1>3. /\ new \in [Key -> Val \cup {None}]
        /\ FromUser(new, given, Registered(list)) /\ new[EmptyKey] = None
    BY <1>1 DEF TypeOK, RefreshSound
  <1> HIDE DEF t, v
  <1>4. /\ new' \in [Key -> Val \cup {None}]
        /\ \A n \in Key : new'[n] = IF n = t THEN v
                                     ELSE IF n \in {k, Lower[k]} THEN options[k] ELSE new[n]
    BY <1>2, <1>3 DEF Rekey, t, v
  <1>5. /\ Origin(given, Registered(list), k, options[k])
        /\ options[t] # None => Origin(given, Registered(list), t, options[t])
    BY <1>1, <1>2 DEF OptionsSound, FromUser, Keys
  <1>6. /\ Origin(given, Registered(list), Lower[k], options[k])
        /\ Origin(given, Registered(list), t, options[k])
    <2>1. Registered(list) \in SUBSET Opt /\ (given[k] # None => k \in Keys(given))
      BY <1>2 DEF Registered, Keys
    <2> QED BY <1>2, <1>5, <2>1, OriginKept DEF t
  <1>7. Origin(given, Registered(list), t, v)
    BY <1>5, <1>6 DEF v
  <1>8. FromUser(new', given, Registered(list))
    BY <1>3, <1>4, <1>5, <1>6, <1>7 DEF FromUser, Keys
  <1>9. new'[EmptyKey] = None
    BY <1>2, <1>3, <1>4, OptionsAssumption
  <1>10. /\ \A n \in Key : new[n] # None => new'[n] # None
         /\ new'[k] # None /\ new'[Lower[k]] # None /\ new'[t] # None
    BY <1>2, <1>4
  <1>11. ASSUME NEW p \in Opt, Trigger[p] \in Asked
         PROVE  new'[Trigger[p]] \in {None, given[Trigger[p]]}
    <2>1. Trigger[p] \in Key /\ options[Trigger[p]] = given[Trigger[p]]
          /\ options[Trigger[p]] # None
          /\ new[Trigger[p]] \in {None, given[Trigger[p]]}
      BY <1>1, <1>11, NamesFacts DEF OptionsSound, RefreshSound, Keys
    <2>2. CASE p = o
      BY <1>4, <2>1, <2>2 DEF t, v
    <2>3. CASE p # o
      <3>1. Trigger[p] # t /\ Trigger[p] # Lower[k]
        <4>1. ~Fits(k, p)
          BY <1>2, <2>3, NamedFits, FitsOne
        <4>2. Fits(Trigger[p], p) /\ Named(t, o)
          BY <1>2, NamesFacts, NamedFits DEF t
        <4>3. ~Fits(Lower[k], p)
          BY <1>2, <4>1, NamedFits
        <4> QED BY <1>2, <2>3, <4>2, <4>3, NamedFits, FitsOne
      <3> QED BY <1>4, <2>1, <3>1
    <2> QED BY <2>2, <2>3
  <1> QED BY <1>4, <1>8, <1>9, <1>10, <1>11 DEF t

LEMMA RefreshKeyInv == ASSUME Inv, NEW k \in Key, RefreshKey(k) PROVE Inv'
  <1>1. /\ Refreshing /\ k \in left /\ left' = left \ {k}
        /\ UNCHANGED <<given, options, list, aliases, phase>>
    BY DEF RefreshKey
  <1>2. TypeOK /\ TablesSound /\ OptionsSound /\ RefreshSound
    BY DEF Inv
  <1>3. /\ k \in Keys(options) /\ options[k] # None /\ options[k] \in Val
        /\ FromUser(new, given, Registered(list)) /\ new[EmptyKey] = None
        /\ \A n \in unknown :
              /\ n \in Keys(options) \ {EmptyKey}
              /\ \A o \in Registered(list) : ~Named(n, o)
        /\ \A n \in Keys(options) \ {EmptyKey} : n \in left \/ Visited(n)
        /\ \A o \in Opt : Trigger[o] \in Asked =>
              new[Trigger[o]] \in {None, given[Trigger[o]]}
    BY <1>1, <1>2 DEF RefreshSound, Keys, TypeOK
  <1>4. TablesSound' /\ OptionsSound'
    BY <1>1, <1>2 DEF TablesSound, OptionsSound, Asked
  <1>5. Settled' /\ ValidateSound' /\ RefusedForCause' /\ CrashHasCause'
    BY <1>1 DEF Refreshing, Settled, ValidateSound, RefusedForCause, CrashHasCause
  <1>6. CASE k = EmptyKey /\ UNCHANGED <<new, unknown>>
    <2>1. TypeOK'
      BY <1>1, <1>2, <1>6 DEF TypeOK
    <2>2. RefreshSound'
      BY <1>1, <1>2, <1>3, <1>6 DEF RefreshSound, Visited, Asked
    <2> QED BY <1>4, <1>5, <2>1, <2>2 DEF Inv
  <1>7. CASE /\ k # EmptyKey /\ Get(k) = None
             /\ new' = [new EXCEPT ![k] = options[k]] /\ unknown' = unknown \cup {k}
    <2>1. /\ new' \in [Key -> Val \cup {None}]
          /\ \A n \in Key : new'[n] = IF n = k THEN options[k] ELSE new[n]
      BY <1>2, <1>3, <1>7 DEF TypeOK
    <2>2. TypeOK'
      BY <1>1, <1>2, <1>7, <2>1 DEF TypeOK
    <2>3. FromUser(new', given, Registered(list)) /\ new'[EmptyKey] = None
      BY <1>2, <1>3, <1>7, <2>1, OptionsAssumption DEF FromUser, OptionsSound, Keys
    <2>4. \A o \in Registered(list) : ~Named(k, o)
      BY <1>2, <1>7, GetFacts
    <2>5. \A n \in Keys(options) \ {EmptyKey} : n \in left' \/ Visited(n)'
      <3> SUFFICES ASSUME NEW n \in Keys(options) \ {EmptyKey}, n \notin left'
                   PROVE  Visited(n)'
        OBVIOUS
      <3>1. CASE n = k
        BY <1>3, <1>7, <2>1, <3>1 DEF Visited
      <3>2. CASE n # k
        <4>1. Visited(n) /\ n \in Key /\ Lower[n] \in Key
          BY <1>1, <1>3, <3>2, LowerFacts DEF Keys
        <4>2. \A m \in Key : new[m] # None => new'[m] # None
          BY <1>3, <2>1
        <4> QED BY <1>1, <1>7, <4>1, <4>2, NamesFacts DEF Visited, Registered
      <3> QED BY <3>1, <3>2
    <2>6. \A o \in Opt : Trigger[o] \in Asked =>
             new'[Trigger[o]] \in {None, given[Trigger[o]]}
      BY <1>2, <1>3, <2>1, NamesFacts DEF OptionsSound
    <2>7. left' \subseteq Keys(options)
      BY <1>1, <1>2 DEF RefreshSound
    <2>8. RefreshSound'
      BY <1>1, <1>3, <1>7, <2>3, <2>4, <2>5, <2>6, <2>7 DEF RefreshSound, Asked
    <2> QED BY <1>4, <1>5, <2>2, <2>8 DEF Inv
  <1>8. CASE /\ k # EmptyKey /\ Get(k) # None
             /\ new' = Rekey(k, Get(k)) /\ UNCHANGED unknown
    <2> DEFINE o == Get(k)
    <2>1. o \in Registered(list) /\ Named(k, o) /\ o \in Opt
      BY <1>2, <1>8, GetFacts DEF Registered
    <2>2. new' = Rekey(k, o)
      BY <1>8
    <2> HIDE DEF o
    <2>3. /\ new' \in [Key -> Val \cup {None}]
          /\ FromUser(new', given, Registered(list)) /\ new'[EmptyKey] = None
          /\ \A n \in Key : new[n] # None => new'[n] # None
          /\ new'[k] # None /\ new'[Lower[k]] # None /\ new'[Trigger[o]] # None
          /\ \A p \in Opt : Trigger[p] \in Asked =>
                new'[Trigger[p]] \in {None, given[Trigger[p]]}
      BY <1>1, <1>3, <1>8, <2>1, <2>2, RekeyFacts
    <2>4. TypeOK'
      BY <1>1, <1>2, <1>8, <2>3 DEF TypeOK
    <2>5. \A n \in Keys(options) \ {EmptyKey} : n \in left' \/ Visited(n)'
      <3> SUFFICES ASSUME NEW n \in Keys(options) \ {EmptyKey}, n \notin left'
                   PROVE  Visited(n)'
        OBVIOUS
      <3>1. CASE n = k
        BY <1>1, <2>1, <2>3, <3>1 DEF Visited
      <3>2. CASE n # k
        <4>1. Visited(n) /\ n \in Key /\ Lower[n] \in Key
          BY <1>1, <1>3, <3>2, LowerFacts DEF Keys
        <4> QED BY <1>1, <1>8, <2>3, <4>1, NamesFacts DEF Visited, Registered
      <3> QED BY <3>1, <3>2
    <2>6. left' \subseteq Keys(options)
      BY <1>1, <1>2 DEF RefreshSound
    <2>7. RefreshSound'
      BY <1>1, <1>3, <1>8, <2>3, <2>5, <2>6 DEF RefreshSound, Asked
    <2> QED BY <1>4, <1>5, <2>4, <2>7 DEF Inv
  <1> QED BY <1>6, <1>7, <1>8 DEF RefreshKey

LEMMA RefreshDoneInv == ASSUME Inv, RefreshDone PROVE Inv'
  <1>1. /\ Refreshing /\ left = {} /\ options' = new
        /\ UNCHANGED <<given, list, aliases, new, unknown>>
    BY DEF RefreshDone
  <1>2. TypeOK /\ TablesSound /\ OptionsSound /\ RefreshSound
    BY DEF Inv
  <1>3. /\ FromUser(new, given, Registered(list)) /\ new[EmptyKey] = None
        /\ \A n \in unknown :
              /\ n \in Keys(options) \ {EmptyKey}
              /\ \A o \in Registered(list) : ~Named(n, o)
        /\ \A n \in Keys(options) \ {EmptyKey} : Visited(n)
        /\ \A o \in Opt : Trigger[o] \in Asked =>
              new[Trigger[o]] \in {None, given[Trigger[o]]}
    BY <1>1, <1>2 DEF RefreshSound
  <1>4. \A a \in Asked : a \in Keys(options) \ {EmptyKey} /\ Visited(a) /\ a \in Keys(new)
    BY <1>2, <1>3 DEF OptionsSound, Asked, Keys, Visited
  <1>5. \A a \in Asked, o \in BuiltIn : Named(a, o) => new[Lower[a]] # None
    BY <1>2, <1>3, <1>4 DEF TablesSound, Visited
  <1>6. OptionsSound'
    <2>1. \A o \in Opt : Trigger[o] \in Asked => new[Trigger[o]] = given[Trigger[o]]
      BY <1>3, <1>4 DEF Keys
    <2> QED BY <1>1, <1>3, <1>4, <1>5, <2>1 DEF OptionsSound, Asked
  <1>7. TablesSound'
    BY <1>1, <1>2 DEF TablesSound
  <1>8. CASE /\ \/ phase = "refresh1" /\ phase' = "system"
                \/ phase = "refresh2" /\ phase' = "script"
             /\ UNCHANGED left
    <2>1. TypeOK'
      BY <1>1, <1>2, <1>8 DEF TypeOK
    <2>2. RefreshSound' /\ Settled' /\ ValidateSound' /\ RefusedForCause' /\ CrashHasCause'
      BY <1>8 DEF Refreshing, RefreshSound, Settled, ValidateSound, RefusedForCause, CrashHasCause
    <2> QED BY <1>6, <1>7, <2>1, <2>2 DEF Inv
  <1>9. CASE phase = "refresh3" /\ unknown # {} /\ phase' = "error" /\ UNCHANGED left
    <2>1. TypeOK'
      BY <1>1, <1>2, <1>9 DEF TypeOK
    <2>2. RefreshSound' /\ Settled' /\ ValidateSound' /\ CrashHasCause'
      BY <1>9 DEF Refreshing, RefreshSound, Settled, ValidateSound, CrashHasCause
    <2>3. RefusedForCause'
      <3>1. PICK k \in unknown : TRUE
        BY <1>9
      <3>2. k \in Key \ {EmptyKey} /\ k \in Keys(options) /\ Get(k) = None
        BY <1>2, <1>3, GetFacts DEF Keys
      <3>3. Origin(given, Registered(list), k, options[k])
        BY <1>2, <3>2 DEF OptionsSound, FromUser
      <3>4. \E a \in Asked : Unrecognised(a) \/ UpperAlias(a)
        BY <1>2, <3>2, <3>3, UnknownHasCause
      <3> QED BY <1>1, <3>4 DEF RefusedForCause, Asked, Unrecognised, UpperAlias, Get
    <2> QED BY <1>6, <1>7, <2>1, <2>2, <2>3 DEF Inv
  <1>10. CASE phase = "refresh3" /\ unknown = {} /\ phase' = "validate" /\ left' = Keys(new)
    <2>1. TypeOK'
      BY <1>1, <1>2, <1>10 DEF TypeOK, Keys
    <2>2. RefreshSound' /\ RefusedForCause' /\ CrashHasCause'
      BY <1>10 DEF Refreshing, RefreshSound, RefusedForCause, CrashHasCause
    <2>3. ValidateSound'
      BY <1>1, <1>10 DEF ValidateSound
    <2>4. \A k \in Asked : \E o \in Registered(list) : Named(k, o) /\ new[Trigger[o]] # None
      BY <1>4, <1>10 DEF Visited
    <2>5. ASSUME NEW a \in Asked, NEW o \in BuiltIn, Named(a, o)
          PROVE  \E p \in Registered(list) : Named(Lower[a], p)
      <3>1. options[Lower[a]] # None
        BY <1>2, <1>10, <2>5 DEF OptionsSound
      <3>2. Lower[a] \in Keys(options) \ {EmptyKey}
        BY <3>1, LowerFacts DEF Asked, Keys
      <3> QED BY <1>3, <1>10, <3>2 DEF Visited
    <2>6. Settled'
      BY <1>1, <2>4, <2>5 DEF Settled, Asked
    <2> QED BY <1>6, <1>7, <2>1, <2>2, <2>3, <2>6 DEF Inv
  <1> QED BY <1>8, <1>9, <1>10 DEF RefreshDone

LEMMA ValidateInv == ASSUME Inv, NEW k \in Key, Validate(k) PROVE Inv'
  <1>1. /\ phase = "validate" /\ k \in left /\ left' = left \ {k}
        /\ UNCHANGED <<given, options, list, aliases, new, unknown>>
    BY DEF Validate
  <1>2. TypeOK /\ TablesSound /\ OptionsSound /\ Settled /\ ValidateSound
    BY DEF Inv
  <1>3. k \in Keys(options) /\ k # EmptyKey /\ Origin(given, Registered(list), k, options[k])
    BY <1>1, <1>2 DEF ValidateSound, OptionsSound, FromUser, Keys
  <1>4. TablesSound'
    BY <1>1, <1>2 DEF TablesSound
  <1>5. phase' # "refresh1" => OptionsSound'
    BY <1>1, <1>2 DEF OptionsSound, Asked
  <1>6. CASE Get(k) = None /\ phase' = "crash"
    <2>1. TypeOK'
      BY <1>1, <1>2, <1>6 DEF TypeOK
    <2>2. RefreshSound' /\ ValidateSound' /\ RefusedForCause'
      BY <1>6 DEF Refreshing, RefreshSound, ValidateSound, RefusedForCause
    <2>3. Settled'
      BY <1>1, <1>2 DEF Settled, Asked
    <2>4. ~(k \in Asked /\ Unrecognised(k))
      BY <1>1, <1>2, GetFacts, OptionsAssumption DEF Settled, Unrecognised, Registered
    <2>5. PICK a \in Asked : k = Lower[a] /\ UpperAlias(a) /\ Get(a) = aliases[a]
      BY <1>2, <1>3, <1>6, <2>4, UnknownHasCause
    <2>6. aliases[a] \notin BuiltIn
      <3> SUFFICES ASSUME aliases[a] \in BuiltIn PROVE FALSE
        OBVIOUS
      <3>1. a \in Key /\ Named(a, aliases[a])
        BY <1>2, <2>5, GetFacts DEF Asked, Keys, UpperAlias
      <3>2. PICK p \in Registered(list) : Named(Lower[a], p)
        BY <1>1, <1>2, <3>1 DEF Settled
      <3>3. Get(k) = p
        BY <1>2, <2>5, <3>2, GetFacts
      <3> QED BY <1>6, <3>3, OptionsAssumption DEF Registered
    <2>7. CrashHasCause'
      BY <1>1, <2>5, <2>6 DEF CrashHasCause, Asked, UpperAlias, Get
    <2> QED BY <1>4, <1>5, <1>6, <2>1, <2>2, <2>3, <2>7 DEF Inv
  <1>7. CASE Get(k) # None
    <2> DEFINE o == Get(k)
               v == options[k]
    <2>1. o \in Registered(list) /\ Named(k, o)
      BY <1>2, <1>7, GetFacts
    <2>2. PICK a \in Asked : Named(a, o) /\ Get(a) = o /\ v = given[a]
      BY <1>2, <1>3, <2>1, ValueHasOrigin
    <2>3. CASE BadValue(o, v) /\ phase' = "error"
      <3>1. TypeOK'
        BY <1>1, <1>2, <2>3 DEF TypeOK
      <3>2. RefreshSound' /\ ValidateSound' /\ Settled' /\ CrashHasCause'
        BY <2>3 DEF Refreshing, RefreshSound, ValidateSound, Settled, CrashHasCause
      <3>3. BadValue(Get(a), given[a])
        BY <2>2, <2>3
      <3>4. RefusedForCause'
        BY <1>1, <3>3 DEF RefusedForCause, Asked, Get
      <3> QED BY <1>4, <1>5, <2>3, <3>1, <3>2, <3>4 DEF Inv
    <2>4. CASE Allowed[o] # None /\ phase' = "ok"
      <3>1. TypeOK'
        BY <1>1, <1>2, <2>4 DEF TypeOK
      <3>2. RefreshSound' /\ RefusedForCause' /\ CrashHasCause'
        BY <2>4 DEF Refreshing, RefreshSound, RefusedForCause, CrashHasCause
      <3>3. Settled'
        BY <1>1, <1>2 DEF Settled, Asked
      <3>4. ValidateSound'
        BY <1>1, <2>1, <2>2, <2>4 DEF ValidateSound, Asked
      <3> QED BY <1>4, <1>5, <2>4, <3>1, <3>2, <3>3, <3>4 DEF Inv
    <2>5. CASE ~BadValue(o, v) /\ phase' = phase
      <3>1. TypeOK'
        BY <1>1, <1>2, <2>5 DEF TypeOK
      <3>2. RefreshSound' /\ RefusedForCause' /\ CrashHasCause'
        BY <1>1, <2>5 DEF Refreshing, RefreshSound, RefusedForCause, CrashHasCause
      <3>3. Settled'
        BY <1>1, <1>2 DEF Settled, Asked
      <3>4. Passed(k)
        BY <2>1, <2>5 DEF Passed
      <3>5. ValidateSound'
        BY <1>1, <1>2, <2>5, <3>4 DEF ValidateSound, Passed
      <3> QED BY <1>1, <1>4, <1>5, <2>5, <3>1, <3>2, <3>3, <3>5 DEF Inv
    <2>6. \/ BadValue(o, v) /\ phase' = "error"
          \/ Allowed[o] # None /\ phase' = "ok"
          \/ ~BadValue(o, v) /\ phase' = phase
      BY <1>7 DEF Validate, ValueMissing, ValueRefused, BadValue
    <2> QED BY <2>3, <2>4, <2>5, <2>6
  <1> QED BY <1>6, <1>7 DEF Validate

LEMMA ValidateDoneInv == ASSUME Inv, ValidateDone PROVE Inv'
  <1>1. /\ phase = "validate" /\ left = {} /\ phase' = "ok"
        /\ UNCHANGED <<given, options, list, aliases, left, new, unknown>>
    BY DEF ValidateDone
  <1>2. TypeOK /\ TablesSound /\ OptionsSound /\ Settled /\ ValidateSound
    BY DEF Inv
  <1>3. TypeOK' /\ TablesSound' /\ OptionsSound' /\ Settled'
    BY <1>1, <1>2 DEF TypeOK, TablesSound, OptionsSound, Settled, Asked
  <1>4. ValidateSound'
    BY <1>1, <1>2 DEF ValidateSound, Passed
  <1>5. RefreshSound' /\ RefusedForCause' /\ CrashHasCause'
    BY <1>1 DEF Refreshing, RefreshSound, RefusedForCause, CrashHasCause
  <1> QED BY <1>3, <1>4, <1>5 DEF Inv

LEMMA StutterInv == ASSUME Inv, UNCHANGED vars PROVE Inv'
  BY DEF vars, Inv, TypeOK, TablesSound, OptionsSound, RefreshSound, Refreshing, Visited,
         Settled, ValidateSound, Passed, RefusedForCause, CrashHasCause, Asked,
         Unrecognised, UpperAlias, Get

LEMMA NextInv == Inv /\ [Next]_vars => Inv'
  <1> SUFFICES ASSUME Inv, [Next]_vars PROVE Inv'
    OBVIOUS
  <1>1. ASSUME NEW o \in Opt \ BuiltIn, newoption(o) PROVE Inv'
    BY <1>1, NewoptionInv
  <1>2. CASE Refresh
    BY <1>2, RefreshInv
  <1>3. CASE RefreshDone
    BY <1>3, RefreshDoneInv
  <1>4. ASSUME NEW k \in Key, RefreshKey(k) PROVE Inv'
    BY <1>4, RefreshKeyInv
  <1>5. ASSUME NEW k \in Key, Validate(k) PROVE Inv'
    BY <1>5, ValidateInv
  <1>6. CASE ValidateDone
    BY <1>6, ValidateDoneInv
  <1>7. CASE Over \/ UNCHANGED vars
    BY <1>7, StutterInv DEF Over
  <1> QED BY <1>1, <1>2, <1>3, <1>4, <1>5, <1>6, <1>7 DEF Next

-----------------------------------------------------------------------------
(* The results *)

LEMMA Invariance == Spec => []Inv
  BY InitInv, NextInv, PTL DEF Spec

(* The tables keep their types; options are refused only if one that the   *)
(* user gave is not known, has a bad value or is an alias in upper case,   *)
(* and validate stops with a Lua error only for the last of these.         *)
THEOREM OptionsFailForCause == Spec => []FailsForCause
  <1>1. Inv => FailsForCause
    BY DEF Inv, FailsForCause
  <1> QED BY <1>1, Invariance, PTL

(* After all refreshes an option is found under its trigger exactly when   *)
(* the user asked for it under one of its names, with a value that the     *)
(* user gave it, and the one given under the trigger before any other.     *)
THEOREM OptionsDelivered == Spec => []Delivered
  <1>1. Inv => Delivered
    <2> SUFFICES ASSUME Inv, phase \in {"validate", "ok"}, NEW o \in Opt, Get(Trigger[o]) = o
                 PROVE  LET t == Trigger[o]
                            names == {k \in Asked : Get(k) = o}
                        IN  IF names = {} THEN options[t] = None
                            ELSE /\ options[t] \in {given[k] : k \in names}
                                 /\ t \in names => options[t] = given[t]
      BY DEF Delivered
    <2> DEFINE t == Trigger[o]
               names == {k \in Asked : Get(k) = o}
    <2>1. TypeOK /\ TablesSound /\ OptionsSound /\ Settled
      BY DEF Inv
    <2>2. t \in Key \ {EmptyKey} /\ Named(t, o) /\ o # None /\ o \in Registered(list)
      <3>1. t \in Key \ {EmptyKey} /\ Named(t, o) /\ o # None
        BY NamesFacts, OptionsAssumption
      <3> QED BY <2>1, <3>1, GetFacts
    <2>3. options[t] # None => \E k \in names : options[t] = given[k]
      <3> SUFFICES ASSUME options[t] # None PROVE \E k \in names : options[t] = given[k]
        OBVIOUS
      <3>1. Origin(given, Registered(list), t, options[t])
        BY <2>1, <2>2 DEF OptionsSound, FromUser, Keys
      <3>2. PICK a \in Asked : Named(a, o) /\ Get(a) = o /\ options[t] = given[a]
        BY <2>1, <2>2, <3>1, ValueHasOrigin
      <3> QED BY <3>2
    <2>4. ASSUME NEW k \in names PROVE options[t] # None
      <3>1. k \in Asked /\ k \in Key /\ Get(k) = o
        BY DEF Asked, Keys
      <3>2. PICK p \in Registered(list) : Named(k, p) /\ options[Trigger[p]] # None
        BY <2>1, <3>1 DEF Settled
      <3>3. p = o
        BY <2>1, <3>1, <3>2, GetFacts
      <3> QED BY <3>2, <3>3
    <2>5. t \in names => options[t] = given[t]
      BY <2>1 DEF OptionsSound
    <2> HIDE DEF t, names
    <2>6. IF names = {} THEN options[t] = None
          ELSE /\ options[t] \in {given[k] : k \in names}
               /\ t \in names => options[t] = given[t]
      BY <2>3, <2>4, <2>5
    <2> QED BY <2>6 DEF t, names
  <1> QED BY <1>1, Invariance, PTL

(* Where validate accepts, every option that the user gave is known, and   *)
(* if none of them has a list of allowed values, none lacks a value that   *)
(* it must have.                                                           *)
THEOREM AcceptanceSound == Spec => []AcceptedSound
  <1>1. Inv => AcceptedSound
    <2> SUFFICES ASSUME Inv, phase = "ok"
                 PROVE  /\ \A k \in Asked : ~Unrecognised(k)
                        /\ (\A k \in Asked : Allowed[Get(k)] = None) =>
                              \A k \in Asked : ~BadValue(Get(k), Reaching(k))
      BY DEF AcceptedSound
    <2>1. TypeOK /\ TablesSound /\ OptionsSound /\ Settled /\ ValidateSound
      BY DEF Inv
    <2>2. ASSUME NEW k \in Asked
          PROVE  Get(k) \in Registered(list) /\ Get(k) # None /\ options[Trigger[Get(k)]] # None
      <3>1. PICK o \in Registered(list) : Named(k, o) /\ options[Trigger[o]] # None
        BY <2>1 DEF Settled
      <3>2. k \in Key /\ o # None
        BY OptionsAssumption DEF Asked, Keys, Registered
      <3> QED BY <2>1, <3>1, <3>2, GetFacts
    <2>3. \A k \in Asked : ~Unrecognised(k)
      BY <2>2 DEF Unrecognised
    <2>4. ASSUME \A k \in Asked : Allowed[Get(k)] = None, NEW k \in Asked
          PROVE  ~BadValue(Get(k), Reaching(k))
      <3>1. ~\E a \in Asked, o \in Registered(list) : Named(a, o) /\ Allowed[o] # None
        BY <2>1, <2>4, GetFacts DEF Asked, Keys
      <3> DEFINE o == Get(k)
      <3>2. o \in Registered(list) /\ o \in Opt /\ options[Trigger[o]] # None
        BY <2>2 DEF Registered
      <3> HIDE DEF o
      <3>3. Trigger[o] \in Keys(options) /\ Trigger[o] \in Key /\ Named(Trigger[o], o)
        BY <3>2, NamesFacts DEF Keys
      <3>4. Passed(Trigger[o])
        BY <2>1, <3>1, <3>3 DEF ValidateSound
      <3>5. ~BadValue(o, options[Trigger[o]])
        BY <3>2, <3>3, <3>4, NamedOne DEF Passed, Registered
      <3> QED BY <3>5 DEF o, Reaching
    <2> QED BY <2>3, <2>4
  <1> QED BY <1>1, Invariance, PTL
=============================================================================
