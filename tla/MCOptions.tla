----------------------------- MODULE MCOptions -----------------------------
(* Options of cmdline.lua (threads with its alias j, attachNoWait with its *)
(* mixed case, buildpaths with its allowed values) and one of a script.    *)
EXTENDS Options, Naturals, FiniteSets, TLC

MCKey == {"", "threads", "j", "J", "attachNoWait", "attachnowait",
          "buildpaths", "mode", "m", "M", "bogus"}
MCLower == [k \in MCKey |-> CASE k = "J" -> "j" [] k = "M" -> "m"
                              [] k = "attachNoWait" -> "attachnowait"
                              [] OTHER -> k]
MCVal == {"", "bin", "x"}
MCOpt == {"Threads", "Attach", "Paths", "Mode"}
MCTrigger == ("Threads" :> "threads") @@ ("Attach" :> "attachNoWait") @@
             ("Paths" :> "buildpaths") @@ ("Mode" :> "mode")
NoAlias == [o \in MCOpt |-> {}]
MCAliases == [NoAlias EXCEPT !["Threads"] = {"j"}, !["Mode"] = {"M"}]
MCAllowed == [o \in MCOpt |-> IF o \in {"Paths", "Mode"} THEN {"bin"} ELSE None]

(* Up to three options on the command line. *)
MCGiven ==
    UNION {{[k \in MCKey |-> IF k \in s THEN v[k] ELSE None] :
              v \in [s -> MCVal]} :
            s \in {s \in SUBSET MCKey : Cardinality(s) <= 3}}
=============================================================================
