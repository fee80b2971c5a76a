SPECIFICATION Spec
CONSTANTS
    Given <- MCGiven
    Bases <- MCBases
    Cwds <- MCCwds
    Macros = {"$v"}
    MaxCalls = 3
CHECK_DEADLOCK FALSE
INVARIANTS CacheSound PlacesKept
