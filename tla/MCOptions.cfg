SPECIFICATION Spec
CONSTANTS
    Key <- MCKey
    EmptyKey = ""
    Lower <- MCLower
    Val <- MCVal
    EmptyVal = ""
    Opt <- MCOpt
    Trigger <- MCTrigger
    Aliases <- MCAliases
    NeedsValue = {"Threads", "Paths"}
    Allowed <- MCAllowed
    BuiltIn = {"Threads", "Attach", "Paths"}
    Given <- MCGiven
    None = None
INVARIANTS Delivered AcceptedSound FailsForCause
