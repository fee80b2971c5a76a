SPECIFICATION Spec
CONSTANTS
    Words <- MCWords
    CommandLines <- MCCommandLines
    Actions <- MCActions
    Builtin = {"ninja", "help"}
    Help = {"help"}
    NextGen = {"ninja", "help", "vs", "toolng"}
    Implied <- MCImplied
    Strip <- MCStrip
    Host = "linux"
    Unset = ""
    MaxStatements = 3
    None = None
INVARIANTS BakedForCommandLine ActionSound
