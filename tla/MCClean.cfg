SPECIFICATION Spec
CONSTANTS
    Name <- Names
    Hidden <- Dots
    Node <- N
    RepoRoot <- Repo
    Start <- Systems
    Cwd <- Anywhere
    Dirs <- AllDirs
    Outputs <- Files
    MaxRuns = 2
    Nil = Nil
INVARIANTS FilesSound NoEmptyParents
PROPERTY CleanEnds
