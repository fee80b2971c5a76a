SPECIFICATION Spec
CONSTANTS
    Dir <- MCDir
    Root = "root"
    Parent <- MCParent
    File = {"main", "fa", "fs", "fb"}
    DirOf <- MCDirOf
    Main = "main"
    Excluded = {"b"}
    Sln = {A, B}
    Global = Global
    MaxStatements = 5
    None = None
SYMMETRY SolutionsAlike
INVARIANTS ScopeSound RunsOnceAtHome SubdirsInSolution
PROPERTY IncludeKeepsScope
