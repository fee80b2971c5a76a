SPECIFICATION Spec
CONSTANTS
    Name <- MCName
    EmptyName = ""
    BaseNames <- MCBaseNames
    Value = {blank, dir, a, b}
    Mangle <- MCMangle
    BuildDir = dir
    RepoRoot = dir
    Blank = blank
    Weights = {3, 6}
    MaxIdx = 4
    MaxWeight = 6
    MaxDecl = 3
INVARIANTS TablesAgree DeclaredOnce RefsResolve
PROPERTY NamesNeverRebound
CHECK_DEADLOCK FALSE
