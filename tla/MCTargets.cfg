SPECIFICATION Spec
CONSTANTS
    Sln = {"libs", "app"}
    Given <- TwoNames
    Spaces <- AppInBase
    Begins <- OwnName
    AliasNames = {"nick", "x"}
    MaxDeclared = 3
    MaxAliased = 2
    MaxAliases = 3
INVARIANTS NamesSound SolutionBuildsAll NamedIsBuilt BakedListsExact
