SPECIFICATION Spec
CONSTANTS
    prjA = prjA
    prjB = prjB
    prjC = prjC
    Prj <- MCPrj
    Feature = {"f"}
    BuildCfgs <- TwoCfgs
    AllCfg = "All"
    Scripts <- AllScripts
    None = None
    InProgress = InProgress
INVARIANTS LinkLineExact PlaceholdersHeld NothingDangles
    CrashOnlyOnFeatures FeaturesConfined MapSettled
