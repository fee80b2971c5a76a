SPECIFICATION Spec
CONSTANTS
    prjA = prjA
    prjB = prjB
    prjC = prjC
    Prj <- MCPrj
    Feature = {}
    BuildCfgs <- TwoCfgs
    AllCfg = "All"
    Scripts <- CommandScripts
    None = None
    InProgress = InProgress
INVARIANTS CommandReachesUsers
