SPECIFICATION Spec
CONSTANTS
    prjA = prjA
    prjB = prjB
    prjC = prjC
    Prj <- MCPrj
    Feature = {}
    BuildCfgs <- OneCfg
    AllCfg = "All"
    Scripts <- SearchScripts
    None = None
    InProgress = InProgress

INVARIANTS LinkLineSound NoReentrantBake
PROPERTIES Termination BakesDepthFirst
