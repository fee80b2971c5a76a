SPECIFICATION Spec
CONSTANTS
    Sln <- MCSln
    Prj <- MCPrj
    Scripts <- MCScripts
    MaxDepth = 4
    Nobody = Nobody
INVARIANTS EdgesSound SolutionFileComplete AskedIsBuilt TargetsMeant
PROPERTY GeneratorEnds
