SPECIFICATION Spec
CONSTANTS
    Projects <- MCProjects
    Variants <- MCVariants
    Lower <- MCLower
    LoopMax = 10
INVARIANTS  FilterSound
PROPERTY FilterEnds
