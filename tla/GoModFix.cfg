SPECIFICATION Spec
CONSTANTS
    Module <- MCModule
    StdlibModule <- MCStdlibModule
    Target = "jwx/v4"
    Baseline = 1
    HighestRank = 6
    Rules <- MCRules
    GoMods <- MCGoMods
    MaxRuns = 2
INVARIANTS
    TypeOK
    FloorsMet
    OnlyFiredVersions
    SecondRunIsNoOp
PROPERTIES
    ImplementsGoModSpec
