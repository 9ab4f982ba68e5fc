SPECIFICATION FairSpec
CONSTANTS
    Module <- MCModule
    StdlibModule = {}
    Target = "jwx/v4"
    Baseline = 1
    HighestRank = 4
    Rules <- MCRules
    Source = {"a1", "a2", "b1"}
    Root = {"A", "B"}
    NoRoot = "none"
    RootOf <- MCRootOf
    Line = {1, 2, 3}
    Contents <- MCContents
    Originals <- MCOriginals
    Uncovers <- MCUncovers
    GoMods <- MCGoMods
    Targets <- MCTargets
    MaxRuns = 2
    MaxFaults = 1
INVARIANTS
    TypeOK
    ExitZeroLeavesOnlyEdited
    FirstRunMeetsFloors
    FailureIsIsolated
PROPERTIES
    ModulesIndependent
    BatchEnds
