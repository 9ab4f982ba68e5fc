SPECIFICATION Spec
CONSTANTS
    Module <- MCModule
    StdlibModule = {}
    Target = "jwx/v4"
    Baseline = 1
    HighestRank = 4
    Rules <- MCRules
    Dir <- MCDir
    TopDir <- Top
    SkippedName = {"vendor"}
    File <- MCFile
    DirOf <- MCDirOf
    Scans <- MCScans
    GoMods <- MCGoMods
    Saves <- MCSaves
    MaxEdits = 1
    Unlisted = 99
INVARIANTS
    TypeOK
    GatedByOwnModule
    OneAnswerPerDirectory
    FloorsAreThoseOfTheModule
    FixMeetsReportedFloors
