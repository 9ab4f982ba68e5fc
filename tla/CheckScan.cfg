SPECIFICATION Spec
CONSTANTS
    Dir <- MCDir
    TopDir <- Top
    SkippedName <- MCSkippedName
    PrunedName <- MCPrunedName
    File <- MCFile
    DirOf <- MCDirOf
    Worker = {w1, w2}
    Nobody = nobody
    Trees <- MCTrees
    MaxFaults = 1
INVARIANTS
    TypeOK
    ReportedOnce
    ScannedByOwner
    OutputOrder
PROPERTIES
    CoverageOnlyGrows
    ScanEnds
