SPECIFICATION Spec
CONSTANTS
    Original = Original
    New = New
    Edited = Edited
    Older = Older
    Torn = Torn
    Absent = Absent
    MaxEdits = 1
INVARIANTS
    TypeOK
    TargetIsWhole
    ModeIsKept
    ErrorLeavesTarget
    NoLitterOnSuccess
    BackupHoldsReplaced
PROPERTIES
    ImplementsAtomicReplace
