SPECIFICATION Spec
CONSTANTS
    NoPath = ""
    Rules <- MCRules
    Files <- MCFiles
INVARIANTS
    TypeOK
    KeptDisjoint
    DroppedOverlaps
    SplicingIsSubstitution
    RequalifiedIsImported
    LostEditsAreReported
