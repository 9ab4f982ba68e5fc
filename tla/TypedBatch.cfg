SPECIFICATION Spec
CONSTANTS
    Migrations <- MCMigrations
    Order <- MCOrder
    Trees <- MCTrees
    MaxRuns = 2
INVARIANTS
    TypeOK
    TypedEditsAreReported
    AsIfAlone
    SecondRunChangesNothing
    RemainingIsFoundAgain
