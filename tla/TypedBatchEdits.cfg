SPECIFICATION Spec
CONSTANTS
    Migrations <- MCMigrations
    Order <- MCOrder
    Trees <- MCTrees
    MaxRuns = 1
INVARIANTS
    EditsAreReported
