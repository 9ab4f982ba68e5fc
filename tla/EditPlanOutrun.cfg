SPECIFICATION Spec
CONSTANTS
    NoPath = ""
    Rules <- MCRules
    Files <- MCFiles
INVARIANTS
    RemovalNeverOutrunsRewrites
