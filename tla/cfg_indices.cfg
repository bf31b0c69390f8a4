SPECIFICATION Spec
CONSTANTS
    Programs <- MCPrograms
    Size = 4
    TailSize = 0
    DeadCode = FALSE
    Run = 8
INVARIANT
    IndicesAreTheBlock
