SPECIFICATION Spec
CONSTANTS
    Programs <- MCPrograms
    Size = 3
    TailSize = 0
    DeadCode = FALSE
    Run = 36000
INVARIANT
    EveryLookupSucceeds
