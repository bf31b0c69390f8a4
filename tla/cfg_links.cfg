SPECIFICATION Spec
CONSTANTS
    Programs <- MCPrograms
    Size = 5
    TailSize = 4
    DeadCode = FALSE
    Run = 8
INVARIANTS
    BlocksAreLaidOut
    LinksFollowExecution
    BuildsACfg
    AbortsOnlyWithoutEnd
