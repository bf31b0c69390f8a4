SPECIFICATION MCSpec
CONSTANTS
    Cfgs <- MCCfgs
    AnyExit = 4
    OneExit = 5
    Fuel = 200
INVARIANTS
    TreeIsConsistent
    CodeInOrder
    WaitingOutsideIfs
    NeverThrows
    Structured
    SameTrace
    TranslateNeverThrows
    EveryBlockListedOnce
    FitForSsa
    EdgesFollowTheList
PROPERTY
    ComesToAnEnd
