SPECIFICATION MCSpec
CHECK_DEADLOCK FALSE
CONSTANTS
    Instructions <- MCInstructions
    OtherInstructions <- MCOtherInstructions
    MaxInstructions = 2
INVARIANT
    RewrittenWellTyped
