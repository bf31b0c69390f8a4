SPECIFICATION MCSpec
CHECK_DEADLOCK FALSE
CONSTANTS
    Instructions <- MCInstructions
    OtherInstructions <- MCOtherInstructions
    MaxInstructions = 2
INVARIANTS
    MatchesTheMachine
    HandlersEmitWellTyped
    RefusedBeyondTheFile
    CallsEmitWellTyped
    ThrowsBeforeEmitting
    TypedCallsEmit
