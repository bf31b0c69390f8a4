SPECIFICATION TranslateSpec
CONSTANTS
    Cfgs <- MCCfgs
    N = 3
INVARIANTS
    InstructionsTranslatedOnce
