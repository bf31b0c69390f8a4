SPECIFICATION Spec
CONSTANT Programs <- MCPrograms
INVARIANTS
    BoundariesAreRecovered
    LengthsAreAddresses
    InstructionsAreRecovered
    OneOpcodePerOperation
