SPECIFICATION Spec
CONSTANT Programs <- MCPrograms
INVARIANT ModifiersAreEncoded
