SPECIFICATION BlockSpec
CONSTANTS
    Storage = {s1, s2, s3}
    NoStorage = NoStorage
    NewChunkSize = 1
    MaxSlots = 3
    Block <- MCBlock
    MaxBranches = 2
SYMMETRY Symmetry
INVARIANTS
    EdgesSymmetric
    EdgesSimple
    PointersStayValid
    PoolIInv
PROPERTIES
    SquashHoldsAll
    ImplementsArena
