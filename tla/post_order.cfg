SPECIFICATION Spec
CONSTANTS
    Size = 4
    Block <- MCBlock
    First = 1
    Graphs <- MCGraphs
INVARIANTS
    ListsTheReachable
    SuccessorsFirst
PROPERTY
    Terminates
