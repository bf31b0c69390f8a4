SPECIFICATION ExecSpec
CONSTANTS
    Variable = {1, 2}
    Programs <- MCPrograms
    Opcode <- MCOpcode
    Immediate <- MCImmediate
INVARIANTS
    UsesAreCounted
    PhisMatchTheEdges
    ArgumentsAreListed
    SameReads
    OnePhiPerRead
