-------------------------- MODULE ControlFlowGraph --------------------------
(***************************************************************************)
(* The constructor of Shader::Gcn::CFG: from the decoded instruction list  *)
(* it collects labels, cuts the list into blocks at the labels and links   *)
(* every block to the blocks its last instruction can reach.  One action   *)
(* is one turn of one of the three loops of the constructor, so the order  *)
(* in which labels, blocks and links appear is the order of the code.      *)
(*                                                                         *)
(* An instruction keeps what the constructor reads of a GcnInst: its class *)
(* of opcode, its length in bytes and the 16 bits of SOPP.simm.  Addresses *)
(* are bytes.  intrusive::set<Block> is the sequence of the blocks in the  *)
(* order of "begin", and a Block* is a position of it (0: nullptr).        *)
(***************************************************************************)
EXTENDS CfgShapes, Integers, Sequences, FiniteSets

CONSTANT Programs   \* the instruction lists the constructor is called with

VARIABLES
    inst_list,      \* the program
    index_to_pc,    \* byte address of each instruction seen so far
    pc,             \* the address EmitLabels has reached
    labels,         \* label addresses, in order of insertion, then sorted
    blocks,         \* the blocks, in order of begin
    phase,          \* which loop is running, or how the constructor ended
    cursor          \* 1-based position of that loop

vars == <<inst_list, index_to_pc, pc, labels, blocks, phase, cursor>>

\* "s_cbranch_cdbg": the branches on a debug flag, S_CBRANCH_CDBG*.
Opcodes == {"alu", "s_branch", "s_cbranch", "s_cbranch_cdbg", "s_fork", "s_endpgm"}
Inst == [op : Opcodes, length : Nat, simm : 0 .. 2^16 - 1]

IsUnconditionalBranch(inst) == inst.op = "s_branch"
IsConditionalBranch(inst) == inst.op = "s_cbranch"
IsTerminateInstruction(inst) ==
    inst.op \in {"s_branch", "s_cbranch", "s_fork", "s_endpgm"}

\* Addresses are u32.  2^32 is out of TLC's integers; programs are far shorter
\* than 2^30 bytes, so a target below 0 wraps to an address beyond them all.
U32(address) == IF address < 0 THEN 2^30 + address ELSE address

\* static_cast<s16>(simm * 4): the product is cut to 16 bits, then signed.
BranchTarget(inst, at) ==
    LET low == (inst.simm * 4) % 2^16
        simm == IF low >= 2^15 THEN low - 2^16 ELSE low
    IN  U32(at + simm + 4)

\* Mutant: the switch has an entry for S_BRANCH too.
MakeConditionForBranch(inst) ==
    IF IsConditionalBranch(inst) \/ IsUnconditionalBranch(inst) THEN "Guest" ELSE "True"

\* Every opcode but the conditional branches gives IR::Condition::True.
MakeCondition(inst) == IF IsConditionalBranch(inst) THEN "Guest" ELSE "True"

AddLabel(seq, address) ==
    IF \E i \in DOMAIN seq : seq[i] = address THEN seq ELSE Append(seq, address)

\* Mutant: the index of the entry point is one too low.
GetIndexBelowEntry(label) ==
    IF label = 0 THEN 0
    ELSE LET below == {i \in DOMAIN index_to_pc : index_to_pc[i] < label}
         IN  CHOOSE i \in below : \A j \in below : j <= i

\* 1-based form of get_index: the instruction before the first one whose
\* address is not below the label (std::prev of std::ranges::lower_bound).
GetIndex(label) ==
    IF label = 0 THEN 1
    ELSE LET below == {i \in DOMAIN index_to_pc : index_to_pc[i] < label}
         IN  CHOOSE i \in below : \A j \in below : j <= i

GetBlock(address) ==
    LET found == {b \in DOMAIN blocks : blocks[b].begin = address}
    IN  IF found = {} THEN 0 ELSE CHOOSE b \in found : TRUE

-----------------------------------------------------------------------------
Init ==
    /\ inst_list \in Programs
    /\ index_to_pc = <<>>
    /\ pc = 0
    /\ labels = <<0>>
    /\ blocks = <<>>
    /\ phase = "EmitLabels"
    /\ cursor = 1

\* Mutants: no label after S_ENDPGM, after a conditional branch, at its target.
LabelsOfNoExit(inst, at) ==
    CASE IsUnconditionalBranch(inst) -> <<BranchTarget(inst, at)>>
      [] IsConditionalBranch(inst) -> <<BranchTarget(inst, at), at + inst.length>>
      [] OTHER -> <<>>
LabelsOfNoFallthrough(inst, at) ==
    CASE IsTerminateInstruction(inst) /\ inst.op # "s_endpgm" -> <<BranchTarget(inst, at)>>
      [] inst.op = "s_endpgm" -> <<at + inst.length>>
      [] OTHER -> <<>>
LabelsOfNoTarget(inst, at) ==
    CASE IsUnconditionalBranch(inst) -> <<BranchTarget(inst, at)>>
      [] IsConditionalBranch(inst) \/ inst.op = "s_endpgm" -> <<at + inst.length>>
      [] OTHER -> <<>>

\* The labels one instruction adds, in the order it adds them.
LabelsOf(inst, at) ==
    CASE IsUnconditionalBranch(inst) -> <<BranchTarget(inst, at)>>
      [] IsConditionalBranch(inst) -> <<BranchTarget(inst, at), at + inst.length>>
      [] inst.op = "s_endpgm" -> <<at + inst.length>>
      [] OTHER -> <<>>

EmitLabel ==
    /\ phase = "EmitLabels"
    /\ cursor <= Len(inst_list)
    /\ inst_list[cursor].op # "s_cbranch_cdbg"
    /\ LET inst == inst_list[cursor]
           new == LabelsOf(inst, pc)
       IN  /\ labels' = CASE Len(new) = 0 -> labels
                          [] Len(new) = 1 -> AddLabel(labels, new[1])
                          [] Len(new) = 2 -> AddLabel(AddLabel(labels, new[1]), new[2])
           /\ index_to_pc' = Append(index_to_pc, pc)
           /\ pc' = pc + inst.length
    /\ cursor' = cursor + 1
    /\ UNCHANGED <<inst_list, blocks, phase>>

\* UNIMPLEMENTED of IsConditionalBranch, which EmitLabels asks of every
\* instruction that is not S_BRANCH: a branch on a debug flag aborts here.
Unimplemented ==
    /\ phase = "EmitLabels"
    /\ cursor <= Len(inst_list)
    /\ inst_list[cursor].op = "s_cbranch_cdbg"
    /\ phase' = "unimplemented"
    /\ UNCHANGED <<inst_list, index_to_pc, pc, labels, blocks, cursor>>

Elems(seq) == {seq[i] : i \in DOMAIN seq}

\* Ascending; no two labels are equal, so the k-th one has k - 1 below it.
Sorted(set) ==
    [k \in 1 .. Cardinality(set) |->
        CHOOSE a \in set : Cardinality({b \in set : b < a}) = k - 1]

SortLabels ==
    /\ phase = "EmitLabels"
    /\ cursor > Len(inst_list)
    /\ labels' = Sorted(Elems(labels))
    /\ phase' = "EmitBlocks"
    /\ cursor' = 1
    /\ UNCHANGED <<inst_list, index_to_pc, pc, blocks>>

EmitBlock ==
    /\ phase = "EmitBlocks"
    /\ cursor < Len(labels)
    /\ LET start == labels[cursor]
           end == labels[cursor + 1]
           end_index == GetIndex(end)
           end_inst == inst_list[end_index]
       IN  blocks' = Append(blocks,
                [begin |-> start, end |-> end,
                 begin_index |-> GetIndex(start), end_index |-> end_index,
                 end_inst |-> end_inst, cond |-> MakeCondition(end_inst),
                 end_class |-> "Branch", branch_true |-> 0, branch_false |-> 0])
    /\ cursor' = cursor + 1
    /\ UNCHANGED <<inst_list, index_to_pc, pc, labels, phase>>

\* "Last label is special": EmitBlocks returns when it reaches it.
LastLabel ==
    /\ phase = "EmitBlocks"
    /\ cursor = Len(labels)
    /\ phase' = "LinkBlocks"
    /\ cursor' = 1
    /\ UNCHANGED <<inst_list, index_to_pc, pc, labels, blocks>>

\* Mutant: the branch is taken to be after the block, not in it.
TrueAddressAfterEnd(b) ==
    IF IsTerminateInstruction(b.end_inst) THEN BranchTarget(b.end_inst, b.end) ELSE b.end

\* The addresses get_block is asked for while block b is linked.
TrueAddress(b) ==
    IF IsTerminateInstruction(b.end_inst)
    THEN BranchTarget(b.end_inst, b.end - b.end_inst.length)
    ELSE b.end
LinksTrue(b) ==
    \/ ~IsTerminateInstruction(b.end_inst)
    \/ IsUnconditionalBranch(b.end_inst)
    \/ IsConditionalBranch(b.end_inst)

LinksFalse(b) == IsConditionalBranch(b.end_inst)

\* ASSERT_MSG of get_block, for every lookup the block needs.
LookupsSucceed(b) ==
    /\ LinksTrue(b) => GetBlock(TrueAddress(b)) # 0
    /\ LinksFalse(b) => GetBlock(b.end) # 0

LinkBlock ==
    /\ phase = "LinkBlocks"
    /\ cursor <= Len(blocks)
    /\ LET b == blocks[cursor]
       IN  /\ LookupsSucceed(b)
           /\ blocks' = [blocks EXCEPT ![cursor] =
                [b EXCEPT !.branch_true = IF LinksTrue(b) THEN GetBlock(TrueAddress(b)) ELSE @,
                          !.branch_false = IF LinksFalse(b) THEN GetBlock(b.end) ELSE @,
                          !.end_class = IF LinksTrue(b) THEN "Branch" ELSE "Exit"]]
    /\ cursor' = cursor + 1
    /\ UNCHANGED <<inst_list, index_to_pc, pc, labels, phase>>

\* The assertion of get_block: "abort", which the properties below tell from
\* "unimplemented".
AssertFails ==
    /\ phase = "LinkBlocks"
    /\ cursor <= Len(blocks)
    /\ ~LookupsSucceed(blocks[cursor])
    /\ phase' = "abort"
    /\ UNCHANGED <<inst_list, index_to_pc, pc, labels, blocks, cursor>>

Return ==
    /\ phase = "LinkBlocks"
    /\ cursor > Len(blocks)
    /\ phase' = "done"
    /\ UNCHANGED <<inst_list, index_to_pc, pc, labels, blocks, cursor>>

\* The constructor has returned or the process has aborted.
Terminated ==
    /\ phase \in {"done", "abort", "unimplemented"}
    /\ UNCHANGED vars

Next ==
    \/ EmitLabel
    \/ Unimplemented
    \/ SortLabels
    \/ EmitBlock
    \/ LastLabel
    \/ LinkBlock
    \/ AssertFails
    \/ Return
    \/ Terminated

Spec == Init /\ [][Next]_vars

-----------------------------------------------------------------------------
(* What the machine does with the program, independently of the CFG.       *)

Address(p, k) == LET sum[i \in 0 .. Len(p)] ==
                        IF i = 0 THEN 0 ELSE sum[i - 1] + p[i].length
                 IN  sum[k - 1]
EndAddress(p) == Address(p, Len(p) + 1)

\* simm is a signed number of dwords after the branch.
SignedSimm(inst) == IF inst.simm >= 2^15 THEN inst.simm - 2^16 ELSE inst.simm
MachineTarget(p, k) == Address(p, k) + 4 + 4 * SignedSimm(p[k])

\* The addresses that can be executed right after instruction k.
MachineNext(p, k) ==
    CASE p[k].op = "alu" -> {Address(p, k + 1)}
      [] p[k].op = "s_branch" -> {MachineTarget(p, k)}
      [] p[k].op = "s_cbranch" -> {MachineTarget(p, k), Address(p, k + 1)}
      [] p[k].op = "s_endpgm" -> {}

\* The programs a compiler makes: one of them ends the shader, every branch is
\* short enough for BranchTarget and goes to an instruction, code after
\* s_branch is a target, and nothing forks or branches on a debug flag.
IsBranch(inst) == IsUnconditionalBranch(inst) \/ IsConditionalBranch(inst)
IsTarget(p, k) == \E j \in DOMAIN p : IsBranch(p[j]) /\ MachineTarget(p, j) = Address(p, k)
BranchesInside(p, k) ==
    /\ -8192 <= SignedSimm(p[k]) /\ SignedSimm(p[k]) < 8192
    /\ \E j \in DOMAIN p : MachineTarget(p, k) = Address(p, j)
Compiled(p) ==
    /\ p \in Seq(Inst)
    /\ \E k \in DOMAIN p : p[k].op = "s_endpgm"
    /\ \A k \in DOMAIN p : p[k].length > 0 /\ p[k].op \notin {"s_fork", "s_cbranch_cdbg"}
    /\ \A k \in DOMAIN p : IsBranch(p[k]) => BranchesInside(p, k)
    /\ \A k \in 1 .. Len(p) - 1 : IsUnconditionalBranch(p[k]) => IsTarget(p, k + 1)

\* The instructions between a block's begin and end addresses.
InstsOf(b) ==
    {k \in DOMAIN inst_list : /\ Address(inst_list, k) >= b.begin
                              /\ Address(inst_list, k) < b.end}

Successors(b) ==
    {blocks[s].begin : s \in {b.branch_true, b.branch_false} \ {0}}

\* Indices point into the instruction list and links to blocks, from the first
\* loop of the constructor to its end.
TypeOK ==
    /\ inst_list \in Seq(Inst)
    /\ index_to_pc \in Seq(Nat)
    /\ pc \in Nat
    /\ labels \in Seq(Nat)
    /\ \A i \in DOMAIN blocks :
          /\ blocks[i].cond \in {"True", "Guest"}
          /\ blocks[i].end_class \in {"Branch", "Exit"}
          /\ {blocks[i].begin_index, blocks[i].end_index} \subseteq DOMAIN inst_list
          /\ {blocks[i].branch_true, blocks[i].branch_false} \subseteq 0 .. Len(blocks)
    /\ phase \in {"EmitLabels", "EmitBlocks", "LinkBlocks", "done", "abort", "unimplemented"}
    /\ cursor \in Nat \ {0}

\* The last instruction of the program is the end of a shader.
EndsTheShader == inst_list[Len(inst_list)].op = "s_endpgm"

\* The finished blocks of a program that ends with s_endpgm tile it: the first
\* begins at 0, each begins where the one before it ends, the last ends at the
\* end of the program, and none is empty.  EmitBlocks makes no block for the
\* last label, so this needs EmitLabels to have put one exactly at the end.
BlocksTile ==
    phase = "done" /\ EndsTheShader =>
        /\ blocks # <<>>
        /\ blocks[1].begin = 0
        /\ blocks[Len(blocks)].end = EndAddress(inst_list)
        /\ \A i \in DOMAIN blocks : blocks[i].begin < blocks[i].end
        /\ \A i \in 1 .. Len(blocks) - 1 : blocks[i].end = blocks[i + 1].begin

\* "A block represents a linear range of instructions": only the last
\* instruction of a block transfers control, and no branch of the program
\* enters a block anywhere but at its begin.
BlocksAreLinear ==
    phase = "done" =>
        \A i \in DOMAIN blocks : \A k \in InstsOf(blocks[i]) :
            /\ IsTerminateInstruction(inst_list[k]) =>
                  Address(inst_list, k + 1) = blocks[i].end
            /\ Address(inst_list, k) # blocks[i].begin =>
                  \A j \in DOMAIN inst_list :
                      Address(inst_list, k) \in MachineNext(inst_list, j) => j = k - 1

\* What the passes that follow rely on when they take a block for its range.
BlocksAreLaidOut == TypeOK /\ BlocksTile /\ BlocksAreLinear

\* The links of a finished block are exactly the addresses the machine can go
\* to after the block's last instruction, and a block that links nowhere is an
\* Exit block that ends the program.
LinksFollowExecution ==
    phase = "done" =>
        \A i \in DOMAIN blocks :
            LET last == CHOOSE k \in InstsOf(blocks[i]) :
                            \A j \in InstsOf(blocks[i]) : j <= k
            IN  /\ Successors(blocks[i]) = MachineNext(inst_list, last)
                /\ (blocks[i].end_class = "Exit") <=> (inst_list[last].op = "s_endpgm")

\* ASSERT_MSG in LinkBlocks: every block a block must be linked to exists.
EveryLookupSucceeds == phase # "abort"

\* The assertion of get_block can only fail for the want of a label at the end:
\* for a program whose branches are short and that ends with s_endpgm it holds
\* at every lookup, whatever its branches look up and in whichever order their
\* labels were added.  (UNIMPLEMENTED aborts too, in EmitLabels: a program with
\* a branch on a debug flag never gets as far as a lookup.)
AbortsOnlyWithoutEnd == phase = "abort" => ~EndsTheShader

\* The finished blocks are a graph the goto pass is made for: a block with a
\* guest condition has both links and its false link is the next block, a True
\* block that is no exit has only branch_true, and the last block never falls
\* through past the end.
BuildsACfg ==
    phase = "done" =>
        IsCfg([i \in DOMAIN blocks |->
                [end_class |-> blocks[i].end_class, cond |-> blocks[i].cond,
                 branch_true |-> blocks[i].branch_true,
                 branch_false |-> blocks[i].branch_false]])

\* begin_index .. end_index are the instructions of the block.
IndicesAreTheBlock ==
    phase = "done" =>
        \A i \in DOMAIN blocks :
            InstsOf(blocks[i]) = blocks[i].begin_index .. blocks[i].end_index
=============================================================================
