# Formal models of the GCN shader recompiler

The program under `src/` reads a PS4 (GCN) shader binary and turns it into
structured SSA form. This directory holds TLA+ modules for every stage of it,
from the code words to the rewritten IR, TLC configurations that check them on
small instances, and proofs that TLAPS checks for every instance. `PROJECT.json` is the index: components,
runs, mutants, the source lines each definition stands for, the hazards and the
theorems.

All paths below are relative to `src/src/`.

## 1. The system

The recompiler is one sequential pipeline (`recompiler.cpp:38-64`): no thread,
no callback, nothing persisted. Each pass takes the whole program from the one
before it, and its hard behaviours are those of compilers: long sequences of
pointer surgery on shared lists and trees, facts one pass relies on and another
has to establish, iterators and indices that outlive the structure they were
taken from, and bounds.

```
 code words --decode--> instruction list --CFG--> blocks --GotoPass--> tree
   --TranslatePass--> IR blocks, edges, syntax list
   --GenerateBlocks / PostOrder--> two block orders
   --SsaRewritePass--> SSA --IdentityRemovalPass--> result
```

| component | state it keeps | operations | hard behaviours | what makes it correct |
|---|---|---|---|---|
| Instruction decoder (`frontend/decode.cpp`) | the code slice, the instruction being built | `decodeInstruction` and one routine per encoding | lengths of 32/64 bits and literals at the end of the code, table indices | progress, no read past the code, no index past a table |
| CFG constructor (`frontend/control_flow_graph.cpp`) | `labels`, `index_to_pc`, the set of blocks | `EmitLabels`, `EmitBlocks`, `LinkBlocks` | addresses recomputed in three ways, sorted neighbours, 16-bit offsets, a last label that gets no block | blocks tile the program, are linear, and are linked as the machine goes |
| GotoPass (`frontend/structured_control_flow.cpp`) | the statement tree (`children` lists and `up` pointers), pending gotos | `BuildTree`, `RemoveGoto`, seven list transformations | iterators kept over splices, levels counted once and used later, three exceptions | same execution as the graph, tree consistent after every move, no exception, termination |
| TranslatePass (same file) | recursion stack of `Visit`, IR blocks, edges, syntax list | one case of `Visit` per statement type, `MergeBlock` | edges and list nodes made in different orders, an index into a list that is still growing, null block pointers | edges and list say the same; loops have the shape SSA construction needs |
| Block edges (`ir/basic_block.cpp`) | successors and predecessors of each block | `AddBranch` | one relation stored twice | both sides equal, no edge twice |
| PostOrder (`ir/post_order.cpp`) | explicit stack, visited set, result | one walk | pops and pushes the same block once per branch | lists exactly the reachable blocks; predecessors first but for loops |
| SSA rewriting (`ir/passes/ssa_rewrite_pass.cpp`) | current definitions, incomplete phis, sealed blocks | `ReadVariable` (a state machine on its own stack), `SealBlock`, `TryRemoveTrivialPhi` | blocks sealed right after they are visited | every read gets the value the variable has on each path |
| IR instructions and values (`ir/microinstruction.cpp`, `ir/value.h`) | arguments, use counts, replaced definitions | `SetArg`, `AddPhiOperand`, `Invalidate`, `ReplaceUsesWith` | counts seen through identities | a use count is the number of uses |
| Guest instruction translation (`frontend/translate/`) | none of its own | one routine per opcode | register indices computed from operands, destinations that overlap sources, registers reset per block | the IR computes what the instructions say; registers beyond a file are refused |
| IR emitter, types, opcode table (`ir/ir_emitter.cpp`, `ir/opcodes.inc`, `ir/value.h`) | the insertion point | one function per operation, many by size or type | unchecked conversions of typed values, sizes nobody implemented, an instruction inserted before its type is looked at | arguments have the types of the table; what throws leaves nothing behind |
| Registers, attributes, conditions (`ir/reg.h`, `ir/condition.h`) | constants | checked arithmetic on registers | a missing register in a list, missing cases | totality, no register outside its file |
| Object pool (`object_pool.h`) | chunks of raw storage, a pointer to the last one | `Create`, `ReleaseContents` | pointers held while the vector of chunks grows; counters that say which destructors run | objects never move and end exactly once |
| Recompiler driver (`recompiler.cpp`) | the whole program | the call sequence | two orders of the same blocks | every pass sees the blocks the other one changed |

How the parts depend on each other, and the property that carries the
dependency:

* GotoPass accepts what the CFG constructor builds: `BuildsACfg` (proved) says
  its blocks form a graph in `CfgShapes!IsCfg`, `BuiltGraphsFit` (proved) that such a
  graph has the branch targets `BuildTree` looks up, and GotoPass, TranslatePass and
  StructuredExecution are checked on all graphs of that set (`CfgShapes!CfgsOf`).
* TranslatePass accepts what GotoPass leaves: `Structured` (proved).
* Inside the SSA passes, three structures name instructions: the lists of the blocks,
  the arguments and the tables of definitions. `PhisMatchTheEdges` ties the phis to
  the edges of BlockGraph, `ArgumentsAreListed` the arguments to the lists (both
  proved for every program).
* The SSA pass reads a variable in a block that has not been visited only
  through an edge that goes back in the order. `SuccessorsFirst` (proved for
  every graph) says such an edge closes a loop, `BackEdgesWriteNothing` that in
  this program it leaves a continue block that writes no variable, and
  `FirstBlockIsEntry` that a search of definitions ends (together `FitForSsa`).
* Passes that walk successors and passes that walk predecessors see one graph:
  `EdgesSymmetric` (proved). Passes that take their blocks from the syntax list
  and passes that take them from the edges see the same blocks:
  `ListsTheReachable`, `EveryBlockListedOnce`, `EdgesFollowTheList`.
* Blocks, statements and instructions name each other by plain pointers into
  pools that grow meanwhile: `ImplementsArena` (proved) says that an object stays
  at its address until all of them end, `PointersStayValid` (proved) says so of
  the composition, edges between blocks of the pool.
* The handlers of the translation convert the emitter's results to the static
  type they expect, most of which nothing checks at run time:
  `HandlersEmitWellTyped`. What they emit is then rewritten by the SSA pass,
  which looks at no type (`RewrittenWellTyped`, a finding).

## 2. The modules

| module | models | role |
|---|---|---|
| `CfgShapes` | `Block` as the goto pass sees it | the interface between constructor and goto pass |
| `ControlFlowGraph` | `CFG::CFG`, `instruction.cpp` | one action per turn of each of the three loops |
| `GotoPass` | `structured_control_flow.cpp:1-593` | one action per turn of each loop of `RemoveGoto` |
| `StructuredExecution` | the meaning of the tree (`Visit`, external: GPU) | runs the structured program next to the graph it came from |
| `TranslatePass` | `structured_control_flow.cpp:594-` | composes GotoPass with one action per case of `Visit` |
| `BlockGraph` | `Block::AddBranch` | one action per call |
| `PostOrder` | `PostOrder` | one action per turn of its while loop |
| `SsaRewrite` | `SsaRewritePass`, `IdentityRemovalPass`, the use counts of `microinstruction.cpp` | one action per instruction visited, per turn of `ReadVariable`'s loop, per operand and per argument |
| `SsaExecution` | the meaning of the IR before and after (external: GPU) | runs the rewritten program next to the one it came from |
| `GcnFormats` | `opcodes.h`, the tables of `format.cpp` | constants: prefixes, sizes, incomplete entries, source counts |
| `Assembler` | the instruction formats of the GPU (external) | the layout the decoder is compared with |
| `Decoder` | `decode.cpp`, the decoding loop of `recompiler.cpp` | one action per outcome of a call of `decodeInstruction` |
| `Arena` | - | what an object pool promises: the abstract specification |
| `ObjectPool` | `ObjectPool<T>` and its chunks | one action per outcome of `Create` and of `ReleaseContents`; implements `Arena` |
| `BlockPool` | `Block`s in their pool | composes ObjectPool and BlockGraph |
| `IrOpcodes` | `opcodes.inc`, `type.h` | constants: types, argument and result types of every opcode |
| `IREmitter` | `ir_emitter.cpp`, the typed values of `value.h`, `Insert` of `ir_emitter.h`, the type check of `DumpBlock` | one rule or script per function of the emitter |
| `EmitterCalls` | a client of the emitter | one action: any function with values of any types |
| `Translator` | `frontend/translate/`, `reg.h` | one script per handler |
| `GcnMachine` | the meaning of the instructions (external: GPU) and of the IR | runs a block both ways, on terms |
| `Translation` | `Translate`'s loop, the rewriting of one block | one action per instruction of a block |
| `ControlFlowGraphProofs`, `PostOrderProofs` | - | theorems |
| `BlockPoolProofs` | - | theorems about `BlockGraph`, `ObjectPool` and their composition |
| `DecoderProofs` | - | theorem: lengths are addresses |
| `GotoPassProofs` | - | theorems: the tree, the order of its code, the throws, what is left, the end |
| `TranslatePassProofs` | - | theorems: no throw, every block listed once, edges as the list says, code in order |
| `SsaRewriteProofs` | - | lemmas about the operators of `SsaRewrite` on pools and lists; theorems: types, use counts, the stack of `ReadVariable` |
| `SsaEdgeProofs` | - | theorems: phis and edges, what the lists hold |
| `MC*` | - | instances for TLC |

### How state and actions correspond to the code

**ControlFlowGraph.** `labels`, `index_to_pc` and `blocks` are the members of
`CFG`; `phase` and `cursor` say which of the three loops runs and how far it is.
An instruction is its class of opcode, length and the 16 bits of `simm`; the
class is what `GcnInst::IsUnconditionalBranch` and its siblings distinguish.
`SortLabels` is the `std::ranges::sort` at the end of `EmitLabels`, and one
action of its own only because it happens once. The set of blocks is the
sequence in the order of `begin`, since EmitBlocks inserts in that order. The
constructor can abort in two places: `IsConditionalBranch`, which EmitLabels asks of
every instruction but `s_branch`, has an `UNIMPLEMENTED()` for branches on a debug flag
(`S_CBRANCH_CDBG*`; the action `Unimplemented`), and the `ASSERT_MSG` of `get_block`
fails where there is no block (`AssertFails`). They end in different phases, because
`AbortsOnlyWithoutEnd` is about the second only. `get_index` also asserts, but
its lower bound always has a predecessor once the label is not 0. Addresses are
u32 in the code; the model wraps negative targets at 2^30, beyond every program
checked, because TLC's integers stop at 2^31.

**GotoPass.** The pool of statements is `stmt`; a position of it is a `Node`
and an iterator, `children` is a `Tree`, `up` the parent pointer. The two are
separate state, so a splice without `UpdateTreeUp` shows. Expression statements
never sit in a tree and never change; they are values (`<<"Not", e>>`). Each of
the transformations is one operator from pool to pool that performs every list
operation of the C++ function in its order: where it cuts, what the new
statement takes, who becomes whose parent. `RemoveGoto` is the steps "relate"
(outward until directly related), "level" (count the levels once), "outward",
"lift", "inward" and the elimination; its locals `goto_level` and `label_level`
are variables since the code counts them once and updates them apart from the
tree. The three `LogicError`s and the `NotImplementedException` of
`SanitizeNoBreaks` end the pass. `pop_front` on an empty intrusive list unlinks
the header from itself and changes nothing (`PopFront`). `BuildTree` makes its
statements in two loops; `FlatTree` is the pool it leaves, numbered in the order of
the root's list, and `BuildGotos` the vector it returns. Its lookups
`local_labels.at` throw for a target that is no block of the graph:
`TargetsAreBlocks`, which `CfgsAssumption` asks of every graph.

**TranslatePass.** `calls` is the call stack of the recursive `Visit` with the
locals of each call (`current_block`, the break and fall-through blocks, and the
caller's header, continue and merge blocks). One action is one case of the
switch; the part of the If and Loop cases after the recursive call is `EndIf`
and `EndLoop`, together with the fall-through edge that the inner call adds
before it returns. `BodyNode` is the index `syntax_list.at(body_block_index)`
that is computed before the children are visited. The IR of a block is what
later passes can tell apart: the instructions of a CFG block, an assignment to a
goto variable, a condition reference, prologue and epilogue. The cases for
`Kill` and `Unreachable` are left out: nothing creates such a statement.

**StructuredExecution.** A block of shader code is opaque; when it runs, the
condition registers take arbitrary values, and every `Identity` reads the last.
The tree is given the meaning that TranslatePass gives it (an If tests first, a
Loop tests last, a Break tests and leaves the innermost loop). The variables of
the gotos hold anything at the entry, so the resets of `BuildTree` matter.

**SsaRewrite.** `inst` is the instruction pool, `instructions` the intrusive list
of each block. Scalar registers, vector registers and goto variables are told
apart by nothing but their number, as in the code, where each kind has a table
of its own. `stack` is the vector of `ReadState`s of `ReadVariable`, and an
action is one turn of its loop, fall-throughs included; `read = 0` means that it
is not running. `sealing` is the operand `AddPhiOperands` is at. The operations
on instructions (`SetArg`, `AddPhiOperand`, `ReplaceUsesWith` and the rest) are
operators from pool to pool that keep the order of uses given up and taken, and
`IsImmediate` looks through identities where `Use` and `UndoUse` do not. What an
instruction computes is left to three classes: Get, Set, and Def or Ref for any
instruction that has a result or an argument (`Opcode` lists them). `InvalidateErased` is one turn
of the last loop of the identity removal. What the passes are given is `WellFormed`:
the emitter makes no Phi, Identity or Void, the use counts are exact, and every
instruction is in one list and there once. `SsaExecution` gives both programs
a meaning: a variable that was not written reads as one undefined value, a phi
as the operand of the block control came from, an instruction that was not
executed as a value nothing else has.

**Decoder.** `m_ptr` is the member of `GcnCodeSlice`, counted in words; `m_end` is
the length of the code. A word is its two halves, since TLC's integers have 31
bits. An opcode is its number in the one `Opcode` enumeration, an operand its
field and code; of the fields, the registers and constants that are their own
code are one class. A call of `decodeInstruction` either appends an
instruction, aborts in an assertion ("illegal encoding", "format table not
complete"), or has undefined behaviour: it indexes a format table past its end
(`ReservedOpcode`) or reads words past the code (`TruncatedInstruction`,
`TruncatedLiteral`), after which `atEnd`, an equality, may never hold. The model
stops there. `Assembler` says independently where the fields of each format
are; programs are assembled with it and the decoder must give them back.

**BlockGraph, PostOrder.** The members of `Block` and the locals of the
function, one to one.

**ObjectPool, BlockPool.** A chunk is `used_objects`, `num_objects` and its array;
an address is an array and a slot. `buffer` tells the vector's present buffer from
the one it had, so `node`, a plain pointer to a chunk, can go stale; whether a
growing vector moves its chunks or has room is a choice. The ghost `alive` follows
constructors and destructors and nothing else: moving the chunks runs the
destructors of what was moved from, which end whatever their counters say, so
that a move that left the counters in place would end objects in use
(`MovedFromCounted`, a mutant). `ReleaseContents` is `Squash` or `ReleaseRoot`,
each one action for all the destructors it runs. In `BlockPool` a block is created
anywhere the pool says, `AddBranch` takes two blocks that live, and releasing ends
blocks with their edges.

**IrOpcodes, IREmitter.** A value is its type, whether it is an immediate, a
result or something the caller holds, and its number. A function that only looks
at types and sizes is a row of `Rules`: the types its parameters admit, the
arguments whose types must agree, the opcode by their type, the static type of its
result. One that calls other functions is a script, a sequence of `Call`s with
variables; `RunScript` runs it on an emission, the instructions so far and the
exception if one was thrown. A static type is a set of types; conversion to a
static type that overlaps is free (`TypedValue`), and an explicit conversion from an
untyped `Value` checks. `Insert` puts the instruction into the block before it
checks the number of arguments, as `Inst` does. An emission grows at its end, where
the handlers of the translation and the emitters of `Visit` insert. The one emitter the
code makes elsewhere, at the front of the first block for `Prologue`
(`structured_control_flow.cpp:609`), is in TranslatePass (`EndRoot`).

**Translator, GcnMachine, Translation.** A handler is a script in the order of its
statements. Where C++ leaves the order of arguments open, the model takes one
order: it only affects the order of reads. `translated` is the instructions of
the block so far, `block` the emission, `context` what executing it yields: the
values of the registers, attributes and SCC as terms, and the writes to shared
memory in order. `GcnMachine!Machine` gives the same for the guest instructions by
their names, with both sides starting from the sixteen scalar and sixteen
vector registers `Translate` sets to zero at the head of every block. Nothing in the
repository says what these registers should hold there, so no property judges that a
block forgets what its predecessors computed in them.
`Judged` names what the source does not let a reader judge: an immediate offset
other than 0 of a buffer load (the handler of `S_LOAD` multiplies it by 4, the one
of `S_BUFFER_LOAD` does not), pairs of DS, loads of two dwords (which read
nothing), `V_SAD` (whose absolute value is of a wrapped difference), and
`S_LOAD_DWORD`, which always throws since it adds a U32 to a U64. As in the code,
modifiers of VOP3 are ignored, a destination `VccHi` is dropped and other special
operands abort; `V_MAC_F32` of an integer constant throws "Mismatching types".

### Mutants

Next to a definition a module can hold variants of it whose comment begins with
"Mutant": the same definition with a bug someone could have written. Nothing
uses them. `PROJECT.json` pairs each with the property that TLC finds violated
when the variant takes the definition's place, so no property is vacuous.

## 3. The runs

| run | instance | what it shows |
|---|---|---|
| `cfg_links` | all programs of 5 instructions that end with `s_endpgm` and of 4 that end with a branch back: 4- and 8-byte straight-line code, conditional and unconditional branches to any instruction, branches on a debug flag, ends anywhere, no unreachable code after `s_branch` | blocks are linear, linked as the machine goes, and form a `CfgShapes` graph; with `s_endpgm` at the end they tile the program and the assertion at `control_flow_graph.cpp:124` never fails (it does for some programs that end with a branch, which have no label at their end) |
| `cfg_indices` | 4 instructions, as in `cfg_links` | **violation**: `begin_index` is one too low for every block but the first |
| `cfg_far_branch` | a 36000-byte run of code between branch and target | **violation**: the 16-bit product in `BranchTarget` wraps |
| `structure` | every graph of up to 4 blocks, of 5 blocks with one exit; every outcome of the conditions; translation for the graphs of up to 4 | every step keeps the tree consistent, nothing throws, the pass ends and leaves a structured program that executes the same blocks as the graph; edges, block list and loop shape are what the SSA pass and the driver need |
| `translate_merge` | every graph of 3 blocks | **violation**: merge blocks hold a translation of instruction 0 |
| `block_pool` | chunks of one slot, three arrays, up to 3 blocks with up to 2 branches each, symmetric in the arrays; creation, branches and releases in any order | counters stand for the living blocks while the vector grows, moves and is squashed; edges agree on both sides and name living blocks only; the pool implements the arena |
| `post_order` | every graph of 4 blocks with at most 2 ordered successors (83,521) | the list, its order, termination |
| `ssa` | every acyclic graph of 4 blocks with at most 2 successors, unreachable blocks included, and loops around plain code, an If, a Break, a Return and a Loop (5 to 9 blocks); every choice of empty code, a result, an immediate or a swap of two variables in each free block | use counts are exact, phis match the edges, arguments name listed instructions, no walk goes round a loop twice, and on every path every use sees what it saw before |
| `decode` | each op of each encoding and the first reserved one, with small, large and literal operands; all sequences of three of nine instructions with and without literals; each operation in its short and VOP3 form; pairs of them cut short by a word; all 512 prefixes | the slice is at an instruction after every call, lengths add up to addresses, instructions come back as assembled, an operation has one opcode in its short and in its VOP3 form; complete code with known opcodes is decoded to its end |
| `decode_sdst` | as `decode` | **violation**: the scalar destination of VOP3B is read as modifiers |
| `translation` | blocks of up to 2 instructions of those `Translate` knows, with operands in the cleared registers, beyond them and at the end of the files, overlapping; every other handler by itself with every size, sign, mask and pair; every function of the emitter with values of every type | the IR computes what the instructions say; arguments have the types of the opcode table; an instruction is refused exactly when the registers it needs end beyond the file; a call that throws leaves the block alone, and well-typed calls throw in four known places only |
| `translation_types` | as `translation` | **violation**: once registers are rewritten, an argument has the wrong type |

Several invariants of a run are conjunctions whose parts are named where they are
defined: `BlocksAreLaidOut` (types, tiling, linearity), `TreeIsConsistent` (types,
parents, gotos that wait are in the tree), `FitForSsa` (back edges, entry block),
`PoolIInv` (types, counters, `node`). A part has a mutant of its own.

**Bounds and why they are enough.** Five instructions give up to five blocks,
every pair of (kind of block, kind of link), targets that coincide with each
other and with fall-throughs, and blocks of one and of several instructions.
Four blocks are the smallest size with overlapping loops (irreducible graphs),
a goto into a nested loop, and a goto that needs all of relate, outward, lift
and inward; every action of every module fires. `AnyExit` and `OneExit` are those
two bounds in `structure`. Five blocks with one exit add
the gotos that leave nested loops, where several gotos share an If: the mutant
that leaves the condition of a nested If unchanged shows only there.
In `ssa`, two variables and a swap give phis that depend on each other; loop
headers are empty and continue blocks only test, because `BackEdgesWriteNothing`
says that of what TranslatePass makes. A read in an unsealed block takes the
value at the entry of the block, so without that restriction `SameReads` would
be false. In `decode` the decoder's decisions depend on the prefix, the op and whether an
operand is 255, all enumerated; the patterns set the low, the high and
overlapping bits of every field. `Fuel = 200` bounds the silent steps between two blocks; a divergent program
would be reported, and none is. In `block_pool`, three slots are the least at which
the vector grows twice and a release squashes more than one chunk. In `translation`,
two instructions are enough for one to overwrite what the other reads; an
instruction sees of the rest of the block only the registers, SCC and shared memory, and
the bounds of the register files are reached by operands at their ends, not by long
blocks (`MaxInstructions = 2`). `Size` and `N` are the bounds of the instances;
`MaxBranches = 2` is what TranslatePass gives a block.

**Fairness.** `PostOrder` assumes weak fairness of its next step: it is a loop of one
thread that nothing suspends, and whether its stack ever empties is a question
(`Terminates`). No other module assumes any. The loops of `ControlFlowGraph` run over
lists that do not change, so that they end says nothing. That GotoPass ends is the action
property `ComesToAnEnd`, a variant that every step decreases: its lexicographic order is
(gotos waiting, stage of `RemoveGoto`, moves left), bounded below (proved). That
`ReadVariable` does not go round a loop for ever is `OnePhiPerRead` (proved), at most one
waiting phi per block.

**Deadlock** is checked in every run but `translation` and `translation_types`: each
module has a `Terminated` action for the states where the code has returned,
thrown or aborted. In those two a block with all its instructions, or one call of
the emitter, simply is finished, and nothing waits for anything.

## 4. What disagrees with the code's own words

* `control_flow_graph.h:26` says a block is a linear range of instructions.
  `begin_index` names the last instruction
  of the previous block, so TranslatePass translates that instruction a second
  time (`cfg_indices`).
* Branches of more than 8191 dwords (half or less of what `simm` can express)
  abort the constructor (`cfg_far_branch`).
* "Create a merge block we can visit later"
  (`structured_control_flow.cpp:802`): the dummy block holds
  `0 - 0 + 1 = 1` instruction, the first of the program (`translate_merge`).
* `decode.cpp:598` takes bits 14 to 8 of VOP3 as `sdst` "For VOP3B", line 672
  takes bits 10 to 8 of the same word as abs modifiers (and bit 11 as clamp) of
  every VOP3 instruction (`decode_sdst`).
* `DumpBlock` prints "type error" for an argument of another type than the opcode
  table has. The SSA pass keeps one definition per register, whatever type it was
  set with, so an `EXP` of a register that `Translate` cleared has a U32 for its
  F32 (`translation_types`).

Two more things in the decoder that no run is about: `dst_count` is 2 for
all VOP3 ops from 293 to 366 although "VOP3B has a sdst operand"
(`decode.cpp:659-662`) is meant, and 1 for `V_MAD_U64_U32` and `V_MAD_I64_I32`;
and a literal that two operands name (255 twice, or 255 in an instruction with
a literal of its own) is stored in one operand, the other keeps the number 255
(`decode.cpp:402`). `InstructionsAreRecovered` leaves that second operand out.

Two more things that no run is about, because the properties are false of them and
say nothing of the rest if they exempt them:

* Code after `s_branch` that nothing targets is swallowed by the branch's block: a
  label is added for the target but none behind the branch
  (`control_flow_graph.cpp:67-69`). The block is not linear, and is linked by its last
  instruction, so the branch in its middle is lost. The runs and the theorems leave such
  programs out (`NoDeadCode`, `Compiled`); with `DeadCode = TRUE` in `cfg_links.cfg`
  TLC shows that `BlocksAreLinear` is violated.
* The list of vector registers in `reg.h` ends with V255 but leaves out V2, so
  `NumVectorRegs` is 255. "Intrusively store the value of a register in the block"
  (`basic_block.h:148`) is then an array without a place for the register that an
  instruction names by 255. Only register arithmetic is checked; a register an
  instruction names itself is not, so `V_MOV_B32` of V255 is translated whole and the SSA
  pass indexes `ssa_vreg_values` past its end.

`KnownGap` lists the calls of the emitter that throw or return nothing although
their types are those declared: sizes of memory accesses that are not implemented,
`ConvertFToU` of an F64, `FPConvert` of anything but an F16, `Condition` of the Vcc and
Exec conditions.

`RefusedBeyondTheFile` compares the checks that operator+ makes one register at a time
with the registers an instruction needs as a group (`Groups`). In two places the code is
not what one would expect, and `Groups` says what it does: `IMAGE_GET_RESINFO` also computes
the register after the last one it writes (`dst_reg++`, `vector_memory.cpp:20`) and is refused
if there is none; and part of a refused instruction has been emitted by then, with a first
register of the descriptor that may be beyond the file itself (`sbase` is twice the operand).

Because `cfg_indices` and `translate_merge` would hide everything else, TranslatePass is checked with
the indices a block should have.

## 5. What is proved

`PostOrderProofs`, for every set of blocks, first block and set of graphs
(`FirstAssumption`: the first block is one; `GraphsAssumption`: successor lists
hold blocks):

* `ReachableListed`: `Spec => []ListsTheReachable`.
* `OnlyLoopsGoBack`: `Spec => []SuccessorsFirst`.
* `TypeCorrect`, `Inductive`.

Neither property is inductive. `IInv` adds that the visited blocks are exactly
those on the stack or listed (each once), that the stack is a path of the
graph, and that the successors of a listed block were visited and, if still on
the stack, reach it. When the top is listed, a successor of it that is not
listed is on the stack, hence below it, hence reaches it: that keeps
`SuccessorsFirst`. When the stack is empty the visited set is closed under
successors and contains the first block, hence everything reachable:
`Reaches` is defined by closed sets, which spares the proofs induction on paths.

`BlockPoolProofs` is about `BlockGraph`, `ObjectPool` and the two together. Of the
edges, for every set of blocks and every bound on calls (`MaxBranchesAssumption`): `GraphSymmetric`, `GraphSimple`,
`SecondCheckRedundant`. The second exception of `AddBranch` cannot be thrown
because symmetry makes its condition equal to that of the first.

Of the pool, for every chunk size but 0 (`NewChunkSizeAssumption`), every set of arrays (`NoStorageAssumption`: a null pointer is none of them) and every bound:

* `PoolInvariant`: `PoolSpec => []PoolIInv`. It is inductive as it stands: creating in
  `node` needs that `node` is the last chunk, a chunk all others are full before it;
  that a new object is not where one lives needs that no two chunks own one array and
  that living objects are those counted. `NothingDestroyedByMove` is the fact about the
  move constructor that the rest hangs on.
* `PoolImplementsArena`: `PoolSpec => ImplementsArena`, a refinement in which the arena's
  `objects` are `alive`; initial states map to initial states, both outcomes of `Create`
  to the arena's `Create`, both of `ReleaseContents` to its `ReleaseContents`.
* `ReleaseLosesNoRoom`: `PoolSpec => SquashHoldsAll`, an action property. Counting the
  objects chunk by chunk would be an induction; `SlotsCounted` is one equation every step
  keeps instead: the living objects and the slots `node` has left are all the slots there
  are, because the chunks before `node` are full.
* `EdgesStayValid`: `BlockSpec => []PointersStayValid`, for every set of blocks. Beside
  `PoolIInv` it needs that a creation adds to the living blocks and ends none.

`ControlFlowGraphProofs`, for every set of programs of any length that satisfy `Compiled`:
one `s_endpgm` at least, no instruction of length 0, no `s_fork` and no branch on a debug
flag, branches of at most 8191 dwords that go to an instruction, and no code after `s_branch` that nothing
targets. The findings of section 4 and the two aborts show why those premises are needed; TLC
confirms (`ProgramsAreCompiled`) that the programs of `cfg_links` satisfy them, but for
those with a branch on a debug flag, which end in `Unimplemented`.

* `BlocksAreLaidOutAlways`: `Spec => []BlocksAreLaidOut`.
* `LinksAreExecution`: `Spec => []LinksFollowExecution`.
* `AlwaysACfg`: `Spec => []BuildsACfg`.
* `NoAbortWithAnEnd`: `Spec => []AbortsOnlyWithoutEnd`.
* `Inductive`: the invariant `Inv`, one conjunct per loop of the constructor.

The properties speak of the finished blocks only; `Inv` says what each loop has done so
far: `Indexed` (addresses and labels of the instructions seen), `Labelled` (the labels
are sorted and complete), `Cut` (a block goes from one label to the next, and `get_index`
found the instruction that ends at the second), `Linked` and `Unlinked`. The
properties then follow from three facts. Addresses grow with instructions, so an address is
one instruction's. Every target, and every address after an instruction that transfers
control, is a label or the end of the program (`TargetsAreLabels`), and between two labels
that follow one another there is none (`NoLabelBetween`), so nothing enters or leaves
a block in its middle. And the end of a program that ends with `s_endpgm` is the
largest label (`LastLabelIsTheEnd`), so the label without a block is one nothing looks up.
Addresses are sums over the program; since the provers cannot use the library's induction
theorems, each induction takes the least counterexample (`NatMin`), as do the ranks
of a sorted set (`SortedLemma`).

`SsaRewriteProofs` and `SsaEdgeProofs`, for every set of programs of any size.
`ProgramsAssumption` says that each is `WellFormed`; `ImmediateAssumption` that an
immediate is neither an instruction nor the empty value; `VariableAssumption` that
variables are numbered from 1, so that 0 can stand for none. No restriction of the
`ssa` run is needed: the graph is any graph with any predecessor lists, reducible or
not, and the order any list of blocks.

* `CountsAreExact`: `Spec => []UsesAreCounted`.
* `ReadsMakeOnePhi`: `Spec => []OnePhiPerRead`.
* `PhisMatch`: `Spec => []PhisMatchTheEdges`.
* `ArgumentsListed`: `Spec => []ArgumentsAreListed`.
* `Inductive`, `EdgesInductive`, `ListsInductive`: the three invariants they follow from.

The argument has three layers, each resting on the one before.

`IInv` says that pool, lists, tables and stack name instructions of the pool and
that counts are exact. Each operation of `microinstruction.cpp` is shown to change the
count of an instruction by exactly the arguments it gains and loses
(`CountEffect`, `CountedChange`), whatever the pool. `IsImmediate` looks through
identities, so an argument that names an Identity of an immediate is not counted at the
Identity; the invariant is therefore about instructions that were not
replaced. `Resolve` is a recursive function whose chains are not known to end; the lemma
`ResolveEquation` shows that its equation has a solution all the same, which is all the
proofs need of it. The stack of `ReadVariable` has a fixed shape (`StackOK`), and a
block whose phi is being made has a definition already (`PhiIsDefined`): a second read
of it returns at once, which is why no second phi is made.

`EdgeInv` says which operands a phi has at every moment. An incomplete phi has the
predecessors its block has received so far (`Received`), a phi being made on the stack
those before its `pred` (`MakingOK`), every other phi all of them (`PredsOK`). It needs
that an instruction is in one list and there once, that phis lead their list
(inserting before the first non-phi keeps that), and that blocks are sealed
in their order, so that no incomplete phi is left behind.

`ListInv` says what the lists hold. An instruction is in a list or was replaced
(`Placed`). In what the second pass has gone through, and in the current block before
the instruction it is at, no argument names a replaced instruction (`CleanedSoFar`);
"before" is a relation on the list (`Before`) that erasing, inserting and prepending
are shown to keep, since the first pass changes lists it is in the middle of. No Get
is left in a sealed block (`GetsGone`). `VoidLater` says that nothing is
invalidated before all lists are done: invalidating earlier would empty an
Identity that later arguments still go through.

`GotoPassProofs`, for every set of graphs of any size whose branches go to blocks
(`CfgsAssumption`). Reducible or not, with any number of exits: no restriction of the
`structure` run is needed.

* `TreeStaysConsistent`: `Spec => []TreeIsConsistent`.
* `RemovesWithoutThrowing`: `Spec => []NeverThrows`.
* `WaitingStayOutsideIfs`: `Spec => []WaitingOutsideIfs`.
* `EndsStructured`: `Spec => []Structured`.
* `CodeStaysInOrder`: `Spec => []CodeInOrder`.
* `EveryTurnIsCloser`: `Spec => ComesToAnEnd`, an action property.
* `GotoInvariant`: the invariant `IInv` they follow from.
* `BuiltGraphsFit`: a graph in `IsCfg` satisfies the assumption.

`Level`, `Ancestor` and `Chain` are recursions along `up`; that they
end is part of the invariant (`Rooted`: a rank falls with every step up), and
`LevelEquation` and `ChainEquation` are what all later lemmas know of them. A tree is
then described by two relations, `Contains` and `Earlier` on the children lists, and
`CutAt` and `CutBetween` say what the code's ranges are in those terms.

Each transformation is one of two things, or one after the other: `Leaves` (statements
without children are put into lists, a goto is taken out) and `Wrap` (siblings that
follow one another go into a new Tree in their place). `LeavesKeepPool` and
`WrapKeepPool` prove once that they keep the pool consistent, `LeavesKeepWaiting` and
`WrapKeepWaiting` that they keep what the invariant says of the waiting gotos; a lemma
per transformation shows which it is (`EraseIsLeaves`, `EncloseMoves`, `OutwardMovesOut`,
`AssembledMoves`, `InwardNext`, `LiftMoves`).

`NeverThrows` is far from inductive. That `SiblingFromNephew` finds a Tree to enter, and
that goto and label end as siblings, needs where they stand to each other in every loop of
`RemoveGoto`: on the way out the label's list is around the goto (`OutwardOK`), after
the turn the goto stands before what holds its label (`InwardOK`), and the counted levels
differ by what the real ones do although lifting moves both a level down. That a lifted
loop holds no Break, and that nothing is ever moved out of an If, is a matter of order: around
a waiting goto there are only Loops, and before it and before these there is no Tree and no Break
(`Spine`), because what is behind a waiting goto has been dealt with and no waiting goto
is behind the one that is moved (`NotBehind`). Every transformation puts its Ifs and
Breaks behind the waiting gotos and its Loops behind or around them, which is what the
order of removal, last goto first, is for.

`CodeInOrder` speaks of the text, the tree unfolded as many levels as it has Trees; the
transformations are described on the tree. `CodePlaced` says the same on the tree: each
block's Code is in the pool once, and no Code is behind the Code of a later block
(`NotBehind` again, the relation that keeps the waiting gotos apart). Every step keeps it
(`CodeKeepsItsPlace`): a move changes neither type nor block of a statement, what it
creates is no Code, and what `Leaves` and `Wrap` keep of `NotBehind` holds for any two
statements of the pool. `BuildTree` lists the Codes in order (`TheTreeIsFlat`). What is left
is that the text shows the tree: `TextIsUnfolded` and `UnfoldGoesDown` follow one
statement through the levels, each level puts the lists of the Trees in their places
(`Pieces`), after as many levels as there are Trees none is left since a Tree is not below
itself (`NoTreeBelow`), and two statements stand in the text as the siblings around them
stand in their list (`TextHolds`).

Attempting the proof showed a choice in `CountLevels` that the code does not have: two cases of
its `CASE` overlapped, so that its value was not fixed. It is the code's chain of
`if`s now.

`TranslatePassProofs`, for every set of graphs of any size that have a block
(`NonEmptyAssumption`; a graph in `IsCfg` has one, `BuiltGraphsFit`) and whose branches
go to blocks, and every way the goto pass takes through them:

* `PassNeverThrows`: `TranslateSpec => []TranslateNeverThrows`.
* `ListHasEveryBlock`: `TranslateSpec => []EveryBlockListedOnce`.
* `BlocksFitForSsa`: `TranslateSpec => []FitForSsa`.
* `ListAndEdgesAgree`: `TranslateSpec => []EdgesFollowTheList`.
* `MergingKeepsTheOrder`: `TranslateSpec => []CodeInOrder`. `MergeBlock` puts Codes into the
  tree while the pass goes over it; they stand for no block.
* `TranslateInvariant`: the invariant `TranslateInv` they follow from.
* `ListsStayOpened`: `Spec => []Opened(stmt)`, what the pass needs of the goto pass.

Three of the properties speak of the finished list, and none is inductive. `TranslateInv`
says of every state the pass goes through (`Passing`):

* `Layout`: the list and the edges agree, but for the blocks and nodes that calls of
  `Visit` have created and will only list or fill in when they return. Those blocks
  (`Reserved`: merge and continue blocks) have no edge out, no code and no node. A block's
  edges are the ones the node behind it says (`EdgesFollow`), and go to blocks listed
  later unless it repeats a loop.
* `Frames`: every call on the stack has its own reserved blocks and its own unfilled
  node behind its caller's block, and the nodes are in the order of the calls.
* `Walks`: the calls are a path down the tree, and only a call with a Loop around it has a
  block to break to. With what the goto pass promises of Breaks, that is why no
  `Break` goes to a null block.
* `OnlyLabels`: a call whose node nothing follows yet has seen only labels.

`syntax_list.at(body_block_index)` throws if the children of an If or a Loop opened no
block, and yields no block if the node there is another: `OnlyLabels` and
`Opened` (every If and Loop has a statement that opens a block, every label a reset of
its variable behind it, and the root starts with one) exclude both. `Opened` is kept by
every transformation of the goto pass but depends on their order: taking the last
waiting goto first is why the lists that get cut stay opened. That `AddBranch` never throws
follows from `EdgesFollow`: a block gets its edges when the node behind it is made, all
at once, and to blocks that differ.

`DecoderProofs`, for every set of programs, well assembled or not
(`ProgramsAssumption`: code is a sequence of words):

* `LengthsAdd`: `Spec => []LengthsAreAddresses`.

The words are opaque: whatever encoding, op and operands are read from them, an
instruction has the length of its encoding, and a literal is read only behind
an instruction of one word (`LiteralGrows`), so moving two words in all is what its
length says. `TotalLength` is a recursive function; `OneMore` shows what an appended
instruction adds to it.

Only model-checked:

* `SameTrace`, `SameReads` and `MatchesTheMachine` relate two executions: of a graph and its
  tree, of a program before and after SSA along every path, of an instruction and its IR on
  terms. The first is evaluated by recursive operators (`StructuredExecution`), which the
  provers do not accept; the second is true only of graphs whose back edges write nothing,
  so its proof would need an invariant about paths beside those of `SsaEdgeProofs`; the
  third is a computation per instruction, without steps between which an invariant could
  hold.
* `BoundariesAreRecovered`, `InstructionsAreRecovered`, `OneOpcodePerOperation`: that what
  was assembled is decoded. Assembling is a sum over a set of fields, shifted by powers of
  two with variable exponents, and decoding divides by such powers: beyond the arithmetic of
  the provers. `DecoderProofs` treats the words as opaque for that reason.
* `HandlersEmitWellTyped`, `RefusedBeyondTheFile`: what a script of calls emits, over the
  tables of rules and opcodes; no step of one handler rests on what another did.
* `CallsEmitWellTyped`, `ThrowsBeforeEmitting`, `TypedCallsEmit`: `EmitterCalls` has no
  constant to generalise over. The calls TLC makes are all functions with values of all
  types (constructors of three or four elements: of the types an element can have and two
  it cannot), so the run decides what a theorem would say.
* Termination: liveness under fairness is out of the prover's reach. `ComesToAnEnd` and
  `EveryTurnIsCloser` are the part of it that is not.

## 6. What a next step would be

1. Theorem: `SameReads` on acyclic graphs: a Get is replaced by the value that the last Set
   of its variable on every path to it has, by induction over the order of the blocks.
2. Theorem: `RefusedBeyondTheFile` for every decoded instruction: the checks of its
   registers one by one are a check of the group.
3. The control words of the decoder, next to the handlers that read them.

## 7. Not modelled

* Of the decoder: the control words of MUBUF, MTBUF, MIMG, DS, EXP, VINTRP, SOPP and
  SOPK, the neg, clamp and omod modifiers, the types of operands. `Translation`
  takes decoded instructions with those fields as inputs.
* `DeadCodeEliminationPass`, which nothing calls, and what only it asks of
  instructions.
* Of the emitter: functions that are declared and have no body (`GetExec`, `SampleId`,
  the flags of operations), insertion points other than the end of a block. (The
  one emitter at the front of a block, for the Prologue, is in `TranslatePass`, the phis that
  the SSA pass prepends in `SsaRewrite`.)
* The driver's passes all in one composition: goto pass and translation, the two
  SSA passes, decoder and loop are composed pairwise, since programs small enough
  for all at once would show less than each pair does.
* Printing and formatting (`Dot`, `DumpBlock` but for its type check, `DumpSyntax`),
  names of attributes, assertion plumbing, bit-field helpers,
  `breadth_first_search.h` (nothing instantiates it), the shader binary tool under
  `tools/`, a program of its own that prints headers.
