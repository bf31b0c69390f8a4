------------------------------ MODULE Translation ------------------------------
(***************************************************************************)
(* A block that Translate fills, one instruction after another, or a       *)
(* handler that a client of the Translator calls by itself.  Nothing takes *)
(* back what was emitted before an exception.                              *)
(***************************************************************************)
EXTENDS GcnMachine

CONSTANTS
    Instructions,       \* the decoded instructions a block can hold
    OtherInstructions,  \* those of the handlers Translate does not call
    MaxInstructions     \* bound on the instructions of a block

VARIABLES
    block,      \* the emission: instructions so far, exception if one was thrown
    translated, \* the instructions translated so far, the one that threw too
    context     \* what the IR of the block has computed

translationVars == <<block, translated, context>>

TranslationInit == block = NoEmission /\ translated = <<>> /\ context = NoContext

\* The calls of a script, and the execution of what they emit.
Emitting(script) ==
    /\ block' = [RunScript(block, script) EXCEPT !.env = <<>>]
    /\ context' = Execute(context, block'.code, Len(block.code) + 1)

\* The head of the block; an empty list of instructions leaves it empty.
BeginBlock ==
    /\ block = NoEmission
    /\ Emitting(Head16)
    /\ UNCHANGED translated

\* The next turn of Translate's loop.
Dispatch(inst) ==
    /\ block.code # <<>>
    /\ block.thrown = "none"
    /\ Len(translated) < MaxInstructions
    /\ \A i \in DOMAIN translated : translated[i] \in Instructions
    /\ Emitting(HandlerOf(inst))
    /\ translated' = Append(translated, inst)

CallHandler(inst) ==
    /\ block = NoEmission
    /\ translated = <<>>
    /\ Emitting(OtherHandlerOf(inst))
    /\ translated' = <<inst>>

Translate ==
    \/ BeginBlock
    \/ \E inst \in Instructions : Dispatch(inst)
    \/ \E inst \in OtherInstructions : CallHandler(inst)

-----------------------------------------------------------------------------
(* The rewriting of the block by SsaRewritePass when it is the only one.   *)

\* A register nobody has set is undefined, and an undefined register is a U32.
UndefOpcode == <<"Undef", U32>>
Definition(defs, reg) ==
    IF reg \in DOMAIN defs THEN defs[reg] ELSE Given(TypeOf(UndefOpcode))
RegisterOf(inst) == <<inst.args[1].type, inst.args[1].val>>

\* VisitInst: a get is replaced by the last value set, whatever their types;
\* values[k] is what the uses of instruction k then have as their argument.
VisitInst(state, inst) ==
    LET args == [i \in DOMAIN inst.args |->
                    IF inst.args[i].kind = "inst" THEN state.values[inst.args[i].val]
                    ELSE inst.args[i]]
        result == [type |-> TypeOf(inst.op), kind |-> "inst", val |-> Len(state.code) + 1]
        sets == inst.op[1] \in {"SetScalarRegister", "SetVectorRegister"}
        gets == inst.op[1] \in {"GetScalarRegister", "GetVectorRegister"}
    IN  [code |-> Append(state.code, [inst EXCEPT !.args = args]),
         values |-> Append(state.values,
                           IF gets THEN Definition(state.defs, RegisterOf(inst)) ELSE result),
         defs |-> IF sets THEN (RegisterOf(inst) :> args[2]) @@ state.defs ELSE state.defs]

Rewritten(code) ==
    LET after[n \in 0 .. Len(code)] ==
            IF n = 0 THEN [code |-> <<>>, values |-> <<>>, defs |-> <<>>]
            ELSE VisitInst(after[n - 1], code[n])
    IN  after[Len(code)].code

-----------------------------------------------------------------------------
\* What a reader of the source can judge: the offset of a scalar load that is
\* no immediate other than 0, no pair, no load of two dwords, which reads
\* nothing, and not the sum of V_SAD.
Judged(inst) ==
    CASE inst.opcode \in {"S_BUFFER_LOAD_DWORD", "S_BUFFER_LOAD_DWORDX16"} ->
            /\ inst.smrd.imm => inst.smrd.offset = 0
            /\ inst.size # 2
      [] inst.opcode \in {"DS_READ", "DS_WRITE"} -> ~inst.pair /\ inst.size \in {32, 64}
      [] inst.opcode \in {"V_SAD", "S_LOAD_DWORD"} -> FALSE
      [] OTHER -> TRUE

\* The block computes what its instructions say, also when they overwrite the
\* registers they or a later one reads: the descriptor or the offset of a load
\* of sixteen registers, the accumulator, the registers of an export.
MatchesTheMachine ==
    block.thrown = "none" /\ (\A i \in DOMAIN translated : Judged(translated[i])) =>
        LET headless == \/ block.code = <<>>
                        \/ \E i \in DOMAIN translated : translated[i] \in OtherInstructions
            start == IF headless THEN NoContext ELSE Cleared
        IN  context = Machine(start, translated)

\* Whether it was translated whole or abandoned in the middle, a block has the
\* argument types of the table: the static types of the emitter, most of which
\* are converted without a look at the value, hide no error.
HandlersEmitWellTyped == TypeErrors(block.code) = {}

\* An instruction is refused exactly when it needs a register beyond the file:
\* a descriptor, a pair or the destinations of a load may end at the last one.
\* The checks of operator+ are made one register at a time, after part of the
\* instruction has been emitted; together they bound the whole group, and none of
\* them refuses, or lets through, an instruction for the group of another one.
RefusedBeyondTheFile ==
    (block.thrown = "LogicError") <=>
        (translated # <<>> /\ NeedsBeyondTheFile(translated[Len(translated)]))

\* "type error" of DumpBlock: the block that is printed at the end, after the
\* registers have been rewritten, has arguments of the types of the table.
RewrittenWellTyped ==
    block.thrown = "none" => TypeErrors(Rewritten(block.code)) = {}
=============================================================================
