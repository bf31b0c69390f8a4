------------------------------ MODULE EmitterCalls ------------------------------
(***************************************************************************)
(* A client that makes one call of the emitter, any function with values   *)
(* of any types its parameters admit.                                      *)
(***************************************************************************)
EXTENDS IREmitter

VARIABLES
    call,       \* [fn, flags, args], the call made
    emission    \* what it emitted, whether it threw

callVars == <<call, emission>>

NoCall == [fn |-> "none", flags |-> <<>>, args |-> <<>>]

\* The parameters of the functions that are scripts.
ScriptParams ==
    [k \in {"FPAbsNeg"} \X {<<a, n>> : a, n \in 0 .. 1} |-> <<F32F64>>]
    @@ [k \in {"FPOrdered", "FPUnordered"} \X {<<>>} |-> <<F32F64, F32F64>>]
    @@ [k \in {"WorkgroupId", "LocalInvocationId"} \X {<<e>> : e \in 0 .. 2} |-> <<>>]
    @@ [k \in {"Condition"} \X {<<c>> : c \in {"False", "True", "Scc0", "Scc1", "Vccz"}} |-> <<>>]

SizeParams == [k \in NoSuchSize |-> <<{U32, U64}, {U32}>>]

Params == [k \in DOMAIN Rules |-> Rules[k].params] @@ ScriptParams @@ SizeParams

\* Values of every type, but for constructors of three or four elements those
\* an element can have and two it cannot.
Admitted(types, n) ==
    IF types # AnyType THEN types ELSE IF n > 2 THEN Element \cup {U1, U64} ELSE ValueType

ArgLists(params) ==
    FoldLeft(LAMBDA lists, types : {Append(l, Given(t)) : l \in lists,
                                                          t \in Admitted(types, Len(params))},
             {<<>>}, params)

EmitterInit == call = NoCall /\ emission = NoEmission

CallEmitter(key) ==
    /\ call = NoCall
    /\ \E args \in ArgLists(Params[key]) :
        /\ call' = [fn |-> key[1], flags |-> key[2], args |-> args]
        /\ emission' = Emit(NoEmission, "result", key[1], key[2], args)

-----------------------------------------------------------------------------
\* The parameters declared Value, or U32U64, that the functions do not look at.
UncheckedParams ==
    [Reference |-> 1, PhiMove |-> 2, WriteShared |-> 2, ReadConstBuffer |-> 1, CompositeInsert |-> 2,
     PackUint2x32 |-> 1, PackFloat2x16 |-> 1, PackHalf2x16 |-> 1, PackDouble2x32 |-> 1,
     ConvertSToF |-> 1, ConvertUToF |-> 1, ImageQueryDimension |-> 1]
Unchecked(fn, i) == fn \in DOMAIN UncheckedParams /\ UncheckedParams[fn] = i

\* Whatever a call emits has the argument types of the table, but for the
\* values a function takes without looking at them.
CallsEmitWellTyped ==
    \A k \in TypeErrors(emission.code), i \in 1 .. 5 :
        i \in DOMAIN emission.code[k].args =>
            WellTyped(emission.code[k], i) \/ Unchecked(call.fn, i)

\* A call that throws leaves the block as it was: no instruction is left with
\* arguments missing, and no result of another type than the function's.
ThrowsBeforeEmitting == emission.thrown # "none" => emission.code = <<>>

\* Values of types the parameters are declared with, which agree where they must,
\* are turned down in four places only.
KnownGap ==
    \/ <<call.fn, call.flags>> \in NoSuchSize
    \/ call.fn = "ConvertFToU" /\ call.args[1].type = F64
    \/ call.fn = "FPConvert" /\ call.args[1].type # F16
    \/ call.fn = "Condition" /\ call.flags[1] \notin {"False", "True", "Scc0", "Scc1"}

TypedCallsEmit ==
    emission.thrown # "none" =>
        \/ \E i \in DOMAIN call.args : Params[<<call.fn, call.flags>>][i] = AnyType
        \/ \E i, j \in DOMAIN call.args : call.args[i].type # call.args[j].type
        \/ KnownGap
=============================================================================
