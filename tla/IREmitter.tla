------------------------------- MODULE IREmitter --------------------------------
(***************************************************************************)
(* IREmitter: a function looks at the types of its arguments, throws or    *)
(* chooses an opcode, inserts the instruction in the block and returns its *)
(* result as a value of a static type.  A function that looks at types or  *)
(* sizes is a rule of a table: the masks of its parameters, the positions  *)
(* whose types must agree, the opcode for their type and the mask of its   *)
(* result.  The functions that call others are scripts of calls.           *)
(*                                                                         *)
(* A value is [type, kind, val]: an immediate, the result of an            *)
(* instruction ("inst"), or one the caller holds from elsewhere ("given"). *)
(***************************************************************************)
EXTENDS IrOpcodes, Integers, SequencesExt, Functions

Imm(t, v) == [type |-> t, kind |-> "imm", val |-> v]
Imm32(n) == Imm(U32, n)
Given(t) == [type |-> t, kind |-> "given", val |-> 0]
NoValue == [type |-> Void, kind |-> "imm", val |-> 0]

AnyType == Type
U32U64 == {U32, U64}
F32F64 == {F32, F64}
U32F32 == {U32, F32}
F16F32F64 == {F16, F32, F64}

-----------------------------------------------------------------------------
\* The rules.  The flags are the arguments that are no values: sizes, signs.
Rule(params, same, ops, result) ==
    [params |-> params, same |-> same, ops |-> ops, result |-> result]

\* One opcode, whatever the types.
Always(params, op, result) == Rule(params, {}, Void :> op, result)
\* The opcode has the type of the arguments at same, which is one of types.
ByType(params, same, name, types, result) ==
    Rule(params, same, [t \in types |-> <<name, t>>], result)

Untyped(name) == <<name, Void>>
Single(fn, flags, params, name, result) ==
    <<fn, flags>> :> Always(params, Untyped(name), result)
\* Functions named after their untyped opcode.
Plain(names, params, result) ==
    [k \in {<<n, <<>>>> : n \in names} |-> Always(params, Untyped(k[1]), result)]
Flags(name, flag, Result(_)) == [k \in {<<name, f>> : f \in flag} |-> Result(k[2])]

MarkerRules ==
    Plain({"ConditionRef"}, <<{U1}>>, {U1})
    @@ Plain({"Reference"}, <<AnyType>>, AnyType)
    @@ Plain({"PhiMove"}, <<{Opaque}, AnyType>>, AnyType)
    @@ Plain({"Prologue", "Epilogue", "Barrier", "WorkgroupMemoryBarrier", "DeviceMemoryBarrier"},
             <<>>, AnyType)
    @@ Plain({"EmitVertex", "EndPrimitive"}, <<{U32}>>, AnyType)

\* Mutant: the type of the value is not looked at.
SetRegisterF32(reg, name) ==
    Rule(<<{reg}, U32F32>>, {2}, [t \in Type |-> <<name, F32>>], AnyType)

\* Any type but U32 selects the F32 opcode.
SetRegister(reg, name) ==
    Rule(<<{reg}, U32F32>>, {2}, [t \in Type |-> <<name, IF t = U32 THEN U32 ELSE F32>>], AnyType)

RegisterRules ==
    Flags("GetScalarReg", {<<t>> : t \in U32F32},
          LAMBDA f : Always(<<{ScalarReg}>>, <<"GetScalarRegister", f[1]>>, {f[1]}))
    @@ Flags("GetVectorReg", {<<t>> : t \in U32F32},
             LAMBDA f : Always(<<{VectorReg}>>, <<"GetVectorRegister", f[1]>>, {f[1]}))
    @@ <<"SetScalarReg", <<>>>> :> SetRegister(ScalarReg, "SetScalarRegister")
    @@ <<"SetVectorReg", <<>>>> :> SetRegister(VectorReg, "SetVectorRegister")

FlagRules ==
    Plain({"GetGotoVariable"}, <<{U32}>>, {U1})
    @@ Plain({"SetGotoVariable"}, <<{U32}, {U1}>>, AnyType)
    @@ Plain({"GetScc", "GetVcc"}, <<>>, {U1})
    @@ Plain({"SetScc", "SetVcc"}, <<{U1}>>, AnyType)

AttributeRules ==
    Plain({"GetAttribute"}, <<{Attribute}, {U32}>>, {F32})
    @@ Plain({"GetAttributeU32"}, <<{Attribute}, {U32}>>, {U32})
    @@ Plain({"SetAttribute"}, <<{Attribute}, {F32}, {U32}>>, AnyType)
    @@ Plain({"SetFragColor"}, <<{U32}, {U32}, {F32}>>, AnyType)
    @@ Plain({"SetFragDepth"}, <<{F32}>>, AnyType)

\* ReadShared(bit_size, is_signed, ...): the sign matters below 32 bits.
\* WriteShared's arguments are in the order of the instruction's.
MemoryRules ==
    LET U32Result(fn, flags, name) == Single(fn, flags, <<{U32}>>, name, {U32})
        Const(n, name) == Single("ReadConst", <<n>>, <<{U64}>>, name, AnyType)
        Buffer(n, name) == Single("ReadConstBuffer", <<n>>, <<AnyType, {U32}>>, name, AnyType)
        Write(n, name) == Single("WriteShared", <<n>>, <<{U32}, AnyType>>, name, AnyType)
    IN  U32Result("ReadShared", <<8, 1>>, "ReadSharedS8")
        @@ U32Result("ReadShared", <<8, 0>>, "ReadSharedU8")
        @@ U32Result("ReadShared", <<16, 1>>, "ReadSharedS16")
        @@ U32Result("ReadShared", <<16, 0>>, "ReadSharedU16")
        @@ Flags("ReadShared", {<<32, 0>>, <<32, 1>>},
                 LAMBDA f : Always(<<{U32}>>, Untyped("ReadSharedU32"), {U32}))
        @@ Flags("ReadShared", {<<64, 0>>, <<64, 1>>},
                 LAMBDA f : Always(<<{U32}>>, Untyped("ReadSharedU64"), {U64}))
        @@ Write(8, "WriteSharedU8") @@ Write(16, "WriteSharedU16")
        @@ Write(32, "WriteSharedU32") @@ Write(64, "WriteSharedU64")
        @@ Const(1, "ReadConstU32") @@ Const(2, "ReadConstU64") @@ Const(4, "ReadConstU128")
        @@ Buffer(1, "ReadConstBufferU32") @@ Buffer(2, "ReadConstBufferU64")
        @@ Buffer(4, "ReadConstBufferU128")
        @@ Plain({"WorkgroupId", "LocalInvocationId"}, <<>>, AnyType)
        @@ Plain({"InvocationId", "InvocationInfo"}, <<>>, {U32})

\* Mutant: the third and fourth elements are not compared with the first.
ConstructUnchecked ==
    Flags("CompositeConstruct", {<<2>>, <<3>>, <<4>>},
          LAMBDA f : Rule(Seqs(f[1], AnyType), 1 .. 2,
                          [t \in Element |-> <<"CompositeConstruct", Vec(t, f[1])>>], AnyType))
ConstructRules ==
    Flags("CompositeConstruct", {<<2>>, <<3>>, <<4>>},
          LAMBDA f : Rule(Seqs(f[1], AnyType), 1 .. f[1],
                          [t \in Element |-> <<"CompositeConstruct", Vec(t, f[1])>>], AnyType))

\* An element beyond the vector throws like a value that is no vector; the
\* object that is inserted is not looked at.
ElementRules ==
    LET Wide(e) == {t \in Composite : e < t[2]}
    IN  Flags("CompositeExtract", {<<e>> : e \in 0 .. 3},
              LAMBDA f : ByType(<<AnyType>>, {1}, "CompositeExtract", Wide(f[1]), AnyType))
        @@ Flags("CompositeInsert", {<<e>> : e \in 0 .. 3},
                 LAMBDA f : ByType(<<AnyType, AnyType>>, {1}, "CompositeInsert", Wide(f[1]), AnyType))

SelectRules ==
    <<"Select", <<>>>> :> ByType(<<{U1}, AnyType, AnyType>>, {2, 3}, "Select",
                                 {U1, U8, U16, U32, U64, F32, F64}, AnyType)

\* The vectors to pack are not looked at.
BitCastRules ==
    Plain({"BitCastU32F32"}, <<{F32}>>, {U32}) @@ Plain({"BitCastF32U32"}, <<{U32}>>, {F32})
    @@ Plain({"BitCastU16F16"}, <<{F16}>>, {U16}) @@ Plain({"BitCastF16U16"}, <<{U16}>>, {F16})
    @@ Plain({"BitCastU64F64"}, <<{F64}>>, {U64}) @@ Plain({"BitCastF64U64"}, <<{U64}>>, {F64})
    @@ Plain({"PackUint2x32"}, <<AnyType>>, {U64}) @@ Plain({"UnpackUint2x32"}, <<{U64}>>, AnyType)
    @@ Plain({"PackFloat2x16", "PackHalf2x16"}, <<AnyType>>, {U32})
    @@ Plain({"UnpackFloat2x16", "UnpackHalf2x16"}, <<{U32}>>, AnyType)
    @@ Plain({"PackDouble2x32"}, <<AnyType>>, {F64})
    @@ Plain({"UnpackDouble2x32"}, <<{F64}>>, AnyType)

\* Functions of n arguments of one type, with an opcode for each of types.
SameType(names, n, types, result) ==
    [k \in {<<f, <<>>>> : f \in names} |-> ByType(Seqs(n, types), 1 .. n, k[1], types, result)]

FloatRules ==
    SameType({"FPAbs", "FPNeg", "FPRecip", "FPRecipSqrt"}, 1, F32F64, F32F64)
    @@ SameType({"FPAdd", "FPMul"}, 2, F32F64, F32F64)
    @@ SameType({"FPFma"}, 3, F32F64, F32F64)
    @@ Plain({"FPCos", "FPSin", "FPExp2", "FPLog2", "FPSqrt"}, <<{F32}>>, {F32})

RoundingRules ==
    SameType({"FPSaturate", "FPRoundEven", "FPFloor", "FPCeil", "FPTrunc"}, 1, F32F64, F32F64)
    @@ SameType({"FPClamp"}, 3, F32F64, F32F64)

FloatCompareRules ==
    LET Compare(fn, ord, unord) ==
            Flags(fn, {<<0>>, <<1>>}, LAMBDA f :
                  ByType(<<F32F64, F32F64>>, 1 .. 2, IF f[1] = 1 THEN ord ELSE unord, F32F64, {U1}))
    IN  Compare("FPEqual", "FPOrdEqual", "FPUnordEqual")
        @@ Compare("FPNotEqual", "FPOrdNotEqual", "FPUnordNotEqual")
        @@ Compare("FPLessThan", "FPOrdLessThan", "FPUnordLessThan")
        @@ Compare("FPGreaterThan", "FPOrdGreaterThan", "FPUnordGreaterThan")
        @@ Compare("FPLessThanEqual", "FPOrdLessThanEqual", "FPUnordLessThanEqual")
        @@ Compare("FPGreaterThanEqual", "FPOrdGreaterThanEqual", "FPUnordGreaterThanEqual")

\* Mutant: the result is converted to the type of the argument.
NanOfTheArgument ==
    SameType({"FPIsNan"}, 1, F32F64, F32F64) @@ SameType({"FPMax", "FPMin"}, 2, F32F64, F32F64)
\* Mutant: the case of F64 is missing.
MinMaxOf32 ==
    SameType({"FPIsNan"}, 1, F32F64, {U1})
    @@ [k \in {"FPMax", "FPMin"} \X {<<>>} |->
            ByType(<<F32F64, F32F64>>, 1 .. 2, k[1], {F32}, F32F64)]
MinMaxRules ==
    SameType({"FPIsNan"}, 1, F32F64, {U1}) @@ SameType({"FPMax", "FPMin"}, 2, F32F64, F32F64)

\* Functions of U32 values and their opcodes, by the sign where there is one.
U32Function(fn, flags, n, name, result) == Single(fn, flags, Seqs(n, {U32}), name, {result})

ArithmeticRules ==
    SameType({"IAdd", "ISub"}, 2, U32U64, U32U64)
    @@ SameType({"INeg"}, 1, U32U64, U32U64)
    @@ U32Function("IMul", <<>>, 2, "IMul32", U32) @@ U32Function("IAbs", <<>>, 1, "IAbs32", U32)
    @@ U32Function("IDiv", <<1>>, 2, "SDiv32", U32) @@ U32Function("IDiv", <<0>>, 2, "UDiv32", U32)
    @@ [k \in {"ShiftLeftLogical", "ShiftRightLogical", "ShiftRightArithmetic"} \X {<<>>} |->
            ByType(<<U32U64, {U32}>>, {1}, k[1], U32U64, U32U64)]

BitRules ==
    U32Function("BitwiseAnd", <<>>, 2, "BitwiseAnd32", U32)
    @@ U32Function("BitwiseOr", <<>>, 2, "BitwiseOr32", U32)
    @@ U32Function("BitwiseXor", <<>>, 2, "BitwiseXor32", U32)
    @@ U32Function("BitFieldInsert", <<>>, 4, "BitFieldInsert", U32)
    @@ U32Function("BitFieldExtract", <<1>>, 3, "BitFieldSExtract", U32)
    @@ U32Function("BitFieldExtract", <<0>>, 3, "BitFieldUExtract", U32)
    @@ U32Function("BitReverse", <<>>, 1, "BitReverse32", U32)
    @@ U32Function("BitCount", <<>>, 1, "BitCount32", U32)
    @@ U32Function("BitwiseNot", <<>>, 1, "BitwiseNot32", U32)
    @@ U32Function("FindSMsb", <<>>, 1, "FindSMsb32", U32)
    @@ U32Function("FindUMsb", <<>>, 1, "FindUMsb32", U32)
    @@ U32Function("IMin", <<1>>, 2, "SMin32", U32) @@ U32Function("IMin", <<0>>, 2, "UMin32", U32)
    @@ U32Function("IMax", <<1>>, 2, "SMax32", U32) @@ U32Function("IMax", <<0>>, 2, "UMax32", U32)
    @@ U32Function("SClamp", <<>>, 3, "SClamp32", U32)
    @@ U32Function("UClamp", <<>>, 3, "UClamp32", U32)

\* IEqual of U64 is a script, below.
CompareRules ==
    LET Signed(fn, s, u) == U32Function(fn, <<1>>, 2, s, U1) @@ U32Function(fn, <<0>>, 2, u, U1)
    IN  Signed("ILessThan", "SLessThan", "ULessThan")
        @@ Signed("ILessThanEqual", "SLessThanEqual", "ULessThanEqual")
        @@ Signed("IGreaterThan", "SGreaterThan", "UGreaterThan")
        @@ Signed("IGreaterThanEqual", "SGreaterThanEqual", "UGreaterThanEqual")
        @@ U32Function("INotEqual", <<>>, 2, "INotEqual", U1)
        @@ <<"IEqual", <<>>>> :> Rule(<<U32U64, U32U64>>, 1 .. 2, U32 :> Untyped("IEqual"), {U1})
        @@ Plain({"LogicalOr", "LogicalAnd", "LogicalXor"}, <<{U1}, {U1}>>, {U1})
        @@ Plain({"LogicalNot"}, <<{U1}>>, {U1})

\* By destination size, source size or both; what is missing throws.
ConvertRules ==
    LET ToFloat(fn, d, name, t) == Single(fn, <<d, 32>>, <<AnyType>>, name, {t})
    IN  <<"ConvertFToS", <<32>>>> :>
            Rule(<<F32F64>>, {1}, F32 :> Untyped("ConvertS32F32") @@ F64 :> Untyped("ConvertS32F64"),
                 {U32})
        @@ <<"ConvertFToU", <<32>>>> :> Rule(<<F32F64>>, {1}, F32 :> Untyped("ConvertU32F32"), {U32})
        @@ ToFloat("ConvertSToF", 32, "ConvertF32S32", F32)
        @@ ToFloat("ConvertSToF", 64, "ConvertF64S32", F64)
        @@ ToFloat("ConvertUToF", 32, "ConvertF32U32", F32)
        @@ ToFloat("ConvertUToF", 64, "ConvertF64U32", F64)
        @@ <<"FPConvert", <<32>>>> :>
               Rule(<<F16F32F64>>, {1}, F16 :> Untyped("ConvertF32F16"), {F32})
        @@ Single("ImageQueryDimension", <<>>, <<AnyType, {U32}, {U1}>>, "ImageQueryDimensions", AnyType)

\* Calls that no rule answers: sizes the code throws for.
NoSuchSize ==
    {<<"ReadShared", <<24, 0>>>>, <<"WriteShared", <<24>>>>, <<"ReadConst", <<3>>>>,
     <<"ReadConstBuffer", <<3>>>>, <<"ConvertFToS", <<64>>>>, <<"ConvertFToU", <<64>>>>,
     <<"ConvertSToF", <<32, 64>>>>, <<"ConvertUToF", <<16, 32>>>>, <<"UConvert", <<16>>>>,
     <<"FPConvert", <<16>>>>}

Rules ==
    MarkerRules @@ RegisterRules @@ FlagRules @@ AttributeRules @@ MemoryRules @@ ConstructRules
    @@ ElementRules @@ SelectRules @@ BitCastRules @@ FloatRules @@ RoundingRules
    @@ FloatCompareRules @@ MinMaxRules @@ ArithmeticRules @@ BitRules @@ CompareRules
    @@ ConvertRules

-----------------------------------------------------------------------------
\* An emission: the instructions so far, the exception if one was thrown, and
\* the values of the local variables of the code that calls the emitter.
NoEmission == [code |-> <<>>, thrown |-> "none", env |-> <<>>]

\* PrependNewInst inserts the instruction before it checks the number of
\* arguments; Inst<T> then converts the result to the type T.
Insert(e, op, args, result, out) ==
    LET code == Append(e.code, [op |-> op, args |-> args])
        value == [type |-> TypeOf(op), kind |-> "inst", val |-> Len(code)]
    IN  [code |-> code,
         thrown |-> IF Len(args) # NumArgsOf(op) THEN "Invalid number of arguments"
                    ELSE IF value.type \notin result THEN "Incompatible types"
                    ELSE "none",
         env |-> out :> value @@ e.env]

Throw(e, message) == [e EXCEPT !.thrown = message]

\* The element of CompositeExtract and CompositeInsert is an immediate.
EmittedArgs(fn, flags, args) ==
    IF fn \in {"CompositeExtract", "CompositeInsert"} THEN Append(args, Imm32(flags[1])) ELSE args

\* One function of the table, its result assigned to out.  TypedValue stands
\* for the explicit conversion of a value to a static type; a function without
\* a rule throws whatever its arguments are.
CallRule(e, out, fn, flags, args) ==
    IF fn = "TypedValue"
    THEN IF args[1].type \in Range(flags) THEN [e EXCEPT !.env = out :> args[1] @@ @]
         ELSE Throw(e, "Incompatible types")
    ELSE IF <<fn, flags>> \notin DOMAIN Rules THEN Throw(e, fn)
    ELSE LET rule == Rules[<<fn, flags>>]
             types == {args[i].type : i \in rule.same}
             key == IF rule.same = {} THEN Void ELSE CHOOSE t \in types : TRUE
         IN  IF Cardinality(types) > 1 THEN Throw(e, "Mismatching types")
             ELSE IF key \notin DOMAIN rule.ops THEN Throw(e, "Invalid type")
             ELSE Insert(e, rule.ops[key], EmittedArgs(fn, flags, args), rule.result, out)

\* A script is a sequence of calls; an argument is a value or a local variable.
Call(out, fn, flags, args) == [out |-> out, fn |-> fn, flags |-> flags, args |-> args]
Var(name) == [type |-> Void, kind |-> "var", val |-> name]
Constant(out, value) == Call(out, "TypedValue", <<value.type>>, <<value>>)

Resolve(e, args) ==
    [i \in DOMAIN args |-> IF args[i].kind = "var" THEN e.env[args[i].val] ELSE args[i]]

RunRules(e, script) ==
    FoldLeft(LAMBDA f, c : IF f.thrown # "none" THEN f
                           ELSE CallRule(f, c.out, c.fn, c.flags, Resolve(f, c.args)),
             e, script)

-----------------------------------------------------------------------------
\* The functions that call others; their result is the variable "r".
SameTypes(args) == args[1].type = args[2].type

AbsNegScript(abs, neg, x) ==
    <<Constant("r", x)>>
    \o (IF abs = 1 THEN <<Call("r", "FPAbs", <<>>, <<Var("r")>>)>> ELSE <<>>)
    \o (IF neg = 1 THEN <<Call("r", "FPNeg", <<>>, <<Var("r")>>)>> ELSE <<>>)

\* FPOrdered and FPUnordered throw before they emit anything.
NanScript(fn, args) ==
    IF ~SameTypes(args) THEN <<Call("r", fn, <<>>, args)>>
    ELSE IF fn = "FPUnordered"
    THEN << Call("a", "FPIsNan", <<>>, <<args[1]>>), Call("b", "FPIsNan", <<>>, <<args[2]>>),
            Call("r", "LogicalOr", <<>>, <<Var("a"), Var("b")>>) >>
    ELSE << Call("a", "FPIsNan", <<>>, <<args[1]>>), Call("a", "LogicalNot", <<>>, <<Var("a")>>),
            Call("b", "FPIsNan", <<>>, <<args[2]>>), Call("b", "LogicalNot", <<>>, <<Var("b")>>),
            Call("r", "LogicalAnd", <<>>, <<Var("a"), Var("b")>>) >>

\* IEqual of two U64 compares their halves.
Equal64Script(args) ==
    LET Half(out, v, i) == << Call(out, "CompositeExtract", <<i>>, <<Var(v)>>),
                              Call(out, "TypedValue", <<U32>>, <<Var(out)>>) >>
    IN  << Call("lhs", "UnpackUint2x32", <<>>, <<args[1]>>),
           Call("rhs", "UnpackUint2x32", <<>>, <<args[2]>>) >>
        \o Half("a", "lhs", 0) \o Half("b", "rhs", 0)
        \o <<Call("x", "IEqual", <<>>, <<Var("a"), Var("b")>>)>>
        \o Half("a", "lhs", 1) \o Half("b", "rhs", 1)
        \o <<Call("y", "IEqual", <<>>, <<Var("a"), Var("b")>>),
             Call("r", "LogicalAnd", <<>>, <<Var("x"), Var("y")>>)>>

IdScript(fn, element) ==
    << Call("id", fn, <<>>, <<>>), Call("r", "CompositeExtract", <<element>>, <<Var("id")>>),
       Call("r", "TypedValue", <<U32>>, <<Var("r")>>) >>

\* Condition has no value for the four conditions on VCC and EXEC: control runs
\* off the end of a function that returns U1, which nothing constrains; here it
\* stops with the name of the function.
ConditionScript(cond) ==
    CASE cond = "False" -> <<Constant("r", Imm(U1, 0))>>
      [] cond = "True" -> <<Constant("r", Imm(U1, 1))>>
      [] cond = "Scc0" -> << Call("r", "GetScc", <<>>, <<>>),
                             Call("r", "LogicalNot", <<>>, <<Var("r")>>) >>
      [] cond = "Scc1" -> <<Call("r", "GetScc", <<>>, <<>>)>>
      [] OTHER -> <<Call("r", "Condition", <<cond>>, <<>>)>>

ScriptOf(fn, flags, args) ==
    CASE fn = "FPAbsNeg" -> AbsNegScript(flags[1], flags[2], args[1])
      [] fn \in {"FPOrdered", "FPUnordered"} -> NanScript(fn, args)
      [] fn = "IEqual" /\ args[1].type = U64 /\ SameTypes(args) -> Equal64Script(args)
      [] fn \in {"WorkgroupId", "LocalInvocationId"} /\ flags # <<>> -> IdScript(fn, flags[1])
      [] fn = "Condition" -> ConditionScript(flags[1])
      [] fn = "GetAttribute" /\ Len(args) = 1 -> <<Call("r", fn, <<>>, Append(args, Imm32(0)))>>
      [] OTHER -> <<Call("r", fn, flags, args)>>

\* Any function of the emitter, its result assigned to out.
Emit(e, out, fn, flags, args) ==
    LET f == RunRules([e EXCEPT !.env = <<>>], ScriptOf(fn, flags, args))
    IN  [f EXCEPT !.env = IF f.thrown = "none" THEN out :> f.env["r"] @@ e.env ELSE e.env]

\* What the client of an emitter runs.
RunCall(e, c) ==
    IF e.thrown # "none" THEN e ELSE Emit(e, c.out, c.fn, c.flags, Resolve(e, c.args))
RunScript(e, script) ==
    LET after[n \in 0 .. Len(script)] == IF n = 0 THEN e ELSE RunCall(after[n - 1], script[n])
    IN  after[Len(script)]

-----------------------------------------------------------------------------
\* DumpBlock's check of an argument: its type is the one the table gives.
WellTyped(inst, i) == AreTypesCompatible(inst.args[i].type, ArgTypeOf(inst.op, i))
TypeErrors(code) ==
    {k \in DOMAIN code : \E i \in DOMAIN code[k].args : ~WellTyped(code[k], i)}
=============================================================================
