------------------------------- MODULE IrOpcodes --------------------------------
(***************************************************************************)
(* The table of IR opcodes (opcodes.inc): the type of the result and of    *)
(* each argument.  A type is <<base, width>>, U32x3 being <<"U32", 3>>; an *)
(* opcode is <<name, type>>, FPAdd64 being <<"FPAdd", F64>> and an opcode  *)
(* with no type in its name having the type Void.                          *)
(***************************************************************************)
EXTENDS Naturals, Sequences, FiniteSets, TLC

Void == <<"Void", 1>>
Opaque == <<"Opaque", 1>>
ScalarReg == <<"ScalarReg", 1>>
VectorReg == <<"VectorReg", 1>>
Attribute == <<"Attribute", 1>>
U1 == <<"U1", 1>>
U8 == <<"U8", 1>>
U16 == <<"U16", 1>>
U32 == <<"U32", 1>>
U64 == <<"U64", 1>>
F16 == <<"F16", 1>>
F32 == <<"F32", 1>>
F64 == <<"F64", 1>>
Vec(t, n) == <<t[1], n>>

Element == {U32, F16, F32, F64}     \* what a composite is made of
Composite == {Vec(t, n) : t \in Element, n \in 2 .. 4}
ValueType == {U1, U8, U16, U32, U64, F16, F32, F64} \cup Composite
Type == ValueType \cup {Void, Opaque, ScalarReg, VectorReg, Attribute}

Seqs(n, t) == [i \in 1 .. n |-> t]

\* Rows of the table: every name with every type, and one untyped name.
Rows(names, types, Result(_), Args(_)) ==
    [op \in names \X types |-> [type |-> Result(op[2]), args |-> Args(op[2])]]
Row(name, result, args) == <<name, Void>> :> [type |-> result, args |-> args]
Named(names, result, args) ==
    [op \in names \X {Void} |-> [type |-> result, args |-> args]]

SpecialOpcodes ==
    Named({"Void", "Prologue", "Epilogue", "Join", "Barrier", "WorkgroupMemoryBarrier",
           "DeviceMemoryBarrier"}, Void, <<>>)
    @@ Row("Phi", Opaque, <<>>)
    @@ Row("Identity", Opaque, <<Opaque>>)
    @@ Row("ConditionRef", U1, <<U1>>)
    @@ Row("Reference", Void, <<Opaque>>)
    @@ Row("PhiMove", Void, <<Opaque, Opaque>>)
    @@ Named({"EmitVertex", "EndPrimitive"}, Void, <<U32>>)

MemoryOpcodes ==
    Named({"ReadSharedU8", "ReadSharedS8", "ReadSharedU16", "ReadSharedS16", "ReadSharedU32"},
          U32, <<U32>>)
    @@ Row("ReadSharedU64", U64, <<U32>>)
    @@ Named({"WriteSharedU8", "WriteSharedU16", "WriteSharedU32"}, Void, <<U32, U32>>)
    @@ Row("WriteSharedU64", Void, <<U32, U64>>)
    @@ Row("ReadConstU32", U32, <<U64>>)
    @@ Row("ReadConstU64", Vec(U32, 2), <<U64>>)
    @@ Row("ReadConstU128", Vec(U32, 4), <<U64>>)
    @@ Row("ReadConstBufferU32", U32, <<Opaque, U32>>)
    @@ Row("ReadConstBufferU64", Vec(U32, 2), <<Opaque, U32>>)
    @@ Row("ReadConstBufferU128", Vec(U32, 4), <<Opaque, U32>>)

ContextOpcodes ==
    Rows({"GetScalarRegister"}, {U32, F32}, LAMBDA t : t, LAMBDA t : <<ScalarReg>>)
    @@ Rows({"GetVectorRegister"}, {U32, F32}, LAMBDA t : t, LAMBDA t : <<VectorReg>>)
    @@ Rows({"SetScalarRegister"}, {U32, F32}, LAMBDA t : Void, LAMBDA t : <<ScalarReg, t>>)
    @@ Rows({"SetVectorRegister"}, {U32, F32}, LAMBDA t : Void, LAMBDA t : <<VectorReg, t>>)
    @@ Row("GetGotoVariable", U1, <<U32>>)
    @@ Row("SetGotoVariable", Void, <<U32, U1>>)
    @@ Row("GetAttribute", F32, <<Attribute, U32>>)
    @@ Row("GetAttributeU32", U32, <<Attribute, U32>>)
    @@ Row("SetAttribute", Void, <<Attribute, F32, U32>>)
    @@ Row("SetFragColor", Void, <<U32, U32, F32>>)
    @@ Row("SetFragDepth", Void, <<F32>>)
    @@ Named({"WorkgroupId", "LocalInvocationId"}, Vec(U32, 3), <<>>)
    @@ Named({"InvocationId", "InvocationInfo"}, U32, <<>>)
    @@ Named({"GetScc", "GetVcc"}, U1, <<>>)
    @@ Named({"SetScc", "SetVcc"}, Void, <<U1>>)
    @@ Rows({"Undef"}, {U1, U8, U16, U32, U64}, LAMBDA t : t, LAMBDA t : <<>>)

VectorOpcodes ==
    Rows({"CompositeConstruct"}, Composite, LAMBDA t : t, LAMBDA t : Seqs(t[2], Vec(t, 1)))
    @@ Rows({"CompositeExtract"}, Composite, LAMBDA t : Vec(t, 1), LAMBDA t : <<t, U32>>)
    @@ Rows({"CompositeInsert"}, Composite, LAMBDA t : t, LAMBDA t : <<t, Vec(t, 1), U32>>)

ConversionOpcodes ==
    Rows({"Select"}, {U1, U8, U16, U32, U64, F32, F64}, LAMBDA t : t, LAMBDA t : <<U1, t, t>>)
    @@ Row("BitCastU16F16", U16, <<F16>>) @@ Row("BitCastF16U16", F16, <<U16>>)
    @@ Row("BitCastU32F32", U32, <<F32>>) @@ Row("BitCastF32U32", F32, <<U32>>)
    @@ Row("BitCastU64F64", U64, <<F64>>) @@ Row("BitCastF64U64", F64, <<U64>>)
    @@ Row("PackUint2x32", U64, <<Vec(U32, 2)>>) @@ Row("UnpackUint2x32", Vec(U32, 2), <<U64>>)
    @@ Row("PackFloat2x16", U32, <<Vec(F16, 2)>>) @@ Row("UnpackFloat2x16", Vec(F16, 2), <<U32>>)
    @@ Row("PackHalf2x16", U32, <<Vec(F32, 2)>>) @@ Row("UnpackHalf2x16", Vec(F32, 2), <<U32>>)
    @@ Row("PackDouble2x32", F64, <<Vec(U32, 2)>>) @@ Row("UnpackDouble2x32", Vec(U32, 2), <<F64>>)

FloatCompares ==
    {"FPOrdEqual", "FPUnordEqual", "FPOrdNotEqual", "FPUnordNotEqual", "FPOrdLessThan",
     "FPUnordLessThan", "FPOrdGreaterThan", "FPUnordGreaterThan", "FPOrdLessThanEqual",
     "FPUnordLessThanEqual", "FPOrdGreaterThanEqual", "FPUnordGreaterThanEqual"}

FloatOpcodes ==
    LET Float(names, n) == Rows(names, {F32, F64}, LAMBDA t : t, LAMBDA t : Seqs(n, t))
    IN  Float({"FPAbs", "FPNeg", "FPRecip", "FPRecipSqrt", "FPSaturate", "FPRoundEven", "FPFloor",
               "FPCeil", "FPTrunc"}, 1)
        @@ Float({"FPAdd", "FPMax", "FPMin", "FPMul"}, 2)
        @@ Float({"FPFma", "FPClamp"}, 3)
        @@ Named({"FPSqrt", "FPSin", "FPExp2", "FPCos", "FPLog2"}, F32, <<F32>>)
        @@ Rows(FloatCompares, {F32, F64}, LAMBDA t : U1, LAMBDA t : <<t, t>>)
        @@ Rows({"FPIsNan"}, {F32, F64}, LAMBDA t : U1, LAMBDA t : <<t>>)

IntegerOpcodes ==
    Rows({"IAdd", "ISub"}, {U32, U64}, LAMBDA t : t, LAMBDA t : <<t, t>>)
    @@ Rows({"INeg"}, {U32, U64}, LAMBDA t : t, LAMBDA t : <<t>>)
    @@ Rows({"ShiftLeftLogical", "ShiftRightLogical", "ShiftRightArithmetic"}, {U32, U64},
            LAMBDA t : t, LAMBDA t : <<t, U32>>)
    @@ Named({"IAbs32", "BitReverse32", "BitCount32", "BitwiseNot32", "FindSMsb32", "FindUMsb32"},
             U32, <<U32>>)
    @@ Named({"IMul32", "SDiv32", "UDiv32", "BitwiseAnd32", "BitwiseOr32", "BitwiseXor32",
              "SMin32", "UMin32", "SMax32", "UMax32"}, U32, <<U32, U32>>)
    @@ Named({"BitFieldSExtract", "BitFieldUExtract", "SClamp32", "UClamp32"}, U32, Seqs(3, U32))
    @@ Row("BitFieldInsert", U32, Seqs(4, U32))
    @@ Named({"SLessThan", "ULessThan", "IEqual", "SLessThanEqual", "ULessThanEqual",
              "SGreaterThan", "UGreaterThan", "INotEqual", "SGreaterThanEqual",
              "UGreaterThanEqual"}, U1, <<U32, U32>>)

LogicalOpcodes ==
    Named({"LogicalOr", "LogicalAnd", "LogicalXor"}, U1, <<U1, U1>>)
    @@ Row("LogicalNot", U1, <<U1>>)
    @@ Named({"ConvertS32F32", "ConvertU32F32"}, U32, <<F32>>) @@ Row("ConvertS32F64", U32, <<F64>>)
    @@ Row("ConvertF16F32", F16, <<F32>>) @@ Row("ConvertF32F16", F32, <<F16>>)
    @@ Row("ConvertF32F64", F32, <<F64>>) @@ Row("ConvertF64F32", F64, <<F32>>)
    @@ Named({"ConvertF32S32", "ConvertF32U32"}, F32, <<U32>>)
    @@ Named({"ConvertF64S32", "ConvertF64U32"}, F64, <<U32>>)
    @@ Named({"ImageSampleImplicitLod", "ImageSampleExplicitLod", "ImageGather"},
             Vec(F32, 4), Seqs(4, Opaque))
    @@ Row("ImageFetch", Vec(F32, 4), <<Opaque, Opaque, Opaque, U32, Opaque>>)
    @@ Row("ImageQueryDimensions", Vec(U32, 4), <<Opaque, U32, U1>>)
    @@ Row("ImageQueryLod", Vec(F32, 4), <<Opaque, Opaque>>)
    @@ Row("ImageGradient", Vec(F32, 4), Seqs(5, Opaque))
    @@ Row("ImageRead", Vec(U32, 4), <<Opaque, Opaque>>)
    @@ Row("ImageWrite", Void, <<Opaque, Opaque, Vec(U32, 4)>>)

META_TABLE ==
    SpecialOpcodes @@ MemoryOpcodes @@ ContextOpcodes @@ VectorOpcodes @@ ConversionOpcodes
    @@ FloatOpcodes @@ IntegerOpcodes @@ LogicalOpcodes

TypeOf(op) == META_TABLE[op].type
NumArgsOf(op) == Len(META_TABLE[op].args)
ArgTypeOf(op, i) == META_TABLE[op].args[i]

AreTypesCompatible(lhs, rhs) == lhs = rhs \/ Opaque \in {lhs, rhs}
=============================================================================
