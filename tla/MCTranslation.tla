----------------------------- MODULE MCTranslation -----------------------------
(***************************************************************************)
(* Instances of Translation: instructions with operands the decoder makes, *)
(* in the first registers, which the block clears, in others and at the    *)
(* end of the files; sources and destinations that overlap.  Next to it,   *)
(* every call of the emitter.                                              *)
(***************************************************************************)
EXTENDS Translation, EmitterCalls

S(code) == [field |-> "ScalarGPR", type |-> "Sint32", code |-> code]
V(code) == [field |-> "VectorGPR", type |-> "Uint32", code |-> code]
Float(operand) == [operand EXCEPT !.type = "Float32"]
Special(field, code) == [field |-> field, type |-> "Uint32", code |-> code]
Zero == Special("ConstZero", 128)
Constants ==
    {Zero, Special("SignedConstIntPos", 132), Special("SignedConstIntNeg", 193),
     Special("LiteralConst", 7)}
VccLo == Special("VccLo", 106)
VccHi == Special("VccHi", 107)

Inst(opcode, src, dst) ==
    [opcode |-> opcode, src |-> src, dst |-> dst, smrd |-> [imm |-> FALSE, offset |-> 0],
     ds |-> [offset0 |-> 1, offset1 |-> 3], dmask |-> {}, size |-> 0, sign |-> 0,
     pair |-> FALSE, cond |-> "none", exp |-> [target |-> 0, compr |-> FALSE, en |-> {}]]

Moves ==
    {Inst("S_MOV_B32", <<s>>, <<d>>) : s \in {S(2), S(18)} \cup Constants, d \in {S(16), VccHi}}
    \cup {Inst("S_MOV_B32", <<VccLo>>, <<S(3)>>)}
    \cup {Inst("V_MOV_B32", <<s>>, <<d>>) : s \in {V(1), V(255), S(16), Zero}, d \in {V(2), V(20)}}
Arithmetic ==
    {Inst("S_MUL_I32", <<S(16), s>>, <<S(16)>>) : s \in {S(2), Special("SignedConstIntNeg", 193)}}
    \cup {Inst("V_MAC_F32", <<Float(s), Float(V(20))>>, <<Float(d)>>) :
            s \in {V(2), S(16), Zero}, d \in {V(2), V(20)}}
Scalar(inst, smrd) == [inst EXCEPT !.smrd = smrd]
Offsets == {[imm |-> i, offset |-> o] : i \in BOOLEAN, o \in {0, 18}}
Loads ==
    {[Scalar(Inst("S_BUFFER_LOAD_DWORDX16", <<S(b)>>, <<S(d)>>), o) EXCEPT !.size = 16] :
        b \in {0, 8, 50, 51}, d \in {8, 88, 89}, o \in Offsets}
Exports ==
    {[Inst("EXP", <<Float(V(1)), Float(V(2)), Float(V(2)), Float(V(20))>>, <<>>)
        EXCEPT !.exp = [target |-> t, compr |-> c, en |-> e]] :
        t \in {0, 12}, c \in BOOLEAN, e \in {{}, {0, 1}, {2, 3}, 0 .. 3}}
Ignored == {Inst("S_WAITCNT", <<>>, <<>>), Inst("S_NOP", <<>>, <<>>)}

MCInstructions == Moves \cup Arithmetic \cup Loads \cup Exports \cup Ignored

Comparisons ==
    {[Inst("S_CMP", <<S(2), s>>, <<>>) EXCEPT !.cond = c, !.sign = g] :
        s \in {S(3), Zero}, c \in {"EQ", "LG", "GT", "GE", "LT", "LE"}, g \in 0 .. 1}
ScalarLoads ==
    {[Scalar(Inst(op, <<S(b)>>, <<S(d)>>), o) EXCEPT !.size = n] :
        op \in {"S_LOAD_DWORD", "S_BUFFER_LOAD_DWORD"}, b \in {0, 50, 51, 52}, d \in {0, 100, 101},
        o \in Offsets, n \in {1, 2, 4, 8}}
Shared(inst) ==
    {[inst EXCEPT !.size = n, !.sign = g, !.pair = p] :
        n \in {8, 16, 32, 64}, g \in 0 .. 1, p \in BOOLEAN}
SharedMemory ==
    UNION {Shared(Inst("DS_READ", <<V(7)>>, <<V(d)>>)) : d \in {7, 253, 254, 255}}
    \cup UNION {Shared(Inst("DS_WRITE", <<V(7), V(d), V(3)>>, <<>>)) : d \in {7, 253, 254}}
ImageSizes ==
    {[Inst("IMAGE_GET_RESINFO", <<V(7), V(d), S(t)>>, <<>>) EXCEPT !.dmask = m] :
        d \in {7, 251, 252, 254}, t \in {4, 100, 101}, m \in SUBSET (0 .. 3)}
MCOtherInstructions ==
    Comparisons \cup ScalarLoads \cup SharedMemory \cup ImageSizes
    \cup {Inst("V_SAD", <<V(1), V(2), V(20)>>, <<V(2)>>)}

\* A block is translated, or one call of the emitter is made.
MCInit == TranslationInit /\ EmitterInit
MCNext ==
    \/ call = NoCall /\ Translate /\ UNCHANGED callVars
    \/ block = NoEmission /\ (\E key \in DOMAIN Params : CallEmitter(key))
                          /\ UNCHANGED translationVars
MCSpec == MCInit /\ [][MCNext]_<<translationVars, callVars>>
=============================================================================
