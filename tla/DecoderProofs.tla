---------------------------- MODULE DecoderProofs ----------------------------
(***************************************************************************)
(* The decoder, for every set of programs: the lengths it gives to the     *)
(* instructions are exactly the words it has moved over, and it never      *)
(* moves beyond the code.  The CFG constructor adds these lengths up to    *)
(* find addresses.  The first part shows what one more instruction adds to *)
(* a sum that is computed by recursion; the second is the invariant.       *)
(***************************************************************************)
EXTENDS Decoder, TLAPS, WellFoundedInduction, SequenceTheorems

-----------------------------------------------------------------------------
(* Sums of lengths                                                         *)

\* A set of numbers that is not empty has a least one.
LEMMA NatMin ==
    ASSUME NEW S, S \subseteq Nat, S # {}
    PROVE  \E m \in S : \A k \in S : m <= k
<1> DEFINE R == OpToRel(<, Nat)
<1>1. IsWellFoundedOn(R, Nat)
  BY NatLessThanWellFounded
<1>2. \A x, y \in Nat : x < y => <<x, y>> \in R
  BY DEF OpToRel
<1>3. PICK m \in S : \A k \in S : ~(<<k, m>> \in R)
  <2> HIDE DEF R
  <2> QED BY <1>1, WFMin
<1>4. \A k \in S : ~(k < m)
  BY <1>2, <1>3
<1>5. \A k \in S : m <= k
  BY <1>4
<1> QED BY <1>5

\* f adds up the lengths of the first n instructions of a list.
Sums(f, list, n) ==
    /\ f \in [0 .. n -> Nat]
    /\ f[0] = 0
    /\ \A k \in 1 .. n : f[k] = f[k - 1] + list[k].length

\* A list of instructions with lengths.
Sized(list) ==
    /\ Len(list) \in Nat
    /\ \A n \in 1 .. Len(list) : list[n].length \in Nat

\* There are such sums, one turn at a time.
LEMMA SumsExist ==
    ASSUME NEW list, Sized(list), NEW n \in 0 .. Len(list)
    PROVE  \E f : Sums(f, list, n)
<1> DEFINE Missing == {m \in 0 .. Len(list) : ~ \E f : Sums(f, list, m)}
<1>0. Len(list) \in Nat
  BY DEF Sized
<1> SUFFICES ASSUME Missing # {} PROVE FALSE
  OBVIOUS
<1>1. PICK m \in Missing : \A k \in Missing : m <= k
  <2>1. Missing \subseteq Nat
    BY <1>0
  <2> HIDE DEF Missing
  <2> QED BY <2>1, NatMin
<1>2. m # 0
  <2>1. Sums([k \in 0 .. 0 |-> 0], list, 0)
    BY DEF Sums
  <2> QED BY <2>1
<1>3. m - 1 \in 0 .. Len(list) /\ m \in 1 .. Len(list) /\ ~(m <= m - 1)
  BY <1>0, <1>2
<1>4. PICK f : Sums(f, list, m - 1)
  BY <1>1, <1>3
<1>5. f[m - 1] \in Nat /\ list[m].length \in Nat
  BY <1>3, <1>4 DEF Sums, Sized
<1> DEFINE g == [k \in 0 .. m |-> IF k = m THEN f[m - 1] + list[m].length ELSE f[k]]
<1>6. g \in [0 .. m -> Nat] /\ g[0] = 0
  BY <1>3, <1>4, <1>5 DEF Sums
<1>7. g[m] = f[m - 1] + list[m].length /\ \A k \in 0 .. m - 1 : g[k] = f[k]
  BY <1>3
<1>8. ASSUME NEW k \in 1 .. m
      PROVE  g[k] = g[k - 1] + list[k].length
  <2> HIDE DEF g
  <2>1. CASE k = m
    BY <2>1, <1>3, <1>7
  <2>2. CASE k # m
    <3>1. k \in 1 .. m - 1 /\ k \in 0 .. m - 1 /\ k - 1 \in 0 .. m - 1
      BY <2>2, <1>3
    <3> QED BY <3>1, <1>4, <1>7 DEF Sums
  <2> QED BY <2>1, <2>2
<1>9. Sums(g, list, m)
  <2> HIDE DEF g
  <2> QED BY <1>6, <1>8 DEF Sums
<1> QED BY <1>9

\* TotalLength is the last of the sums: the equation of its recursive function
\* has a solution, so it holds of the one that is chosen.
LEMMA TotalIsASum ==
    ASSUME NEW list, Sized(list)
    PROVE  \E f : Sums(f, list, Len(list)) /\ TotalLength(list) = f[Len(list)]
<1> DEFINE N == Len(list)
           Solves(f) == f = [k \in 0 .. Len(list) |->
                                IF k = 0 THEN 0 ELSE f[k - 1] + list[k].length]
<1>0. N \in Nat /\ N \in 0 .. N
  BY DEF Sized
<1>1. PICK f : Sums(f, list, N)
  BY <1>0, SumsExist
<1>2. Solves(f)
  <2>1. f = [k \in 0 .. N |-> f[k]]
    BY <1>1 DEF Sums
  <2>2. \A k \in 0 .. N : f[k] = IF k = 0 THEN 0 ELSE f[k - 1] + list[k].length
    BY <1>0, <1>1 DEF Sums
  <2> QED BY <2>1, <2>2
<1> DEFINE r == CHOOSE g : Solves(g)
<1>3. TotalLength(list) = r[N]
  BY DEF TotalLength
<1>4. Solves(r)
  <2> HIDE DEF Solves
  <2> QED BY <1>2
<1> HIDE DEF r
<1>a. /\ r = [k \in 0 .. N |-> r[k]]
      /\ \A k \in 0 .. N : r[k] = IF k = 0 THEN 0 ELSE r[k - 1] + list[k].length
  BY <1>4
<1>b. r[0] = 0 /\ \A k \in 1 .. N : r[k] = r[k - 1] + list[k].length
  <2>1. \A k \in 1 .. N : k \in 0 .. N /\ k # 0
    BY <1>0
  <2> QED BY <1>0, <1>a, <2>1
<1> HIDE DEF Solves, N
<1>5. r = f
  <2>1. \A k \in 0 .. N : r[k] = f[k]
    <3> DEFINE Odd == {k \in 0 .. N : r[k] # f[k]}
    <3> SUFFICES ASSUME Odd # {} PROVE FALSE
      OBVIOUS
    <3>1. PICK k \in Odd : \A j \in Odd : k <= j
      <4>1. Odd \subseteq Nat
        BY <1>0
      <4> HIDE DEF Odd
      <4> QED BY <4>1, NatMin
    <3>2. r[0] = 0 /\ f[0] = 0
      BY <1>1, <1>b DEF Sums
    <3>3. k \in 1 .. N /\ k - 1 \in 0 .. N /\ ~(k <= k - 1)
      BY <1>0, <3>2
    <3>4. r[k - 1] = f[k - 1]
      BY <3>1, <3>3
    <3>5. r[k] = r[k - 1] + list[k].length
      BY <1>b, <3>3
    <3>6. f[k] = f[k - 1] + list[k].length
      BY <1>1, <3>3 DEF Sums
    <3> QED BY <3>4, <3>5, <3>6
  <2>2. r = [k \in 0 .. N |-> r[k]]
    BY <1>a
  <2>3. f = [k \in 0 .. N |-> f[k]]
    BY <1>1 DEF Sums
  <2> QED BY <2>1, <2>2, <2>3
<1> QED BY <1>1, <1>3, <1>5 DEF N

\* An instruction more adds its length.
LEMMA OneMore ==
    ASSUME NEW S, NEW list \in Seq(S), Sized(list), NEW inst \in S, inst.length \in Nat
    PROVE  /\ Sized(Append(list, inst))
           /\ TotalLength(Append(list, inst)) = TotalLength(list) + inst.length
<1> DEFINE longer == Append(list, inst)
           N == Len(list)
<1>1. /\ Len(longer) = N + 1 /\ N \in Nat
      /\ longer[N + 1] = inst
      /\ \A n \in 1 .. N : longer[n] = list[n]
  BY AppendProperties, LenProperties
<1> HIDE DEF longer, N
<1>2. \A n \in 1 .. N : list[n].length \in Nat
  BY DEF Sized, N
<1>3. Sized(longer)
  <2>1. \A n \in 1 .. N + 1 : n = N + 1 \/ n \in 1 .. N
    BY <1>1
  <2> QED BY <1>1, <1>2, <2>1 DEF Sized
<1>4. PICK f : Sums(f, list, N) /\ TotalLength(list) = f[N]
  BY TotalIsASum DEF N
<1>5. PICK g : Sums(g, longer, N + 1) /\ TotalLength(longer) = g[N + 1]
  BY <1>1, <1>3, TotalIsASum
<1>6. \A k \in 0 .. N : g[k] = f[k]
  <2> DEFINE Odd == {k \in 0 .. N : g[k] # f[k]}
  <2> SUFFICES ASSUME Odd # {} PROVE FALSE
    OBVIOUS
  <2>1. PICK k \in Odd : \A j \in Odd : k <= j
    <3>1. Odd \subseteq Nat
      BY <1>1
    <3> HIDE DEF Odd
    <3> QED BY <3>1, NatMin
  <2>2. k \in 1 .. N /\ k \in 1 .. N + 1 /\ k - 1 \in 0 .. N /\ ~(k <= k - 1)
    BY <1>1, <1>4, <1>5 DEF Sums
  <2>3. g[k - 1] = f[k - 1]
    BY <2>1, <2>2
  <2>4. g[k] = g[k - 1] + longer[k].length
    BY <1>5, <2>2 DEF Sums
  <2>5. f[k] = f[k - 1] + list[k].length
    BY <1>4, <2>2 DEF Sums
  <2> QED BY <1>1, <2>2, <2>3, <2>4, <2>5
<1>7. g[N + 1] = g[N] + inst.length
  <2>1. N + 1 \in 1 .. N + 1 /\ (N + 1) - 1 = N
    BY <1>1
  <2> QED BY <1>1, <1>5, <2>1 DEF Sums
<1>8. N \in 0 .. N
  BY <1>1
<1> QED BY <1>3, <1>4, <1>5, <1>6, <1>7, <1>8 DEF longer

-----------------------------------------------------------------------------
(* The invariant                                                           *)

\* Besides the sum: the code is a sequence of words, and what is decoded a
\* sequence of instructions that have lengths.
IInv ==
    /\ Len(program.code) \in Nat
    /\ m_ptr \in Nat
    /\ insList \in Seq({insList[n] : n \in DOMAIN insList})
    /\ Sized(insList)
    /\ LengthsAreAddresses

\* What a step adds to the list, and the sum with it.
LEMMA Grows ==
    ASSUME IInv, NEW inst, NEW words \in Nat, inst.length = 4 * words,
           insList' = Append(insList, inst), m_ptr' = m_ptr + words,
           m_ptr + words <= Len(program.code), program' = program
    PROVE  IInv'
<1> DEFINE S == {insList[n] : n \in DOMAIN insList}
           T == S \cup {inst}
<1>1. /\ Len(program.code) \in Nat /\ m_ptr \in Nat
      /\ insList \in Seq(S) /\ Sized(insList)
      /\ TotalLength(insList) = 4 * m_ptr
  BY DEF IInv, LengthsAreAddresses
<1>2. insList \in Seq(T) /\ inst \in T
  <2> HIDE DEF S
  <2> QED BY <1>1
<1> HIDE DEF T
<1>3. inst.length \in Nat
  OBVIOUS
<1>4. /\ Sized(insList')
      /\ TotalLength(insList') = 4 * m_ptr + 4 * words
  BY <1>1, <1>2, <1>3, OneMore
<1>5. insList' \in Seq({insList'[n] : n \in DOMAIN insList'})
  <2>1. insList' \in Seq(T)
    BY <1>2, AppendProperties
  <2>2. insList' \in [1 .. Len(insList') -> T] /\ Len(insList') \in Nat
    BY <2>1, LenProperties
  <2> DEFINE U == {insList'[n] : n \in DOMAIN insList'}
  <2>3. \A n \in 1 .. Len(insList') : insList'[n] \in U
    BY <2>2
  <2> HIDE DEF U
  <2>4. insList' \in [1 .. Len(insList') -> U]
    BY <2>2, <2>3
  <2>5. insList' \in Seq(U)
    BY <2>2, <2>4, SeqDef
  <2> QED BY <2>5 DEF U
<1>6. m_ptr' \in Nat /\ 4 * m_ptr + 4 * words = 4 * m_ptr'
  BY <1>1
<1>7. LengthsAreAddresses'
  BY <1>4, <1>6 DEF LengthsAreAddresses
<1> QED BY <1>1, <1>4, <1>5, <1>6, <1>7 DEF IInv

LEMMA InitialInvariant == Init => IInv
<1> SUFFICES ASSUME Init PROVE IInv
  OBVIOUS
<1>1. program \in Programs /\ m_ptr = 0 /\ insList = <<>>
  BY DEF Init
<1>2. Len(program.code) \in Nat
  BY <1>1, ProgramsAssumption, LenProperties
<1>3. /\ Len(insList) = 0
      /\ insList \in Seq({insList[n] : n \in DOMAIN insList})
  BY <1>1
<1>4. Sized(insList)
  BY <1>3 DEF Sized
<1>5. TotalLength(insList) = 0
  BY <1>3, <1>4, TotalIsASum DEF Sums
<1> QED BY <1>1, <1>2, <1>3, <1>4, <1>5 DEF IInv, LengthsAreAddresses

\* An instruction of 64 bits moves the slice two words, any other one.
LEMMA DecodeGrows == IInv /\ Decode => IInv'
<1> SUFFICES ASSUME IInv, Decode PROVE IInv'
  OBVIOUS
<1> DEFINE words == EncodingLength(Encoding) \div 4
<1>1. words \in Nat /\ EncodingLength(Encoding) = 4 * words
  BY DEF EncodingLength
<1>2. Inst.length = EncodingLength(Encoding)
  BY DEF Inst, DecodeInstruction
<1>3. /\ insList' = Append(insList, Inst)
      /\ m_ptr' = m_ptr + words
      /\ program' = program
      /\ EncodingLength(Encoding) <= 4 * Left
  BY DEF Decode, KnownInstruction, WholeInstruction
<1> HIDE DEF words
<1>4. m_ptr + words <= Len(program.code)
  BY <1>1, <1>3 DEF Left, IInv
<1> QED BY <1>1, <1>2, <1>3, <1>4, Grows

\* Only an instruction of one word has a literal, and the literal is one word:
\* two words and a length of eight bytes.
LEMMA LiteralGrows == IInv /\ DecodeWithLiteral => IInv'
<1> SUFFICES ASSUME IInv, DecodeWithLiteral PROVE IInv'
  OBVIOUS
<1> DEFINE inst == ReadLiteral(Inst, program.code[m_ptr + 2])
<1>1. Inst.encoding = Encoding /\ Inst.length = EncodingLength(Encoding)
  BY DEF Inst, DecodeInstruction
<1>2. LiteralOperand(Inst) # 0
  BY DEF DecodeWithLiteral
<1>3. EncodingLength(Encoding) = 4
  <2>1. ASSUME Inst.encoding \in Encodings64
        PROVE  LiteralOperand(Inst) = 0
    <3>1. ~ HasAdditionalLiteral(Inst.encoding, Inst.opcode)
      BY <2>1 DEF HasAdditionalLiteral, Encodings64
    <3> QED BY <2>1, <3>1, Zenon DEF LiteralOperand
  <2> QED BY <1>1, <1>2, <2>1 DEF EncodingLength
<1>4. inst.length = Inst.length + 4
  <2>1. "length" \in DOMAIN Inst
    BY DEF Inst, DecodeInstruction
  <2> QED BY <2>1 DEF ReadLiteral
<1>5. inst.length = 4 * 2
  BY <1>1, <1>3, <1>4
<1>6. /\ insList' = Append(insList, inst)
      /\ m_ptr' = m_ptr + 2
      /\ program' = program
      /\ Left > 1
  BY DEF DecodeWithLiteral
<1> HIDE DEF inst
<1>7. m_ptr + 2 <= Len(program.code)
  BY <1>6 DEF Left, IInv
<1> QED BY <1>5, <1>6, <1>7, Grows

\* Every other step leaves the slice and the list alone.
LEMMA NextInvariant == IInv /\ [Next]_vars => IInv'
<1> SUFFICES ASSUME IInv, [Next]_vars PROVE IInv'
  OBVIOUS
<1>1. CASE Decode
  BY <1>1, DecodeGrows
<1>2. CASE DecodeWithLiteral
  BY <1>2, LiteralGrows
<1>3. CASE UNCHANGED <<program, m_ptr, insList>>
  BY <1>3 DEF IInv, LengthsAreAddresses
<1>4. CASE \/ IllegalEncoding \/ TruncatedInstruction \/ ReservedOpcode \/ IncompleteFormat
           \/ TruncatedLiteral \/ AtEnd \/ Terminated
  BY <1>3, <1>4 DEF IllegalEncoding, TruncatedInstruction, ReservedOpcode, IncompleteFormat,
                    TruncatedLiteral, AtEnd, Terminated, Stop, vars
<1>5. CASE UNCHANGED vars
  BY <1>3, <1>5 DEF vars
<1> QED BY <1>1, <1>2, <1>4, <1>5 DEF Next

\* The invariant, whatever programs are decoded.
THEOREM Inductive == Spec => []IInv
<1> QED BY InitialInvariant, NextInvariant, PTL DEF Spec

\* The lengths decodeInstruction and decodeLiteralConstant give the instructions
\* add up to the words the slice has moved over, for every set of programs: the
\* sums of EmitLabels are the addresses of the instructions.
THEOREM LengthsAdd == Spec => []LengthsAreAddresses
<1>1. IInv => LengthsAreAddresses
  BY DEF IInv
<1> QED BY <1>1, Inductive, PTL
=============================================================================
