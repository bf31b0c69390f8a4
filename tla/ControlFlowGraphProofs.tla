----------------------- MODULE ControlFlowGraphProofs -----------------------
(***************************************************************************)
(* The constructor of CFG, for every set of compiled programs: its blocks  *)
(* are ranges of instructions that control enters at the first and leaves  *)
(* at the last, its links are the successors the machine has, what it      *)
(* returns is a graph the goto pass is made for, and get_block's assertion *)
(* cannot fail in a program that ends with s_endpgm.                       *)
(*                                                                         *)
(* The first part is arithmetic: addresses of instructions, what an s16    *)
(* branch offset reaches, labels and their order.  The second is the       *)
(* inductive invariant, one conjunct per loop of the constructor, and one  *)
(* lemma per action; the third reads the properties off the invariant.     *)
(* Induction over the program is by least counterexamples (NatMin).        *)
(***************************************************************************)
EXTENDS ControlFlowGraph, TLAPS, WellFoundedInduction, SequenceTheorems,
        FiniteSetTheorems, FunctionTheorems

\* A set of numbers that is not empty has a least one.
LEMMA NatMin ==
    ASSUME NEW S, S \subseteq Nat, S # {}
    PROVE  \E m \in S : \A k \in S : m <= k
<1> DEFINE R == OpToRel(<, Nat)
<1>1. IsWellFoundedOn(R, Nat)
  BY NatLessThanWellFounded
<1>2. \A x, y \in Nat : x < y => <<x, y>> \in R
  BY DEF OpToRel
<1>3. PICK m \in S : \A k \in S : ~(<<k, m>> \in R)
  <2> HIDE DEF R
  <2> QED BY <1>1, WFMin
<1>4. \A k \in S : ~(k < m)
  BY <1>2, <1>3
<1>5. \A k \in S : m <= k
  BY <1>4
<1> QED BY <1>5

\* What a program holds.
LEMMA ProgramType ==
    ASSUME NEW p \in Seq(Inst)
    PROVE  /\ Len(p) \in Nat
           /\ DOMAIN p = 1 .. Len(p)
           /\ \A i \in 1 .. Len(p) : p[i] \in Inst
           /\ \A i \in 1 .. Len(p) : p[i].length \in Nat
           /\ \A i \in 1 .. Len(p) : p[i].simm \in Int /\ 0 <= p[i].simm /\ p[i].simm < 65536
           /\ \A i \in 1 .. Len(p) : p[i].op \in Opcodes
<1>1. Len(p) \in Nat /\ DOMAIN p = 1 .. Len(p)
  BY LenProperties
<1>2. \A i \in 1 .. Len(p) : p[i] \in Inst
  BY ElementOfSeq
<1> DEFINE Simm == 0 .. 2 ^ 16 - 1
<1>3. \A x \in Simm : x \in Int /\ 0 <= x /\ x < 65536
  OBVIOUS
<1>4. Inst = [op : Opcodes, length : Nat, simm : Simm]
  BY DEF Inst
<1> HIDE DEF Simm
<1>5. /\ \A i \in 1 .. Len(p) : p[i].length \in Nat
      /\ \A i \in 1 .. Len(p) : p[i].simm \in Simm
      /\ \A i \in 1 .. Len(p) : p[i].op \in Opcodes
  BY <1>2, <1>4
<1>6. \A i \in 1 .. Len(p) : p[i].simm \in Int /\ 0 <= p[i].simm /\ p[i].simm < 65536
  BY <1>3, <1>5
<1> QED BY <1>1, <1>2, <1>5, <1>6

\* Address is the sum of the lengths before an instruction: the equation of its
\* recursive function has a solution, so it holds of the one that is chosen.
LEMMA SumEquation ==
    ASSUME NEW p \in Seq(Inst)
    PROVE  /\ Address(p, 1) = 0
           /\ \A k \in 1 .. Len(p) : Address(p, k + 1) = Address(p, k) + p[k].length
           /\ \A k \in 1 .. Len(p) + 1 : Address(p, k) \in Nat
<1> DEFINE N == Len(p)
           Sums(f, n) == /\ f \in [0 .. n -> Nat]
                         /\ f[0] = 0
                         /\ \A i \in 1 .. n : f[i] = f[i - 1] + p[i].length
           Missing == {n \in 0 .. N : ~ \E f : Sums(f, n)}
<1>0. Len(p) \in Nat /\ \A i \in 1 .. Len(p) : p[i].length \in Nat
  BY ProgramType
<1>a. N \in Nat /\ \A i \in 1 .. N : p[i].length \in Nat
  BY <1>0
<1> HIDE DEF N
<1>1. Missing = {}
  <2> SUFFICES ASSUME Missing # {} PROVE FALSE
    OBVIOUS
  <2>1. PICK n \in Missing : \A k \in Missing : n <= k
    <3>1. Missing \subseteq Nat
      BY <1>a
    <3> HIDE DEF Missing
    <3> QED BY <3>1, NatMin
  <2>2. n \in 0 .. N /\ ~ \E f : Sums(f, n)
    OBVIOUS
  <2>3. n # 0
    <3>1. Sums([i \in 0 .. 0 |-> 0], 0)
      OBVIOUS
    <3> QED BY <3>1, <2>2
  <2>4. n - 1 \in 0 .. N /\ n \in 1 .. N /\ ~(n <= n - 1)
    BY <2>2, <2>3, <1>a
  <2>5. PICK f : Sums(f, n - 1)
    <3>1. n - 1 \notin Missing
      BY <2>1, <2>4
    <3> QED BY <3>1, <2>4
  <2> DEFINE g == [i \in 0 .. n |-> IF i = n THEN f[n - 1] + p[n].length ELSE f[i]]
  <2>6. f[n - 1] \in Nat /\ p[n].length \in Nat
    BY <2>4, <2>5, <1>a
  <2>7. g \in [0 .. n -> Nat] /\ g[0] = 0
    BY <2>3, <2>4, <2>5, <2>6
  <2>8. \A i \in 1 .. n : g[i] = g[i - 1] + p[i].length
    <3>1. \A i \in 1 .. n - 1 : g[i] = f[i] /\ g[i - 1] = f[i - 1]
      BY <2>4
    <3>2. g[n] = f[n - 1] + p[n].length /\ g[n - 1] = f[n - 1]
      BY <2>4
    <3>3. \A i \in 1 .. n : i = n \/ i \in 1 .. n - 1
      BY <2>4
    <3> HIDE DEF g
    <3> QED BY <2>5, <3>1, <3>2, <3>3
  <2> QED BY <2>2, <2>7, <2>8
<1> DEFINE Eq(g) == g = [i \in 0 .. Len(p) |-> IF i = 0 THEN 0 ELSE g[i - 1] + p[i].length]
<1>2. PICK f : Sums(f, N)
  BY <1>1, <1>a
<1>3. Eq(f)
  BY <1>2, <1>0 DEF N
<1> DEFINE sum == CHOOSE g : Eq(g)
<1>4. Eq(sum)
  <2> HIDE DEF Eq
  <2> QED BY <1>3
<1>5. \A k : Address(p, k) = sum[k - 1]
  BY DEF Address
<1> HIDE DEF sum
<1>6. /\ sum[0] = 0
      /\ \A i \in 1 .. N : sum[i] = sum[i - 1] + p[i].length
  BY <1>4, <1>a DEF N
<1> DEFINE Odd == {i \in 0 .. N : sum[i] \notin Nat}
<1>7. Odd = {}
  <2> SUFFICES ASSUME Odd # {} PROVE FALSE
    OBVIOUS
  <2>1. PICK n \in Odd : \A k \in Odd : n <= k
    <3>1. Odd \subseteq Nat
      BY <1>a
    <3> HIDE DEF Odd
    <3> QED BY <3>1, NatMin
  <2>2. n \in 1 .. N /\ n - 1 \in 0 .. N /\ ~(n <= n - 1)
    BY <1>a, <1>6
  <2>3. sum[n - 1] \in Nat
    BY <2>1, <2>2
  <2>4. sum[n] = sum[n - 1] + p[n].length /\ p[n].length \in Nat
    BY <2>2, <1>a, <1>6
  <2>5. sum[n] \in Nat
    BY <2>3, <2>4
  <2> QED BY <2>5
<1> QED
  <2>1. Address(p, 1) = 0
    BY <1>5, <1>6
  <2>2. \A k \in 1 .. N : Address(p, k + 1) = Address(p, k) + p[k].length
    BY <1>a, <1>5, <1>6
  <2>3. \A k \in 1 .. N + 1 : Address(p, k) \in Nat
    <3>1. \A k \in 1 .. N + 1 : k - 1 \in 0 .. N
      BY <1>a
    <3>2. \A i \in 0 .. N : sum[i] \in Nat
      BY <1>7
    <3> QED BY <1>5, <3>1, <3>2
  <2> QED BY <2>1, <2>2, <2>3 DEF N

\* The parts of Compiled, over the range of instruction numbers.
LEMMA CompiledFacts ==
    ASSUME NEW p, Compiled(p)
    PROVE  /\ p \in Seq(Inst) /\ Len(p) \in Nat /\ DOMAIN p = 1 .. Len(p)
           /\ \E k \in 1 .. Len(p) : p[k].op = "s_endpgm"
           /\ \A k \in 1 .. Len(p) : p[k].length \in Nat /\ p[k].length > 0
           /\ \A k \in 1 .. Len(p) : p[k].op # "s_fork" /\ p[k].op # "s_cbranch_cdbg"
           /\ \A k \in 1 .. Len(p) : IsBranch(p[k]) => BranchesInside(p, k)
           /\ \A k \in 1 .. Len(p) - 1 : IsUnconditionalBranch(p[k]) => IsTarget(p, k + 1)
<1>1. p \in Seq(Inst)
  BY Zenon DEF Compiled
<1>2. /\ Len(p) \in Nat /\ DOMAIN p = 1 .. Len(p)
      /\ \A k \in 1 .. Len(p) : p[k].length \in Nat
  BY <1>1, ProgramType
<1>3. /\ \E k \in DOMAIN p : p[k].op = "s_endpgm"
      /\ \A k \in DOMAIN p : p[k].length > 0 /\ p[k].op \notin {"s_fork", "s_cbranch_cdbg"}
  BY Zenon DEF Compiled
<1>4. \A k \in DOMAIN p : IsBranch(p[k]) => BranchesInside(p, k)
  BY Zenon DEF Compiled
<1>5. \A k \in 1 .. Len(p) - 1 : IsUnconditionalBranch(p[k]) => IsTarget(p, k + 1)
  BY Zenon DEF Compiled
<1>6. /\ \E k \in 1 .. Len(p) : p[k].op = "s_endpgm"
      /\ \A k \in 1 .. Len(p) : /\ p[k].length > 0 /\ p[k].op # "s_fork"
                               /\ p[k].op # "s_cbranch_cdbg"
  BY <1>2, <1>3
<1>7. \A k \in 1 .. Len(p) : IsBranch(p[k]) => BranchesInside(p, k)
  BY <1>2, <1>4, Zenon
<1> QED BY <1>1, <1>2, <1>5, <1>6, <1>7, Zenon

\* Later instructions have larger addresses.
LEMMA AddressesGrow ==
    ASSUME NEW p, Compiled(p), NEW i \in 1 .. Len(p) + 1, NEW j \in 1 .. Len(p) + 1
    PROVE  i < j <=> Address(p, i) < Address(p, j)
<1>0. /\ p \in Seq(Inst)
      /\ DOMAIN p = 1 .. Len(p)
      /\ Len(p) \in Nat
      /\ \A k \in 1 .. Len(p) : p[k].length \in Nat /\ p[k].length > 0
  BY CompiledFacts
<1>1. /\ \A k \in 1 .. Len(p) : Address(p, k + 1) = Address(p, k) + p[k].length
      /\ \A k \in 1 .. Len(p) + 1 : Address(p, k) \in Nat
  BY <1>0, SumEquation
<1>2. \A a, b \in 1 .. Len(p) + 1 : a < b => Address(p, a) < Address(p, b)
  <2> SUFFICES ASSUME NEW a \in 1 .. Len(p) + 1
               PROVE  {b \in 1 .. Len(p) + 1 : a < b /\ ~(Address(p, a) < Address(p, b))} = {}
    OBVIOUS
  <2> DEFINE Wrong == {b \in 1 .. Len(p) + 1 : a < b /\ ~(Address(p, a) < Address(p, b))}
  <2> SUFFICES ASSUME Wrong # {} PROVE FALSE
    OBVIOUS
  <2>1. PICK n \in Wrong : \A k \in Wrong : n <= k
    <3>1. Wrong \subseteq Nat
      BY <1>0
    <3> HIDE DEF Wrong
    <3> QED BY <3>1, NatMin
  <2>2. n \in 2 .. Len(p) + 1 /\ n - 1 \in 1 .. Len(p) /\ ~(n <= n - 1) /\ a <= n - 1
    BY <1>0
  <2>3. Address(p, n) > Address(p, n - 1)
    <3>1. /\ Address(p, (n - 1) + 1) = Address(p, n - 1) + p[n - 1].length
          /\ p[n - 1].length > 0 /\ p[n - 1].length \in Nat
      BY <1>0, <1>1, <2>2
    <3>2. (n - 1) + 1 = n /\ Address(p, n - 1) \in Nat
      BY <1>1, <2>2, <1>0, SMTT(60)
    <3> QED BY <3>1, <3>2
  <2>4. a = n - 1 \/ Address(p, a) < Address(p, n - 1)
    BY <1>0, <2>1, <2>2
  <2>5. Address(p, a) \in Nat /\ Address(p, n) \in Nat /\ Address(p, n - 1) \in Nat
    BY <1>0, <1>1, <2>2
  <2>6. ~(Address(p, a) < Address(p, n))
    OBVIOUS
  <2> QED BY <2>3, <2>4, <2>5, <2>6
<1> QED BY <1>0, <1>1, <1>2

\* BranchTarget is exact for the branches of such a program.
LEMMA BranchReaches ==
    ASSUME NEW p, Compiled(p), NEW k \in 1 .. Len(p), IsBranch(p[k])
    PROVE  /\ BranchTarget(p[k], Address(p, k)) = MachineTarget(p, k)
           /\ \E j \in 1 .. Len(p) : MachineTarget(p, k) = Address(p, j)
<1>0. p \in Seq(Inst) /\ DOMAIN p = 1 .. Len(p)
  BY ProgramType, CompiledFacts
<1>1. /\ -8192 <= SignedSimm(p[k]) /\ SignedSimm(p[k]) < 8192
      /\ \E j \in 1 .. Len(p) : MachineTarget(p, k) = Address(p, j)
  <2>1. BranchesInside(p, k)
    BY CompiledFacts, Zenon
  <2> QED BY <1>0, <2>1 DEF BranchesInside
<1>2. /\ \A j \in 1 .. Len(p) : Address(p, j) \in Nat
      /\ p[k].simm \in Int /\ 0 <= p[k].simm /\ p[k].simm < 65536
  <2>1. \A j \in 1 .. Len(p) : j \in 1 .. Len(p) + 1
    BY <1>0, ProgramType
  <2> QED BY <1>0, <2>1, ProgramType, SumEquation
<1>3. MachineTarget(p, k) \in Nat
  BY <1>1, <1>2
<1>4. 2 ^ 16 = 65536 /\ 2 ^ 15 = 32768
  OBVIOUS
<1> DEFINE x == p[k].simm
           low == (x * 4) % 65536
           simm == IF low >= 32768 THEN low - 65536 ELSE low
           signed == IF x >= 32768 THEN x - 65536 ELSE x
<1>5. signed = SignedSimm(p[k])
  BY <1>4 DEF SignedSimm
<1>6. simm = 4 * signed
  <2>1. x \in Int /\ 0 <= x /\ x < 65536 /\ -8192 <= signed /\ signed < 8192
    BY <1>1, <1>2, <1>5
  <2>2. \A y \in Int : 0 <= y /\ y < 65536 /\ (y < 8192 \/ y >= 57344) =>
            (y * 4) % 65536 = IF y < 8192 THEN y * 4 ELSE y * 4 - 196608
    OBVIOUS
  <2>3. x < 8192 \/ x >= 57344
    BY <2>1
  <2> HIDE DEF x
  <2>4. low = IF x < 8192 THEN x * 4 ELSE x * 4 - 196608
    BY <2>1, <2>2, <2>3
  <2> HIDE DEF low
  <2> QED BY <2>1, <2>3, <2>4
<1>7. BranchTarget(p[k], Address(p, k)) = U32(Address(p, k) + simm + 4)
  BY <1>4 DEF BranchTarget
<1>8. Address(p, k) + simm + 4 = MachineTarget(p, k)
  <2>1. signed \in Int /\ Address(p, k) \in Nat
    BY <1>2
  <2>2. MachineTarget(p, k) = Address(p, k) + 4 + 4 * signed
    BY <1>5 DEF MachineTarget
  <2> HIDE DEF simm, signed
  <2> QED BY <1>6, <2>1, <2>2
<1>9. U32(MachineTarget(p, k)) = MachineTarget(p, k)
  BY <1>3 DEF U32
<1> QED BY <1>1, <1>7, <1>8, <1>9

\* The elements of the short sequences of labels.
LEMMA ElemsOfTuples ==
    /\ Elems(<<>>) = {}
    /\ \A x : Elems(<<x>>) = {x}
    /\ \A x, y : Elems(<<x, y>>) = {x, y}
<1>1. Elems(<<>>) = {}
  BY DEF Elems
<1>2. \A x : Elems(<<x>>) = {x}
  BY DEF Elems
<1>3. \A x, y : Elems(<<x, y>>) = {x, y}
  BY DEF Elems
<1> QED BY <1>1, <1>2, <1>3

\* The four cases of the switch in EmitLabels.
LEMMA LabelsOfCases ==
    ASSUME NEW inst, NEW at
    PROVE  /\ IsUnconditionalBranch(inst) => LabelsOf(inst, at) = <<BranchTarget(inst, at)>>
           /\ IsConditionalBranch(inst) =>
                  LabelsOf(inst, at) = <<BranchTarget(inst, at), at + inst.length>>
           /\ inst.op = "s_endpgm" => LabelsOf(inst, at) = <<at + inst.length>>
           /\ ~IsBranch(inst) /\ inst.op # "s_endpgm" => LabelsOf(inst, at) = <<>>
<1>1. /\ IsUnconditionalBranch(inst) => ~IsConditionalBranch(inst) /\ inst.op # "s_endpgm"
      /\ IsConditionalBranch(inst) => ~IsUnconditionalBranch(inst) /\ inst.op # "s_endpgm"
  BY DEF IsConditionalBranch, IsUnconditionalBranch
<1> QED BY <1>1, Zenon DEF LabelsOf, IsBranch

\* Labels are addresses of instructions or the end of the program.
LEMMA LabelsAreAddresses ==
    ASSUME NEW p, Compiled(p), NEW k \in 1 .. Len(p)
    PROVE  \A a \in Elems(LabelsOf(p[k], Address(p, k))) :
                \E j \in 1 .. Len(p) + 1 : a = Address(p, j)
<1>0. /\ p \in Seq(Inst) /\ Len(p) \in Nat
      /\ Address(p, k + 1) = Address(p, k) + p[k].length
  BY CompiledFacts, ProgramType, SumEquation
<1>1. k + 1 \in 1 .. Len(p) + 1 /\ \A j \in 1 .. Len(p) : j \in 1 .. Len(p) + 1
  BY <1>0
<1>2. CASE IsUnconditionalBranch(p[k])
  <2>1. Elems(LabelsOf(p[k], Address(p, k))) = {MachineTarget(p, k)}
    BY <1>2, BranchReaches, ElemsOfTuples, LabelsOfCases DEF IsBranch
  <2> QED BY <1>1, <1>2, <2>1, BranchReaches DEF IsBranch
<1>3. CASE IsConditionalBranch(p[k])
  <2>1. Elems(LabelsOf(p[k], Address(p, k))) = {MachineTarget(p, k), Address(p, k + 1)}
    BY <1>0, <1>3, BranchReaches, ElemsOfTuples, LabelsOfCases DEF IsBranch
  <2> QED BY <1>1, <1>3, <2>1, BranchReaches DEF IsBranch
<1>4. CASE p[k].op = "s_endpgm"
  <2>1. Elems(LabelsOf(p[k], Address(p, k))) = {Address(p, k + 1)}
    BY <1>0, <1>4, ElemsOfTuples, LabelsOfCases
  <2> QED BY <1>1, <2>1
<1>5. CASE ~IsBranch(p[k]) /\ p[k].op # "s_endpgm"
  BY <1>5, ElemsOfTuples, LabelsOfCases
<1> QED BY <1>2, <1>3, <1>4, <1>5 DEF IsBranch

\* Sorted lists the numbers of a finite set in ascending order, each once.
LEMMA SortedLemma ==
    ASSUME NEW S, S \subseteq Nat, IsFiniteSet(S)
    PROVE  /\ Cardinality(S) \in Nat
           /\ Sorted(S) \in Seq(Nat)
           /\ Len(Sorted(S)) = Cardinality(S)
           /\ Elems(Sorted(S)) = S
           /\ \A i, j \in 1 .. Cardinality(S) : i < j => Sorted(S)[i] < Sorted(S)[j]
<1> DEFINE n == Cardinality(S)
           Below(a) == {b \in S : b < a}
           rank(a) == Cardinality(Below(a))
<1>0. \A a \in S : a \in Int
  OBVIOUS
<1>1. n \in Nat
  BY FS_CardinalityType
<1>2. \A a \in S : /\ IsFiniteSet(Below(a)) /\ rank(a) \in Nat /\ rank(a) < n
  <2> SUFFICES ASSUME NEW a \in S
               PROVE  IsFiniteSet(Below(a)) /\ rank(a) \in Nat /\ rank(a) < n
    OBVIOUS
  <2>1. Below(a) \in SUBSET S /\ a \notin Below(a)
    OBVIOUS
  <2> HIDE DEF Below
  <2>2. IsFiniteSet(Below(a)) /\ rank(a) <= n /\ (n = rank(a) => S = Below(a))
    BY <2>1, FS_Subset
  <2>3. rank(a) \in Nat
    BY <2>2, FS_CardinalityType
  <2> QED BY <1>1, <2>1, <2>2, <2>3
<1>3. \A a, b \in S : a < b => rank(a) < rank(b)
  <2> SUFFICES ASSUME NEW a \in S, NEW b \in S, a < b PROVE rank(a) < rank(b)
    OBVIOUS
  <2>1. Below(a) \in SUBSET Below(b) /\ a \in Below(b) /\ a \notin Below(a)
    <3>1. a \in Int /\ b \in Int /\ ~(a < a)
      BY <1>0
    <3>2. \A c \in S : c < a => c < b
      BY <1>0, <3>1
    <3> QED BY <3>1, <3>2
  <2>2. IsFiniteSet(Below(b)) /\ rank(a) \in Nat /\ rank(b) \in Nat
    BY <1>2
  <2> HIDE DEF Below
  <2>3. rank(a) <= rank(b) /\ (rank(b) = rank(a) => Below(b) = Below(a))
    BY <2>1, <2>2, FS_Subset
  <2> QED BY <2>1, <2>2, <2>3
<1>4. \A k \in 1 .. n : \E a \in S : rank(a) = k - 1
  <2> DEFINE Unranked == {k \in 1 .. n : ~ \E a \in S : rank(a) = k - 1}
  <2> SUFFICES ASSUME Unranked # {} PROVE FALSE
    OBVIOUS
  <2>1. PICK k \in Unranked : \A j \in Unranked : k <= j
    <3>1. Unranked \subseteq Nat
      BY <1>1
    <3> HIDE DEF Unranked
    <3> QED BY <3>1, NatMin
  <2>2. k \in 1 .. n /\ \A a \in S : rank(a) # k - 1
    OBVIOUS
  <2>3. CASE k = 1
    <3>1. S # {}
      BY <1>1, <2>2, FS_EmptySet
    <3>2. PICK a \in S : \A b \in S : a <= b
      BY <3>1, NatMin
    <3>3. Below(a) = {}
      <4>1. \A b \in S : a \in Int /\ b \in Int /\ a <= b
        BY <1>0, <3>2
      <4>2. \A b \in S : ~(b < a)
        BY <4>1
      <4> QED BY <4>2
    <3>4. rank(a) = 0
      BY <3>3, FS_EmptySet
    <3> QED BY <2>2, <2>3, <3>4
  <2>4. CASE k # 1
    <3>1. k - 1 \in 1 .. n /\ ~(k <= k - 1)
      BY <1>1, <2>2, <2>4
    <3>2. PICK a \in S : rank(a) = (k - 1) - 1
      <4>1. k - 1 \notin Unranked
        BY <2>1, <3>1
      <4> QED BY <3>1, <4>1
    <3> DEFINE Above == {b \in S : a < b}
    <3>3. S = (Below(a) \cup {a}) \cup Above
      <4>1. \A b \in S : b < a \/ b = a \/ a < b
        BY <1>0
      <4> QED BY <4>1
    <3>4. IsFiniteSet(Below(a) \cup {a}) /\ Cardinality(Below(a) \cup {a}) = k - 1
      <4>1. IsFiniteSet(Below(a)) /\ a \notin Below(a)
        BY <1>2
      <4> HIDE DEF Below
      <4>2. IsFiniteSet(Below(a) \cup {a}) /\ Cardinality(Below(a) \cup {a}) = rank(a) + 1
        BY <4>1, FS_AddElement
      <4> QED BY <3>1, <3>2, <4>2
    <3>5. Above # {}
      <4> SUFFICES ASSUME Above = {} PROVE FALSE
        OBVIOUS
      <4>1. S = Below(a) \cup {a}
        BY <3>3
      <4>2. n = k - 1
        BY <3>4, <4>1
      <4> QED BY <2>2, <4>2, <1>1
    <3>6. PICK b \in Above : \A c \in Above : b <= c
      <4>1. Above \subseteq Nat
        OBVIOUS
      <4> HIDE DEF Above
      <4> QED BY <3>5, <4>1, NatMin
    <3>7. Below(b) = Below(a) \cup {a}
      <4>1. Below(a) \cup {a} \subseteq Below(b)
        <5>1. a \in Int /\ b \in Int /\ a < b /\ a \in S
          BY <1>0
        <5>2. \A c \in S : c < a => c < b
          BY <1>0, <5>1
        <5> QED BY <5>1, <5>2
      <4>2. \A c \in Below(b) : c \notin Above
        BY <3>6
      <4> QED BY <3>3, <4>1, <4>2
    <3>8. rank(b) = k - 1
      BY <3>4, <3>7
    <3> QED BY <2>2, <3>8
  <2> QED BY <2>3, <2>4
<1> DEFINE s == Sorted(S)
<1>5. /\ DOMAIN s = 1 .. n
      /\ \A k \in 1 .. n : s[k] \in S /\ rank(s[k]) = k - 1
  <2>1. s = [k \in 1 .. n |-> CHOOSE a \in S : rank(a) = k - 1]
    BY DEF Sorted
  <2> HIDE DEF s, rank
  <2>2. \A k \in 1 .. n : s[k] = CHOOSE a \in S : rank(a) = k - 1
    BY <2>1
  <2> QED BY <1>4, <2>1, <2>2
<1>6. s \in Seq(Nat) /\ Len(s) = n
  <2>1. Sorted(S) = [k \in 1 .. n |-> CHOOSE a \in S : rank(a) = k - 1]
    BY DEF Sorted
  <2>2. s \in [1 .. n -> Nat]
    <3>1. s = [k \in 1 .. n |-> s[k]]
      BY <2>1
    <3> HIDE DEF s, rank
    <3> QED BY <1>5, <3>1
  <2> HIDE DEF s
  <2>3. s \in Seq(Nat)
    BY <1>1, <2>2, SeqDef
  <2> QED BY <1>1, <1>5, <2>3, LenProperties
<1>7. \A i, j \in 1 .. n : i < j => s[i] < s[j]
  <2> SUFFICES ASSUME NEW i \in 1 .. n, NEW j \in 1 .. n, i < j PROVE s[i] < s[j]
    OBVIOUS
  <2>1. s[i] \in S /\ s[j] \in S /\ rank(s[i]) < rank(s[j])
    BY <1>1, <1>5
  <2>2. \A a, b \in S : ~(a < b) => rank(b) <= rank(a)
    <3>1. \A a, b \in S : ~(a < b) => b < a \/ b = a
      OBVIOUS
    <3> HIDE DEF rank
    <3>2. \A a \in S : rank(a) \in Nat
      BY <1>2
    <3> QED BY <1>3, <3>1, <3>2
  <2>3. rank(s[i]) \in Nat /\ rank(s[j]) \in Nat
    BY <1>2, <2>1
  <2> HIDE DEF rank, s
  <2>4. ~(rank(s[j]) <= rank(s[i]))
    BY <2>1, <2>3
  <2> QED BY <2>1, <2>2, <2>4
<1>8. Elems(s) = S
  <2>1. Elems(s) \subseteq S
    BY <1>5 DEF Elems
  <2>2. ASSUME NEW a \in S PROVE a \in Elems(s)
    <3> DEFINE k == rank(a) + 1
    <3>1. k \in 1 .. n /\ rank(a) = k - 1
      BY <1>1, <1>2
    <3>2. s[k] \in S /\ rank(s[k]) = rank(a)
      BY <1>5, <3>1
    <3>3. ~(s[k] < a) /\ ~(a < s[k])
      <4>1. rank(a) \in Nat /\ ~(rank(a) < rank(a))
        BY <1>2
      <4> HIDE DEF rank, s, k
      <4> QED BY <1>3, <3>2, <4>1
    <3>4. s[k] = a
      <4>1. s[k] \in Int /\ a \in Int
        BY <1>0, <3>2
      <4> HIDE DEF s, k
      <4> QED BY <3>3, <4>1
    <3> QED BY <1>5, <3>1, <3>4 DEF Elems
  <2> QED BY <2>1, <2>2
<1> QED BY <1>1, <1>6, <1>7, <1>8

-----------------------------------------------------------------------------
(* The inductive invariant.                                                *)

At(k) == Address(inst_list, k)

\* The labels the first n instructions of p give.
LabelsUpTo(p, n) ==
    {0} \cup UNION {Elems(LabelsOf(p[k], Address(p, k))) : k \in 1 .. n}

BlockType ==
    [begin : Nat, end : Nat, begin_index : Nat, end_index : Nat, end_inst : Inst,
     cond : {"True", "Guest"}, end_class : {"Branch", "Exit"},
     branch_true : Nat, branch_false : Nat]

\* b is the block between labels i and i + 1: its last instruction ends where
\* the second one is.
Cut(b, i) ==
    /\ b.begin = labels[i]
    /\ b.end = labels[i + 1]
    /\ b.begin_index \in 1 .. Len(inst_list)
    /\ b.end_index \in 1 .. Len(inst_list)
    /\ At(b.end_index + 1) = b.end
    /\ b.end_inst = inst_list[b.end_index]
    /\ b.cond = MakeCondition(b.end_inst)

GoesTo(bs, j, address) == j \in 1 .. Len(bs) /\ bs[j].begin = address

Unlinked(b) == b.branch_true = 0 /\ b.branch_false = 0 /\ b.end_class = "Branch"

Linked(bs, b) ==
    /\ IF LinksTrue(b) THEN GoesTo(bs, b.branch_true, TrueAddress(b)) /\ b.end_class = "Branch"
                       ELSE b.branch_true = 0 /\ b.end_class = "Exit"
    /\ IF LinksFalse(b) THEN GoesTo(bs, b.branch_false, b.end) ELSE b.branch_false = 0

\* EmitLabels has seen n instructions.
Indexed(n) ==
    /\ index_to_pc \in Seq(Nat)
    /\ Len(index_to_pc) = n
    /\ \A i \in 1 .. n : index_to_pc[i] = At(i)
    /\ pc = At(n + 1)
    /\ labels \in Seq(Nat)
    /\ Elems(labels) = LabelsUpTo(inst_list, n)

\* EmitLabels has returned.
Labelled ==
    /\ Indexed(Len(inst_list))
    /\ Len(labels) > 0
    /\ \A i, j \in 1 .. Len(labels) : i < j => labels[i] < labels[j]

\* There are n blocks, m of them linked.
Laid(n, m) ==
    /\ blocks \in Seq(BlockType)
    /\ Len(blocks) = n
    /\ \A i \in 1 .. n : Cut(blocks[i], i)
    /\ \A i \in 1 .. n : IF i <= m THEN Linked(blocks, blocks[i]) ELSE Unlinked(blocks[i])

EmittingLabels ==
    /\ phase = "EmitLabels"
    /\ cursor \in 1 .. Len(inst_list) + 1
    /\ Indexed(cursor - 1)
    /\ blocks = <<>>
EmittingBlocks ==
    /\ phase = "EmitBlocks"
    /\ Labelled
    /\ cursor \in 1 .. Len(labels)
    /\ Laid(cursor - 1, 0)
LinkingBlocks ==
    /\ phase = "LinkBlocks"
    /\ Labelled
    /\ cursor \in 1 .. Len(labels)
    /\ Laid(Len(labels) - 1, cursor - 1)
Returned ==
    /\ phase = "done"
    /\ Labelled
    /\ cursor = Len(labels)
    /\ Laid(Len(labels) - 1, Len(labels) - 1)
Aborted ==
    /\ phase = "abort"
    /\ Labelled
    /\ cursor \in 1 .. Len(labels) - 1
    /\ Laid(Len(labels) - 1, cursor - 1)
    /\ ~LookupsSucceed(blocks[cursor])

Inv ==
    /\ inst_list \in Programs
    /\ EmittingLabels \/ EmittingBlocks \/ LinkingBlocks \/ Returned \/ Aborted

\* What the code behind every label is, whichever were added so far.
LEMMA LabelsHaveAddresses ==
    ASSUME NEW p, Compiled(p), NEW n \in 0 .. Len(p)
    PROVE  /\ LabelsUpTo(p, n) \subseteq Nat
           /\ \A a \in LabelsUpTo(p, n) : \E j \in 1 .. Len(p) + 1 : a = Address(p, j)
<1>0. /\ p \in Seq(Inst) /\ Len(p) \in Nat /\ Address(p, 1) = 0
      /\ \A j \in 1 .. Len(p) + 1 : Address(p, j) \in Nat
  BY CompiledFacts, ProgramType, SumEquation
<1>1. 1 \in 1 .. Len(p) + 1 /\ \A k \in 1 .. n : k \in 1 .. Len(p)
  BY <1>0
<1>2. \A a \in LabelsUpTo(p, n) : \E j \in 1 .. Len(p) + 1 : a = Address(p, j)
  <2> SUFFICES ASSUME NEW a \in LabelsUpTo(p, n)
               PROVE  \E j \in 1 .. Len(p) + 1 : a = Address(p, j)
    OBVIOUS
  <2>1. CASE a = 0
    BY <1>0, <1>1, <2>1
  <2>2. CASE \E k \in 1 .. n : a \in Elems(LabelsOf(p[k], Address(p, k)))
    BY <1>1, <2>2, LabelsAreAddresses
  <2> QED BY <2>1, <2>2 DEF LabelsUpTo
<1> QED BY <1>0, <1>2

\* AddLabel adds a label unless it is there.
LEMMA AddLabelLemma ==
    ASSUME NEW s \in Seq(Nat), NEW a \in Nat
    PROVE  AddLabel(s, a) \in Seq(Nat) /\ Elems(AddLabel(s, a)) = Elems(s) \cup {a}
<1>1. CASE \E i \in DOMAIN s : s[i] = a
  BY <1>1 DEF AddLabel, Elems
<1>2. CASE ~ \E i \in DOMAIN s : s[i] = a
  <2>1. /\ Append(s, a) \in Seq(Nat)
        /\ Len(Append(s, a)) = Len(s) + 1
        /\ Len(s) \in Nat
        /\ DOMAIN s = 1 .. Len(s)
        /\ DOMAIN Append(s, a) = 1 .. Len(s) + 1
        /\ \A i \in 1 .. Len(s) : Append(s, a)[i] = s[i]
        /\ Append(s, a)[Len(s) + 1] = a
    BY AppendProperties, LenProperties
  <2>2. \A i \in 1 .. Len(s) + 1 : i \in 1 .. Len(s) \/ i = Len(s) + 1
    BY <2>1
  <2>3. 1 .. Len(s) \subseteq 1 .. Len(s) + 1 /\ Len(s) + 1 \in 1 .. Len(s) + 1
    BY <2>1
  <2> DEFINE t == Append(s, a)
  <2> HIDE DEF t
  <2>4. Elems(t) = Elems(s) \cup {a}
    BY <2>1, <2>2, <2>3 DEF Elems, t
  <2> QED BY <1>2, <2>1, <2>4 DEF AddLabel, t
<1> QED BY <1>1, <1>2

\* CFG::CFG enters EmitLabels with the entry label.
LEMMA InitInv ==
    ASSUME \A p \in Programs : Compiled(p), Init
    PROVE  Inv
<1>1. inst_list \in Programs /\ Compiled(inst_list)
  BY DEF Init
<1>2. inst_list \in Seq(Inst) /\ Len(inst_list) \in Nat /\ At(1) = 0
  BY <1>1, CompiledFacts, ProgramType, SumEquation DEF At
<1>3. cursor \in 1 .. Len(inst_list) + 1 /\ cursor - 1 = 0
  BY <1>2 DEF Init
<1>4. <<0>> \in Seq(Nat) /\ Elems(<<0>>) = {0}
  BY ElemsOfTuples
<1>5. LabelsUpTo(inst_list, 0) = {0}
  BY DEF LabelsUpTo
<1>6. Indexed(0)
  <2>1. pc = At(0 + 1) /\ \A i \in 1 .. 0 : FALSE
    BY <1>2 DEF Init
  <2>2. index_to_pc \in Seq(Nat) /\ Len(index_to_pc) = 0
    BY EmptySeq DEF Init
  <2> QED BY <1>4, <1>5, <2>1, <2>2 DEF Init, Indexed
<1> QED BY <1>1, <1>3, <1>6 DEF Inv, EmittingLabels, Init

\* A turn of the loop of EmitLabels adds the labels of one instruction.
LEMMA EmitLabelInv ==
    ASSUME Inv, Compiled(inst_list), EmitLabel
    PROVE  Inv'
<1>0. /\ inst_list \in Seq(Inst) /\ Len(inst_list) \in Nat
      /\ cursor \in 1 .. Len(inst_list)
      /\ Indexed(cursor - 1) /\ blocks = <<>>
  BY CompiledFacts DEF Inv, EmittingLabels, EmittingBlocks, LinkingBlocks, Returned,
                     Aborted, EmitLabel
<1> DEFINE inst == inst_list[cursor]
           new == LabelsOf(inst, pc)
<1>1. /\ pc = At(cursor) /\ pc \in Nat /\ inst.length \in Nat
      /\ At(cursor + 1) = At(cursor) + inst.length
      /\ cursor - 1 \in 0 .. Len(inst_list) /\ (cursor - 1) + 1 = cursor
      /\ cursor \in 0 .. Len(inst_list)
  <2>1. cursor - 1 \in 0 .. Len(inst_list) /\ (cursor - 1) + 1 = cursor
        /\ cursor \in 1 .. Len(inst_list) + 1 /\ cursor \in 0 .. Len(inst_list)
    BY <1>0
  <2>2. pc = At(cursor)
    BY <1>0, <2>1 DEF Indexed
  <2> QED BY <1>0, <2>1, <2>2, ProgramType, SumEquation DEF At
<1>2. LabelsUpTo(inst_list, cursor) = LabelsUpTo(inst_list, cursor - 1) \cup Elems(new)
  <2>1. \A k \in 1 .. cursor : k = cursor \/ k \in 1 .. cursor - 1
    BY <1>0
  <2>2. cursor \in 1 .. cursor /\ \A k \in 1 .. cursor - 1 : k \in 1 .. cursor
    BY <1>0
  <2>3. Elems(LabelsOf(inst_list[cursor], Address(inst_list, cursor))) = Elems(new)
    BY <1>1 DEF At
  <2> HIDE DEF new
  <2> QED BY <2>1, <2>2, <2>3 DEF LabelsUpTo
<1>3. labels \in Seq(Nat) /\ Elems(labels) = LabelsUpTo(inst_list, cursor - 1)
  BY <1>0 DEF Indexed
<1>4. labels' \in Seq(Nat) /\ Elems(labels') = Elems(labels) \cup Elems(new)
  <2>1. \A a \in Elems(new) : a \in Nat
    BY <1>1, <1>2, LabelsHaveAddresses
  <2>2. labels' = CASE Len(new) = 0 -> labels
                    [] Len(new) = 1 -> AddLabel(labels, new[1])
                    [] Len(new) = 2 -> AddLabel(AddLabel(labels, new[1]), new[2])
    BY DEF EmitLabel
  <2>3. \/ new = <<>>
        \/ \E x : new = <<x>>
        \/ \E x, y : new = <<x, y>>
    BY LabelsOfCases DEF IsBranch
  <2> HIDE DEF new
  <2>4. CASE new = <<>>
    <3>1. Len(new) = 0 /\ Len(new) # 1 /\ Len(new) # 2
      BY <2>4
    <3>2. labels' = labels
      BY <2>2, <3>1, Zenon
    <3> QED BY <1>3, <2>4, <3>2, ElemsOfTuples
  <2>5. CASE \E x : new = <<x>>
    <3>1. PICK x : new = <<x>>
      BY <2>5
    <3>2. Len(new) = 1 /\ new[1] = x /\ Len(new) # 0 /\ Len(new) # 2
      BY <3>1
    <3>3. labels' = AddLabel(labels, x)
      BY <2>2, <3>2, Zenon
    <3> QED BY <1>3, <2>1, <3>1, <3>3, ElemsOfTuples, AddLabelLemma
  <2>6. CASE \E x, y : new = <<x, y>>
    <3>1. PICK x, y : new = <<x, y>>
      BY <2>6
    <3>2. Len(new) = 2 /\ new[1] = x /\ new[2] = y /\ Len(new) # 0 /\ Len(new) # 1
      BY <3>1
    <3>3. labels' = AddLabel(AddLabel(labels, x), y)
      BY <2>2, <3>2, Zenon
    <3>4. x \in Nat /\ y \in Nat /\ Elems(new) = {x, y}
      BY <2>1, <3>1, ElemsOfTuples
    <3>5. /\ AddLabel(labels, x) \in Seq(Nat)
          /\ Elems(AddLabel(labels, x)) = Elems(labels) \cup {x}
      BY <1>3, <3>4, AddLabelLemma
    <3>6. labels' \in Seq(Nat) /\ Elems(labels') = Elems(AddLabel(labels, x)) \cup {y}
      BY <3>3, <3>4, <3>5, AddLabelLemma
    <3> QED BY <3>4, <3>5, <3>6
  <2> QED BY <2>3, <2>4, <2>5, <2>6
<1>5. /\ index_to_pc' \in Seq(Nat)
      /\ Len(index_to_pc') = cursor
      /\ \A i \in 1 .. cursor : index_to_pc'[i] = At(i)
  <2>1. /\ index_to_pc \in Seq(Nat) /\ Len(index_to_pc) = cursor - 1
        /\ \A i \in 1 .. cursor - 1 : index_to_pc[i] = At(i)
    BY <1>0 DEF Indexed
  <2>2. index_to_pc' = Append(index_to_pc, pc)
    BY DEF EmitLabel
  <2>3. /\ index_to_pc' \in Seq(Nat)
        /\ Len(index_to_pc') = cursor
        /\ \A i \in 1 .. cursor - 1 : index_to_pc'[i] = index_to_pc[i]
        /\ index_to_pc'[cursor] = pc
    BY <1>0, <1>1, <2>1, <2>2, AppendProperties
  <2>4. \A k \in 1 .. cursor : k = cursor \/ k \in 1 .. cursor - 1
    BY <1>0
  <2> QED BY <1>1, <2>1, <2>3, <2>4
<1>6. /\ cursor' = cursor + 1 /\ cursor' - 1 = cursor
      /\ inst_list' = inst_list /\ blocks' = blocks /\ phase' = "EmitLabels"
      /\ pc' = At(cursor + 1) /\ cursor' \in 1 .. Len(inst_list) + 1
  BY <1>0, <1>1 DEF EmitLabel
<1>7. /\ Len(index_to_pc') = cursor' - 1
      /\ \A i \in 1 .. cursor' - 1 : index_to_pc'[i] = Address(inst_list', i)
      /\ pc' = Address(inst_list', (cursor' - 1) + 1)
      /\ Elems(labels') = LabelsUpTo(inst_list', cursor' - 1)
  BY <1>2, <1>3, <1>4, <1>5, <1>6 DEF At
<1>8. EmittingLabels'
  BY <1>0, <1>4, <1>5, <1>6, <1>7 DEF EmittingLabels, Indexed, At
<1> QED BY <1>6, <1>8 DEF Inv

\* A sequence has finitely many elements.
LEMMA ElemsFinite == ASSUME NEW s \in Seq(Nat) PROVE IsFiniteSet(Elems(s))
<1>1. Len(s) \in Nat /\ DOMAIN s = 1 .. Len(s) /\ s = [i \in 1 .. Len(s) |-> s[i]]
  BY LenProperties
<1>2. IsFiniteSet(1 .. Len(s))
  <2>1. 1 \in Int /\ Len(s) \in Int
    BY <1>1
  <2> QED BY <2>1, FS_Interval
<1>3. s \in Surjection(1 .. Len(s), Elems(s))
  BY <1>1 DEF Surjection, Elems
<1> QED BY <1>2, <1>3, FS_Surjection

\* std::ranges::sort keeps the labels and orders them.
LEMMA SortLabelsInv ==
    ASSUME Inv, Compiled(inst_list), SortLabels
    PROVE  Inv'
<1>0. /\ inst_list \in Seq(Inst) /\ Len(inst_list) \in Nat
      /\ cursor = Len(inst_list) + 1
      /\ Indexed(Len(inst_list)) /\ blocks = <<>>
  <2>1. inst_list \in Seq(Inst) /\ Len(inst_list) \in Nat
    BY ProgramType, CompiledFacts
  <2>2. EmittingLabels /\ cursor > Len(inst_list)
    BY DEF Inv, EmittingLabels, EmittingBlocks, LinkingBlocks, Returned, Aborted, SortLabels
  <2>3. cursor = Len(inst_list) + 1 /\ cursor - 1 = Len(inst_list)
    BY <2>1, <2>2 DEF EmittingLabels
  <2> QED BY <2>1, <2>2, <2>3 DEF EmittingLabels
<1> DEFINE S == Elems(labels)
<1>1. labels \in Seq(Nat) /\ S = LabelsUpTo(inst_list, Len(inst_list))
  BY <1>0 DEF Indexed
<1>2. S \subseteq Nat /\ 0 \in S /\ IsFiniteSet(S)
  <2>1. 0 \in LabelsUpTo(inst_list, Len(inst_list))
    BY DEF LabelsUpTo
  <2>2. Len(inst_list) \in 0 .. Len(inst_list)
    BY <1>0
  <2> QED BY <1>1, <2>1, <2>2, ElemsFinite, LabelsHaveAddresses
<1>3. labels' = Sorted(S)
  BY DEF SortLabels
<1> HIDE DEF S
<1>4. /\ labels' \in Seq(Nat)
      /\ Len(labels') \in Nat
      /\ Elems(labels') = S
      /\ \A i, j \in 1 .. Len(labels') : i < j => labels'[i] < labels'[j]
  BY <1>2, <1>3, SortedLemma
<1>5. Len(labels') > 0
  <2> SUFFICES ASSUME Len(labels') = 0 PROVE FALSE
    BY <1>4
  <2>1. DOMAIN labels' = {}
    BY <1>4, LenProperties
  <2>2. Elems(labels') = {}
    BY <2>1 DEF Elems
  <2> QED BY <1>2, <1>4, <2>2
<1>6. /\ inst_list' = inst_list /\ blocks' = <<>> /\ phase' = "EmitBlocks" /\ cursor' = 1
      /\ index_to_pc' = index_to_pc /\ pc' = pc
  BY <1>0 DEF SortLabels
<1>7. Indexed(Len(inst_list))'
  BY <1>0, <1>1, <1>4, <1>6 DEF Indexed, At
<1>8. Labelled'
  BY <1>4, <1>5, <1>6, <1>7 DEF Labelled, Indexed
<1>9. /\ blocks' \in Seq(BlockType) /\ Len(blocks') = 0 /\ \A i \in 1 .. 0 : FALSE
      /\ cursor' \in 1 .. Len(labels') /\ cursor' - 1 = 0
  BY <1>4, <1>5, <1>6, EmptySeq
<1>10. EmittingBlocks'
  BY <1>6, <1>8, <1>9 DEF EmittingBlocks, Laid
<1> QED BY <1>6, <1>10 DEF Inv, SortLabels

\* The sorted labels, and the index get_index gives for them.
LEMMA LabelFacts ==
    ASSUME Labelled, Compiled(inst_list)
    PROVE  /\ Len(labels) \in Nat /\ DOMAIN labels = 1 .. Len(labels)
           /\ \A i \in 1 .. Len(labels) : labels[i] \in Nat
           /\ \A i \in 1 .. Len(labels) : \E j \in 1 .. Len(inst_list) + 1 : labels[i] = At(j)
           /\ \A a \in LabelsUpTo(inst_list, Len(inst_list)) :
                 \E i \in 1 .. Len(labels) : labels[i] = a
           /\ labels[1] = 0
<1>0. inst_list \in Seq(Inst) /\ Len(inst_list) \in Nat /\ Len(inst_list) \in 0 .. Len(inst_list)
  BY ProgramType, CompiledFacts
<1>1. labels \in Seq(Nat) /\ Elems(labels) = LabelsUpTo(inst_list, Len(inst_list))
  BY DEF Labelled, Indexed
<1>2. /\ Len(labels) \in Nat /\ DOMAIN labels = 1 .. Len(labels)
      /\ \A i \in 1 .. Len(labels) : labels[i] \in Nat
  BY <1>1, LenProperties, ElementOfSeq
<1>3. \A i \in 1 .. Len(labels) : labels[i] \in LabelsUpTo(inst_list, Len(inst_list))
  BY <1>1, <1>2 DEF Elems
<1>4. \A i \in 1 .. Len(labels) : \E j \in 1 .. Len(inst_list) + 1 : labels[i] = At(j)
  BY <1>0, <1>3, LabelsHaveAddresses DEF At
<1>5. \A a \in LabelsUpTo(inst_list, Len(inst_list)) : \E i \in 1 .. Len(labels) : labels[i] = a
  BY <1>1, <1>2 DEF Elems
<1>6. labels[1] = 0
  <2>1. 0 \in LabelsUpTo(inst_list, Len(inst_list))
    BY DEF LabelsUpTo
  <2>2. PICK i \in 1 .. Len(labels) : labels[i] = 0
    BY <1>5, <2>1
  <2>3. 1 \in 1 .. Len(labels) /\ (1 < i \/ i = 1)
    BY <1>2
  <2>4. 1 < i => labels[1] < labels[i]
    BY <2>3 DEF Labelled
  <2> QED BY <1>2, <2>2, <2>3, <2>4
<1> QED BY <1>2, <1>4, <1>5, <1>6

\* get_index finds the instruction that ends where the label is.
LEMMA IndexOfLabel ==
    ASSUME Labelled, Compiled(inst_list)
    PROVE  /\ GetIndex(0) = 1 /\ 1 \in 1 .. Len(inst_list)
           /\ \A m \in 1 .. Len(inst_list) : GetIndex(At(m + 1)) = m
<1>0. /\ inst_list \in Seq(Inst) /\ Len(inst_list) \in Nat /\ At(1) = 0
      /\ DOMAIN inst_list = 1 .. Len(inst_list)
  BY CompiledFacts, ProgramType, SumEquation DEF At
<1>1. 1 \in 1 .. Len(inst_list)
  <2>1. \E k \in 1 .. Len(inst_list) : TRUE
    BY CompiledFacts
  <2> QED BY <1>0, <2>1
<1>2. ASSUME NEW m \in 1 .. Len(inst_list) PROVE GetIndex(At(m + 1)) = m
  <2>1. m + 1 \in 1 .. Len(inst_list) + 1 /\ 1 \in 1 .. Len(inst_list) + 1 /\ 1 < m + 1
        /\ \A i \in 1 .. Len(inst_list) : i \in 1 .. Len(inst_list) + 1
    BY <1>0
  <2>2. At(1) < At(m + 1)
    BY <2>1, AddressesGrow DEF At
  <2>3. At(m + 1) # 0
    BY <1>0, <2>2
  <2>4. /\ DOMAIN index_to_pc = 1 .. Len(inst_list)
        /\ \A i \in 1 .. Len(inst_list) : index_to_pc[i] = At(i)
    BY LenProperties DEF Labelled, Indexed
  <2>5. \A i \in 1 .. Len(inst_list) : At(i) < At(m + 1) <=> i < m + 1
    BY <2>1, AddressesGrow DEF At
  <2> DEFINE below == {i \in DOMAIN index_to_pc : index_to_pc[i] < At(m + 1)}
  <2>6. below = 1 .. m
    <3>1. below = {i \in 1 .. Len(inst_list) : i < m + 1}
      BY <2>4, <2>5
    <3> HIDE DEF below
    <3> QED BY <1>0, <3>1
  <2>7. GetIndex(At(m + 1)) = CHOOSE i \in below : \A j \in below : j <= i
    BY <2>3 DEF GetIndex
  <2> HIDE DEF below
  <2>8. \A i \in 1 .. m : (\A j \in 1 .. m : j <= i) <=> i = m
    BY <1>0
  <2>9. m \in 1 .. m
    BY <1>0
  <2> QED BY <2>6, <2>7, <2>8, <2>9
<1> QED BY <1>1, <1>2 DEF GetIndex

\* A label that is not the first is behind an instruction.
LEMMA LaterLabels ==
    ASSUME Labelled, Compiled(inst_list), NEW i \in 1 .. Len(labels) - 1
    PROVE  /\ i \in 1 .. Len(labels) /\ i + 1 \in 1 .. Len(labels)
           /\ labels[i] < labels[i + 1]
           /\ \E m \in 1 .. Len(inst_list) : labels[i + 1] = At(m + 1)
<1>0. inst_list \in Seq(Inst) /\ Len(inst_list) \in Nat /\ At(1) = 0
  BY CompiledFacts, ProgramType, SumEquation DEF At
<1>1. i \in 1 .. Len(labels) /\ i + 1 \in 1 .. Len(labels) /\ i < i + 1
  BY LabelFacts
<1>2. labels[i] < labels[i + 1]
  BY <1>1 DEF Labelled
<1>3. PICK j \in 1 .. Len(inst_list) + 1 : labels[i + 1] = At(j)
  BY <1>1, LabelFacts
<1>4. j # 1
  BY <1>0, <1>1, <1>2, <1>3, LabelFacts
<1>5. j - 1 \in 1 .. Len(inst_list) /\ (j - 1) + 1 = j
  BY <1>0, <1>4
<1> QED BY <1>1, <1>2, <1>3, <1>5

\* The index of the block that begins at a label but the last.
LEMMA IndexOfBegin ==
    ASSUME Labelled, Compiled(inst_list), NEW i \in 1 .. Len(labels)
    PROVE  GetIndex(labels[i]) \in 1 .. Len(inst_list)
<1>1. CASE i = 1
  BY <1>1, LabelFacts, IndexOfLabel
<1>2. CASE i # 1
  <2>1. i - 1 \in 1 .. Len(labels) - 1 /\ (i - 1) + 1 = i
    BY <1>2, LabelFacts
  <2>2. PICK m \in 1 .. Len(inst_list) : labels[i] = At(m + 1)
    BY <2>1, LaterLabels
  <2> QED BY <2>2, IndexOfLabel
<1> QED BY <1>1, <1>2

\* A turn of the loop of EmitBlocks cuts the block between two labels.
LEMMA EmitBlockInv ==
    ASSUME Inv, Compiled(inst_list), EmitBlock
    PROVE  Inv'
<1> DEFINE start == labels[cursor]
           end == labels[cursor + 1]
           end_index == GetIndex(end)
           end_inst == inst_list[end_index]
           b == [begin |-> start, end |-> end,
                 begin_index |-> GetIndex(start), end_index |-> end_index,
                 end_inst |-> end_inst, cond |-> MakeCondition(end_inst),
                 end_class |-> "Branch", branch_true |-> 0, branch_false |-> 0]
<1>0. Labelled /\ Laid(cursor - 1, 0) /\ cursor \in 1 .. Len(labels) - 1 /\ Len(labels) \in Nat
  <2>1. EmittingBlocks /\ cursor < Len(labels)
    BY DEF Inv, EmittingLabels, EmittingBlocks, LinkingBlocks, Returned, Aborted, EmitBlock
  <2>2. Len(labels) \in Nat
    BY <2>1, LabelFacts DEF EmittingBlocks
  <2> QED BY <2>1, <2>2 DEF EmittingBlocks
<1>1. /\ inst_list \in Seq(Inst) /\ cursor \in 1 .. Len(labels) /\ cursor + 1 \in 1 .. Len(labels)
      /\ cursor + 1 - 1 = cursor /\ cursor - 1 + 1 = cursor /\ cursor \in Nat
  BY <1>0, CompiledFacts
<1>2. PICK m \in 1 .. Len(inst_list) : end = At(m + 1)
  BY <1>0, LaterLabels
<1>3. end_index = m /\ GetIndex(start) \in 1 .. Len(inst_list)
  BY <1>0, <1>1, <1>2, IndexOfLabel, IndexOfBegin
<1>4. start \in Nat /\ end \in Nat
  BY <1>0, <1>1, LabelFacts
<1>5. end_inst \in Inst /\ MakeCondition(end_inst) \in {"True", "Guest"}
  <2>1. end_inst \in Inst
    BY <1>1, <1>2, <1>3, ElementOfSeq
  <2> QED BY <2>1 DEF MakeCondition
<1>6. b \in BlockType
  <2>1. Len(inst_list) \in Nat
    BY <1>1, LenProperties
  <2>2. end_index \in Nat /\ GetIndex(start) \in Nat
    BY <1>3, <2>1
  <2> HIDE DEF start, end, end_index, end_inst
  <2> QED BY <1>4, <1>5, <2>2 DEF BlockType
<1>7. Cut(b, cursor) /\ Unlinked(b)
  <2>1. /\ b.begin = start /\ b.end = end /\ b.begin_index = GetIndex(start)
        /\ b.end_index = end_index /\ b.end_inst = end_inst /\ b.cond = MakeCondition(end_inst)
        /\ b.branch_true = 0 /\ b.branch_false = 0 /\ b.end_class = "Branch"
    OBVIOUS
  <2> HIDE DEF b
  <2> QED BY <1>2, <1>3, <2>1 DEF Cut, Unlinked
<1>8. blocks' = Append(blocks, b)
  BY DEF EmitBlock
<1>9. UNCHANGED <<inst_list, index_to_pc, pc, labels>> /\ phase' = "EmitBlocks" /\ cursor' = cursor + 1
  BY DEF EmitBlock
<1> HIDE DEF b
<1>10. /\ blocks' \in Seq(BlockType) /\ Len(blocks') = cursor
       /\ \A i \in 1 .. cursor - 1 : blocks'[i] = blocks[i]
       /\ blocks'[cursor] = b
  <2>1. blocks \in Seq(BlockType) /\ Len(blocks) = cursor - 1
    BY <1>0 DEF Laid
  <2> QED BY <1>1, <1>6, <1>8, <2>1, AppendProperties
<1>11. ASSUME NEW i \in 1 .. cursor PROVE Cut(blocks[i], i)' /\ Unlinked(blocks[i])'
  <2> DEFINE c == blocks'[i]
  <2>1. Cut(c, i) /\ Unlinked(c)
    <3>1. CASE i = cursor
      BY <1>7, <1>10, <3>1
    <3>2. CASE i # cursor
      <4>1. i \in 1 .. cursor - 1 /\ ~(i <= 0)
        BY <1>1, <3>2
      <4> QED BY <1>0, <1>10, <4>1 DEF Laid
    <3> QED BY <3>1, <3>2
  <2> QED BY <1>9, <2>1 DEF Cut, At, Unlinked
<1>12. Labelled'
  BY <1>0, <1>9 DEF Labelled, Indexed, At
<1>13. Laid(cursor - 1, 0)'
  <2>1. cursor' - 1 = cursor /\ \A i \in 1 .. cursor : ~(i <= 0)
    BY <1>1, <1>9
  <2> QED BY <1>10, <1>11, <2>1 DEF Laid
<1>14. cursor' \in 1 .. Len(labels')
  BY <1>0, <1>1, <1>9
<1>15. EmittingBlocks'
  BY <1>9, <1>12, <1>13, <1>14 DEF EmittingBlocks
<1> QED BY <1>9, <1>15 DEF Inv, EmitBlock

\* EmitBlocks returns with a block for every label but the last.
LEMMA LastLabelInv ==
    ASSUME Inv, Compiled(inst_list), LastLabel
    PROVE  Inv'
<1>0. Labelled /\ Laid(cursor - 1, 0) /\ cursor = Len(labels) /\ Len(labels) \in Nat
  <2>1. EmittingBlocks /\ cursor = Len(labels)
    BY DEF Inv, EmittingLabels, EmittingBlocks, LinkingBlocks, Returned, Aborted, LastLabel
  <2>2. Len(labels) \in Nat
    BY <2>1, LabelFacts DEF EmittingBlocks
  <2> QED BY <2>1, <2>2 DEF EmittingBlocks
<1>1. UNCHANGED <<inst_list, index_to_pc, pc, labels, blocks>> /\ phase' = "LinkBlocks" /\ cursor' = 1
  BY DEF LastLabel
<1>2. Labelled'
  BY <1>0, <1>1 DEF Labelled, Indexed, At
<1>3. /\ blocks' \in Seq(BlockType) /\ Len(blocks') = Len(labels) - 1
      /\ \A i \in 1 .. Len(labels) - 1 : Cut(blocks[i], i)' /\ Unlinked(blocks[i])'
  <2>1. \A i \in 1 .. Len(labels) - 1 : Cut(blocks[i], i) /\ Unlinked(blocks[i]) /\ ~(i <= 0)
    BY <1>0 DEF Laid
  <2> QED BY <1>0, <1>1, <2>1 DEF Laid, Cut, At, Unlinked
<1>4. Laid(Len(labels) - 1, cursor - 1)'
  <2>1. cursor' - 1 = 0 /\ \A i \in 1 .. Len(labels) - 1 : ~(i <= 0)
    BY <1>0, <1>1
  <2> QED BY <1>1, <1>3, <2>1 DEF Laid
<1>5. cursor' \in 1 .. Len(labels')
  BY <1>0, <1>1 DEF Labelled
<1>6. LinkingBlocks'
  BY <1>1, <1>2, <1>4, <1>5 DEF LinkingBlocks
<1> QED BY <1>1, <1>6 DEF Inv

\* get_block finds the block that begins at the address, if there is one.
LEMMA GetBlockFinds ==
    ASSUME blocks \in Seq(BlockType), NEW address
    PROVE  /\ GetBlock(address) # 0 => GoesTo(blocks, GetBlock(address), address)
           /\ GetBlock(address) = 0 => \A j \in 1 .. Len(blocks) : blocks[j].begin # address
<1>1. Len(blocks) \in Nat /\ DOMAIN blocks = 1 .. Len(blocks)
  BY LenProperties
<1> DEFINE found == {b \in DOMAIN blocks : blocks[b].begin = address}
<1>2. GetBlock(address) = IF found = {} THEN 0 ELSE CHOOSE b \in found : TRUE
  BY DEF GetBlock
<1>3. CASE found = {}
  BY <1>1, <1>2, <1>3
<1>4. CASE found # {}
  <2>1. GetBlock(address) \in found
    <3> HIDE DEF found
    <3> QED BY <1>2, <1>4
  <2>2. GetBlock(address) \in 1 .. Len(blocks) /\ blocks[GetBlock(address)].begin = address
    BY <1>1, <2>1
  <2> QED BY <1>1, <2>2 DEF GoesTo
<1> QED BY <1>3, <1>4

\* A turn of the loop of LinkBlocks links one block and disturbs no other.
LEMMA LinkBlockInv ==
    ASSUME Inv, Compiled(inst_list), LinkBlock
    PROVE  Inv'
<1> DEFINE n == Len(labels) - 1
           b == blocks[cursor]
           new == [b EXCEPT !.branch_true = IF LinksTrue(b) THEN GetBlock(TrueAddress(b)) ELSE @,
                            !.branch_false = IF LinksFalse(b) THEN GetBlock(b.end) ELSE @,
                            !.end_class = IF LinksTrue(b) THEN "Branch" ELSE "Exit"]
<1>0. /\ Labelled /\ Laid(n, cursor - 1) /\ cursor \in 1 .. n /\ Len(labels) \in Nat
      /\ cursor \in Nat /\ LookupsSucceed(b) /\ Len(blocks) = n
  <2>1. LinkingBlocks /\ cursor <= Len(blocks)
    BY DEF Inv, EmittingLabels, EmittingBlocks, LinkingBlocks, Returned, Aborted, LinkBlock
  <2>2. Len(labels) \in Nat /\ Len(blocks) = n
    BY <2>1, LabelFacts DEF LinkingBlocks, Laid
  <2>3. LookupsSucceed(b)
    BY DEF LinkBlock
  <2> QED BY <2>1, <2>2, <2>3 DEF LinkingBlocks
<1>1. blocks' = [blocks EXCEPT ![cursor] = new]
  BY DEF LinkBlock
<1>2. /\ UNCHANGED <<inst_list, index_to_pc, pc, labels>> /\ phase' = "LinkBlocks"
      /\ cursor' = cursor + 1 /\ cursor' - 1 = cursor
  BY <1>0 DEF LinkBlock
<1>3. /\ blocks \in Seq(BlockType) /\ b \in BlockType
      /\ Cut(b, cursor) /\ Unlinked(b)
  <2>1. blocks \in Seq(BlockType) /\ Cut(b, cursor)
    BY <1>0 DEF Laid
  <2>2. b \in BlockType
    BY <1>0, <2>1, ElementOfSeq
  <2>3. ~(cursor <= cursor - 1)
    BY <1>0
  <2>4. Unlinked(b)
    BY <1>0, <2>3 DEF Laid
  <2> QED BY <2>1, <2>2, <2>4
<1>4. /\ LinksTrue(b) => GoesTo(blocks, GetBlock(TrueAddress(b)), TrueAddress(b))
      /\ LinksFalse(b) => GoesTo(blocks, GetBlock(b.end), b.end)
  BY <1>0, <1>3, GetBlockFinds DEF LookupsSucceed
<1>5. /\ new.begin = b.begin /\ new.end = b.end /\ new.begin_index = b.begin_index
      /\ new.end_index = b.end_index /\ new.end_inst = b.end_inst /\ new.cond = b.cond
      /\ new.branch_true = IF LinksTrue(b) THEN GetBlock(TrueAddress(b)) ELSE 0
      /\ new.branch_false = IF LinksFalse(b) THEN GetBlock(b.end) ELSE 0
      /\ new.end_class = IF LinksTrue(b) THEN "Branch" ELSE "Exit"
  <2> HIDE DEF b
  <2> QED BY <1>3 DEF Unlinked, BlockType
<1>6. new \in BlockType
  <2>1. /\ LinksTrue(b) => GetBlock(TrueAddress(b)) \in Nat
        /\ LinksFalse(b) => GetBlock(b.end) \in Nat
    BY <1>0, <1>4 DEF GoesTo
  <2> HIDE DEF b
  <2> QED BY <1>3, <2>1 DEF Unlinked, BlockType
<1> HIDE DEF new
<1>7. /\ blocks' \in Seq(BlockType) /\ Len(blocks') = n
      /\ \A i \in 1 .. n : blocks'[i] = IF i = cursor THEN new ELSE blocks[i]
  BY <1>0, <1>1, <1>3, <1>6, ExceptSeq
<1>8. \A j, a : GoesTo(blocks, j, a) => GoesTo(blocks', j, a)
  BY <1>0, <1>5, <1>7 DEF GoesTo
<1>9. TrueAddress(new) = TrueAddress(b) /\ LinksTrue(new) = LinksTrue(b) /\ LinksFalse(new) = LinksFalse(b)
  BY <1>5 DEF TrueAddress, LinksTrue, LinksFalse
<1>10. Linked(blocks', new)
  BY <1>4, <1>5, <1>8, <1>9 DEF Linked
<1>11. ASSUME NEW i \in 1 .. n
       PROVE  /\ Cut(blocks[i], i)'
              /\ IF i <= cursor THEN Linked(blocks, blocks[i])' ELSE Unlinked(blocks[i])'
  <2> DEFINE c == blocks'[i]
  <2>1. Cut(c, i) /\ IF i <= cursor THEN Linked(blocks', c) ELSE Unlinked(c)
    <3>1. CASE i = cursor
      <4>1. c = new /\ i <= cursor
        BY <1>0, <1>7, <3>1
      <4>2. Cut(new, cursor)
        BY <1>3, <1>5 DEF Cut
      <4> HIDE DEF c
      <4> QED BY <1>10, <3>1, <4>1, <4>2
    <3>2. CASE i # cursor
      <4>1. c = blocks[i] /\ (i <= cursor <=> i <= cursor - 1)
        BY <1>0, <1>7, <3>2
      <4>2. Cut(blocks[i], i) /\ IF i <= cursor - 1 THEN Linked(blocks, blocks[i]) ELSE Unlinked(blocks[i])
        BY <1>0 DEF Laid
      <4>3. Linked(blocks, blocks[i]) => Linked(blocks', blocks[i])
        BY <1>8 DEF Linked
      <4> HIDE DEF c
      <4> QED BY <4>1, <4>2, <4>3
    <3> QED BY <3>1, <3>2
  <2>2. Cut(blocks[i], i)'
    BY <1>2, <2>1 DEF Cut, At
  <2>3. IF i <= cursor THEN Linked(blocks, blocks[i])' ELSE Unlinked(blocks[i])'
    BY <2>1 DEF Linked, GoesTo, Unlinked
  <2> QED BY <2>2, <2>3
<1>12. Labelled'
  BY <1>0, <1>2 DEF Labelled, Indexed, At
<1>13. Laid(Len(labels) - 1, cursor - 1)'
  BY <1>2, <1>7, <1>11 DEF Laid
<1>14. cursor' \in 1 .. Len(labels')
  BY <1>0, <1>2
<1>15. LinkingBlocks'
  BY <1>2, <1>12, <1>13, <1>14 DEF LinkingBlocks
<1> QED BY <1>2, <1>15 DEF Inv

\* A failed lookup leaves the blocks as they are.
LEMMA AssertFailsInv ==
    ASSUME Inv, Compiled(inst_list), AssertFails
    PROVE  Inv'
<1>0. LinkingBlocks /\ cursor <= Len(blocks)
  BY DEF Inv, EmittingLabels, EmittingBlocks, LinkingBlocks, Returned, Aborted, AssertFails
<1>1. UNCHANGED <<inst_list, index_to_pc, pc, labels, blocks, cursor>> /\ phase' = "abort"
  BY DEF AssertFails
<1>2. Labelled' /\ Laid(Len(labels) - 1, cursor - 1)'
  BY <1>0, <1>1 DEF LinkingBlocks, Labelled, Indexed, Laid, Cut, Linked, Unlinked, GoesTo, At
<1>3. cursor' \in 1 .. Len(labels') - 1
  BY <1>0, <1>1, LabelFacts DEF LinkingBlocks, Laid
<1>4. ~LookupsSucceed(blocks[cursor])'
  BY <1>1 DEF AssertFails, LookupsSucceed, GetBlock
<1>5. Aborted'
  BY <1>1, <1>2, <1>3, <1>4 DEF Aborted
<1> QED BY <1>1, <1>5 DEF Inv, AssertFails

\* LinkBlocks returns with every block linked.
LEMMA ReturnInv ==
    ASSUME Inv, Compiled(inst_list), Return
    PROVE  Inv'
<1>0. LinkingBlocks /\ cursor > Len(blocks)
  BY DEF Inv, EmittingLabels, EmittingBlocks, LinkingBlocks, Returned, Aborted, Return
<1>1. UNCHANGED <<inst_list, index_to_pc, pc, labels, blocks, cursor>> /\ phase' = "done"
  BY DEF Return
<1>2. cursor = Len(labels) /\ cursor - 1 = Len(labels) - 1
  BY <1>0, LabelFacts DEF LinkingBlocks, Laid
<1>3. Laid(Len(labels) - 1, Len(labels) - 1)
  BY <1>0, <1>2 DEF LinkingBlocks
<1>4. Labelled' /\ Laid(Len(labels) - 1, Len(labels) - 1)'
  BY <1>0, <1>1, <1>3 DEF LinkingBlocks, Labelled, Indexed, Laid, Cut, Linked, Unlinked, GoesTo, At
<1>5. Returned'
  BY <1>1, <1>2, <1>4 DEF Returned
<1> QED BY <1>1, <1>5 DEF Inv, Return

\* A stuttering step.
LEMMA UnchangedInv ==
    ASSUME Inv, UNCHANGED vars
    PROVE  Inv'
<1>1. UNCHANGED <<inst_list, index_to_pc, pc, labels, blocks, cursor, phase>>
  BY DEF vars
<1>2. Labelled => Labelled'
  BY <1>1 DEF Labelled, Indexed, At
<1>3. Laid(cursor - 1, 0) => Laid(cursor - 1, 0)'
  BY <1>1 DEF Laid, Cut, Linked, Unlinked, GoesTo, At
<1>4. /\ Laid(Len(labels) - 1, cursor - 1) => Laid(Len(labels) - 1, cursor - 1)'
      /\ Laid(Len(labels) - 1, Len(labels) - 1) => Laid(Len(labels) - 1, Len(labels) - 1)'
  BY <1>1 DEF Laid, Cut, Linked, Unlinked, GoesTo, At
<1>5. LookupsSucceed(blocks[cursor])' = LookupsSucceed(blocks[cursor])
  BY <1>1 DEF LookupsSucceed, GetBlock
<1>6. EmittingLabels => EmittingLabels'
  BY <1>1 DEF EmittingLabels, Indexed, At
<1>7. EmittingBlocks => EmittingBlocks'
  BY <1>1, <1>2, <1>3 DEF EmittingBlocks
<1>8. LinkingBlocks => LinkingBlocks'
  BY <1>1, <1>2, <1>4 DEF LinkingBlocks
<1>9. Returned => Returned'
  BY <1>1, <1>2, <1>4 DEF Returned
<1>10. Aborted => Aborted'
  BY <1>1, <1>2, <1>4, <1>5 DEF Aborted
<1> QED BY <1>1, <1>6, <1>7, <1>8, <1>9, <1>10 DEF Inv

\* The invariant of the constructor, for every set of compiled programs.
THEOREM Inductive ==
    ASSUME \A p \in Programs : Compiled(p)
    PROVE  Spec => []Inv
<1>1. Init => Inv
  BY InitInv
<1>2. Inv /\ [Next]_vars => Inv'
  <2> SUFFICES ASSUME Inv, [Next]_vars PROVE Inv'
    OBVIOUS
  <2>1. Compiled(inst_list)
    BY DEF Inv
  <2>2. CASE EmitLabel
    BY <2>1, <2>2, EmitLabelInv
  <2>3. CASE SortLabels
    BY <2>1, <2>3, SortLabelsInv
  <2>4. CASE EmitBlock
    BY <2>1, <2>4, EmitBlockInv
  <2>5. CASE LastLabel
    BY <2>1, <2>5, LastLabelInv
  <2>6. CASE LinkBlock
    BY <2>1, <2>6, LinkBlockInv
  <2>7. CASE AssertFails
    BY <2>1, <2>7, AssertFailsInv
  <2>8. CASE Return
    BY <2>1, <2>8, ReturnInv
  <2>9. CASE UNCHANGED vars
    BY <2>9, UnchangedInv
  <2>10. ~Unimplemented
    <3> SUFFICES ASSUME Unimplemented PROVE FALSE
      OBVIOUS
    <3>1. EmittingLabels /\ cursor <= Len(inst_list)
      BY DEF Unimplemented, Inv, EmittingLabels, EmittingBlocks, LinkingBlocks, Returned,
             Aborted
    <3>2. cursor \in 1 .. Len(inst_list)
      BY <2>1, <3>1, CompiledFacts DEF EmittingLabels
    <3> QED BY <2>1, <3>2, CompiledFacts, Zenon DEF Unimplemented
  <2> QED
    BY <2>2, <2>3, <2>4, <2>5, <2>6, <2>7, <2>8, <2>9, <2>10 DEF Next, Terminated
<1> QED BY <1>1, <1>2, PTL DEF Spec

-----------------------------------------------------------------------------
(* What the invariant says of the blocks.                                  *)

\* Where control goes is a label, and so is what follows a transfer of it.
LEMMA TargetsAreLabels ==
    ASSUME NEW p, Compiled(p), NEW k \in 1 .. Len(p)
    PROVE  /\ IsBranch(p[k]) => MachineTarget(p, k) \in LabelsUpTo(p, Len(p))
           /\ IsTerminateInstruction(p[k]) =>
                  k = Len(p) \/ Address(p, k + 1) \in LabelsUpTo(p, Len(p))
           /\ p[k].op = "s_endpgm" => Address(p, k + 1) \in LabelsUpTo(p, Len(p))
<1>0. /\ p \in Seq(Inst) /\ Len(p) \in Nat /\ DOMAIN p = 1 .. Len(p)
      /\ \A j \in 1 .. Len(p) : Address(p, j + 1) = Address(p, j) + p[j].length
      /\ p[k].op # "s_fork"
  <2>1. p \in Seq(Inst) /\ Len(p) \in Nat /\ DOMAIN p = 1 .. Len(p)
    BY CompiledFacts
  <2>2. p[k].op # "s_fork"
    BY CompiledFacts, Zenon
  <2> QED BY <2>1, <2>2, SumEquation
<1>a. Len(p) \in Nat
  BY <1>0
<1>1. \A j \in 1 .. Len(p) :
         Elems(LabelsOf(p[j], Address(p, j))) \subseteq LabelsUpTo(p, Len(p))
  BY DEF LabelsUpTo
<1>2. \A j \in 1 .. Len(p) : IsBranch(p[j]) => MachineTarget(p, j) \in LabelsUpTo(p, Len(p))
  <2> SUFFICES ASSUME NEW j \in 1 .. Len(p), IsBranch(p[j])
               PROVE  MachineTarget(p, j) \in LabelsUpTo(p, Len(p))
    OBVIOUS
  <2>1. MachineTarget(p, j) \in Elems(LabelsOf(p[j], Address(p, j)))
    <3>1. BranchTarget(p[j], Address(p, j)) = MachineTarget(p, j)
      BY BranchReaches
    <3> QED BY <3>1, LabelsOfCases, ElemsOfTuples DEF IsBranch
  <2> QED BY <1>1, <2>1
<1>3. IsConditionalBranch(p[k]) \/ p[k].op = "s_endpgm" =>
          Address(p, k + 1) \in LabelsUpTo(p, Len(p))
  <2>1. IsConditionalBranch(p[k]) \/ p[k].op = "s_endpgm" =>
            Address(p, k + 1) \in Elems(LabelsOf(p[k], Address(p, k)))
    BY <1>0, LabelsOfCases, ElemsOfTuples
  <2> QED BY <1>1, <2>1
<1>4. IsUnconditionalBranch(p[k]) /\ k # Len(p) => Address(p, k + 1) \in LabelsUpTo(p, Len(p))
  <2> SUFFICES ASSUME IsUnconditionalBranch(p[k]), k # Len(p)
               PROVE  Address(p, k + 1) \in LabelsUpTo(p, Len(p))
    OBVIOUS
  <2>1. k \in 1 .. Len(p) - 1
    BY <1>a
  <2>2. IsTarget(p, k + 1)
    BY <2>1, CompiledFacts, Zenon
  <2>3. PICK j \in DOMAIN p : IsBranch(p[j]) /\ MachineTarget(p, j) = Address(p, k + 1)
    BY <2>2 DEF IsTarget
  <2>4. j \in 1 .. Len(p)
    BY <1>0
  <2> QED BY <1>2, <2>3, <2>4
<1> QED
  BY <1>0, <1>2, <1>3, <1>4
     DEF IsTerminateInstruction, IsConditionalBranch, IsUnconditionalBranch

\* Labels that follow one another have no label between them.
LEMMA NoLabelBetween ==
    ASSUME Labelled, Compiled(inst_list), NEW i \in 1 .. Len(labels) - 1,
           NEW a \in LabelsUpTo(inst_list, Len(inst_list)), labels[i] < a
    PROVE  labels[i + 1] <= a
<1>1. PICK j \in 1 .. Len(labels) : labels[j] = a
  BY LabelFacts
<1>2. i \in 1 .. Len(labels) /\ i + 1 \in 1 .. Len(labels) /\ i \in Nat /\ j \in Nat
  BY LabelFacts
<1>3. /\ labels[i] \in Nat /\ labels[j] \in Nat /\ labels[i + 1] \in Nat
      /\ j < i => labels[j] < labels[i]
      /\ i + 1 < j => labels[i + 1] < labels[j]
  BY <1>2, LabelFacts DEF Labelled
<1>4. j < i \/ j = i \/ j = i + 1 \/ i + 1 < j
  BY <1>2
<1> QED BY <1>1, <1>3, <1>4

\* A block goes from the address of an instruction to the end of another one
\* that is not before it.
LEMMA BlockFacts ==
    ASSUME Labelled, Compiled(inst_list), NEW i \in 1 .. Len(labels) - 1,
           NEW b, Cut(b, i)
    PROVE  /\ b.begin \in Nat /\ b.end \in Nat /\ b.begin < b.end
           /\ b.end_index \in 1 .. Len(inst_list) /\ b.end = At(b.end_index + 1)
           /\ b.begin <= At(b.end_index)
           /\ \A k \in 1 .. Len(inst_list) : At(k) < b.end <=> k <= b.end_index
<1> DEFINE N == Len(inst_list)
<1>0. N \in Nat /\ inst_list \in Seq(Inst) /\ \A j \in 1 .. N + 1 : At(j) \in Nat
  BY CompiledFacts, ProgramType, SumEquation DEF At
<1>1. /\ b.begin = labels[i] /\ b.end = labels[i + 1]
      /\ b.end_index \in 1 .. N /\ b.end = At(b.end_index + 1)
  BY DEF Cut
<1>2. b.begin < b.end /\ i \in 1 .. Len(labels) /\ i + 1 \in 1 .. Len(labels)
  BY <1>1, LaterLabels
<1>3. b.begin \in Nat /\ b.end \in Nat
  BY <1>1, <1>2, LabelFacts
<1>4. PICK j \in 1 .. N + 1 : b.begin = At(j)
  BY <1>1, <1>2, LabelFacts
<1>5. b.end_index + 1 \in 1 .. N + 1 /\ b.end_index \in 1 .. N + 1
      /\ \A k \in 1 .. N : k \in 1 .. N + 1
  BY <1>0, <1>1, SMTT(60)
<1>6. \A k \in 1 .. N : At(k) < b.end <=> k <= b.end_index
  <2>1. \A k \in 1 .. N : At(k) < At(b.end_index + 1) <=> k < b.end_index + 1
    BY <1>5, AddressesGrow DEF At
  <2>2. \A k \in 1 .. N : k < b.end_index + 1 <=> k <= b.end_index
    BY <1>0, <1>1
  <2> QED BY <1>1, <2>1, <2>2
<1>7. b.begin <= At(b.end_index)
  <2>1. j < b.end_index + 1
    BY <1>1, <1>2, <1>4, <1>5, AddressesGrow DEF At
  <2>2. j = b.end_index \/ j < b.end_index
    BY <1>0, <1>1, <2>1
  <2>3. j < b.end_index => At(j) < At(b.end_index)
    BY <1>5, AddressesGrow DEF At
  <2> QED BY <1>0, <1>3, <1>4, <1>5, <2>2, <2>3
<1> QED BY <1>1, <1>2, <1>3, <1>6, <1>7

\* Indices are instructions and links are blocks.
LEMMA TypeLemma == ASSUME Inv, Compiled(inst_list) PROVE TypeOK
<1>0. inst_list \in Seq(Inst) /\ Len(inst_list) \in Nat /\ DOMAIN inst_list = 1 .. Len(inst_list)
      /\ \A j \in 1 .. Len(inst_list) + 1 : At(j) \in Nat
  BY CompiledFacts, ProgramType, SumEquation DEF At
<1>1. /\ index_to_pc \in Seq(Nat) /\ pc \in Nat /\ labels \in Seq(Nat)
      /\ cursor \in Nat \ {0}
      /\ phase \in {"EmitLabels", "EmitBlocks", "LinkBlocks", "done", "abort"}
  <2>1. CASE EmittingLabels
    <3>1. cursor \in Nat \ {0} /\ (cursor - 1) + 1 \in 1 .. Len(inst_list) + 1
      BY <1>0, <2>1 DEF EmittingLabels
    <3> QED BY <1>0, <2>1, <3>1 DEF EmittingLabels, Indexed
  <2>2. CASE Labelled /\ cursor \in 1 .. Len(labels)
             /\ phase \in {"EmitBlocks", "LinkBlocks", "done", "abort"}
    <3>1. Len(inst_list) + 1 \in 1 .. Len(inst_list) + 1
      BY <1>0
    <3> QED BY <1>0, <2>2, <3>1 DEF Labelled, Indexed
  <2>3. ASSUME Returned \/ Aborted PROVE cursor \in 1 .. Len(labels)
    BY <2>3, LabelFacts DEF Returned, Aborted, Labelled
  <2> QED BY <2>1, <2>2, <2>3 DEF Inv, EmittingBlocks, LinkingBlocks, Returned, Aborted
<1>2. ASSUME NEW i \in DOMAIN blocks
      PROVE  /\ blocks[i].cond \in {"True", "Guest"}
             /\ blocks[i].end_class \in {"Branch", "Exit"}
             /\ {blocks[i].begin_index, blocks[i].end_index} \subseteq DOMAIN inst_list
             /\ {blocks[i].branch_true, blocks[i].branch_false} \subseteq 0 .. Len(blocks)
  <2>1. blocks # <<>>
    BY <1>2
  <2>2. PICK n, m : Laid(n, m)
    BY <2>1 DEF Inv, EmittingLabels, EmittingBlocks, LinkingBlocks, Returned, Aborted
  <2>3. Len(blocks) = n /\ n \in Nat /\ i \in 1 .. n /\ blocks[i] \in BlockType
    BY <2>2, LenProperties, ElementOfSeq DEF Laid
  <2>4. Cut(blocks[i], i) /\ (Linked(blocks, blocks[i]) \/ Unlinked(blocks[i]))
    BY <2>2, <2>3 DEF Laid
  <2>5. {blocks[i].branch_true, blocks[i].branch_false} \subseteq 0 .. Len(blocks)
    BY <2>3, <2>4 DEF Linked, Unlinked, GoesTo
  <2> QED BY <1>0, <2>3, <2>4, <2>5 DEF BlockType, Cut
<1> QED BY <1>0, <1>1, <1>2 DEF TypeOK

\* The constructor has returned.
LEMMA DoneFacts ==
    ASSUME Inv, Compiled(inst_list), phase = "done"
    PROVE  /\ Labelled /\ blocks \in Seq(BlockType)
           /\ Len(blocks) \in Nat /\ Len(blocks) = Len(labels) - 1
           /\ DOMAIN blocks = 1 .. Len(blocks)
           /\ \A i \in 1 .. Len(blocks) : Cut(blocks[i], i) /\ Linked(blocks, blocks[i])
<1>1. Returned
  BY DEF Inv, EmittingLabels, EmittingBlocks, LinkingBlocks, Returned, Aborted
<1>2. /\ Labelled /\ blocks \in Seq(BlockType) /\ Len(blocks) = Len(labels) - 1
      /\ \A i \in 1 .. Len(blocks) : Cut(blocks[i], i)
      /\ \A i \in 1 .. Len(blocks) : i <= Len(blocks) => Linked(blocks, blocks[i])
  BY <1>1 DEF Returned, Laid
<1>3. Len(blocks) \in Nat /\ DOMAIN blocks = 1 .. Len(blocks)
  BY <1>2, LenProperties
<1> QED BY <1>2, <1>3

\* The largest label is the end of a program that ends with s_endpgm.
LEMMA LastLabelIsTheEnd ==
    ASSUME Labelled, Compiled(inst_list), EndsTheShader
    PROVE  Len(labels) > 1 /\ labels[Len(labels)] = EndAddress(inst_list)
<1> DEFINE N == Len(inst_list)
<1>0. /\ N \in Nat /\ N > 0 /\ N \in 1 .. N /\ inst_list \in Seq(Inst)
      /\ \A j \in 1 .. N + 1 : At(j) \in Nat
      /\ At(1) = 0
  <2>1. 1 \in 1 .. N /\ N \in Nat /\ inst_list \in Seq(Inst)
    BY CompiledFacts, IndexOfLabel
  <2> QED BY <2>1, SumEquation DEF At
<1>1. At(N + 1) \in LabelsUpTo(inst_list, N)
  BY <1>0, TargetsAreLabels DEF EndsTheShader, At
<1>2. PICK i \in 1 .. Len(labels) : labels[i] = At(N + 1)
  BY <1>1, LabelFacts
<1>3. Len(labels) \in 1 .. Len(labels) /\ Len(labels) \in Nat
  BY LabelFacts DEF Labelled
<1>4. \A a \in 1 .. Len(labels) : labels[a] <= At(N + 1)
  <2> SUFFICES ASSUME NEW a \in 1 .. Len(labels) PROVE labels[a] <= At(N + 1)
    OBVIOUS
  <2>1. PICK j \in 1 .. N + 1 : labels[a] = At(j)
    BY LabelFacts
  <2>2. j < N + 1 \/ j = N + 1
    BY <1>0
  <2>3. N + 1 \in 1 .. N + 1
    BY <1>0
  <2>4. j < N + 1 => At(j) < At(N + 1)
    BY <2>3, AddressesGrow DEF At
  <2> QED BY <1>0, <2>1, <2>2, <2>3, <2>4
<1>5. i = Len(labels)
  <2> SUFFICES ASSUME i # Len(labels) PROVE FALSE
    OBVIOUS
  <2>1. i < Len(labels)
    BY <1>3
  <2>2. labels[i] < labels[Len(labels)]
    BY <1>3, <2>1 DEF Labelled
  <2>3. labels[Len(labels)] <= labels[i] /\ labels[i] \in Nat /\ labels[Len(labels)] \in Nat
    BY <1>2, <1>3, <1>4, LabelFacts
  <2> QED BY <2>2, <2>3
<1>6. labels[Len(labels)] # 0
  <2>1. 1 \in 1 .. N + 1 /\ N + 1 \in 1 .. N + 1 /\ 1 < N + 1
    BY <1>0
  <2>2. At(1) < At(N + 1)
    BY <2>1, AddressesGrow DEF At
  <2> QED BY <1>0, <1>2, <1>5, <2>1, <2>2
<1>7. Len(labels) # 1
  BY <1>6, LabelFacts
<1> QED BY <1>2, <1>3, <1>5, <1>7 DEF EndAddress, At

\* The blocks tile a program that ends with s_endpgm.
LEMMA TilesLemma == ASSUME Inv, Compiled(inst_list) PROVE BlocksTile
<1> SUFFICES ASSUME phase = "done", EndsTheShader
             PROVE  /\ blocks # <<>>
                    /\ blocks[1].begin = 0
                    /\ blocks[Len(blocks)].end = EndAddress(inst_list)
                    /\ \A i \in DOMAIN blocks : blocks[i].begin < blocks[i].end
                    /\ \A i \in 1 .. Len(blocks) - 1 : blocks[i].end = blocks[i + 1].begin
  BY DEF BlocksTile
<1>1. /\ Labelled /\ Len(blocks) \in Nat /\ Len(blocks) = Len(labels) - 1
      /\ DOMAIN blocks = 1 .. Len(blocks)
      /\ \A i \in 1 .. Len(blocks) : Cut(blocks[i], i)
  BY DoneFacts
<1>2. Len(labels) > 1 /\ labels[Len(labels)] = EndAddress(inst_list) /\ Len(labels) \in Nat
  BY <1>1, LastLabelIsTheEnd, LabelFacts
<1>3. \A i \in 1 .. Len(blocks) : blocks[i].begin = labels[i] /\ blocks[i].end = labels[i + 1]
  BY <1>1 DEF Cut
<1>4. blocks # <<>>
  BY <1>1, <1>2
<1>5. /\ 1 \in 1 .. Len(blocks) /\ Len(blocks) \in 1 .. Len(blocks)
      /\ Len(blocks) + 1 = Len(labels)
      /\ \A i \in 1 .. Len(blocks) - 1 : i \in 1 .. Len(blocks) /\ i + 1 \in 1 .. Len(blocks)
  BY <1>1, <1>2
<1>6. \A i \in 1 .. Len(blocks) : blocks[i].begin < blocks[i].end
  BY <1>1, BlockFacts
<1> QED BY <1>1, <1>2, <1>3, <1>4, <1>5, <1>6, LabelFacts

\* What the machine does after instruction k.
LEMMA MachineNextCases ==
    ASSUME NEW p, NEW k
    PROVE  /\ p[k].op = "alu" => MachineNext(p, k) = {Address(p, k + 1)}
           /\ p[k].op = "s_branch" => MachineNext(p, k) = {MachineTarget(p, k)}
           /\ p[k].op = "s_cbranch" =>
                 MachineNext(p, k) = {MachineTarget(p, k), Address(p, k + 1)}
           /\ p[k].op = "s_endpgm" => MachineNext(p, k) = {}
<1>1. /\ "alu" # "s_branch" /\ "alu" # "s_cbranch" /\ "alu" # "s_endpgm"
      /\ "s_branch" # "s_cbranch" /\ "s_branch" # "s_endpgm" /\ "s_cbranch" # "s_endpgm"
  OBVIOUS
<1> QED BY <1>1, Zenon DEF MachineNext

\* The opcodes of a compiled program.
LEMMA OpcodeCases ==
    ASSUME NEW p, Compiled(p), NEW k \in 1 .. Len(p)
    PROVE  p[k].op \in {"alu", "s_branch", "s_cbranch", "s_endpgm"}
<1>1. p \in Seq(Inst) /\ p[k].op # "s_fork" /\ p[k].op # "s_cbranch_cdbg"
  BY CompiledFacts, Zenon
<1>2. p[k].op \in Opcodes
  BY <1>1, ProgramType
<1> QED BY <1>1, <1>2 DEF Opcodes

\* Control leaves a block at its end and enters it at its begin.
LEMMA LinearLemma == ASSUME Inv, Compiled(inst_list) PROVE BlocksAreLinear
<1> DEFINE N == Len(inst_list)
<1> SUFFICES ASSUME phase = "done", NEW i \in DOMAIN blocks, NEW k \in InstsOf(blocks[i])
             PROVE  /\ IsTerminateInstruction(inst_list[k]) => At(k + 1) = blocks[i].end
                    /\ At(k) # blocks[i].begin =>
                          \A j \in DOMAIN inst_list : At(k) \in MachineNext(inst_list, j) => j = k - 1
  BY DEF BlocksAreLinear, At
<1> DEFINE b == blocks[i]
<1>1. /\ Labelled /\ i \in 1 .. Len(labels) - 1 /\ Cut(b, i)
      /\ N \in Nat /\ DOMAIN inst_list = 1 .. N /\ inst_list \in Seq(Inst)
  BY DoneFacts, CompiledFacts
<1>2. k \in 1 .. N /\ At(k) >= b.begin /\ At(k) < b.end
  BY <1>1 DEF InstsOf, At
<1>3. /\ b.begin = labels[i] /\ b.end = labels[i + 1] /\ b.begin \in Nat /\ b.end \in Nat
      /\ b.end_index \in 1 .. N /\ b.end = At(b.end_index + 1) /\ k <= b.end_index
  <2>1. b.begin = labels[i] /\ b.end = labels[i + 1]
    BY <1>1 DEF Cut
  <2> HIDE DEF b
  <2>2. /\ b.begin \in Nat /\ b.end \in Nat
        /\ b.end_index \in 1 .. N /\ b.end = At(b.end_index + 1) /\ k <= b.end_index
    BY <1>1, <1>2, BlockFacts
  <2> QED BY <2>1, <2>2
<1> HIDE DEF b
<1>4. /\ \A j \in 1 .. N + 1 : At(j) \in Nat
      /\ \A a, c \in 1 .. N + 1 : a < c <=> At(a) < At(c)
  BY <1>1, SumEquation, AddressesGrow DEF At
<1>5. \A a \in LabelsUpTo(inst_list, N) : b.begin < a => b.end <= a
  BY <1>1, <1>3, NoLabelBetween
<1>6. k \in 1 .. N + 1 /\ k + 1 \in 1 .. N + 1 /\ b.end_index + 1 \in 1 .. N + 1
  BY <1>1, <1>2, <1>3
<1>7. IsTerminateInstruction(inst_list[k]) => At(k + 1) = b.end
  <2> SUFFICES ASSUME IsTerminateInstruction(inst_list[k]) PROVE k = b.end_index
    BY <1>3
  <2>1. CASE k = N
    BY <1>1, <1>3, <2>1
  <2>2. CASE At(k + 1) \in LabelsUpTo(inst_list, N)
    <3>1. k < k + 1
      BY <1>1, <1>2
    <3>2. At(k) < At(k + 1) /\ At(k) \in Nat /\ At(k + 1) \in Nat
      BY <1>4, <1>6, <3>1
    <3>3. b.begin < At(k + 1)
      BY <1>2, <1>3, <3>2
    <3>4. b.end <= At(k + 1)
      BY <1>5, <2>2, <3>3
    <3>5. ~(k + 1 < b.end_index + 1)
      <4>1. ~(At(k + 1) < At(b.end_index + 1))
        BY <1>3, <3>2, <3>4
      <4> QED BY <1>4, <1>6, <4>1
    <3> QED BY <1>1, <1>2, <1>3, <3>5
  <2> QED BY <1>2, <2>1, <2>2, TargetsAreLabels DEF At
<1>8. ASSUME At(k) # b.begin, NEW j \in 1 .. N, At(k) \in MachineNext(inst_list, j)
      PROVE  j = k - 1
  <2>1. At(k) \notin LabelsUpTo(inst_list, N)
    <3>1. At(k) \in Nat /\ b.begin < At(k)
      BY <1>2, <1>3, <1>4, <1>6, <1>8
    <3> QED BY <1>2, <1>3, <1>5, <3>1
  <2>2. IsBranch(inst_list[j]) => At(k) # MachineTarget(inst_list, j)
    BY <2>1, TargetsAreLabels
  <2>3. At(k) = At(j + 1)
    <3>1. inst_list[j].op \in {"alu", "s_branch", "s_cbranch", "s_endpgm"}
      BY OpcodeCases
    <3>2. CASE inst_list[j].op = "alu"
      BY <1>8, <3>2, MachineNextCases DEF At
    <3>3. CASE inst_list[j].op = "s_branch"
      BY <1>8, <2>2, <3>3, MachineNextCases DEF IsBranch, IsUnconditionalBranch
    <3>4. CASE inst_list[j].op = "s_cbranch"
      BY <1>8, <2>2, <3>4, MachineNextCases DEF IsBranch, IsConditionalBranch, At
    <3>5. CASE inst_list[j].op = "s_endpgm"
      BY <1>8, <3>5, MachineNextCases
    <3> QED BY <3>1, <3>2, <3>3, <3>4, <3>5
  <2>4. j + 1 \in 1 .. N + 1
    BY <1>1
  <2>5. ~(k < j + 1) /\ ~(j + 1 < k)
    BY <1>4, <1>6, <2>3, <2>4
  <2> QED BY <1>1, <1>2, <2>5
<1> QED BY <1>1, <1>7, <1>8 DEF b

\* Where the links of a finished block go: to the block i + 1 when control can
\* fall through, and to the block the branch names.
LEMMA LinksLemma == ASSUME Inv, Compiled(inst_list) PROVE LinksFollowExecution
<1> DEFINE N == Len(inst_list)
           Last(b) == CHOOSE k \in InstsOf(b) : \A j \in InstsOf(b) : j <= k
<1> SUFFICES ASSUME phase = "done", NEW i \in DOMAIN blocks
             PROVE  /\ Successors(blocks[i]) = MachineNext(inst_list, Last(blocks[i]))
                    /\ (blocks[i].end_class = "Exit") <=>
                           (inst_list[Last(blocks[i])].op = "s_endpgm")
  BY DEF LinksFollowExecution
<1> DEFINE b == blocks[i]
           m == b.end_index
           inst == inst_list[m]
<1>1. /\ Labelled /\ i \in 1 .. Len(labels) - 1 /\ Cut(b, i) /\ Linked(blocks, b)
      /\ N \in Nat /\ DOMAIN inst_list = 1 .. N /\ inst_list \in Seq(Inst)
      /\ Len(blocks) \in Nat
  BY DoneFacts, CompiledFacts
<1>2. /\ b.begin \in Nat /\ m \in 1 .. N /\ b.end = At(m + 1) /\ b.begin <= At(m)
      /\ b.end_inst = inst
      /\ \A k \in 1 .. N : At(k) < b.end <=> k <= m
  <2>1. b.end_inst = inst
    BY <1>1 DEF Cut
  <2> HIDE DEF b
  <2> QED BY <1>1, <2>1, BlockFacts
<1>3. Last(b) = m
  <2>1. m \in InstsOf(b)
    <3>1. m <= m /\ At(m) >= b.begin
      <4>1. At(m) \in Nat /\ m \in Nat
        <5>1. m \in 1 .. N + 1
          BY <1>1, <1>2
        <5> QED BY <1>1, <1>2, <5>1, SumEquation DEF At
      <4> QED BY <1>2, <4>1
    <3> QED BY <1>1, <1>2, <3>1 DEF InstsOf, At
  <2>2. \A k \in InstsOf(b) : k \in 1 .. N /\ k <= m
    BY <1>1, <1>2 DEF InstsOf, At
  <2> HIDE DEF b, m
  <2>3. \A k \in InstsOf(b) : (\A j \in InstsOf(b) : j <= k) <=> k = m
    <3>1. m \in Nat /\ \A k \in InstsOf(b) : k \in Nat
      BY <1>1, <1>2, <2>2
    <3> QED BY <2>1, <2>2, <3>1
  <2> QED BY <2>1, <2>3
<1>4. b.end - inst.length = At(m) /\ At(m + 1) = b.end
  <2>1. At(m + 1) = At(m) + inst.length /\ At(m) \in Nat /\ inst.length \in Nat
    <3>1. m \in 1 .. N + 1
      BY <1>1, <1>2
    <3> QED BY <1>1, <1>2, <3>1, CompiledFacts, SumEquation DEF At
  <2> HIDE DEF b, m, inst
  <2> QED BY <1>2, <2>1
<1>5. IsBranch(inst) => TrueAddress(b) = MachineTarget(inst_list, m)
  <2> SUFFICES ASSUME IsBranch(inst) PROVE TrueAddress(b) = MachineTarget(inst_list, m)
    OBVIOUS
  <2>1. BranchTarget(inst, At(m)) = MachineTarget(inst_list, m)
    BY <1>2, BranchReaches DEF At
  <2>2. IsTerminateInstruction(b.end_inst)
    BY <1>2 DEF IsBranch, IsUnconditionalBranch, IsConditionalBranch, IsTerminateInstruction
  <2> HIDE DEF b, m, inst
  <2> QED BY <1>2, <1>4, <2>1, <2>2 DEF TrueAddress
<1>6. \A j, a : GoesTo(blocks, j, a) => j # 0 /\ blocks[j].begin = a
  BY <1>1 DEF GoesTo
<1>7. Successors(b) = MachineNext(inst_list, m) /\ (b.end_class = "Exit" <=> inst.op = "s_endpgm")
  <2>0. inst.op \in {"alu", "s_branch", "s_cbranch", "s_endpgm"}
    BY <1>2, OpcodeCases
  <2> HIDE DEF b, m
  <2>1. CASE inst.op = "alu"
    <3>1. LinksTrue(b) /\ ~LinksFalse(b) /\ TrueAddress(b) = b.end
      BY <1>2, <2>1 DEF LinksTrue, LinksFalse, TrueAddress, IsTerminateInstruction, IsConditionalBranch
    <3>2. GoesTo(blocks, b.branch_true, b.end) /\ b.branch_false = 0 /\ b.end_class = "Branch"
      BY <1>1, <3>1, Zenon DEF Linked
    <3>3. Successors(b) = {b.end}
      BY <1>6, <3>2 DEF Successors
    <3> QED BY <1>4, <2>1, <3>2, <3>3, MachineNextCases DEF At
  <2>2. CASE inst.op = "s_branch"
    <3>1. LinksTrue(b) /\ ~LinksFalse(b) /\ IsBranch(inst)
      BY <1>2, <2>2 DEF LinksTrue, LinksFalse, IsUnconditionalBranch, IsConditionalBranch, IsBranch
    <3>2. /\ GoesTo(blocks, b.branch_true, TrueAddress(b))
          /\ b.branch_false = 0 /\ b.end_class = "Branch"
      BY <1>1, <3>1, Zenon DEF Linked
    <3>3. Successors(b) = {TrueAddress(b)}
      BY <1>6, <3>2 DEF Successors
    <3> QED BY <1>5, <2>2, <3>1, <3>2, <3>3, MachineNextCases
  <2>3. CASE inst.op = "s_cbranch"
    <3>1. LinksTrue(b) /\ LinksFalse(b) /\ IsBranch(inst)
      BY <1>2, <2>3 DEF LinksTrue, LinksFalse, IsConditionalBranch, IsBranch
    <3>2. /\ GoesTo(blocks, b.branch_true, TrueAddress(b))
          /\ GoesTo(blocks, b.branch_false, b.end) /\ b.end_class = "Branch"
      BY <1>1, <3>1, Zenon DEF Linked
    <3>3. Successors(b) = {TrueAddress(b), b.end}
      BY <1>6, <3>2 DEF Successors
    <3> QED BY <1>4, <1>5, <2>3, <3>1, <3>2, <3>3, MachineNextCases DEF At
  <2>4. CASE inst.op = "s_endpgm"
    <3>1. ~LinksTrue(b) /\ ~LinksFalse(b)
      BY <1>2, <2>4 DEF LinksTrue, LinksFalse, IsConditionalBranch, IsUnconditionalBranch,
                        IsTerminateInstruction
    <3>2. b.branch_true = 0 /\ b.branch_false = 0 /\ b.end_class = "Exit"
      BY <1>1, <3>1, Zenon DEF Linked
    <3>3. Successors(b) = {}
      BY <3>2 DEF Successors
    <3> QED BY <2>4, <3>2, <3>3, MachineNextCases
  <2> QED BY <2>0, <2>1, <2>2, <2>3, <2>4
<1> QED BY <1>3, <1>7

\* Each block ends as EndsOf lists it.
LEMMA CfgLemma == ASSUME Inv, Compiled(inst_list) PROVE BuildsACfg
<1> DEFINE n == Len(blocks)
           g == [i \in DOMAIN blocks |->
                    [end_class |-> blocks[i].end_class, cond |-> blocks[i].cond,
                     branch_true |-> blocks[i].branch_true,
                     branch_false |-> blocks[i].branch_false]]
<1> SUFFICES ASSUME phase = "done" PROVE IsCfg(g)
  BY DEF BuildsACfg
<1>1. /\ Labelled /\ n \in Nat /\ n = Len(labels) - 1 /\ DOMAIN blocks = 1 .. n
      /\ blocks \in Seq(BlockType)
      /\ \A i \in 1 .. n : Cut(blocks[i], i) /\ Linked(blocks, blocks[i])
  BY DoneFacts
<1>2. Len(g) = n
  BY <1>1
<1>3. g # <<>>
  <2>1. PICK k \in 1 .. Len(inst_list) : inst_list[k].op = "s_endpgm"
    BY CompiledFacts
  <2>2. At(k + 1) \in LabelsUpTo(inst_list, Len(inst_list))
    BY <2>1, TargetsAreLabels DEF At
  <2>3. PICK j \in 1 .. Len(labels) : labels[j] = At(k + 1)
    BY <1>1, <2>2, LabelFacts
  <2>4. Len(inst_list) \in Nat /\ inst_list \in Seq(Inst)
    BY CompiledFacts
  <2>5. k + 1 \in 1 .. Len(inst_list) + 1 /\ 1 \in 1 .. Len(inst_list) + 1 /\ 1 < k + 1
    BY <2>4
  <2>6. At(1) < At(k + 1) /\ At(1) = 0
    BY <2>4, <2>5, AddressesGrow, SumEquation DEF At
  <2>7. labels[1] = 0 /\ Len(labels) \in Nat
    BY <1>1, LabelFacts
  <2>8. j # 1
    BY <2>3, <2>6, <2>7
  <2>9. n # 0
    BY <1>1, <2>7, <2>8
  <2> HIDE DEF g
  <2> QED BY <1>2, <2>9
<1>4. ASSUME NEW i \in 1 .. n PROVE g[i] \in EndsOf(n, i)
  <2> DEFINE b == blocks[i]
             r == g[i]
  <2>1. /\ r = [end_class |-> b.end_class, cond |-> b.cond,
                branch_true |-> b.branch_true, branch_false |-> b.branch_false]
    BY <1>1
  <2> HIDE DEF g, r
  <2>2. /\ Cut(b, i) /\ Linked(blocks, b) /\ b.cond = MakeCondition(b.end_inst)
        /\ i \in 1 .. Len(labels) - 1
    BY <1>1 DEF Cut
  <2>3. LinksTrue(b) => b.branch_true \in 1 .. n /\ b.end_class = "Branch"
    BY <2>2 DEF Linked, GoesTo
  <2>4. ~LinksTrue(b) => b.branch_true = 0 /\ b.end_class = "Exit"
    BY <2>2 DEF Linked
  <2>5. LinksFalse(b) => LinksTrue(b) /\ b.cond = "Guest"
    BY <2>2 DEF LinksFalse, LinksTrue, MakeCondition
  <2>6. ~LinksFalse(b) => b.branch_false = 0 /\ b.cond = "True"
    BY <2>2 DEF LinksFalse, Linked, MakeCondition
  <2>7. LinksFalse(b) => b.branch_false = i + 1 /\ i < n
    <3> SUFFICES ASSUME LinksFalse(b) PROVE b.branch_false = i + 1 /\ i < n
      OBVIOUS
    <3> DEFINE f == b.branch_false
    <3>1. f \in 1 .. n /\ blocks[f].begin = b.end
      BY <2>2, Zenon DEF Linked, GoesTo
    <3>2. blocks[f].begin = labels[f] /\ b.end = labels[i + 1]
      BY <1>1, <2>2, <3>1 DEF Cut
    <3> HIDE DEF f, b
    <3>3. labels[f] = labels[i + 1]
      BY <3>1, <3>2
    <3>4. f \in 1 .. Len(labels) /\ i + 1 \in 1 .. Len(labels) /\ f \in Nat /\ i \in Nat
      BY <1>1, <3>1
    <3>5. /\ labels[f] \in Nat
          /\ f < i + 1 => labels[f] < labels[i + 1]
          /\ i + 1 < f => labels[i + 1] < labels[f]
      BY <1>1, <3>4, LabelFacts DEF Labelled
    <3>6. f = i + 1
      BY <3>3, <3>4, <3>5
    <3>7. i < n
      BY <1>1, <3>1, <3>4, <3>6
    <3> QED BY <3>6, <3>7 DEF f
  <2>8. CASE ~LinksTrue(b)
    <3>1. r = Exit
      BY <2>1, <2>4, <2>5, <2>6, <2>8 DEF Exit
    <3> QED BY <3>1 DEF EndsOf, r
  <2>9. CASE LinksTrue(b) /\ ~LinksFalse(b)
    <3>1. b.branch_true \in 1 .. n /\ r = Jump(b.branch_true)
      BY <2>1, <2>3, <2>6, <2>9 DEF Jump
    <3> QED BY <3>1 DEF EndsOf, r
  <2>10. CASE LinksFalse(b)
    <3>1. b.branch_true \in 1 .. n /\ i < n /\ r = Cond(b.branch_true, i + 1)
      BY <2>1, <2>3, <2>5, <2>7, <2>10 DEF Cond
    <3> QED BY <3>1 DEF EndsOf, r
  <2> QED BY <2>8, <2>9, <2>10
<1> HIDE DEF g
<1> QED BY <1>2, <1>3, <1>4 DEF IsCfg

\* Every address below the end that is a label is where a block begins.
LEMMA LabelsAreFound ==
    ASSUME Labelled, Compiled(inst_list), EndsTheShader, blocks \in Seq(BlockType),
           Len(blocks) = Len(labels) - 1, \A i \in 1 .. Len(blocks) : Cut(blocks[i], i),
           NEW a \in LabelsUpTo(inst_list, Len(inst_list)), a # EndAddress(inst_list)
    PROVE  GetBlock(a) # 0
<1>1. PICK j \in 1 .. Len(labels) : labels[j] = a
  BY LabelFacts
<1>2. Len(labels) \in Nat /\ labels[Len(labels)] = EndAddress(inst_list)
  BY LabelFacts, LastLabelIsTheEnd
<1>3. j \in 1 .. Len(blocks)
  BY <1>1, <1>2
<1>4. blocks[j].begin = a
  BY <1>1, <1>3 DEF Cut
<1> QED BY <1>3, <1>4, GetBlockFinds

\* With a label at the end, every lookup of LinkBlocks succeeds.
LEMMA AbortLemma == ASSUME Inv, Compiled(inst_list) PROVE AbortsOnlyWithoutEnd
<1> DEFINE N == Len(inst_list)
<1> SUFFICES ASSUME phase = "abort", EndsTheShader PROVE FALSE
  BY DEF AbortsOnlyWithoutEnd
<1>1. Aborted
  BY DEF Inv, EmittingLabels, EmittingBlocks, LinkingBlocks, Returned, Aborted
<1> DEFINE i == cursor
           b == blocks[i]
           m == b.end_index
           inst == inst_list[m]
<1>2. /\ Labelled /\ i \in 1 .. Len(labels) - 1 /\ blocks \in Seq(BlockType)
      /\ Len(blocks) = Len(labels) - 1
      /\ \A j \in 1 .. Len(blocks) : Cut(blocks[j], j)
      /\ ~LookupsSucceed(b)
  BY <1>1 DEF Aborted, Laid
<1>3. N \in Nat /\ N \in 1 .. N /\ inst_list \in Seq(Inst) /\ \A j \in 1 .. N : j \in 1 .. N + 1
  BY <1>2, IndexOfLabel, CompiledFacts
<1>4. /\ Cut(b, i) /\ m \in 1 .. N /\ b.end = At(m + 1) /\ b.end_inst = inst
  <2>1. Cut(b, i) /\ b.end_inst = inst
    BY <1>2 DEF Cut
  <2> HIDE DEF b
  <2> QED BY <1>2, <2>1, BlockFacts
<1>5. b.end = labels[i + 1] /\ labels[i + 1] \in LabelsUpTo(inst_list, N)
  <2>1. i + 1 \in 1 .. Len(labels) /\ DOMAIN labels = 1 .. Len(labels)
    BY <1>2, LabelFacts
  <2>2. labels[i + 1] \in Elems(labels)
    BY <2>1 DEF Elems
  <2> QED BY <1>2, <1>4, <2>2 DEF Cut, Labelled, Indexed
<1>6. inst.op # "s_endpgm" => GetBlock(b.end) # 0
  <2> SUFFICES ASSUME inst.op # "s_endpgm" PROVE b.end # EndAddress(inst_list)
    BY <1>2, <1>5, LabelsAreFound
  <2>1. m # N
    BY DEF EndsTheShader
  <2>2. m + 1 \in 1 .. N + 1 /\ N + 1 \in 1 .. N + 1 /\ m + 1 < N + 1
    BY <1>3, <1>4, <2>1
  <2>3. At(m + 1) < At(N + 1) /\ At(m + 1) \in Nat
    BY <1>3, <2>2, AddressesGrow, SumEquation DEF At
  <2> HIDE DEF b, m
  <2> QED BY <1>4, <2>3 DEF EndAddress, At
<1>7. IsBranch(inst) => GetBlock(TrueAddress(b)) # 0
  <2> SUFFICES ASSUME IsBranch(inst) PROVE GetBlock(TrueAddress(b)) # 0
    OBVIOUS
  <2>1. BranchTarget(inst, At(m)) = MachineTarget(inst_list, m)
    BY <1>4, BranchReaches DEF At
  <2>2. b.end - inst.length = At(m)
    <3>1. At(m + 1) = At(m) + inst.length /\ At(m) \in Nat /\ inst.length \in Nat
      BY <1>3, <1>4, CompiledFacts, SumEquation DEF At
    <3> HIDE DEF b, m, inst
    <3> QED BY <1>4, <3>1
  <2>3. TrueAddress(b) = MachineTarget(inst_list, m)
    <3>1. IsTerminateInstruction(b.end_inst)
      BY <1>4 DEF IsBranch, IsUnconditionalBranch, IsConditionalBranch, IsTerminateInstruction
    <3> HIDE DEF b, m, inst
    <3> QED BY <1>4, <2>1, <2>2, <3>1 DEF TrueAddress
  <2>4. MachineTarget(inst_list, m) \in LabelsUpTo(inst_list, N)
    BY <1>4, TargetsAreLabels
  <2>5. MachineTarget(inst_list, m) # EndAddress(inst_list)
    <3>1. PICK j \in 1 .. N : MachineTarget(inst_list, m) = Address(inst_list, j)
      BY <1>4, BranchReaches
    <3>2. j < N + 1 /\ N + 1 \in 1 .. N + 1 /\ j \in 1 .. N + 1
      BY <1>3
    <3>3. At(j) < At(N + 1) /\ At(j) \in Nat
      BY <1>3, <3>2, AddressesGrow, SumEquation DEF At
    <3> HIDE DEF m
    <3> QED BY <3>1, <3>3 DEF EndAddress, At
  <2> HIDE DEF b, m, inst
  <2> QED BY <1>2, <2>3, <2>4, <2>5, LabelsAreFound
<1>8. inst.op = "s_endpgm" => ~LinksTrue(b) /\ ~LinksFalse(b)
  BY <1>4 DEF LinksTrue, LinksFalse, IsConditionalBranch, IsUnconditionalBranch,
              IsTerminateInstruction
<1>9. /\ LinksTrue(b) /\ ~IsBranch(inst) => TrueAddress(b) = b.end
      /\ LinksFalse(b) => IsBranch(inst)
      /\ IsBranch(inst) => inst.op # "s_endpgm"
  BY <1>4 DEF LinksTrue, LinksFalse, TrueAddress, IsBranch, IsConditionalBranch,
              IsUnconditionalBranch
<1> HIDE DEF b, m, inst
<1> QED BY <1>2, <1>6, <1>7, <1>8, <1>9 DEF LookupsSucceed

-----------------------------------------------------------------------------
\* TypeOK, BlocksTile and BlocksAreLinear for every set of compiled programs:
\* the blocks are ranges of instructions that control enters at the first and
\* leaves at the last.
THEOREM BlocksAreLaidOutAlways ==
    ASSUME \A p \in Programs : Compiled(p)
    PROVE  Spec => []BlocksAreLaidOut
<1>1. Inv => BlocksAreLaidOut
  BY TypeLemma, TilesLemma, LinearLemma DEF Inv, BlocksAreLaidOut
<1> QED BY <1>1, Inductive, PTL

\* LinkBlocks gives every block the successors the machine has.
THEOREM LinksAreExecution ==
    ASSUME \A p \in Programs : Compiled(p)
    PROVE  Spec => []LinksFollowExecution
<1>1. Inv => LinksFollowExecution
  BY LinksLemma DEF Inv
<1> QED BY <1>1, Inductive, PTL

\* What the constructor returns is a graph GotoPass is specified on.
THEOREM AlwaysACfg ==
    ASSUME \A p \in Programs : Compiled(p)
    PROVE  Spec => []BuildsACfg
<1>1. Inv => BuildsACfg
  BY CfgLemma DEF Inv
<1> QED BY <1>1, Inductive, PTL

\* The assertion of get_block cannot fail in a program that ends with s_endpgm.
THEOREM NoAbortWithAnEnd ==
    ASSUME \A p \in Programs : Compiled(p)
    PROVE  Spec => []AbortsOnlyWithoutEnd
<1>1. Inv => AbortsOnlyWithoutEnd
  BY AbortLemma DEF Inv
<1> QED BY <1>1, Inductive, PTL
=============================================================================
