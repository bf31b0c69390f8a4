--------------------------- MODULE SsaRewriteProofs ---------------------------
(***************************************************************************)
(* What holds of the SSA construction for every program it is given:       *)
(* instructions count their uses exactly, a read makes one phi per block.  *)
(*                                                                         *)
(* First what the operators of SsaRewrite do to any pool of instructions   *)
(* and any list, whatever the arguments name: the counts of the uses stay  *)
(* exact, values stay in the pool, the phis of a list stay first.  Then    *)
(* the invariant, and a lemma for each step of the passes.                 *)
(***************************************************************************)
EXTENDS SsaRewrite, FiniteSetTheorems, FunctionTheorems, SequenceTheorems,
        WellFoundedInduction, TLAPS

-----------------------------------------------------------------------------
(* Pools                                                                   *)

\* A pool of instructions: the arguments are in the pool, and an Identity has the
\* value it stands for.
PoolOK(in) ==
    /\ in \in Seq(Inst(DOMAIN in))
    /\ \A i \in DOMAIN in : in[i].op = "Identity" => in[i].args # <<>>

NoneEmpty(in) == \A i \in DOMAIN in : \A k \in DOMAIN in[i].args : in[i].args[k] # Empty

\* Every instruction that was not replaced counts the arguments that name it.
Counted(in) ==
    \A i \in DOMAIN in :
        in[i].op \notin {"Identity", "Void"} => in[i].use_count = Cardinality(UsesOf(in, i))

-----------------------------------------------------------------------------
(* Values and the pool                                                     *)

\* A set of numbers that is not empty has a least one.
LEMMA NatMin ==
    ASSUME NEW S, S \subseteq Nat, S # {}
    PROVE  \E m \in S : \A k \in S : m <= k
<1> DEFINE R == OpToRel(<, Nat)
<1>1. IsWellFoundedOn(R, Nat)
  BY NatLessThanWellFounded
<1>2. \A x, y \in Nat : x < y => <<x, y>> \in R
  BY DEF OpToRel
<1>3. PICK m \in S : \A k \in S : ~(<<k, m>> \in R)
  <2> HIDE DEF R
  <2> QED BY <1>1, WFMin
<1>4. \A k \in S : ~(k < m)
  BY <1>2, <1>3
<1> QED BY <1>4

\* What the invariant says of one instruction of a pool.
LEMMA PoolFacts ==
    ASSUME NEW in, PoolOK(in)
    PROVE  /\ Len(in) \in Nat
           /\ DOMAIN in = 1 .. Len(in)
           /\ \A i \in DOMAIN in : in[i] \in Inst(DOMAIN in)
           /\ \A i \in DOMAIN in :
                /\ Len(in[i].args) \in Nat
                /\ DOMAIN in[i].args = 1 .. Len(in[i].args)
                /\ \A k \in DOMAIN in[i].args : in[i].args[k] \in Value(DOMAIN in)
           /\ \A i \in DOMAIN in : in[i].op = "Identity" => in[i].args[1] \in Value(DOMAIN in)
<1>1. /\ in \in Seq(Inst(DOMAIN in))
      /\ \A i \in DOMAIN in : in[i].op = "Identity" => in[i].args # <<>>
  BY DEF PoolOK
<1>2. /\ Len(in) \in Nat
      /\ DOMAIN in = 1 .. Len(in)
      /\ \A i \in DOMAIN in : in[i] \in Inst(DOMAIN in)
  BY <1>1, LenProperties, ElementOfSeq
<1>3. ASSUME NEW i \in DOMAIN in
      PROVE  /\ Len(in[i].args) \in Nat
             /\ DOMAIN in[i].args = 1 .. Len(in[i].args)
             /\ \A k \in DOMAIN in[i].args : in[i].args[k] \in Value(DOMAIN in)
             /\ in[i].args # <<>> => 1 \in DOMAIN in[i].args
  <2>1. in[i].args \in Seq(Value(DOMAIN in))
    BY <1>2 DEF Inst
  <2> QED BY <2>1, LenProperties, ElementOfSeq, EmptySeq
<1> QED BY <1>1, <1>2, <1>3

\* A value is an instruction of the pool or none.
LEMMA ValueCases ==
    ASSUME NEW D, NEW v \in Value(D)
    PROVE  /\ IsInst(v) => v[2] \in D /\ v = InstValue(v[2])
           /\ ~IsInst(v) => \A i : v # InstValue(i)
BY ImmediateAssumption DEF Value, IsInst, InstValue, Empty

\* An instruction value says which instruction.
LEMMA InstValues ==
    \A i, j : /\ InstValue(i) = InstValue(j) <=> i = j
              /\ IsInst(InstValue(i))
              /\ InstValue(i)[2] = i
              /\ InstValue(i) # Empty
BY DEF InstValue, IsInst, Empty

\* The equation of Resolve's recursive function has a solution, though nothing
\* says here that the chains of identities end: what stands at the end of a
\* chain, if there is one.
LEMMA ResolveEquation ==
    ASSUME NEW in, PoolOK(in)
    PROVE  \E f : f = [i \in DOMAIN in |->
                          IF in[i].op # "Identity" THEN InstValue(i)
                          ELSE IF IsInst(in[i].args[1]) THEN f[in[i].args[1][2]]
                          ELSE in[i].args[1]]
<1> DEFINE D == DOMAIN in
           Goes(i) == in[i].op = "Identity" /\ IsInst(in[i].args[1])
           After(i) == in[i].args[1][2]
           Closed(S) == \A j \in S : Goes(j) => After(j) \in S
           Reach(i) == {j \in D : \A S \in SUBSET D : i \in S /\ Closed(S) => j \in S}
           Ends(i) == {j \in Reach(i) : ~Goes(j)}
           At(j) == IF in[j].op # "Identity" THEN InstValue(j) ELSE in[j].args[1]
           EndOf(E) == At(CHOOSE j : j \in E)
           f == [i \in D |-> EndOf(Ends(i))]
<1>1. \A j \in D : Goes(j) => After(j) \in D
  BY PoolFacts, ValueCases
<1> HIDE DEF D, Goes, After
<1>2. \A i \in D : i \in Reach(i) /\ Reach(i) \subseteq D
  OBVIOUS
<1>3. \A i \in D : Closed(Reach(i))
  BY <1>1
<1>4. ASSUME NEW i \in D, Goes(i)
      PROVE  Ends(i) = Ends(After(i))
  <2>1. After(i) \in D
    BY <1>1, <1>4
  <2>2. Reach(i) \subseteq {i} \cup Reach(After(i))
    <3> DEFINE S == {i} \cup Reach(After(i))
    <3>1. S \in SUBSET D /\ i \in S
      BY <1>2, <2>1
    <3>2. Closed(S)
      BY <1>2, <1>3, <2>1
    <3> QED BY <3>1, <3>2
  <2>3. Reach(After(i)) \subseteq Reach(i)
    BY <1>4
  <2> HIDE DEF Reach
  <2> QED BY <1>4, <2>2, <2>3
<1>5. ASSUME NEW i \in D, ~Goes(i)
      PROVE  Ends(i) = {i}
  <2>1. {i} \in SUBSET D /\ i \in {i} /\ Closed({i})
    BY <1>5
  <2>2. Reach(i) = {i}
    BY <2>1
  <2> QED BY <2>2, <1>5
<1> HIDE DEF Ends, Reach, Closed
<1>6. \A i \in D : Goes(i) => f[i] = f[After(i)]
  BY <1>1, <1>4
<1>7. \A i \in D : ~Goes(i) => f[i] = At(i)
  <2> SUFFICES ASSUME NEW i \in D, ~Goes(i) PROVE EndOf(Ends(i)) = At(i)
    OBVIOUS
  <2>1. Ends(i) = {i}
    BY <1>5
  <2>2. (CHOOSE j : j \in {i}) = i
    OBVIOUS
  <2> QED BY <2>1, <2>2
<1>8. f = [i \in D |-> f[i]]
  OBVIOUS
<1> HIDE DEF f, At
<1>9. \A i \in D : f[i] = IF Goes(i) THEN f[After(i)] ELSE At(i)
  BY <1>6, <1>7
<1>10. f = [i \in D |-> IF Goes(i) THEN f[After(i)] ELSE At(i)]
  BY <1>8, <1>9
<1>11. \A i \in D : (IF Goes(i) THEN f[After(i)] ELSE At(i)) =
                    IF in[i].op # "Identity" THEN InstValue(i)
                    ELSE IF IsInst(in[i].args[1]) THEN f[in[i].args[1][2]] ELSE in[i].args[1]
  BY DEF Goes, After, At
<1> QED BY <1>10, <1>11 DEF D

\* An instruction that was not replaced stands for itself, an immediate too.
LEMMA ResolveFacts ==
    ASSUME NEW in, PoolOK(in)
    PROVE  /\ \A j \in DOMAIN in :
                in[j].op # "Identity" => Resolve(in, InstValue(j)) = InstValue(j)
           /\ \A v : ~IsInst(v) => Resolve(in, v) = v
<1>1. ASSUME NEW j \in DOMAIN in, in[j].op # "Identity"
      PROVE  Resolve(in, InstValue(j)) = InstValue(j)
  <2> DEFINE Solves(f) == f = [i \in DOMAIN in |->
                              IF in[i].op # "Identity" THEN InstValue(i)
                              ELSE IF IsInst(in[i].args[1]) THEN f[in[i].args[1][2]]
                              ELSE in[i].args[1]]
             r == CHOOSE f : Solves(f)
  <2>1. Solves(r)
    <3>1. \E f : Solves(f)
      BY ResolveEquation
    <3> HIDE DEF Solves
    <3> QED BY <3>1
  <2>2. Resolve(in, InstValue(j)) = r[j]
    BY InstValues DEF Resolve
  <2>3. r[j] = InstValue(j)
    <3> HIDE DEF r
    <3> QED BY <1>1, <2>1
  <2> QED BY <2>2, <2>3
<1>2. ASSUME NEW v, ~IsInst(v)
      PROVE  Resolve(in, v) = v
  BY <1>2 DEF Resolve
<1> QED BY <1>1, <1>2

\* Two pools that differ in use counts only.
SameButCounts(in, out) ==
    /\ DOMAIN out = DOMAIN in
    /\ \A i \in DOMAIN in :
            /\ out[i].op = in[i].op
            /\ out[i].var = in[i].var
            /\ out[i].args = in[i].args
            /\ out[i].preds = in[i].preds

\* Changing one instruction of a pool.
LEMMA PoolUpdate ==
    ASSUME NEW in, PoolOK(in), NEW i \in DOMAIN in, NEW r \in Inst(DOMAIN in),
           r.op = "Identity" => r.args # <<>>
    PROVE  /\ PoolOK([in EXCEPT ![i] = r])
           /\ DOMAIN [in EXCEPT ![i] = r] = DOMAIN in
           /\ [in EXCEPT ![i] = r][i] = r
           /\ \A j \in DOMAIN in : j # i => [in EXCEPT ![i] = r][j] = in[j]
<1> DEFINE out == [in EXCEPT ![i] = r]
<1>1. in \in Seq(Inst(DOMAIN in)) /\ i \in 1 .. Len(in)
  BY PoolFacts DEF PoolOK
<1>2. out \in Seq(Inst(DOMAIN in))
  BY <1>1, ExceptSeq
<1>3. /\ DOMAIN out = DOMAIN in
      /\ out[i] = r
      /\ \A j \in DOMAIN in : j # i => out[j] = in[j]
  OBVIOUS
<1>4. PoolOK(out)
  <2> HIDE DEF out
  <2> QED BY <1>2, <1>3 DEF PoolOK
<1> QED BY <1>3, <1>4

\* Counting a use changes no field but the count, and that of the instruction
\* that is named, unless it was replaced.
LEMMA CountEffect ==
    ASSUME NEW in, PoolOK(in), NEW v \in Value(DOMAIN in), NEW n \in Int
    PROVE  /\ PoolOK(Count(in, v, n))
           /\ SameButCounts(in, Count(in, v, n))
           /\ \A j \in DOMAIN in :
                in[j].op # "Identity" =>
                    Count(in, v, n)[j].use_count =
                        in[j].use_count + (IF v = InstValue(j) THEN n ELSE 0)
<1>0. \A j \in DOMAIN in : in[j] \in Inst(DOMAIN in)
  BY PoolFacts
<1>1. CASE IsImmediate(in, v)
  <2>1. Count(in, v, n) = in
    BY <1>1 DEF Count
  <2>2. \A j \in DOMAIN in : in[j].op # "Identity" => v # InstValue(j)
    BY <1>1, ResolveFacts, InstValues DEF IsImmediate
  <2>3. \A j \in DOMAIN in : in[j].use_count \in Int
    BY <1>0 DEF Inst
  <2> QED BY <2>1, <2>2, <2>3 DEF SameButCounts
<1>2. CASE ~IsImmediate(in, v)
  <2> DEFINE t == v[2]
             r == [in[t] EXCEPT !.use_count = @ + n]
  <2>1. t \in DOMAIN in /\ v = InstValue(t)
    BY <1>2, ResolveFacts, ValueCases DEF IsImmediate
  <2>2. in[t] \in Inst(DOMAIN in)
    BY <1>0, <2>1
  <2>3. /\ r \in Inst(DOMAIN in)
        /\ r.op = in[t].op /\ r.var = in[t].var /\ r.args = in[t].args /\ r.preds = in[t].preds
        /\ r.use_count = in[t].use_count + n
    <3> HIDE DEF t
    <3> QED BY <2>2, SMTT(60) DEF Inst
  <2>4. Count(in, v, n) = [in EXCEPT ![t] = r]
    BY <1>2 DEF Count
  <2>5. r.op = "Identity" => r.args # <<>>
    BY <2>1, <2>3 DEF PoolOK
  <2> HIDE DEF t, r
  <2>6. /\ PoolOK([in EXCEPT ![t] = r])
        /\ DOMAIN [in EXCEPT ![t] = r] = DOMAIN in
        /\ [in EXCEPT ![t] = r][t] = r
        /\ \A j \in DOMAIN in : j # t => [in EXCEPT ![t] = r][j] = in[j]
    BY <2>1, <2>3, <2>5, PoolUpdate
  <2>7. \A j \in DOMAIN in : in[j].use_count \in Int
    BY <1>0 DEF Inst
  <2>8. \A j \in DOMAIN in : v = InstValue(j) <=> j = t
    BY <2>1, InstValues
  <2> QED BY <2>3, <2>4, <2>6, <2>7, <2>8 DEF SameButCounts
<1> QED BY <1>1, <1>2

\* The turns of UndoUses' loop exist and end with its result.
LEMMA UndoneTurns ==
    ASSUME NEW in, NEW args, Len(args) \in Nat
    PROVE  \E f : /\ f[0] = in
                  /\ \A k \in 1 .. Len(args) : f[k] = UndoUse(f[k - 1], args[k])
                  /\ UndoUses(in, args) = f[Len(args)]
<1> DEFINE N == Len(args)
           Turns(f, n) == /\ f = [k \in 0 .. n |-> f[k]]
                          /\ f[0] = in
                          /\ \A k \in 1 .. n : f[k] = UndoUse(f[k - 1], args[k])
           Missing == {n \in 0 .. N : ~ \E f : Turns(f, n)}
           Solves(f) == f = [k \in 0 .. N |-> IF k = 0 THEN in ELSE UndoUse(f[k - 1], args[k])]
<1>0. N \in Nat
  OBVIOUS
<1> HIDE DEF N
<1>1. Missing = {}
  <2> SUFFICES ASSUME Missing # {} PROVE FALSE
    OBVIOUS
  <2>1. PICK n \in Missing : \A k \in Missing : n <= k
    <3>1. Missing \subseteq Nat
      BY <1>0
    <3> HIDE DEF Missing
    <3> QED BY <3>1, NatMin
  <2>2. n \in 0 .. N /\ ~ \E f : Turns(f, n)
    OBVIOUS
  <2>3. n # 0
    <3>1. Turns([k \in 0 .. 0 |-> in], 0)
      OBVIOUS
    <3> QED BY <3>1, <2>2
  <2>4. n - 1 \in 0 .. N /\ n \in 1 .. N /\ ~(n <= n - 1)
    BY <2>2, <2>3, <1>0
  <2>5. PICK f : Turns(f, n - 1)
    BY <2>1, <2>4
  <2> DEFINE g == [k \in 0 .. n |-> IF k = n THEN UndoUse(f[n - 1], args[n]) ELSE f[k]]
  <2>6. g = [k \in 0 .. n |-> g[k]] /\ g[0] = in
    BY <2>3, <2>4, <2>5
  <2>7. g[n] = UndoUse(f[n - 1], args[n]) /\ \A k \in 0 .. n - 1 : g[k] = f[k]
    BY <2>4
  <2>8. ASSUME NEW k \in 1 .. n
        PROVE  g[k] = UndoUse(g[k - 1], args[k])
    <3> HIDE DEF g
    <3>1. CASE k = n
      BY <3>1, <2>4, <2>7
    <3>2. CASE k # n
      <4>1. k \in 1 .. n - 1 /\ k \in 0 .. n - 1 /\ k - 1 \in 0 .. n - 1
        BY <3>2, <2>4
      <4>2. f[k] = UndoUse(f[k - 1], args[k])
        BY <4>1, <2>5
      <4> QED BY <4>1, <4>2, <2>7
    <3> QED BY <3>1, <3>2
  <2>9. Turns(g, n)
    BY <2>6, <2>8
  <2> QED BY <2>2, <2>9
<1>2. PICK f : Turns(f, N)
  BY <1>0, <1>1
<1>3. Solves(f)
  <2>1. f = [k \in 0 .. N |-> f[k]]
    BY <1>2
  <2>2. \A k \in 0 .. N : f[k] = IF k = 0 THEN in ELSE UndoUse(f[k - 1], args[k])
    BY <1>0, <1>2
  <2> QED BY <2>1, <2>2
<1>4. Solves(CHOOSE g : Solves(g))
  <2> HIDE DEF Solves
  <2> QED BY <1>3
<1> DEFINE r == CHOOSE g : Solves(g)
<1>5. UndoUses(in, args) = r[N]
  BY DEF UndoUses, N
<1> HIDE DEF r
<1>6. Solves(r)
  BY <1>4 DEF r
<1>7. Turns(r, N)
  <2>1. r = [k \in 0 .. N |-> r[k]]
    BY <1>6
  <2>2. r[0] = in
    BY <1>0, <1>6
  <2>3. \A k \in 1 .. N : r[k] = UndoUse(r[k - 1], args[k])
    BY <1>0, <1>6
  <2> QED BY <2>1, <2>2, <2>3
<1> QED BY <1>5, <1>7 DEF N

\* Which of the first n arguments name instruction i, and one argument more.
Named(args, i, n) == {m \in 1 .. n : args[m] = InstValue(i)}

\* Naming an instruction once more adds one use of it.
LEMMA NamedOneMore ==
    ASSUME NEW args, NEW i, NEW k \in Nat \ {0}
    PROVE  /\ IsFiniteSet(Named(args, i, k - 1))
           /\ Cardinality(Named(args, i, k - 1)) \in Nat
           /\ Cardinality(Named(args, i, k)) =
                Cardinality(Named(args, i, k - 1)) + (IF args[k] = InstValue(i) THEN 1 ELSE 0)
<1> DEFINE Before == Named(args, i, k - 1)
<1>1. IsFiniteSet(Before) /\ Cardinality(Before) \in Nat
  <2>1. IsFiniteSet(1 .. k - 1)
    BY FS_Interval
  <2>2. Before \in SUBSET (1 .. k - 1)
    BY DEF Named
  <2> HIDE DEF Before
  <2> QED BY <2>1, <2>2, FS_Subset, FS_CardinalityType
<1>2. CASE args[k] = InstValue(i)
  <2>1. Named(args, i, k) = Before \cup {k} /\ k \notin Before
    BY <1>2 DEF Named
  <2> HIDE DEF Before
  <2>2. Cardinality(Named(args, i, k)) = Cardinality(Before) + 1
    BY <1>1, <2>1, FS_AddElement
  <2> QED BY <1>1, <1>2, <2>2 DEF Before
<1>3. CASE args[k] # InstValue(i)
  <2>1. Named(args, i, k) = Before
    BY <1>3 DEF Named
  <2> QED BY <1>1, <1>3, <2>1
<1> QED BY <1>2, <1>3

\* Undoing the uses of some arguments takes off what they name.
LEMMA UndoUsesEffect ==
    ASSUME NEW in, PoolOK(in), NEW args \in Seq(Value(DOMAIN in))
    PROVE  /\ PoolOK(UndoUses(in, args))
           /\ SameButCounts(in, UndoUses(in, args))
           /\ \A j \in DOMAIN in :
                in[j].op # "Identity" =>
                    UndoUses(in, args)[j].use_count =
                        in[j].use_count - Cardinality(Named(args, j, Len(args)))
<1>0. Len(args) \in Nat /\ \A k \in 1 .. Len(args) : args[k] \in Value(DOMAIN in)
  BY LenProperties, ElementOfSeq
<1>1. PICK f : /\ f[0] = in
               /\ \A k \in 1 .. Len(args) : f[k] = UndoUse(f[k - 1], args[k])
               /\ UndoUses(in, args) = f[Len(args)]
  BY <1>0, UndoneTurns, SMTT(60)
<1> DEFINE Good(k) == /\ PoolOK(f[k])
                      /\ SameButCounts(in, f[k])
                      /\ \A j \in DOMAIN in :
                            in[j].op # "Identity" =>
                                f[k][j].use_count =
                                    in[j].use_count - Cardinality(Named(args, j, k))
           Bad == {k \in 0 .. Len(args) : ~Good(k)}
<1>2. \A j \in DOMAIN in : in[j].use_count \in Int
  BY PoolFacts DEF Inst
<1>3. Good(0)
  <2>1. \A j : Named(args, j, 0) = {}
    BY DEF Named
  <2>2. Cardinality({}) = 0
    BY FS_EmptySet
  <2>3. \A j : Cardinality(Named(args, j, 0)) = 0
    BY <2>1, <2>2
  <2>4. f[0] = in /\ SameButCounts(in, in)
    BY <1>1 DEF SameButCounts
  <2>5. \A j \in DOMAIN in : in[j].use_count = in[j].use_count - Cardinality(Named(args, j, 0))
    BY <1>2, <2>3
  <2> QED BY <2>4, <2>5
<1>4. ASSUME NEW k \in 1 .. Len(args), Good(k - 1)
      PROVE  Good(k)
  <2> DEFINE g == f[k - 1]
  <2>1. f[k] = Count(g, args[k], -1)
    BY <1>1 DEF UndoUse
  <2>2. /\ PoolOK(g)
        /\ DOMAIN g = DOMAIN in
        /\ SameButCounts(in, g)
        /\ \A j \in DOMAIN in :
                in[j].op # "Identity" =>
                    g[j].use_count = in[j].use_count - Cardinality(Named(args, j, k - 1))
    BY <1>4 DEF SameButCounts
  <2>3. args[k] \in Value(DOMAIN g)
    BY <1>0, <2>2
  <2> HIDE DEF g
  <2>4. /\ PoolOK(f[k])
        /\ SameButCounts(g, f[k])
        /\ \A j \in DOMAIN g :
                g[j].op # "Identity" =>
                    f[k][j].use_count =
                        g[j].use_count + (IF args[k] = InstValue(j) THEN -1 ELSE 0)
    BY <2>1, <2>2, <2>3, CountEffect
  <2>5. SameButCounts(in, f[k])
    BY <2>2, <2>4 DEF SameButCounts
  <2>6. ASSUME NEW j \in DOMAIN in, in[j].op # "Identity"
        PROVE  f[k][j].use_count = in[j].use_count - Cardinality(Named(args, j, k))
    <3>1. g[j].use_count = in[j].use_count - Cardinality(Named(args, j, k - 1))
      BY <2>2, <2>6
    <3>2. f[k][j].use_count = g[j].use_count + (IF args[k] = InstValue(j) THEN -1 ELSE 0)
      BY <2>2, <2>4, <2>6 DEF SameButCounts
    <3>3. /\ Cardinality(Named(args, j, k - 1)) \in Nat
          /\ Cardinality(Named(args, j, k)) =
                Cardinality(Named(args, j, k - 1)) + (IF args[k] = InstValue(j) THEN 1 ELSE 0)
      BY <1>0, NamedOneMore
    <3> QED BY <1>2, <3>1, <3>2, <3>3
  <2> QED BY <2>4, <2>5, <2>6
<1> HIDE DEF Good
<1>5. Bad = {}
  <2> SUFFICES ASSUME Bad # {} PROVE FALSE
    OBVIOUS
  <2>1. PICK n \in Bad : \A k \in Bad : n <= k
    <3>1. Bad \subseteq Nat
      BY <1>0
    <3> HIDE DEF Bad
    <3> QED BY <3>1, NatMin
  <2>2. n \in 1 .. Len(args) /\ n - 1 \in 0 .. Len(args) /\ ~(n <= n - 1)
    BY <1>0, <1>3, <2>1
  <2> QED BY <1>4, <2>1, <2>2
<1>6. Good(Len(args))
  BY <1>0, <1>5
<1> QED BY <1>1, <1>6 DEF Good

-----------------------------------------------------------------------------
(* Counting uses                                                           *)

\* How many arguments of instruction i name instruction j.
UsesBy(in, i, j) == Cardinality(Named(in[i].args, j, Len(in[i].args)))

\* The uses by one instruction and those by the others.
Here(in, i, j) == {<<i, k>> : k \in Named(in[i].args, j, Len(in[i].args))}
Elsewhere(in, i, j) == {u \in UsesOf(in, j) : u[1] # i}

\* The uses in one instruction are as many as its arguments that name i.
LEMMA UsesHere ==
    ASSUME NEW in, PoolOK(in), NEW i \in DOMAIN in, NEW j
    PROVE  /\ IsFiniteSet(Here(in, i, j))
           /\ Cardinality(Here(in, i, j)) = UsesBy(in, i, j)
           /\ UsesBy(in, i, j) \in Nat
<1> DEFINE n == Len(in[i].args)
           S == Named(in[i].args, j, n)
           T == Here(in, i, j)
           f == [k \in S |-> <<i, k>>]
<1>1. n \in Nat
  BY PoolFacts
<1>2. IsFiniteSet(S)
  <2>1. IsFiniteSet(1 .. n)
    BY <1>1, FS_Interval
  <2>2. S \in SUBSET (1 .. n)
    BY DEF Named
  <2> HIDE DEF S
  <2> QED BY <2>1, <2>2, FS_Subset
<1>3. T = {<<i, k>> : k \in S}
  BY DEF Here
<1> HIDE DEF S, T
<1>4. f \in Bijection(S, T)
  <2>1. f \in [S -> T]
    BY <1>3
  <2>2. \A a, b \in S : f[a] = f[b] => a = b
    OBVIOUS
  <2>3. \A t \in T : \E s \in S : f[s] = t
    BY <1>3
  <2> QED BY <2>1, <2>2, <2>3 DEF Bijection, Injection, Surjection, IsInjective
<1>5. ExistsBijection(S, T)
  BY <1>4, Fun_ExistsBij
<1>6. IsFiniteSet(T) /\ Cardinality(T) = Cardinality(S) /\ Cardinality(S) \in Nat
  BY <1>2, <1>5, FS_Bijection, FS_CardinalityType
<1> QED BY <1>6 DEF S, T, UsesBy

\* The uses are those in one instruction and those in all others.
LEMMA UsesSplit ==
    ASSUME NEW in, PoolOK(in), NEW i \in DOMAIN in, NEW j
    PROVE  /\ IsFiniteSet(UsesOf(in, j))
           /\ Cardinality(Elsewhere(in, i, j)) \in Nat
           /\ Cardinality(UsesOf(in, j)) = Cardinality(Elsewhere(in, i, j)) + UsesBy(in, i, j)
<1>1. UsesOf(in, j) = UNION {Here(in, m, j) : m \in DOMAIN in}
  <2>1. \A m \in DOMAIN in : DOMAIN in[m].args = 1 .. Len(in[m].args)
    BY PoolFacts
  <2>2. \A m \in DOMAIN in :
            {<<m, k>> : k \in {q \in DOMAIN in[m].args : in[m].args[q] = InstValue(j)}}
                = Here(in, m, j)
    BY <2>1 DEF Here, Named
  <2> QED BY <2>2 DEF UsesOf
<1>2. IsFiniteSet(UsesOf(in, j))
  <2> DEFINE S == {Here(in, m, j) : m \in DOMAIN in}
             f == [m \in DOMAIN in |-> Here(in, m, j)]
  <2>1. IsFiniteSet(DOMAIN in)
    BY PoolFacts, FS_Interval
  <2>2. f \in Surjection(DOMAIN in, S)
    BY DEF Surjection
  <2>3. \A T \in S : IsFiniteSet(T)
    BY UsesHere
  <2> HIDE DEF f, S
  <2>4. IsFiniteSet(S)
    BY <2>1, <2>2, FS_Surjection
  <2>5. IsFiniteSet(UNION S)
    BY <2>3, <2>4, FS_UNION
  <2> QED BY <1>1, <2>5 DEF S
<1>3. UsesOf(in, j) = Elsewhere(in, i, j) \cup Here(in, i, j)
  <2>1. \A m : \A u \in Here(in, m, j) : u[1] = m
    BY DEF Here
  <2>2. \A u : u \in UsesOf(in, j) <=> \E m \in DOMAIN in : u \in Here(in, m, j)
    BY <1>1
  <2>3. \A u : u \in Elsewhere(in, i, j) <=> u \in UsesOf(in, j) /\ u[1] # i
    BY DEF Elsewhere
  <2> QED BY <2>1, <2>2, <2>3
<1>4. Elsewhere(in, i, j) \cap Here(in, i, j) = {}
  BY DEF Elsewhere, Here
<1>5. IsFiniteSet(Elsewhere(in, i, j)) /\ Cardinality(Elsewhere(in, i, j)) \in Nat
  <2>1. Elsewhere(in, i, j) \in SUBSET UsesOf(in, j)
    BY DEF Elsewhere
  <2> QED BY <1>2, <2>1, FS_Subset, FS_CardinalityType
<1>6. IsFiniteSet(Here(in, i, j)) /\ Cardinality(Here(in, i, j)) = UsesBy(in, i, j)
      /\ UsesBy(in, i, j) \in Nat
  BY UsesHere
<1>7. Cardinality(Elsewhere(in, i, j) \cap Here(in, i, j)) = 0
  BY <1>4, FS_EmptySet
<1>8. Cardinality(Elsewhere(in, i, j) \cup Here(in, i, j)) =
        Cardinality(Elsewhere(in, i, j)) + Cardinality(Here(in, i, j))
            - Cardinality(Elsewhere(in, i, j) \cap Here(in, i, j))
  BY <1>5, <1>6, FS_Union
<1>9. Cardinality(UsesOf(in, j)) = Cardinality(Elsewhere(in, i, j)) + UsesBy(in, i, j) - 0
  BY <1>3, <1>6, <1>7, <1>8
<1> QED BY <1>2, <1>5, <1>6, <1>9

\* When the arguments of one instruction change, and the counts by as much as it
\* uses more or less, the counts stay exact.
LEMMA CountedChange ==
    ASSUME NEW in, PoolOK(in), Counted(in), NEW i \in DOMAIN in,
           NEW out, PoolOK(out), DOMAIN out = DOMAIN in,
           \A m \in DOMAIN in : m # i => out[m].args = in[m].args,
           \A j \in DOMAIN in :
                out[j].op \notin {"Identity", "Void"} =>
                    /\ in[j].op \notin {"Identity", "Void"}
                    /\ out[j].use_count = in[j].use_count + UsesBy(out, i, j) - UsesBy(in, i, j)
    PROVE  Counted(out)
<1> SUFFICES ASSUME NEW j \in DOMAIN in, out[j].op \notin {"Identity", "Void"}
             PROVE  out[j].use_count = Cardinality(UsesOf(out, j))
  BY DEF Counted
<1>1. Elsewhere(out, i, j) = Elsewhere(in, i, j)
  <2>1. \A m \in DOMAIN in : m # i => Here(out, m, j) = Here(in, m, j)
    BY DEF Here
  <2>2. \A u : u \in UsesOf(in, j) <=> \E m \in DOMAIN in : u \in Here(in, m, j)
    <3>1. \A m \in DOMAIN in : DOMAIN in[m].args = 1 .. Len(in[m].args)
      BY PoolFacts
    <3> QED BY <3>1 DEF UsesOf, Here, Named
  <2>3. \A u : u \in UsesOf(out, j) <=> \E m \in DOMAIN in : u \in Here(out, m, j)
    <3>1. \A m \in DOMAIN out : DOMAIN out[m].args = 1 .. Len(out[m].args)
      BY PoolFacts
    <3> QED BY <3>1 DEF UsesOf, Here, Named
  <2>4. \A m : \A u \in Here(in, m, j) : u[1] = m
    BY DEF Here
  <2>5. \A m : \A u \in Here(out, m, j) : u[1] = m
    BY DEF Here
  <2>6. \A u : u[1] # i => (u \in UsesOf(out, j) <=> u \in UsesOf(in, j))
    BY <2>1, <2>2, <2>3, <2>4, <2>5
  <2> QED BY <2>6 DEF Elsewhere
<1>2. /\ Cardinality(Elsewhere(in, i, j)) \in Nat
      /\ UsesBy(in, i, j) \in Nat
      /\ UsesBy(out, i, j) \in Nat
      /\ Cardinality(UsesOf(in, j)) = Cardinality(Elsewhere(in, i, j)) + UsesBy(in, i, j)
      /\ Cardinality(UsesOf(out, j)) = Cardinality(Elsewhere(in, i, j)) + UsesBy(out, i, j)
  BY <1>1, UsesSplit, UsesHere
<1>3. in[j].use_count = Cardinality(UsesOf(in, j))
  BY DEF Counted
<1> QED BY <1>2, <1>3

\* What naming arguments one more or one less means for UsesBy.
LEMMA UsesByArgs ==
    ASSUME NEW in, NEW i, NEW j, NEW n \in Nat, Len(in[i].args) = n
    PROVE  /\ UsesBy(in, i, j) = Cardinality(Named(in[i].args, j, n))
           /\ n = 0 => UsesBy(in, i, j) = 0
           /\ n = 1 => UsesBy(in, i, j) = IF in[i].args[1] = InstValue(j) THEN 1 ELSE 0
<1>1. Cardinality(Named(in[i].args, j, 0)) = 0
  <2>1. Named(in[i].args, j, 0) = {}
    BY DEF Named
  <2> QED BY <2>1, FS_EmptySet
<1>2. Cardinality(Named(in[i].args, j, 1)) = IF in[i].args[1] = InstValue(j) THEN 1 ELSE 0
  <2>1. 1 \in Nat \ {0} /\ 1 - 1 = 0
    OBVIOUS
  <2>2. Cardinality(Named(in[i].args, j, 1)) =
            Cardinality(Named(in[i].args, j, 1 - 1))
                + (IF in[i].args[1] = InstValue(j) THEN 1 ELSE 0)
    BY <2>1, NamedOneMore
  <2> QED BY <1>1, <2>1, <2>2
<1> QED BY <1>1, <1>2 DEF UsesBy

\* A phi gets one more operand.
OneMoreOperand(in, phi, pred, v, out) ==
    /\ PoolOK(out) /\ NoneEmpty(out) /\ Counted(out)
    /\ DOMAIN out = DOMAIN in
    /\ \A j \in DOMAIN in : out[j].op = in[j].op /\ out[j].var = in[j].var
    /\ \A j \in DOMAIN in : j # phi => out[j].args = in[j].args /\ out[j].preds = in[j].preds
    /\ out[phi].args = Append(in[phi].args, v)
    /\ out[phi].preds = Append(in[phi].preds, pred)

\* The use of the operand is counted.
LEMMA AddPhiOperandEffect ==
    ASSUME NEW in, PoolOK(in), NoneEmpty(in), Counted(in), NEW phi \in DOMAIN in, NEW pred \in Nat,
           NEW v \in Value(DOMAIN in), v # Empty
    PROVE  OneMoreOperand(in, phi, pred, v, AddPhiOperand(in, phi, pred, v))
<1> DEFINE c == Use(in, v)
           r == [c[phi] EXCEPT !.args = Append(@, v), !.preds = Append(@, pred)]
           out == [c EXCEPT ![phi] = r]
<1>1. AddPhiOperand(in, phi, pred, v) = out
  BY DEF AddPhiOperand
<1>2. c = Count(in, v, 1) /\ 1 \in Int
  BY DEF Use
<1>3. /\ PoolOK(c)
      /\ SameButCounts(in, c)
      /\ \A j \in DOMAIN in :
            in[j].op # "Identity" =>
                c[j].use_count = in[j].use_count + (IF v = InstValue(j) THEN 1 ELSE 0)
  BY <1>2, CountEffect
<1>4. DOMAIN c = DOMAIN in /\ phi \in DOMAIN c /\ c[phi].args = in[phi].args
      /\ c[phi].preds = in[phi].preds
  BY <1>3 DEF SameButCounts
<1> HIDE DEF c
<1>5. c[phi] \in Inst(DOMAIN c)
  BY <1>3, <1>4, PoolFacts
<1>6. /\ r \in Inst(DOMAIN c)
      /\ r.op = c[phi].op /\ r.var = c[phi].var /\ r.use_count = c[phi].use_count
      /\ r.args = Append(c[phi].args, v) /\ r.preds = Append(c[phi].preds, pred)
  <2>1. c[phi].args \in Seq(Value(DOMAIN c)) /\ c[phi].preds \in Seq(Nat)
    BY <1>5 DEF Inst
  <2>2. Append(c[phi].args, v) \in Seq(Value(DOMAIN c)) /\ Append(c[phi].preds, pred) \in Seq(Nat)
    BY <1>4, <2>1, AppendProperties
  <2> QED BY <1>5, <2>2 DEF Inst
<1>7. in[phi].args \in Seq(Value(DOMAIN in))
  BY PoolFacts DEF Inst
<1>8. /\ r.args # <<>>
      /\ Len(in[phi].args) \in Nat
      /\ Len(r.args) = Len(in[phi].args) + 1
      /\ DOMAIN r.args = 1 .. Len(in[phi].args) + 1
      /\ \A k \in 1 .. Len(in[phi].args) : r.args[k] = in[phi].args[k]
      /\ r.args[Len(in[phi].args) + 1] = v
      /\ DOMAIN in[phi].args = 1 .. Len(in[phi].args)
  <2>1. r.args = Append(in[phi].args, v) /\ r.args \in Seq(Value(DOMAIN in))
    BY <1>4, <1>6 DEF Inst
  <2> HIDE DEF r
  <2> QED BY <1>7, <2>1, AppendProperties, LenProperties
<1> HIDE DEF r
<1>9. /\ PoolOK(out)
      /\ DOMAIN out = DOMAIN c
      /\ out[phi] = r
      /\ \A j \in DOMAIN c : j # phi => out[j] = c[j]
  BY <1>3, <1>4, <1>6, <1>8, PoolUpdate
<1> HIDE DEF out
<1>10. /\ \A j \in DOMAIN in : out[j].op = in[j].op /\ out[j].var = in[j].var
       /\ \A j \in DOMAIN in : j # phi => out[j].args = in[j].args /\ out[j].preds = in[j].preds
       /\ out[phi].args = Append(in[phi].args, v)
       /\ out[phi].preds = Append(in[phi].preds, pred)
       /\ \A j \in DOMAIN in : out[j].use_count = c[j].use_count
  BY <1>3, <1>4, <1>6, <1>9 DEF SameButCounts
<1>11. NoneEmpty(out)
  <2>1. \A k \in DOMAIN r.args : r.args[k] # Empty
    BY <1>8 DEF NoneEmpty
  <2> QED BY <1>4, <1>9, <1>10, <2>1 DEF NoneEmpty
<1>12. \A j : UsesBy(out, phi, j) = UsesBy(in, phi, j) + (IF v = InstValue(j) THEN 1 ELSE 0)
  <2> SUFFICES ASSUME NEW j
               PROVE  UsesBy(out, phi, j) = UsesBy(in, phi, j) + (IF v = InstValue(j) THEN 1 ELSE 0)
    OBVIOUS
  <2> DEFINE n == Len(in[phi].args)
  <2>1. Named(r.args, j, n) = Named(in[phi].args, j, n)
    BY <1>8 DEF Named
  <2>2. /\ n \in Nat /\ n + 1 \in Nat \ {0} /\ (n + 1) - 1 = n
        /\ Len(r.args) = n + 1 /\ r.args[n + 1] = v
    BY <1>8
  <2> HIDE DEF n
  <2>3. Cardinality(Named(r.args, j, n + 1)) =
            Cardinality(Named(r.args, j, n)) + (IF v = InstValue(j) THEN 1 ELSE 0)
    BY <2>2, NamedOneMore
  <2> QED BY <1>9, <2>1, <2>2, <2>3 DEF UsesBy, n
<1>13. Counted(out)
  <2>1. \A j \in DOMAIN in : UsesBy(in, phi, j) \in Nat /\ in[j].use_count \in Int
    BY UsesHere, PoolFacts DEF Inst
  <2>2. ASSUME NEW j \in DOMAIN in, out[j].op \notin {"Identity", "Void"}
        PROVE  /\ in[j].op \notin {"Identity", "Void"}
               /\ out[j].use_count = in[j].use_count + UsesBy(out, phi, j) - UsesBy(in, phi, j)
    BY <1>3, <1>10, <1>12, <2>1, <2>2
  <2> QED BY <1>4, <1>9, <1>10, <2>2, CountedChange
<1> QED BY <1>1, <1>4, <1>9, <1>10, <1>11, <1>13 DEF OneMoreOperand

\* An invalidated instruction names nothing any more.
LEMMA InvalidateEffect ==
    ASSUME NEW in, PoolOK(in), NoneEmpty(in), Counted(in), NEW i \in DOMAIN in
    PROVE  LET out == Invalidate(in, i)
           IN  /\ PoolOK(out) /\ NoneEmpty(out) /\ Counted(out)
               /\ DOMAIN out = DOMAIN in
               /\ \A j \in DOMAIN in : out[j].var = in[j].var
               /\ \A j \in DOMAIN in :
                    j # i => /\ out[j].op = in[j].op
                             /\ out[j].args = in[j].args
                             /\ out[j].preds = in[j].preds
               /\ out[i].op = "Void" /\ out[i].args = <<>> /\ out[i].preds = <<>>
<1> DEFINE c == UndoUses(in, in[i].args)
           r == [c[i] EXCEPT !.args = <<>>, !.preds = <<>>, !.op = "Void"]
           out == [c EXCEPT ![i] = r]
<1>0. in[i].args \in Seq(Value(DOMAIN in))
  BY PoolFacts DEF Inst
<1>1. /\ PoolOK(c)
      /\ SameButCounts(in, c)
      /\ \A j \in DOMAIN in :
            in[j].op # "Identity" => c[j].use_count = in[j].use_count - UsesBy(in, i, j)
  BY <1>0, UndoUsesEffect DEF UsesBy
<1>2. Invalidate(in, i) = out
  BY <1>1 DEF Invalidate, ClearArgs
<1> HIDE DEF c
<1>3. DOMAIN c = DOMAIN in /\ i \in DOMAIN c /\ c[i] \in Inst(DOMAIN c)
  BY <1>1, PoolFacts DEF SameButCounts
<1>4. /\ r \in Inst(DOMAIN c)
      /\ r.op = "Void" /\ r.var = c[i].var /\ r.use_count = c[i].use_count
      /\ r.args = <<>> /\ r.preds = <<>>
  <2>1. <<>> \in Seq(Value(DOMAIN c)) /\ <<>> \in Seq(Nat)
    BY EmptySeq
  <2>2. "Void" \in Opcode \cup {"Phi", "Undef", "Identity", "Void"}
    OBVIOUS
  <2> QED BY <1>3, <2>1, <2>2 DEF Inst
<1> HIDE DEF r
<1>5. /\ PoolOK(out)
      /\ DOMAIN out = DOMAIN c
      /\ out[i] = r
      /\ \A j \in DOMAIN c : j # i => out[j] = c[j]
  BY <1>1, <1>3, <1>4, PoolUpdate
<1> HIDE DEF out
<1>6. /\ \A j \in DOMAIN in : out[j].var = in[j].var
      /\ \A j \in DOMAIN in : j # i => /\ out[j].op = in[j].op
                                       /\ out[j].args = in[j].args
                                       /\ out[j].preds = in[j].preds
      /\ out[i].op = "Void" /\ out[i].args = <<>> /\ out[i].preds = <<>>
      /\ \A j \in DOMAIN in : out[j].use_count = c[j].use_count
  BY <1>1, <1>3, <1>4, <1>5 DEF SameButCounts
<1>7. NoneEmpty(out)
  BY <1>3, <1>5, <1>6 DEF NoneEmpty
<1>8. \A j : UsesBy(out, i, j) = 0
  <2>1. Len(out[i].args) = 0 /\ 0 \in Nat
    BY <1>6
  <2> QED BY <2>1, UsesByArgs
<1>9. Counted(out)
  <2>1. \A j \in DOMAIN in : UsesBy(in, i, j) \in Nat /\ in[j].use_count \in Int
    BY UsesHere, PoolFacts DEF Inst
  <2>2. ASSUME NEW j \in DOMAIN in, out[j].op \notin {"Identity", "Void"}
        PROVE  /\ in[j].op \notin {"Identity", "Void"}
               /\ out[j].use_count = in[j].use_count + UsesBy(out, i, j) - UsesBy(in, i, j)
    <3>1. j # i /\ in[j].op \notin {"Identity", "Void"}
      BY <1>6, <2>2
    <3>2. out[j].use_count = in[j].use_count - UsesBy(in, i, j)
      BY <1>1, <1>6, <3>1
    <3> QED BY <1>8, <2>1, <3>1, <3>2
  <2> QED BY <1>3, <1>5, <1>6, <2>2, CountedChange
<1> QED BY <1>2, <1>3, <1>5, <1>6, <1>7, <1>9

\* A replaced instruction names the value it stands for.
LEMMA ReplaceEffect ==
    ASSUME NEW in, PoolOK(in), NoneEmpty(in), Counted(in), NEW i \in DOMAIN in,
           NEW v \in Value(DOMAIN in), v # Empty
    PROVE  LET out == ReplaceUsesWith(in, i, v)
           IN  /\ PoolOK(out) /\ NoneEmpty(out) /\ Counted(out)
               /\ DOMAIN out = DOMAIN in
               /\ \A j \in DOMAIN in : out[j].var = in[j].var
               /\ \A j \in DOMAIN in :
                    j # i => /\ out[j].op = in[j].op
                             /\ out[j].args = in[j].args
                             /\ out[j].preds = in[j].preds
               /\ out[i].op = "Identity" /\ out[i].args = <<v>> /\ out[i].preds = <<>>
<1> DEFINE gone == Invalidate(in, i)
           e == [gone[i] EXCEPT !.args = <<Empty>>, !.preds = <<>>, !.op = "Identity"]
           empty == [gone EXCEPT ![i] = e]
           c == Use(empty, v)
           r == [c[i] EXCEPT !.args = <<v>>]
           out == [c EXCEPT ![i] = r]
<1>1. /\ PoolOK(gone) /\ NoneEmpty(gone) /\ Counted(gone)
      /\ DOMAIN gone = DOMAIN in
      /\ \A j \in DOMAIN in : gone[j].var = in[j].var
      /\ \A j \in DOMAIN in :
            j # i => /\ gone[j].op = in[j].op
                     /\ gone[j].args = in[j].args
                     /\ gone[j].preds = in[j].preds
      /\ gone[i].op = "Void" /\ gone[i].args = <<>> /\ gone[i].preds = <<>>
  BY InvalidateEffect
<1>2. ReplaceUsesWith(in, i, v) = out
  <2>1. empty = [gone EXCEPT ![i].op = "Identity", ![i].args = <<Empty>>]
    <3>1. e = [gone[i] EXCEPT !.op = "Identity", !.args = <<Empty>>]
      <4>1. gone[i] \in Inst(DOMAIN gone) /\ gone[i].preds = <<>>
        BY <1>1, PoolFacts
      <4> HIDE DEF gone
      <4> QED BY <4>1 DEF Inst
    <3> QED BY <1>1, <3>1
  <2> QED BY <2>1 DEF ReplaceUsesWith
<1> HIDE DEF gone
<1>3. /\ e \in Inst(DOMAIN gone)
      /\ e.op = "Identity" /\ e.args = <<Empty>> /\ e.var = gone[i].var
      /\ e.preds = <<>> /\ e.use_count = gone[i].use_count
  <2>1. gone[i] \in Inst(DOMAIN gone)
    BY <1>1, PoolFacts
  <2>2. <<Empty>> \in Seq(Value(DOMAIN gone))
    <3>1. Empty \in Value(DOMAIN gone)
      BY DEF Value
    <3> QED BY <3>1
  <2>3. "Identity" \in Opcode \cup {"Phi", "Undef", "Identity", "Void"} /\ <<>> \in Seq(Nat)
    BY EmptySeq
  <2> QED BY <2>1, <2>2, <2>3 DEF Inst
<1>4. e.op = "Identity" => e.args # <<>>
  <2>1. <<Empty>> # <<>>
    OBVIOUS
  <2> QED BY <1>3, <2>1
<1> HIDE DEF e
<1>5. /\ PoolOK(empty)
      /\ DOMAIN empty = DOMAIN gone
      /\ empty[i] = e
      /\ \A j \in DOMAIN gone : j # i => empty[j] = gone[j]
  BY <1>1, <1>3, <1>4, PoolUpdate
<1> HIDE DEF empty
<1>6. c = Count(empty, v, 1) /\ 1 \in Int
  BY DEF Use
<1>7. v \in Value(DOMAIN empty)
  BY <1>1, <1>5
<1>8. /\ PoolOK(c)
      /\ SameButCounts(empty, c)
      /\ \A j \in DOMAIN empty :
            empty[j].op # "Identity" =>
                c[j].use_count = empty[j].use_count + (IF v = InstValue(j) THEN 1 ELSE 0)
  BY <1>5, <1>6, <1>7, CountEffect
<1> HIDE DEF c
<1>9. /\ DOMAIN c = DOMAIN in
      /\ c[i].op = "Identity" /\ c[i].preds = <<>> /\ c[i].var = in[i].var
      /\ \A j \in DOMAIN in : c[j].var = in[j].var
      /\ \A j \in DOMAIN in :
            j # i => /\ c[j].op = in[j].op
                     /\ c[j].args = in[j].args
                     /\ c[j].preds = in[j].preds
  BY <1>1, <1>3, <1>5, <1>8 DEF SameButCounts
<1>10. /\ r \in Inst(DOMAIN c)
       /\ r.op = "Identity" /\ r.args = <<v>> /\ r.var = in[i].var
       /\ r.preds = <<>> /\ r.use_count = c[i].use_count
  <2>1. c[i] \in Inst(DOMAIN c)
    BY <1>8, <1>9, PoolFacts
  <2>2. <<v>> \in Seq(Value(DOMAIN c))
    BY <1>9
  <2> QED BY <1>9, <2>1, <2>2 DEF Inst
<1>11. r.args # <<>> /\ Len(r.args) = 1 /\ r.args[1] = v /\ DOMAIN r.args = {1}
  <2>1. Len(<<v>>) = 1 /\ <<v>>[1] = v /\ DOMAIN <<v>> = {1} /\ <<v>> # <<>>
    OBVIOUS
  <2> QED BY <1>10, <2>1
<1> HIDE DEF r
<1>12. /\ PoolOK(out)
       /\ DOMAIN out = DOMAIN c
       /\ out[i] = r
       /\ \A j \in DOMAIN c : j # i => out[j] = c[j]
  BY <1>8, <1>9, <1>10, <1>11, PoolUpdate
<1> HIDE DEF out
<1>13. /\ \A j \in DOMAIN in : out[j].var = in[j].var
       /\ \A j \in DOMAIN in : j # i => /\ out[j].op = in[j].op
                                        /\ out[j].args = in[j].args
                                        /\ out[j].preds = in[j].preds
       /\ out[i].op = "Identity" /\ out[i].args = <<v>> /\ out[i].preds = <<>>
  BY <1>9, <1>10, <1>12
<1>14. NoneEmpty(out)
  <2>1. \A k \in DOMAIN out[i].args : out[i].args[k] # Empty
    BY <1>11, <1>12
  <2> QED BY <1>9, <1>12, <1>13, <2>1 DEF NoneEmpty
<1>15. \A j : UsesBy(out, i, j) = IF v = InstValue(j) THEN 1 ELSE 0
  <2>1. Len(out[i].args) = 1 /\ out[i].args[1] = v
    BY <1>11, <1>12
  <2>2. \A j : 1 = 1 => UsesBy(out, i, j) = IF out[i].args[1] = InstValue(j) THEN 1 ELSE 0
    BY <2>1, UsesByArgs
  <2> QED BY <2>1, <2>2
<1>16. \A j : UsesBy(gone, i, j) = 0
  <2>1. Len(gone[i].args) = 0 /\ 0 \in Nat
    BY <1>1
  <2> QED BY <2>1, UsesByArgs
<1>17. Counted(out)
  <2>1. \A j \in DOMAIN gone : gone[j].use_count \in Int
    BY <1>1, PoolFacts DEF Inst
  <2>2. ASSUME NEW j \in DOMAIN gone, out[j].op \notin {"Identity", "Void"}
        PROVE  /\ gone[j].op \notin {"Identity", "Void"}
               /\ out[j].use_count = gone[j].use_count + UsesBy(out, i, j) - UsesBy(gone, i, j)
    <3>1. j # i /\ gone[j].op \notin {"Identity", "Void"}
      BY <1>1, <1>13, <2>2
    <3>2. empty[j] = gone[j] /\ out[j] = c[j]
      BY <1>1, <1>5, <1>9, <1>12, <3>1
    <3>3. c[j].use_count = gone[j].use_count + (IF v = InstValue(j) THEN 1 ELSE 0)
      BY <1>5, <1>8, <3>1, <3>2
    <3> QED BY <1>15, <1>16, <2>1, <3>1, <3>2, <3>3
  <2>3. i \in DOMAIN gone /\ DOMAIN out = DOMAIN gone
    BY <1>1, <1>9, <1>12
  <2>4. \A m \in DOMAIN gone : m # i => out[m].args = gone[m].args
    BY <1>1, <1>13
  <2> QED BY <1>1, <1>12, <2>2, <2>3, <2>4, CountedChange
<1> QED BY <1>2, <1>9, <1>12, <1>13, <1>14, <1>17

\* Another argument in the place of one.
LEMMA NamedReplaced ==
    ASSUME NEW args, NEW changed, NEW j, NEW n \in Nat, NEW k \in 1 .. n,
           \A m \in 1 .. n : m # k => changed[m] = args[m]
    PROVE  Cardinality(Named(changed, j, n)) =
                Cardinality(Named(args, j, n)) - (IF args[k] = InstValue(j) THEN 1 ELSE 0)
                    + (IF changed[k] = InstValue(j) THEN 1 ELSE 0)
<1> DEFINE Rest == {m \in 1 .. n : m # k /\ args[m] = InstValue(j)}
<1>1. IsFiniteSet(Rest) /\ Cardinality(Rest) \in Nat /\ k \notin Rest
  <2>1. IsFiniteSet(1 .. n)
    BY FS_Interval
  <2>2. Rest \in SUBSET (1 .. n) /\ k \notin Rest
    OBVIOUS
  <2> HIDE DEF Rest
  <2> QED BY <2>1, <2>2, FS_Subset, FS_CardinalityType
<1>2. Cardinality(Rest \cup {k}) = Cardinality(Rest) + 1
  <2> HIDE DEF Rest
  <2> QED BY <1>1, FS_AddElement
<1>3. Named(args, j, n) = IF args[k] = InstValue(j) THEN Rest \cup {k} ELSE Rest
  BY DEF Named
<1>4. Named(changed, j, n) = IF changed[k] = InstValue(j) THEN Rest \cup {k} ELSE Rest
  BY DEF Named
<1> HIDE DEF Rest
<1> QED BY <1>1, <1>2, <1>3, <1>4

\* One argument of an instruction changes.
LEMMA SetArgEffect ==
    ASSUME NEW in, PoolOK(in), NoneEmpty(in), Counted(in), NEW i \in DOMAIN in,
           NEW k \in DOMAIN in[i].args, NEW v \in Value(DOMAIN in), v # Empty
    PROVE  LET out == SetArg(in, i, k, v)
           IN  /\ PoolOK(out) /\ NoneEmpty(out) /\ Counted(out)
               /\ DOMAIN out = DOMAIN in
               /\ \A j \in DOMAIN in :
                    out[j].op = in[j].op /\ out[j].var = in[j].var /\ out[j].preds = in[j].preds
               /\ \A j \in DOMAIN in : j # i => out[j].args = in[j].args
               /\ out[i].args = [in[i].args EXCEPT ![k] = v]
<1> DEFINE old == in[i].args[k]
           a == UndoUse(in, old)
           c == Use(a, v)
           r == [c[i] EXCEPT !.args = [@ EXCEPT ![k] = v]]
           out == [c EXCEPT ![i] = r]
<1>1. SetArg(in, i, k, v) = out
  BY DEF SetArg
<1>2. old \in Value(DOMAIN in) /\ old # Empty
  BY PoolFacts DEF NoneEmpty
<1>3. a = Count(in, old, -1) /\ -1 \in Int
  BY DEF UndoUse
<1> HIDE DEF old
<1>4. /\ PoolOK(a)
      /\ SameButCounts(in, a)
      /\ \A j \in DOMAIN in :
            in[j].op # "Identity" =>
                a[j].use_count = in[j].use_count + (IF old = InstValue(j) THEN -1 ELSE 0)
  BY <1>2, <1>3, CountEffect
<1> HIDE DEF a
<1>5. c = Count(a, v, 1) /\ 1 \in Int
  BY DEF Use
<1>6. v \in Value(DOMAIN a)
  BY <1>4 DEF SameButCounts
<1>7. /\ PoolOK(c)
      /\ SameButCounts(a, c)
      /\ \A j \in DOMAIN a :
            a[j].op # "Identity" =>
                c[j].use_count = a[j].use_count + (IF v = InstValue(j) THEN 1 ELSE 0)
  BY <1>4, <1>5, <1>6, CountEffect
<1> HIDE DEF c
<1>8. /\ DOMAIN c = DOMAIN in
      /\ \A j \in DOMAIN in : /\ c[j].op = in[j].op
                              /\ c[j].var = in[j].var
                              /\ c[j].args = in[j].args
                              /\ c[j].preds = in[j].preds
  BY <1>4, <1>7 DEF SameButCounts
<1>9. c[i] \in Inst(DOMAIN in)
  BY <1>7, <1>8, PoolFacts
<1>10. /\ in[i].args \in Seq(Value(DOMAIN in))
       /\ DOMAIN in[i].args = 1 .. Len(in[i].args)
       /\ Len(in[i].args) \in Nat
       /\ k \in 1 .. Len(in[i].args)
  BY PoolFacts DEF Inst
<1> DEFINE args == [in[i].args EXCEPT ![k] = v]
<1>11. /\ args \in Seq(Value(DOMAIN in)) /\ Len(args) = Len(in[i].args)
       /\ DOMAIN args = DOMAIN in[i].args
       /\ args[k] = v
       /\ \A m \in 1 .. Len(in[i].args) : m # k => args[m] = in[i].args[m]
  BY <1>10, ExceptSeq
<1>12. r = [c[i] EXCEPT !.args = args]
  BY <1>8
<1> HIDE DEF args
<1>13. /\ r \in Inst(DOMAIN in)
       /\ r.op = in[i].op /\ r.var = in[i].var /\ r.preds = in[i].preds
       /\ r.args = args /\ r.use_count = c[i].use_count
  <2> HIDE DEF r
  <2> QED BY <1>8, <1>9, <1>11, <1>12 DEF Inst
<1>14. r.args # <<>>
  <2>1. Len(r.args) # 0
    BY <1>10, <1>11, <1>13
  <2> HIDE DEF r
  <2> QED BY <2>1
<1> HIDE DEF r
<1>15. /\ PoolOK(out)
       /\ DOMAIN out = DOMAIN c
       /\ out[i] = r
       /\ \A j \in DOMAIN c : j # i => out[j] = c[j]
  BY <1>7, <1>8, <1>13, <1>14, PoolUpdate
<1> HIDE DEF out
<1>16. /\ \A j \in DOMAIN in :
             out[j].op = in[j].op /\ out[j].var = in[j].var /\ out[j].preds = in[j].preds
       /\ \A j \in DOMAIN in : j # i => out[j].args = in[j].args
       /\ out[i].args = args
       /\ \A j \in DOMAIN in : out[j].use_count = c[j].use_count
  BY <1>8, <1>13, <1>15
<1>17. NoneEmpty(out)
  <2>1. \A m \in DOMAIN args : args[m] # Empty
    BY <1>10, <1>11 DEF NoneEmpty
  <2> QED BY <1>8, <1>15, <1>16, <2>1 DEF NoneEmpty
<1>18. ASSUME NEW j
       PROVE  UsesBy(out, i, j) = UsesBy(in, i, j) - (IF old = InstValue(j) THEN 1 ELSE 0)
                                    + (IF v = InstValue(j) THEN 1 ELSE 0)
  <2> DEFINE n == Len(in[i].args)
  <2>1. n \in Nat /\ k \in 1 .. n /\ \A m \in 1 .. n : m # k => args[m] = in[i].args[m]
    BY <1>10, <1>11
  <2> HIDE DEF n
  <2>2. Cardinality(Named(args, j, n)) =
            Cardinality(Named(in[i].args, j, n)) - (IF in[i].args[k] = InstValue(j) THEN 1 ELSE 0)
                    + (IF args[k] = InstValue(j) THEN 1 ELSE 0)
    BY <2>1, NamedReplaced
  <2> QED BY <1>11, <1>16, <2>2 DEF UsesBy, n, old
<1>19. Counted(out)
  <2>1. \A j \in DOMAIN in : UsesBy(in, i, j) \in Nat /\ in[j].use_count \in Int
    BY UsesHere, PoolFacts DEF Inst
  <2>2. ASSUME NEW j \in DOMAIN in, out[j].op \notin {"Identity", "Void"}
        PROVE  /\ in[j].op \notin {"Identity", "Void"}
               /\ out[j].use_count = in[j].use_count + UsesBy(out, i, j) - UsesBy(in, i, j)
    <3>1. in[j].op \notin {"Identity", "Void"} /\ a[j].op # "Identity" /\ j \in DOMAIN a
      BY <1>4, <1>16, <2>2 DEF SameButCounts
    <3>2. out[j].use_count = in[j].use_count + (IF old = InstValue(j) THEN -1 ELSE 0)
                                + (IF v = InstValue(j) THEN 1 ELSE 0)
      BY <1>4, <1>7, <1>16, <3>1
    <3>3. UsesBy(out, i, j) = UsesBy(in, i, j) - (IF old = InstValue(j) THEN 1 ELSE 0)
                                    + (IF v = InstValue(j) THEN 1 ELSE 0)
      BY <1>18
    <3> QED BY <2>1, <3>1, <3>2, <3>3
  <2> QED BY <1>8, <1>15, <1>16, <2>2, CountedChange
<1> QED BY <1>1, <1>8, <1>15, <1>16, <1>17, <1>19 DEF args

-----------------------------------------------------------------------------
(* New instructions                                                        *)

\* More instructions, more values.
LEMMA Monotonic ==
    ASSUME NEW D, NEW E, D \subseteq E
    PROVE  /\ Value(D) \subseteq Value(E)
           /\ Inst(D) \subseteq Inst(E)
           /\ Seq(D) \subseteq Seq(E)
<1>1. Value(D) \subseteq Value(E)
  BY DEF Value
<1>2. Seq(Value(D)) \subseteq Seq(Value(E))
  BY <1>1, SeqMonotonic
<1>3. Inst(D) \subseteq Inst(E)
  BY <1>2 DEF Inst
<1> QED BY <1>1, <1>3, SeqMonotonic

\* An instruction that is created has no arguments and no uses.
LEMMA NewInstEffect ==
    ASSUME NEW in, PoolOK(in), NoneEmpty(in), Counted(in), NEW op \in {"Phi", "Undef"}
    PROVE  LET out == Append(in, NewInst(op))
               new == Len(in) + 1
           IN  /\ PoolOK(out) /\ NoneEmpty(out) /\ Counted(out)
               /\ DOMAIN out = DOMAIN in \cup {new} /\ new \notin DOMAIN in /\ new \in Nat \ {0}
               /\ \A j \in DOMAIN in : out[j] = in[j]
               /\ out[new] = NewInst(op)
<1> DEFINE out == Append(in, NewInst(op))
           new == Len(in) + 1
           D == DOMAIN in
           E == DOMAIN in \cup {new}
<1>1. /\ in \in Seq(Inst(D)) /\ Len(in) \in Nat /\ D = 1 .. Len(in)
      /\ E = 1 .. Len(in) + 1 /\ new \notin D /\ new \in Nat \ {0}
  BY PoolFacts DEF PoolOK
<1>2. in \in Seq(Inst(E))
  <2>1. Inst(D) \subseteq Inst(E)
    BY Monotonic
  <2> HIDE DEF D, E
  <2> QED BY <1>1, <2>1, SeqMonotonic
<1>3. /\ NewInst(op) \in Inst(E)
      /\ NewInst(op).op = op /\ NewInst(op).args = <<>> /\ NewInst(op).use_count = 0
  <2>1. <<>> \in Seq(Value(E)) /\ <<>> \in Seq(Nat)
    BY EmptySeq
  <2> HIDE DEF E
  <2> QED BY <2>1 DEF NewInst, Inst
<1>4. /\ out \in Seq(Inst(E))
      /\ Len(out) = new
      /\ \A j \in 1 .. Len(in) : out[j] = in[j]
      /\ out[new] = NewInst(op)
  <2> HIDE DEF E
  <2> QED BY <1>2, <1>3, AppendProperties
<1>5. DOMAIN out = E
  <2> HIDE DEF out
  <2> QED BY <1>1, <1>4, LenProperties
<1> HIDE DEF out, new
<1>6. PoolOK(out)
  BY <1>1, <1>3, <1>4, <1>5 DEF PoolOK
<1>7. NoneEmpty(out)
  <2>1. DOMAIN out[new].args = {}
    BY <1>3, <1>4
  <2> QED BY <1>1, <1>4, <1>5, <2>1 DEF NoneEmpty
<1>8. \A j \in DOMAIN in : UsesOf(out, j) = UsesOf(in, j)
  <2>1. DOMAIN out[new].args = {}
    BY <1>3, <1>4
  <2>2. \A j \in DOMAIN in : out[j].args = in[j].args
    BY <1>1, <1>4
  <2> QED BY <1>5, <2>1, <2>2 DEF UsesOf
<1>9. UsesOf(out, new) = {}
  <2>1. DOMAIN out[new].args = {}
    BY <1>3, <1>4
  <2>2. \A j \in DOMAIN in : out[j].args = in[j].args
    BY <1>1, <1>4
  <2>3. \A j \in DOMAIN in : \A k \in DOMAIN in[j].args : in[j].args[k] # InstValue(new)
    BY <1>1, PoolFacts, ValueCases, InstValues, SMTT(60)
  <2> QED BY <1>5, <2>1, <2>2, <2>3 DEF UsesOf
<1>10. Counted(out)
  <2>1. \A j \in DOMAIN in : out[j] = in[j]
    BY <1>1, <1>4
  <2>2. out[new].use_count = Cardinality(UsesOf(out, new))
    BY <1>3, <1>4, <1>9, FS_EmptySet
  <2> QED BY <1>5, <1>8, <2>1, <2>2 DEF Counted
<1> QED BY <1>1, <1>4, <1>5, <1>6, <1>7, <1>10 DEF out, new

-----------------------------------------------------------------------------
(* Lists                                                                   *)

\* Lowest is in the set and a bound of it.
LEMMA LowestFacts ==
    ASSUME NEW S, S \subseteq Nat, S # {}
    PROVE  Lowest(S) \in S /\ \A k \in S : Lowest(S) <= k
BY NatMin DEF Lowest

\* Taking an instruction out of a list.
LEMMA EraseFacts ==
    ASSUME NEW D, NEW list \in Seq(D), NEW i, Contains(list, i)
    PROVE  LET k == Place(list, i)
               out == Erase(list, i)
           IN  /\ k \in 1 .. Len(list) /\ list[k] = i
               /\ out \in Seq(D) /\ Len(list) \in Nat /\ Len(out) = Len(list) - 1
               /\ \A m \in 1 .. Len(list) - 1 : out[m] = IF m < k THEN list[m] ELSE list[m + 1]
<1> DEFINE k == Place(list, i)
           n == Len(list)
           before == SubSeq(list, 1, k - 1)
           after == SubSeq(list, k + 1, n)
<1>1. n \in Nat /\ DOMAIN list = 1 .. n /\ \A m \in 1 .. n : list[m] \in D
  BY LenProperties, ElementOfSeq
<1>2. k \in 1 .. n /\ list[k] = i
  <2>1. \E m \in DOMAIN list : list[m] = i
    BY <1>1 DEF Contains
  <2> QED BY <1>1, <2>1 DEF Place
<1>3. Erase(list, i) = before \o after
  BY DEF Erase, RemoveAt
<1> HIDE DEF k, n
<1>4. /\ k - 1 \in Int /\ k + 1 \in Int /\ n \in Int /\ 1 \in Int
      /\ \A m \in 1 .. k - 1 : list[m] \in D
      /\ \A m \in k + 1 .. n : list[m] \in D
  BY <1>1, <1>2
<1>5. /\ before \in Seq(D) /\ Len(before) = k - 1
      /\ \A m \in 1 .. k - 1 : before[m] = list[m]
  <2>1. /\ before \in Seq(D)
        /\ Len(before) = IF 1 <= k - 1 THEN k - 1 - 1 + 1 ELSE 0
        /\ \A m \in 1 .. k - 1 - 1 + 1 : before[m] = list[1 + m - 1]
    BY <1>4, SubSeqProperties
  <2>2. \A m \in 1 .. k - 1 : m \in 1 .. k - 1 - 1 + 1 /\ 1 + m - 1 = m
    BY <1>4
  <2> HIDE DEF before
  <2> QED BY <1>1, <1>2, <2>1, <2>2
<1>6. /\ after \in Seq(D) /\ Len(after) = n - k
      /\ \A m \in 1 .. n - k : after[m] = list[k + m]
  <2>1. /\ after \in Seq(D)
        /\ Len(after) = IF k + 1 <= n THEN n - (k + 1) + 1 ELSE 0
        /\ \A m \in 1 .. n - (k + 1) + 1 : after[m] = list[k + 1 + m - 1]
    BY <1>4, SubSeqProperties
  <2>2. \A m \in 1 .. n - k : m \in 1 .. n - (k + 1) + 1 /\ k + 1 + m - 1 = k + m
    BY <1>1, <1>2
  <2> HIDE DEF after
  <2> QED BY <1>1, <1>2, <2>1, <2>2
<1> HIDE DEF before, after
<1>7. /\ before \o after \in Seq(D)
      /\ Len(before \o after) = (k - 1) + (n - k)
      /\ \A m \in 1 .. (k - 1) + (n - k) : (before \o after)[m] =
            IF m <= k - 1 THEN before[m] ELSE after[m - (k - 1)]
  <2>1. /\ before \o after \in Seq(D)
        /\ Len(before \o after) = Len(before) + Len(after)
        /\ \A m \in 1 .. Len(before) + Len(after) : (before \o after)[m] =
                IF m <= Len(before) THEN before[m] ELSE after[m - Len(before)]
    BY <1>5, <1>6, ConcatProperties
  <2> QED BY <1>5, <1>6, <2>1
<1>8. (k - 1) + (n - k) = n - 1
  BY <1>1, <1>2
<1>9. ASSUME NEW m \in 1 .. n - 1
      PROVE  (before \o after)[m] = IF m < k THEN list[m] ELSE list[m + 1]
  <2>1. (before \o after)[m] = IF m <= k - 1 THEN before[m] ELSE after[m - (k - 1)]
    BY <1>7, <1>8
  <2>2. CASE m < k
    <3>1. m <= k - 1 /\ m \in 1 .. k - 1
      BY <1>1, <1>2, <2>2
    <3> QED BY <1>5, <2>1, <2>2, <3>1
  <2>3. CASE ~(m < k)
    <3>1. ~(m <= k - 1) /\ m - (k - 1) \in 1 .. n - k /\ k + (m - (k - 1)) = m + 1
      BY <1>1, <1>2, <2>3
    <3>2. after[m - (k - 1)] = list[k + (m - (k - 1))]
      BY <1>6, <3>1
    <3> QED BY <2>1, <2>3, <3>1, <3>2
  <2> QED BY <2>2, <2>3
<1> QED BY <1>1, <1>2, <1>3, <1>7, <1>8, <1>9 DEF k, n

\* Putting an instruction into a list.
LEMMA InsertFacts ==
    ASSUME NEW D, NEW list \in Seq(D), NEW i \in D, NEW pos \in 1 .. Len(list) + 1
    PROVE  LET out == Insert(list, pos, i)
           IN  /\ out \in Seq(D) /\ Len(list) \in Nat /\ Len(out) = Len(list) + 1
               /\ \A m \in 1 .. Len(list) + 1 :
                    out[m] = IF m < pos THEN list[m] ELSE IF m = pos THEN i ELSE list[m - 1]
<1> DEFINE n == Len(list)
           before == SubSeq(list, 1, pos - 1)
           after == SubSeq(list, pos, n)
<1>1. n \in Nat /\ \A m \in 1 .. n : list[m] \in D
  BY LenProperties, ElementOfSeq
<1>2. Insert(list, pos, i) = (before \o <<i>>) \o after
  BY DEF Insert
<1>3. pos \in 1 .. n + 1
  OBVIOUS
<1> HIDE DEF n
<1>4. /\ pos - 1 \in Int /\ pos \in Int /\ n \in Int /\ 1 \in Int
      /\ \A m \in 1 .. pos - 1 : list[m] \in D
      /\ \A m \in pos .. n : list[m] \in D
  BY <1>1, <1>3
<1>5. /\ before \in Seq(D) /\ Len(before) = pos - 1
      /\ \A m \in 1 .. pos - 1 : before[m] = list[m]
  <2>1. /\ before \in Seq(D)
        /\ Len(before) = IF 1 <= pos - 1 THEN pos - 1 - 1 + 1 ELSE 0
        /\ \A m \in 1 .. pos - 1 - 1 + 1 : before[m] = list[1 + m - 1]
    BY <1>4, SubSeqProperties
  <2>2. \A m \in 1 .. pos - 1 : m \in 1 .. pos - 1 - 1 + 1 /\ 1 + m - 1 = m
    BY <1>4
  <2> HIDE DEF before
  <2> QED BY <1>1, <1>3, <2>1, <2>2
<1>6. /\ after \in Seq(D) /\ Len(after) = n + 1 - pos
      /\ \A m \in 1 .. n + 1 - pos : after[m] = list[pos + m - 1]
  <2>1. /\ after \in Seq(D)
        /\ Len(after) = IF pos <= n THEN n - pos + 1 ELSE 0
        /\ \A m \in 1 .. n - pos + 1 : after[m] = list[pos + m - 1]
    BY <1>4, SubSeqProperties
  <2>2. \A m \in 1 .. n + 1 - pos : m \in 1 .. n - pos + 1
    BY <1>1, <1>3
  <2> HIDE DEF after
  <2> QED BY <1>1, <1>3, <2>1, <2>2
<1> HIDE DEF before, after
<1> DEFINE head == before \o <<i>>
<1>7. <<i>> \in Seq(D) /\ Len(<<i>>) = 1 /\ <<i>>[1] = i
  OBVIOUS
<1>8. /\ head \in Seq(D) /\ Len(head) = pos
      /\ \A m \in 1 .. pos : head[m] = IF m < pos THEN list[m] ELSE i
  <2> DEFINE one == <<i>>
  <2>0. one \in Seq(D) /\ Len(one) = 1 /\ one[1] = i
    BY <1>7
  <2> HIDE DEF one
  <2>1. /\ before \o one \in Seq(D)
        /\ Len(before \o one) = (pos - 1) + 1
        /\ \A m \in 1 .. (pos - 1) + 1 : (before \o one)[m] =
                IF m <= pos - 1 THEN before[m] ELSE one[m - (pos - 1)]
    <3>1. /\ before \o one \in Seq(D)
          /\ Len(before \o one) = Len(before) + Len(one)
          /\ \A m \in 1 .. Len(before) + Len(one) : (before \o one)[m] =
                  IF m <= Len(before) THEN before[m] ELSE one[m - Len(before)]
      BY <1>5, <2>0, ConcatProperties
    <3> QED BY <1>5, <2>0, <3>1
  <2>2. (pos - 1) + 1 = pos
    BY <1>3
  <2>3. ASSUME NEW m \in 1 .. pos
        PROVE  (before \o one)[m] = IF m < pos THEN list[m] ELSE i
    <3>1. CASE m < pos
      <4>1. m <= pos - 1 /\ m \in 1 .. pos - 1
        BY <1>3, <3>1
      <4> QED BY <1>5, <2>1, <2>2, <3>1, <4>1
    <3>2. CASE ~(m < pos)
      <4>1. ~(m <= pos - 1) /\ m - (pos - 1) = 1
        BY <1>3, <3>2
      <4> QED BY <2>0, <2>1, <2>2, <3>2, <4>1
    <3> QED BY <3>1, <3>2
  <2> QED BY <2>1, <2>2, <2>3 DEF one
<1> HIDE DEF head
<1>9. /\ head \o after \in Seq(D)
      /\ Len(head \o after) = pos + (n + 1 - pos)
      /\ \A m \in 1 .. pos + (n + 1 - pos) : (head \o after)[m] =
            IF m <= pos THEN head[m] ELSE after[m - pos]
  BY <1>6, <1>8, ConcatProperties
<1>10. pos + (n + 1 - pos) = n + 1
  BY <1>1, <1>3
<1>11. ASSUME NEW m \in 1 .. n + 1
       PROVE  (head \o after)[m] =
                    IF m < pos THEN list[m] ELSE IF m = pos THEN i ELSE list[m - 1]
  <2>1. (head \o after)[m] = IF m <= pos THEN head[m] ELSE after[m - pos]
    BY <1>9, <1>10
  <2>2. CASE m <= pos
    <3>1. m \in 1 .. pos /\ (m < pos \/ m = pos)
      BY <1>3, <2>2
    <3> QED BY <1>8, <2>1, <2>2, <3>1
  <2>3. CASE ~(m <= pos)
    <3>1. ~(m < pos) /\ m # pos /\ m - pos \in 1 .. n + 1 - pos /\ pos + (m - pos) - 1 = m - 1
      BY <1>1, <1>3, <2>3
    <3>2. after[m - pos] = list[pos + (m - pos) - 1]
      BY <1>6, <3>1
    <3> QED BY <2>1, <2>3, <3>1, <3>2
  <2> QED BY <2>2, <2>3
<1> QED BY <1>1, <1>2, <1>9, <1>10, <1>11 DEF n, head

\* Where the phis of a list end.
LEMMA FirstNonPhiFacts ==
    ASSUME NEW in, NEW D, NEW list \in Seq(D)
    PROVE  LET pos == FirstNonPhi(in, list)
           IN  /\ pos \in 1 .. Len(list) + 1
               /\ \A m \in 1 .. Len(list) : m < pos => in[list[m]].op = "Phi"
               /\ pos \in 1 .. Len(list) => in[list[pos]].op # "Phi"
<1> DEFINE others == {k \in DOMAIN list : in[list[k]].op # "Phi"}
<1>1. Len(list) \in Nat /\ DOMAIN list = 1 .. Len(list)
  BY LenProperties
<1>2. CASE others = {}
  <2>1. FirstNonPhi(in, list) = Len(list) + 1
    BY <1>2 DEF FirstNonPhi
  <2> QED BY <1>1, <1>2, <2>1
<1>3. CASE others # {}
  <2>1. FirstNonPhi(in, list) = Lowest(others)
    BY <1>3 DEF FirstNonPhi
  <2>2. others \subseteq Nat
    BY <1>1
  <2>3. Lowest(others) \in others /\ \A k \in others : Lowest(others) <= k
    <3> HIDE DEF others
    <3> QED BY <1>3, <2>2, LowestFacts
  <2>4. \A m \in 1 .. Len(list) : m < Lowest(others) => m \notin others
    <3> DEFINE low == Lowest(others)
    <3>1. low \in Nat /\ \A k \in others : low <= k
      BY <2>2, <2>3
    <3> HIDE DEF low
    <3>2. \A m \in 1 .. Len(list) : m < low => ~(low <= m)
      BY <1>1, <3>1
    <3> HIDE DEF others
    <3> QED BY <3>1, <3>2 DEF low
  <2> QED BY <1>1, <2>1, <2>3, <2>4
<1> QED BY <1>2, <1>3

\* An instruction is in a list once, and its phis come first.
Once(list) == \A k, m \in DOMAIN list : list[k] = list[m] => k = m
PhisBefore(in, list, n) == \A m \in DOMAIN list : m < n <=> in[list[m]].op = "Phi"
PhisFirst(in, list) == \E n \in Nat \ {0} : PhisBefore(in, list, n)

\* What erasing does to the members of a list and their order.
LEMMA EraseMembers ==
    ASSUME NEW D, NEW list \in Seq(D), NEW i, Contains(list, i), NEW in
    PROVE  LET out == Erase(list, i)
           IN  /\ out \in Seq(D)
               /\ \A j : Contains(out, j) => Contains(list, j)
               /\ \A j : j # i /\ Contains(list, j) => Contains(out, j)
               /\ Once(list) => Once(out) /\ ~Contains(out, i)
               /\ PhisFirst(in, list) => PhisFirst(in, out)
<1> DEFINE k == Place(list, i)
           n == Len(list)
           out == Erase(list, i)
<1>1. /\ k \in 1 .. n /\ list[k] = i
      /\ out \in Seq(D) /\ n \in Nat /\ Len(out) = n - 1
      /\ \A m \in 1 .. n - 1 : out[m] = IF m < k THEN list[m] ELSE list[m + 1]
  BY EraseFacts
<1>2. DOMAIN list = 1 .. n /\ DOMAIN out = 1 .. n - 1
  BY <1>1, LenProperties
<1> HIDE DEF k, n, out
<1> DEFINE From(m) == IF m < k THEN m ELSE m + 1
<1>3. /\ \A m \in 1 .. n - 1 : From(m) \in 1 .. n /\ From(m) # k /\ out[m] = list[From(m)]
      /\ \A m, q \in 1 .. n - 1 : From(m) = From(q) => m = q
  BY <1>1
<1>4. \A q \in 1 .. n : q # k => \E m \in 1 .. n - 1 : From(m) = q
  <2> SUFFICES ASSUME NEW q \in 1 .. n, q # k PROVE \E m \in 1 .. n - 1 : From(m) = q
    OBVIOUS
  <2>1. CASE q < k
    <3>1. q \in 1 .. n - 1 /\ From(q) = q
      BY <1>1, <2>1
    <3> QED BY <3>1
  <2>2. CASE ~(q < k)
    <3>1. q - 1 \in 1 .. n - 1 /\ ~(q - 1 < k) /\ q - 1 + 1 = q
      BY <1>1, <2>2
    <3>2. From(q - 1) = q
      BY <3>1
    <3> QED BY <3>1, <3>2
  <2> QED BY <2>1, <2>2
<1>5. \A j : Contains(out, j) <=> \E m \in 1 .. n - 1 : out[m] = j
  BY <1>1 DEF Contains
<1>6. \A j : Contains(list, j) <=> \E m \in 1 .. n : list[m] = j
  BY DEF Contains, n
<1>7. ASSUME Once(list)
      PROVE  Once(out) /\ ~Contains(out, i)
  <2> HIDE DEF From
  <2>1. Once(out)
    BY <1>2, <1>3, <1>7 DEF Once
  <2>2. \A m \in 1 .. n - 1 : out[m] # i
    BY <1>1, <1>2, <1>3, <1>7, ZenonT(60) DEF Once
  <2> QED BY <1>5, <2>1, <2>2
<1>8. ASSUME PhisFirst(in, list)
      PROVE  PhisFirst(in, out)
  <2>1. PICK p \in Nat \ {0} : PhisBefore(in, list, p)
    BY <1>8 DEF PhisFirst
  <2> DEFINE q == IF k < p THEN p - 1 ELSE p
  <2>2. q \in Nat \ {0} /\ \A m \in 1 .. n - 1 : m < q <=> From(m) < p
    BY <1>1
  <2> HIDE DEF q, From
  <2>3. \A m \in 1 .. n - 1 : m < q <=> in[out[m]].op = "Phi"
    BY <1>2, <1>3, <2>1, <2>2 DEF PhisBefore
  <2>4. PhisBefore(in, out, q)
    BY <1>2, <2>3 DEF PhisBefore
  <2> QED BY <2>2, <2>4 DEF PhisFirst
<1> HIDE DEF From
<1>9. \A j : Contains(out, j) => Contains(list, j)
  BY <1>3, <1>5, <1>6
<1>10. \A j : j # i /\ Contains(list, j) => Contains(out, j)
  <2> SUFFICES ASSUME NEW j, j # i, Contains(list, j) PROVE Contains(out, j)
    OBVIOUS
  <2>1. PICK q \in 1 .. n : list[q] = j
    BY <1>6
  <2>2. q # k
    BY <1>1, <2>1
  <2>3. PICK m \in 1 .. n - 1 : From(m) = q
    BY <1>4, <2>2
  <2>4. out[m] = j
    BY <1>3, <2>1, <2>3
  <2> QED BY <1>5, <2>4
<1> QED BY <1>1, <1>7, <1>8, <1>9, <1>10 DEF out

\* What inserting does to them; what is inserted after the phis is no phi.
LEMMA InsertMembers ==
    ASSUME NEW D, NEW list \in Seq(D), NEW i \in D, NEW pos \in 1 .. Len(list) + 1,
           NEW in, NEW p \in Nat
    PROVE  LET out == Insert(list, pos, i)
           IN  /\ out \in Seq(D)
               /\ Len(list) \in Nat /\ Len(out) = Len(list) + 1
               /\ \A j : Contains(out, j) <=> j = i \/ Contains(list, j)
               /\ Once(list) /\ ~Contains(list, i) => Once(out)
               /\ PhisBefore(in, list, p) /\ p <= pos /\ in[i].op # "Phi" =>
                        PhisBefore(in, out, p)
<1> DEFINE n == Len(list)
           out == Insert(list, pos, i)
<1>1. /\ out \in Seq(D) /\ n \in Nat /\ Len(out) = n + 1
      /\ \A m \in 1 .. n + 1 :
            out[m] = IF m < pos THEN list[m] ELSE IF m = pos THEN i ELSE list[m - 1]
  BY InsertFacts
<1>2. DOMAIN list = 1 .. n /\ DOMAIN out = 1 .. n + 1 /\ pos \in 1 .. n + 1
  BY <1>1, LenProperties
<1> HIDE DEF n, out
<1> DEFINE From(m) == IF m < pos THEN m ELSE m - 1
<1>3. /\ \A m \in 1 .. n + 1 : m # pos => From(m) \in 1 .. n /\ out[m] = list[From(m)]
      /\ out[pos] = i
      /\ \A m, q \in 1 .. n + 1 : m # pos /\ q # pos /\ From(m) = From(q) => m = q
  BY <1>1, <1>2
<1>4. \A q \in 1 .. n : \E m \in 1 .. n + 1 : m # pos /\ From(m) = q
  <2> SUFFICES ASSUME NEW q \in 1 .. n PROVE \E m \in 1 .. n + 1 : m # pos /\ From(m) = q
    OBVIOUS
  <2>1. CASE q < pos
    <3>1. q \in 1 .. n + 1 /\ q # pos /\ From(q) = q
      BY <1>1, <1>2, <2>1
    <3> QED BY <3>1
  <2>2. CASE ~(q < pos)
    <3>1. q + 1 \in 1 .. n + 1 /\ ~(q + 1 < pos) /\ q + 1 # pos /\ q + 1 - 1 = q
      BY <1>1, <1>2, <2>2
    <3>2. From(q + 1) = q
      BY <3>1
    <3> QED BY <3>1, <3>2
  <2> QED BY <2>1, <2>2
<1>5. \A j : Contains(out, j) <=> \E m \in 1 .. n + 1 : out[m] = j
  BY <1>1 DEF Contains
<1>6. \A j : Contains(list, j) <=> \E m \in 1 .. n : list[m] = j
  BY DEF Contains, n
<1>7. ASSUME PhisBefore(in, list, p), p <= pos, in[i].op # "Phi"
      PROVE  PhisBefore(in, out, p)
  <2>1. ASSUME NEW m \in 1 .. n + 1
        PROVE  m < p <=> in[out[m]].op = "Phi"
    <3>1. CASE m = pos
      <4>1. ~(m < p)
        BY <1>2, <1>7, <3>1
      <4> QED BY <1>3, <1>7, <3>1, <4>1
    <3>2. CASE m # pos
      <4>1. m < p <=> From(m) < p
        BY <1>2, <1>7, <3>2
      <4> HIDE DEF From
      <4>2. From(m) < p <=> in[list[From(m)]].op = "Phi"
        BY <1>2, <1>3, <1>7, <3>2 DEF PhisBefore
      <4> QED BY <1>3, <3>2, <4>1, <4>2
    <3> QED BY <3>1, <3>2
  <2> QED BY <1>2, <2>1 DEF PhisBefore
<1> HIDE DEF From
<1>8. \A j : Contains(out, j) <=> j = i \/ Contains(list, j)
  <2>1. \A m \in 1 .. n + 1 : out[m] = i \/ \E q \in 1 .. n : list[q] = out[m]
    BY <1>3
  <2>2. \A q \in 1 .. n : \E m \in 1 .. n + 1 : out[m] = list[q]
    BY <1>3, <1>4
  <2>3. \E m \in 1 .. n + 1 : out[m] = i
    BY <1>2, <1>3
  <2> QED BY <1>5, <1>6, <2>1, <2>2, <2>3
<1>9. ASSUME Once(list), ~Contains(list, i)
      PROVE  Once(out)
  <2>1. \A q \in 1 .. n : list[q] # i
    BY <1>6, <1>9
  <2> QED BY <1>2, <1>3, <1>9, <2>1 DEF Once
<1> QED BY <1>1, <1>7, <1>8, <1>9 DEF out, n

\* The phis of a list in which they come first end where FirstNonPhi says.
LEMMA FirstNonPhiEnds ==
    ASSUME NEW in, NEW D, NEW list \in Seq(D), PhisFirst(in, list)
    PROVE  PhisBefore(in, list, FirstNonPhi(in, list))
<1> DEFINE q == FirstNonPhi(in, list)
<1>1. PICK n \in Nat \ {0} : PhisBefore(in, list, n)
  BY DEF PhisFirst
<1>2. DOMAIN list = 1 .. Len(list) /\ Len(list) \in Nat
  BY LenProperties
<1>3. /\ q \in 1 .. Len(list) + 1
      /\ \A m \in 1 .. Len(list) : m < q => in[list[m]].op = "Phi"
      /\ q \in 1 .. Len(list) => in[list[q]].op # "Phi"
  BY FirstNonPhiFacts
<1> HIDE DEF q
<1>4. \A m \in 1 .. Len(list) : m < n <=> in[list[m]].op = "Phi"
  BY <1>1, <1>2 DEF PhisBefore
<1>5. ASSUME NEW m \in 1 .. Len(list), in[list[m]].op = "Phi"
      PROVE  m < q
  <2> SUFFICES ASSUME ~(m < q) PROVE FALSE
    OBVIOUS
  <2>1. q \in 1 .. Len(list) /\ q <= m
    BY <1>2, <1>3
  <2>2. ~(q < n) /\ m < n
    BY <1>3, <1>4, <1>5, <2>1
  <2> QED BY <1>1, <2>1, <2>2
<1>6. \A m \in 1 .. Len(list) : m < q <=> in[list[m]].op = "Phi"
  BY <1>3, <1>5
<1> QED BY <1>2, <1>6 DEF PhisBefore, q

\* A phi at the head of a list.
LEMMA PrependMembers ==
    ASSUME NEW D, NEW list \in Seq(D), NEW i \in D, NEW in
    PROVE  LET out == <<i>> \o list
           IN  /\ out \in Seq(D) /\ Len(list) \in Nat /\ Len(out) = Len(list) + 1
               /\ \A j : Contains(out, j) <=> j = i \/ Contains(list, j)
               /\ Once(list) /\ ~Contains(list, i) => Once(out)
               /\ PhisFirst(in, list) /\ in[i].op = "Phi" => PhisFirst(in, out)
<1> DEFINE n == Len(list)
           one == <<i>>
           out == one \o list
<1>0. one \in Seq(D) /\ Len(one) = 1 /\ one[1] = i
  OBVIOUS
<1> HIDE DEF one
<1>1. /\ out \in Seq(D) /\ n \in Nat /\ Len(out) = n + 1
      /\ out[1] = i
      /\ \A m \in 1 .. n : out[m + 1] = list[m]
  <2>1. /\ out \in Seq(D) /\ n \in Nat
        /\ Len(out) = Len(one) + n
        /\ \A m \in 1 .. Len(one) + n : out[m] =
                IF m <= Len(one) THEN one[m] ELSE list[m - Len(one)]
    BY <1>0, ConcatProperties, LenProperties
  <2>2. \A m \in 1 .. n : m + 1 \in 1 .. 1 + n /\ ~(m + 1 <= 1) /\ m + 1 - 1 = m
    BY <2>1
  <2>3. 1 \in 1 .. 1 + n /\ 1 + n = n + 1 /\ 1 <= 1
    BY <2>1
  <2> HIDE DEF out, n
  <2>4. \A m \in 1 .. 1 + n : out[m] = IF m <= 1 THEN one[m] ELSE list[m - 1]
    BY <1>0, <2>1
  <2>5. \A m \in 1 .. n : out[m + 1] = list[m]
    BY <2>2, <2>4
  <2> QED BY <1>0, <2>1, <2>3, <2>4, <2>5
<1>2. DOMAIN list = 1 .. n /\ DOMAIN out = 1 .. n + 1
  BY <1>1, LenProperties
<1> HIDE DEF n, out
<1>3. \A m \in 1 .. n + 1 : m = 1 \/ \E q \in 1 .. n : m = q + 1
  <2> SUFFICES ASSUME NEW m \in 1 .. n + 1, m # 1 PROVE \E q \in 1 .. n : m = q + 1
    OBVIOUS
  <2>1. m - 1 \in 1 .. n /\ m = (m - 1) + 1
    BY <1>1
  <2> QED BY <2>1
<1>4. \A m \in 1 .. n : m + 1 \in 1 .. n + 1 /\ m + 1 # 1
  BY <1>1
<1>5. \A j : Contains(out, j) <=> \E m \in 1 .. n + 1 : out[m] = j
  BY <1>1 DEF Contains
<1>6. \A j : Contains(list, j) <=> \E m \in 1 .. n : list[m] = j
  BY DEF Contains, n
<1>7. \A j : Contains(out, j) <=> j = i \/ Contains(list, j)
  <2>1. \A m \in 1 .. n + 1 : out[m] = i \/ \E q \in 1 .. n : list[q] = out[m]
    BY <1>1, <1>3
  <2>2. \A q \in 1 .. n : \E m \in 1 .. n + 1 : out[m] = list[q]
    BY <1>1, <1>4
  <2>3. \E m \in 1 .. n + 1 : out[m] = i
    BY <1>1
  <2> QED BY <1>5, <1>6, <2>1, <2>2, <2>3
<1>8. ASSUME Once(list), ~Contains(list, i)
      PROVE  Once(out)
  <2>1. \A q \in 1 .. n : list[q] # i
    BY <1>6, <1>8
  <2>2. ASSUME NEW k \in 1 .. n + 1, NEW m \in 1 .. n + 1, out[k] = out[m]
        PROVE  k = m
    <3>1. CASE k = 1 \/ m = 1
      BY <1>1, <1>3, <2>1, <2>2, <3>1
    <3>2. CASE k # 1 /\ m # 1
      <4>1. PICK q \in 1 .. n : k = q + 1
        BY <1>3, <3>2
      <4>2. PICK r \in 1 .. n : m = r + 1
        BY <1>3, <3>2
      <4>3. list[q] = list[r]
        BY <1>1, <2>2, <4>1, <4>2
      <4> QED BY <1>2, <1>8, <4>1, <4>2, <4>3 DEF Once
    <3> QED BY <3>1, <3>2
  <2> QED BY <1>2, <2>2 DEF Once
<1>9. ASSUME PhisFirst(in, list), in[i].op = "Phi"
      PROVE  PhisFirst(in, out)
  <2>1. PICK p \in Nat \ {0} : PhisBefore(in, list, p)
    BY <1>9 DEF PhisFirst
  <2>2. ASSUME NEW m \in 1 .. n + 1
        PROVE  m < p + 1 <=> in[out[m]].op = "Phi"
    <3>1. CASE m = 1
      <4>1. 1 < p + 1
        BY <2>1
      <4> QED BY <1>1, <1>9, <3>1, <4>1
    <3>2. CASE m # 1
      <4>1. PICK q \in 1 .. n : m = q + 1
        BY <1>3, <3>2
      <4>2. m < p + 1 <=> q < p
        BY <1>1, <2>1, <4>1
      <4>3. q < p <=> in[list[q]].op = "Phi"
        BY <1>2, <2>1 DEF PhisBefore
      <4> QED BY <1>1, <4>1, <4>2, <4>3
    <3> QED BY <3>1, <3>2
  <2>3. PhisBefore(in, out, p + 1)
    BY <1>2, <2>2 DEF PhisBefore
  <2> QED BY <2>1, <2>3 DEF PhisFirst
<1> QED BY <1>1, <1>7, <1>8, <1>9 DEF out, n, one

\* An instruction is in a list not after another.
Before(list, i, j) == \E k, m \in DOMAIN list : k <= m /\ list[k] = i /\ list[m] = j

\* Erasing, inserting and prepending keep the order of the others.
LEMMA EraseOrder ==
    ASSUME NEW D, NEW list \in Seq(D), NEW i, Contains(list, i),
           NEW x, NEW y, x # i, y # i, Before(list, x, y)
    PROVE  Before(Erase(list, i), x, y)
<1> DEFINE k == Place(list, i)
           n == Len(list)
           out == Erase(list, i)
           To(m) == IF m < k THEN m ELSE m - 1
<1>1. /\ k \in 1 .. n /\ list[k] = i
      /\ out \in Seq(D) /\ n \in Nat /\ Len(out) = n - 1
      /\ \A m \in 1 .. n - 1 : out[m] = IF m < k THEN list[m] ELSE list[m + 1]
  BY EraseFacts
<1>2. DOMAIN list = 1 .. n /\ DOMAIN out = 1 .. n - 1
  BY <1>1, LenProperties
<1>3. PICK p, q \in DOMAIN list : p <= q /\ list[p] = x /\ list[q] = y
  BY DEF Before
<1> HIDE DEF k, n, out
<1>4. ASSUME NEW m \in 1 .. n, m # k
      PROVE  To(m) \in 1 .. n - 1 /\ out[To(m)] = list[m]
  <2>1. CASE m < k
    <3>1. m \in 1 .. n - 1 /\ To(m) = m
      BY <1>1, <2>1
    <3> QED BY <1>1, <2>1, <3>1
  <2>2. CASE ~(m < k)
    <3>1. m - 1 \in 1 .. n - 1 /\ ~(m - 1 < k) /\ m - 1 + 1 = m /\ To(m) = m - 1
      BY <1>1, <1>4, <2>2
    <3> QED BY <1>1, <3>1
  <2> QED BY <2>1, <2>2
<1>5. p # k /\ q # k /\ p \in 1 .. n /\ q \in 1 .. n
  BY <1>1, <1>2, <1>3
<1>6. To(p) <= To(q)
  BY <1>1, <1>3, <1>5
<1> HIDE DEF To
<1>7. To(p) \in DOMAIN out /\ To(q) \in DOMAIN out /\ out[To(p)] = x /\ out[To(q)] = y
  BY <1>2, <1>3, <1>4, <1>5
<1> QED BY <1>6, <1>7 DEF Before, out

\* So does putting one in.
LEMMA InsertOrder ==
    ASSUME NEW D, NEW list \in Seq(D), NEW i \in D, NEW pos \in 1 .. Len(list) + 1,
           NEW x, NEW y, Before(list, x, y)
    PROVE  Before(Insert(list, pos, i), x, y)
<1> DEFINE n == Len(list)
           out == Insert(list, pos, i)
<1>1. /\ out \in Seq(D) /\ n \in Nat /\ Len(out) = n + 1
      /\ \A m \in 1 .. n + 1 :
            out[m] = IF m < pos THEN list[m] ELSE IF m = pos THEN i ELSE list[m - 1]
  <2>1. \A p \in 1 .. Len(list) + 1 :
            /\ Insert(list, p, i) \in Seq(D)
            /\ Len(list) \in Nat /\ Len(Insert(list, p, i)) = Len(list) + 1
            /\ \A m \in 1 .. Len(list) + 1 :
                 Insert(list, p, i)[m] =
                    IF m < p THEN list[m] ELSE IF m = p THEN i ELSE list[m - 1]
    BY InsertFacts
  <2> QED BY <2>1
<1>2. DOMAIN list = 1 .. n /\ DOMAIN out = 1 .. n + 1 /\ pos \in 1 .. n + 1
  BY <1>1, LenProperties
<1>3. PICK p, q \in DOMAIN list : p <= q /\ list[p] = x /\ list[q] = y
  BY DEF Before
<1> DEFINE To(m) == IF m < pos THEN m ELSE m + 1
<1> HIDE DEF n, out
<1>4. ASSUME NEW m \in 1 .. n
      PROVE  To(m) \in 1 .. n + 1 /\ out[To(m)] = list[m]
  <2>1. CASE m < pos
    <3>1. m \in 1 .. n + 1 /\ To(m) = m
      BY <1>1, <2>1
    <3> QED BY <1>1, <2>1, <3>1
  <2>2. CASE ~(m < pos)
    <3>1. m + 1 \in 1 .. n + 1 /\ ~(m + 1 < pos) /\ m + 1 # pos /\ m + 1 - 1 = m /\ To(m) = m + 1
      BY <1>1, <1>2, <2>2
    <3> QED BY <1>1, <3>1
  <2> QED BY <2>1, <2>2
<1>5. p \in 1 .. n /\ q \in 1 .. n
  BY <1>2, <1>3
<1>6. To(p) <= To(q)
  BY <1>1, <1>2, <1>3, <1>5
<1> HIDE DEF To
<1>7. To(p) \in DOMAIN out /\ To(q) \in DOMAIN out /\ out[To(p)] = x /\ out[To(q)] = y
  BY <1>2, <1>3, <1>4, <1>5
<1> QED BY <1>6, <1>7 DEF Before, out

\* And so does putting one at the head.
LEMMA PrependOrder ==
    ASSUME NEW D, NEW list \in Seq(D), NEW i \in D, NEW x, NEW y, Before(list, x, y)
    PROVE  Before(<<i>> \o list, x, y)
<1> DEFINE n == Len(list)
           one == <<i>>
           out == one \o list
<1>1. one \in Seq(D) /\ Len(one) = 1
  OBVIOUS
<1> HIDE DEF one
<1>2. /\ out \in Seq(D) /\ n \in Nat /\ Len(out) = Len(one) + n
      /\ \A m \in 1 .. Len(one) + n : out[m] =
              IF m <= Len(one) THEN one[m] ELSE list[m - Len(one)]
  BY <1>1, ConcatProperties, LenProperties
<1>3. DOMAIN list = 1 .. n /\ DOMAIN out = 1 .. 1 + n
  BY <1>1, <1>2, LenProperties
<1>4. PICK p, q \in DOMAIN list : p <= q /\ list[p] = x /\ list[q] = y
  BY DEF Before
<1> HIDE DEF n, out
<1>5. ASSUME NEW m \in 1 .. n
      PROVE  m + 1 \in 1 .. 1 + n /\ out[m + 1] = list[m]
  <2>1. m + 1 \in 1 .. 1 + n /\ ~(m + 1 <= 1) /\ m + 1 - 1 = m
    BY <1>2
  <2> QED BY <1>1, <1>2, <2>1
<1>6. p \in 1 .. n /\ q \in 1 .. n /\ p + 1 <= q + 1
  BY <1>2, <1>3, <1>4
<1>7. p + 1 \in DOMAIN out /\ q + 1 \in DOMAIN out /\ out[p + 1] = x /\ out[q + 1] = y
  BY <1>3, <1>4, <1>5, <1>6
<1> QED BY <1>6, <1>7 DEF Before, out, one

\* What removing a trivial phi does to the pool and to the list of its block.
Removal(in, list, phi, out, moved, result) ==
    /\ PoolOK(out) /\ NoneEmpty(out) /\ Counted(out)
    /\ DOMAIN in \subseteq DOMAIN out
    /\ result \in Value(DOMAIN out) /\ result # Empty
    /\ \A j \in DOMAIN in : out[j].var = in[j].var
    /\ \A j \in DOMAIN in :
            j # phi => /\ out[j].op = in[j].op
                       /\ out[j].args = in[j].args
                       /\ out[j].preds = in[j].preds
    /\ \/ out = in /\ result = InstValue(phi)
       \/ out[phi].op = "Identity" /\ out[phi].args = <<result>>
    /\ \A j \in DOMAIN out \ DOMAIN in :
            out[j].op = "Undef" /\ out[j].args = <<>> /\ out[j].var = 0
    /\ moved \in Seq(DOMAIN out)
    /\ \A j : Contains(moved, j) <=> Contains(list, j) \/ j \in DOMAIN out \ DOMAIN in
    /\ Once(list) => Once(moved)
    /\ Once(list) /\ PhisFirst(in, list) => PhisFirst(out, moved)
    /\ \A x, y : x # phi /\ y # phi /\ Before(list, x, y) => Before(moved, x, y)

\* Moving the phi behind the other phis, as what becomes of it is none.
LEMMA MovedMembers ==
    ASSUME NEW D, NEW list \in Seq(D), NEW phi \in D, Contains(list, phi), NEW in, NEW out,
           out[phi].op # "Phi",
           \A j \in D : j # phi => out[j].op = in[j].op
    PROVE  LET rest == Erase(list, phi)
               point == FirstNonPhi(in, rest)
           IN  /\ rest \in Seq(D) /\ point \in 1 .. Len(rest) + 1
               /\ \A j : Contains(list, j) <=> j = phi \/ Contains(rest, j)
               /\ Once(list) => Once(rest) /\ ~Contains(rest, phi)
               /\ Once(list) /\ PhisFirst(in, list) => PhisBefore(out, rest, point)
<1> DEFINE rest == Erase(list, phi)
           point == FirstNonPhi(in, rest)
<1>1. /\ rest \in Seq(D)
      /\ \A j : Contains(rest, j) => Contains(list, j)
      /\ \A j : j # phi /\ Contains(list, j) => Contains(rest, j)
      /\ Once(list) => Once(rest) /\ ~Contains(rest, phi)
      /\ PhisFirst(in, list) => PhisFirst(in, rest)
  BY EraseMembers
<1> HIDE DEF rest
<1>2. point \in 1 .. Len(rest) + 1
  BY <1>1, FirstNonPhiFacts
<1>3. PhisFirst(in, list) => PhisBefore(in, rest, point)
  BY <1>1, FirstNonPhiEnds
<1> HIDE DEF point
<1>4. ASSUME Once(list), PhisFirst(in, list)
      PROVE  PhisBefore(out, rest, point)
  <2>1. DOMAIN rest = 1 .. Len(rest) /\ \A m \in 1 .. Len(rest) : rest[m] \in D
    BY <1>1, LenProperties, ElementOfSeq
  <2>2. \A m \in DOMAIN rest : rest[m] # phi
    BY <1>1, <1>4, <2>1 DEF Contains
  <2> QED BY <1>3, <1>4, <2>1, <2>2 DEF PhisBefore
<1>5. \A j : Contains(list, j) <=> j = phi \/ Contains(rest, j)
  BY <1>1
<1> QED BY <1>1, <1>2, <1>4, <1>5 DEF rest, point

\* TryRemoveTrivialPhi is a removal, whichever of its three cases it takes.
LEMMA TryRemoveEffect ==
    ASSUME NEW in, PoolOK(in), NoneEmpty(in), Counted(in), NEW phi \in DOMAIN in,
           NEW list \in Seq(DOMAIN in), Contains(list, phi)
    PROVE  LET tried == TryRemoveTrivialPhi(in, list, phi)
           IN  Removal(in, list, phi, tried.inst, tried.list, tried.result)
<1> DEFINE args == in[phi].args
           others == {k \in DOMAIN args : args[k] # InstValue(phi)}
           same == args[Lowest(others)]
           trivial == \A k \in others : Resolve(in, args[k]) = Resolve(in, same)
           rest == Erase(list, phi)
           point == FirstNonPhi(in, rest)
           undef == Len(in) + 1
           tried == TryRemoveTrivialPhi(in, list, phi)
           D == DOMAIN in
<1>1. CASE ~trivial
  <2>1. others # {}
    BY <1>1
  <2>2. tried = [inst |-> in, list |-> list, result |-> InstValue(phi)]
    BY <1>1, <2>1 DEF TryRemoveTrivialPhi
  <2>3. tried.inst = in /\ tried.list = list /\ tried.result = InstValue(phi)
    <3> HIDE DEF tried
    <3> QED BY <2>2
  <2>4. InstValue(phi) \in Value(DOMAIN in) /\ InstValue(phi) # Empty
    BY InstValues DEF Value
  <2>5. Removal(in, list, phi, in, list, InstValue(phi))
    BY <2>4 DEF Removal
  <2> QED BY <2>3, <2>5
<1>2. CASE trivial /\ others # {}
  <2> DEFINE out == ReplaceUsesWith(in, phi, same)
             moved == Insert(rest, point, phi)
  <2>1. tried = [inst |-> out, list |-> moved, result |-> same]
    BY <1>2 DEF TryRemoveTrivialPhi
  <2>2. tried.inst = out /\ tried.list = moved /\ tried.result = same
    <3> HIDE DEF tried, out, moved, same
    <3> QED BY <2>1
  <2>3. same \in Value(DOMAIN in) /\ same # Empty
    <3>1. /\ DOMAIN args = 1 .. Len(args) /\ Len(args) \in Nat
          /\ \A k \in DOMAIN args : args[k] \in Value(DOMAIN in) /\ args[k] # Empty
      BY PoolFacts DEF NoneEmpty
    <3>2. others \subseteq Nat /\ others \subseteq DOMAIN args
      BY <3>1
    <3>3. Lowest(others) \in others
      <4> HIDE DEF others
      <4> QED BY <1>2, <3>2, LowestFacts
    <3> HIDE DEF others
    <3> QED BY <3>1, <3>2, <3>3
  <2> HIDE DEF same
  <2>4. /\ PoolOK(out) /\ NoneEmpty(out) /\ Counted(out)
        /\ DOMAIN out = DOMAIN in
        /\ \A j \in DOMAIN in : out[j].var = in[j].var
        /\ \A j \in DOMAIN in :
                j # phi => /\ out[j].op = in[j].op
                           /\ out[j].args = in[j].args
                           /\ out[j].preds = in[j].preds
        /\ out[phi].op = "Identity" /\ out[phi].args = <<same>>
    BY <2>3, ReplaceEffect
  <2> HIDE DEF out
  <2>5. /\ rest \in Seq(D) /\ point \in 1 .. Len(rest) + 1
        /\ \A j : Contains(list, j) <=> j = phi \/ Contains(rest, j)
        /\ Once(list) => Once(rest) /\ ~Contains(rest, phi)
        /\ Once(list) /\ PhisFirst(in, list) => PhisBefore(out, rest, point)
    <3>1. out[phi].op # "Phi" /\ \A j \in D : j # phi => out[j].op = in[j].op
      BY <2>4
    <3> HIDE DEF D
    <3> QED BY <3>1, MovedMembers, ZenonT(60) DEF D
  <2>11. \A x, y : x # phi /\ y # phi /\ Before(list, x, y) => Before(rest, x, y)
    BY EraseOrder
  <2>6. Len(rest) \in Nat /\ point \in Nat \ {0} /\ point <= point
    <3> HIDE DEF rest, point
    <3> QED BY <2>5, LenProperties
  <2> HIDE DEF rest, point
  <2>7. /\ moved \in Seq(D)
        /\ \A j : Contains(moved, j) <=> j = phi \/ Contains(rest, j)
        /\ Once(rest) /\ ~Contains(rest, phi) => Once(moved)
        /\ PhisBefore(out, rest, point) /\ point <= point /\ out[phi].op # "Phi" =>
                PhisBefore(out, moved, point)
    BY <2>5, <2>6, InsertMembers
  <2>10. \A x, y : Before(rest, x, y) => Before(moved, x, y)
    BY <2>5, InsertOrder
  <2> HIDE DEF moved
  <2>8. Once(list) /\ PhisFirst(in, list) => PhisFirst(out, moved)
    BY <2>4, <2>5, <2>6, <2>7 DEF PhisFirst
  <2>9. Removal(in, list, phi, out, moved, same)
    BY <2>3, <2>4, <2>5, <2>7, <2>8, <2>10, <2>11 DEF Removal
  <2> QED BY <2>2, <2>9
<1>3. CASE others = {}
  <2> DEFINE grown == Append(in, NewInst("Undef"))
             v == InstValue(undef)
             out == ReplaceUsesWith(grown, phi, v)
             first == Insert(rest, point, undef)
             moved == Insert(first, point + 1, phi)
             E == DOMAIN grown
  <2>1. tried = [inst |-> out, list |-> moved, result |-> v]
    BY <1>3 DEF TryRemoveTrivialPhi
  <2>2. tried.inst = out /\ tried.list = moved /\ tried.result = v
    <3> HIDE DEF tried, out, moved, v
    <3> QED BY <2>1
  <2>3. /\ PoolOK(grown) /\ NoneEmpty(grown) /\ Counted(grown)
        /\ E = D \cup {undef} /\ undef \notin D /\ undef \in Nat \ {0}
        /\ \A j \in D : grown[j] = in[j]
        /\ grown[undef] = NewInst("Undef")
    BY NewInstEffect
  <2>4. v \in Value(E) /\ v # Empty
    BY <2>3, InstValues DEF Value
  <2> HIDE DEF v, grown, undef
  <2>5. /\ PoolOK(out) /\ NoneEmpty(out) /\ Counted(out)
        /\ DOMAIN out = E
        /\ \A j \in E : out[j].var = grown[j].var
        /\ \A j \in E :
                j # phi => /\ out[j].op = grown[j].op
                           /\ out[j].args = grown[j].args
                           /\ out[j].preds = grown[j].preds
        /\ out[phi].op = "Identity" /\ out[phi].args = <<v>>
    <3>1. /\ phi \in DOMAIN grown
          /\ PoolOK(grown) /\ NoneEmpty(grown) /\ Counted(grown)
          /\ v \in Value(DOMAIN grown) /\ v # Empty
      BY <2>3, <2>4
    <3> QED BY <3>1, ReplaceEffect
  <2> HIDE DEF out
  <2>6. phi # undef /\ undef \in E /\ phi \in E /\ D \subseteq E /\ phi \in D
    BY <2>3
  <2>7. /\ out[undef].op = "Undef" /\ out[undef].args = <<>> /\ out[undef].var = 0
        /\ \A j \in D : out[j].var = in[j].var
        /\ \A j \in D : j # phi => /\ out[j].op = in[j].op
                                   /\ out[j].args = in[j].args
                                   /\ out[j].preds = in[j].preds
    BY <2>3, <2>5, <2>6 DEF NewInst
  <2>8. /\ rest \in Seq(D) /\ point \in 1 .. Len(rest) + 1
        /\ \A j : Contains(list, j) <=> j = phi \/ Contains(rest, j)
        /\ Once(list) => Once(rest) /\ ~Contains(rest, phi)
        /\ Once(list) /\ PhisFirst(in, list) => PhisBefore(out, rest, point)
    <3>1. /\ out[phi].op # "Phi" /\ list \in Seq(D) /\ phi \in D /\ Contains(list, phi)
          /\ \A j \in D : j # phi => out[j].op = in[j].op
      BY <2>5, <2>6, <2>7
    <3> HIDE DEF D
    <3> QED BY <3>1, MovedMembers
  <2>19. \A x, y : x # phi /\ y # phi /\ Before(list, x, y) => Before(rest, x, y)
    BY EraseOrder
  <2> HIDE DEF rest, point
  <2>9. /\ Len(rest) \in Nat /\ point \in Nat \ {0} /\ point <= point /\ point <= point + 1
        /\ rest \in Seq(E)
        /\ ~Contains(rest, undef)
    <3>1. \A m \in 1 .. Len(rest) : rest[m] \in D
      BY <2>8, ElementOfSeq
    <3>2. rest \in Seq(E)
      BY <2>6, <2>8, SeqMonotonic
    <3>3. Len(rest) \in Nat
      BY <2>8, LenProperties
    <3>4. ~Contains(rest, undef)
      BY <2>3, <3>1 DEF Contains
    <3> QED BY <2>8, <3>2, <3>3, <3>4
  <2> HIDE DEF D, E
  <2>10. /\ first \in Seq(E) /\ Len(first) = Len(rest) + 1
         /\ \A j : Contains(first, j) <=> j = undef \/ Contains(rest, j)
         /\ Once(rest) /\ ~Contains(rest, undef) => Once(first)
         /\ PhisBefore(out, rest, point) /\ point <= point /\ out[undef].op # "Phi" =>
                PhisBefore(out, first, point)
    BY <2>6, <2>8, <2>9, InsertMembers
  <2>17. \A x, y : Before(rest, x, y) => Before(first, x, y)
    BY <2>6, <2>8, <2>9, InsertOrder
  <2> HIDE DEF first
  <2>11. point + 1 \in 1 .. Len(first) + 1
    BY <2>8, <2>9, <2>10
  <2>12. /\ moved \in Seq(E)
         /\ \A j : Contains(moved, j) <=> j = phi \/ Contains(first, j)
         /\ Once(first) /\ ~Contains(first, phi) => Once(moved)
         /\ PhisBefore(out, first, point) /\ point <= point + 1 /\ out[phi].op # "Phi" =>
                PhisBefore(out, moved, point)
    BY <2>6, <2>9, <2>10, <2>11, InsertMembers, ZenonT(60)
  <2>18. \A x, y : Before(first, x, y) => Before(moved, x, y)
    BY <2>6, <2>10, <2>11, InsertOrder
  <2> HIDE DEF moved
  <2>13. Once(list) /\ PhisFirst(in, list) => PhisFirst(out, moved)
    BY <2>5, <2>7, <2>8, <2>9, <2>10, <2>12 DEF PhisFirst
  <2>14. Once(list) => Once(moved)
    BY <2>6, <2>8, <2>9, <2>10, <2>12
  <2>15. \A j : Contains(moved, j) <=> Contains(list, j) \/ j \in DOMAIN out \ DOMAIN in
    BY <2>3, <2>5, <2>8, <2>10, <2>12 DEF D
  <2>16. Removal(in, list, phi, out, moved, v)
    <3>1. \A j \in DOMAIN out \ DOMAIN in :
            out[j].op = "Undef" /\ out[j].args = <<>> /\ out[j].var = 0
      BY <2>3, <2>5, <2>7 DEF D
    <3>2. moved \in Seq(DOMAIN out) /\ DOMAIN in \subseteq DOMAIN out
          /\ v \in Value(DOMAIN out)
      BY <2>4, <2>5, <2>6, <2>12 DEF D
    <3>3. /\ \A j \in DOMAIN in : out[j].var = in[j].var
          /\ \A j \in DOMAIN in : j # phi => /\ out[j].op = in[j].op
                                             /\ out[j].args = in[j].args
                                             /\ out[j].preds = in[j].preds
      BY <2>7 DEF D
    <3>4. \A x, y : x # phi /\ y # phi /\ Before(list, x, y) => Before(moved, x, y)
      BY <2>17, <2>18, <2>19
    <3> QED BY <2>4, <2>5, <2>13, <2>14, <2>15, <3>1, <3>2, <3>3, <3>4 DEF Removal
  <2> QED BY <2>2, <2>16
<1> HIDE DEF trivial, others
<1> QED BY <1>1, <1>2, <1>3

-----------------------------------------------------------------------------
(* The invariant                                                           *)

Blocks == DOMAIN program.instructions
Statuses == {"Start", "SetValue", "PushPhiArgument"}
Frame(D) ==
    [block : Blocks \cup {0}, result : Value(D), phi : D \cup {0}, pred : Nat, pc : Statuses]

\* What refers to instructions refers to those of a pool of which D is the domain.
PlacesOK(D) ==
    /\ instructions \in [Blocks -> Seq(D)]
    /\ current_def \in [Blocks -> [Variable -> Value(D)]]
    /\ incomplete_phis \in [Blocks -> [Variable -> D \cup {0}]]
    /\ current \in D \cup {0}
    /\ stack \in Seq(Frame(D))
    /\ to_invalidate \in Seq(D)

TypeOK ==
    /\ WellFormed(program)
    /\ PoolOK(inst) /\ NoneEmpty(inst)
    /\ PlacesOK(DOMAIN inst)
    /\ ssa_sealed \subseteq Blocks
    /\ cursor \in Nat
    /\ phase = "rewrite" => cursor \in DOMAIN program.order
    /\ phase # "rewrite" => cursor \in DOMAIN program.list
    /\ sealing \in Nat
    /\ sealing # 0 => phase = "rewrite"
    /\ read \in Variable \cup {0}
    /\ phase \in {"rewrite", "identities", "done"}

\* The instructions of the program keep their kind until they are replaced.
KindsOK(in) ==
    \A i \in DOMAIN in :
        /\ in[i].op \in {"Get", "Set"} => in[i].var \in Variable
        /\ in[i].op = "Set" => in[i].args # <<>>

\* The instruction the pass is at is in the list of its block, and so are the
\* incomplete phis until their blocks are sealed.
Listed ==
    /\ current # 0 =>
            Contains(instructions[IF phase = "rewrite" THEN Block ELSE ListBlock], current)
    /\ phase = "rewrite" => \A b \in Blocks, v \in Variable :
            incomplete_phis[b][v] # 0 => Contains(instructions[b], incomplete_phis[b][v])

\* A read is for a Get of the block, or for an operand of one of its phis.
ReadsFor ==
    read # 0 => IF sealing = 0 THEN current # 0
                ELSE incomplete_phis[Block][read] # 0 /\ sealing <= Len(Preds(Block))

\* The stack of ReadVariable: a root that only takes the result, then the blocks
\* that wait for a result, then the one whose turn it is.
StackOK ==
    /\ (read = 0) <=> (stack = <<>>)
    /\ read # 0 => phase = "rewrite"
    /\ stack # <<>> => stack[1].pc = "Start"
    /\ \A k \in DOMAIN stack :
            /\ k > 1 => stack[k].block \in Blocks
            /\ k > 1 /\ k < Len(stack) => stack[k].pc # "Start"
            /\ stack[k].pc = "PushPhiArgument" =>
                    /\ Contains(instructions[stack[k].block], stack[k].phi)
                    /\ stack[k].pred \in 1 .. Len(Preds(stack[k].block))
    /\ stack # <<>> /\ (Len(stack) = 1 \/ Top.pc # "Start") => Top.result # Empty

\* A block whose phi is being made has that phi as its definition.
PhiIsDefined ==
    \A k \in DOMAIN stack :
        stack[k].pc = "PushPhiArgument" => current_def[stack[k].block][read] # Empty

IInv ==
    /\ TypeOK /\ Counted(inst) /\ KindsOK(inst) /\ Listed /\ ReadsFor
    /\ StackOK /\ PhiIsDefined /\ OnePhiPerRead

-----------------------------------------------------------------------------
(* Programs, places and lists                                              *)

\* Orders, lists and predecessors of a program are blocks.
LEMMA ProgramFacts ==
    ASSUME WellFormed(program)
    PROVE  /\ Blocks \subseteq Nat \ {0}
           /\ Len(program.order) \in Nat \ {0} /\ DOMAIN program.order = 1 .. Len(program.order)
           /\ Len(program.list) \in Nat \ {0} /\ DOMAIN program.list = 1 .. Len(program.list)
           /\ \A k \in DOMAIN program.order : program.order[k] \in Blocks
           /\ \A k \in DOMAIN program.list : program.list[k] \in Blocks
           /\ \A b \in Blocks : /\ Len(Preds(b)) \in Nat
                                /\ \A k \in 1 .. Len(Preds(b)) : Preds(b)[k] \in Blocks
<1>1. Blocks \subseteq Nat \ {0}
  <2>1. program.instructions \in Seq(Seq(DOMAIN program.inst))
    BY DEF WellFormed
  <2>2. Blocks = 1 .. Len(program.instructions) /\ Len(program.instructions) \in Nat
    BY <2>1, LenProperties DEF Blocks
  <2> QED BY <2>2
<1>2. /\ program.order \in Seq(Blocks) /\ program.order # <<>>
      /\ program.list \in Seq(Blocks) /\ program.list # <<>>
      /\ program.preds \in [Blocks -> Seq(Blocks)]
  BY DEF WellFormed, Blocks
<1> HIDE DEF Blocks
<1>3. /\ Len(program.order) \in Nat \ {0} /\ DOMAIN program.order = 1 .. Len(program.order)
      /\ \A k \in DOMAIN program.order : program.order[k] \in Blocks
  BY <1>2, LenProperties, EmptySeq, ElementOfSeq
<1>4. /\ Len(program.list) \in Nat \ {0} /\ DOMAIN program.list = 1 .. Len(program.list)
      /\ \A k \in DOMAIN program.list : program.list[k] \in Blocks
  BY <1>2, LenProperties, EmptySeq, ElementOfSeq
<1>5. \A b \in Blocks : /\ Len(Preds(b)) \in Nat
                        /\ \A k \in 1 .. Len(Preds(b)) : Preds(b)[k] \in Blocks
  <2>1. \A b \in Blocks : Preds(b) \in Seq(Blocks)
    BY <1>2 DEF Preds
  <2> QED BY <2>1, LenProperties, ElementOfSeq
<1> QED BY <1>1, <1>3, <1>4, <1>5

\* What is in a pool is in a larger one.
LEMMA PlacesGrow ==
    ASSUME NEW D, NEW E, D \subseteq E, PlacesOK(D)
    PROVE  PlacesOK(E)
<1>1. Value(D) \subseteq Value(E) /\ Seq(D) \subseteq Seq(E)
  BY Monotonic
<1>2. Frame(D) \subseteq Frame(E)
  BY <1>1 DEF Frame
<1>3. Seq(Frame(D)) \subseteq Seq(Frame(E))
  BY <1>2, SeqMonotonic
<1>4. instructions \in [Blocks -> Seq(E)]
  BY <1>1 DEF PlacesOK
<1>5. current_def \in [Blocks -> [Variable -> Value(E)]]
  BY <1>1 DEF PlacesOK
<1>6. incomplete_phis \in [Blocks -> [Variable -> E \cup {0}]]
  BY DEF PlacesOK
<1> QED BY <1>1, <1>3, <1>4, <1>5, <1>6 DEF PlacesOK

\* The first instruction of a list, if it has one, is in it.
LEMMA FirstOfFacts ==
    ASSUME NEW D, NEW list \in Seq(D)
    PROVE  /\ FirstOf(list) \in D \cup {0}
           /\ FirstOf(list) # 0 => Contains(list, FirstOf(list))
<1>1. CASE list = <<>>
  BY <1>1 DEF FirstOf
<1>2. CASE list # <<>>
  <2>1. Len(list) \in Nat \ {0}
    BY <1>2, EmptySeq
  <2>2. 1 \in 1 .. Len(list)
    BY <2>1
  <2>3. list[1] \in D
    BY <2>2, ElementOfSeq
  <2> QED BY <1>2, <2>2, <2>3 DEF FirstOf, Contains
<1> QED BY <1>1, <1>2

\* The next instruction is in the list, and stays in it when the one before is
\* erased.
LEMMA NextInFacts ==
    ASSUME NEW D, NEW list \in Seq(D), NEW i, Contains(list, i)
    PROVE  /\ NextIn(list, i) \in D \cup {0}
           /\ NextIn(list, i) # 0 => /\ Contains(list, NextIn(list, i))
                                     /\ Contains(Erase(list, i), NextIn(list, i))
<1> DEFINE k == Place(list, i)
           n == Len(list)
           out == Erase(list, i)
<1>1. /\ k \in 1 .. n /\ n \in Nat /\ Len(out) = n - 1
      /\ \A m \in 1 .. n - 1 : out[m] = IF m < k THEN list[m] ELSE list[m + 1]
  BY EraseFacts
<1>2. NextIn(list, i) = IF k = n THEN 0 ELSE list[k + 1]
  BY DEF NextIn
<1> HIDE DEF k, out
<1>3. CASE k = n
  BY <1>2, <1>3
<1>4. CASE k # n
  <2>1. k + 1 \in 1 .. n /\ k \in 1 .. n - 1 /\ ~(k < k)
    BY <1>1, <1>4
  <2>2. list[k + 1] \in D
    BY <2>1, ElementOfSeq
  <2>3. out[k] = list[k + 1]
    BY <1>1, <2>1
  <2>4. Contains(out, list[k + 1])
    BY <1>1, <2>1, <2>3 DEF Contains
  <2>5. Contains(list, list[k + 1])
    BY <2>1 DEF Contains
  <2> QED BY <1>2, <1>4, <2>2, <2>4, <2>5 DEF out
<1> QED BY <1>3, <1>4

\* What the invariant says of the place the pass is at.
LEMMA AtFacts ==
    ASSUME TypeOK
    PROVE  /\ DOMAIN inst = 1 .. Len(inst) /\ Len(inst) \in Nat /\ 0 \notin DOMAIN inst
           /\ Variable \subseteq Nat \ {0}
           /\ phase = "rewrite" => Block \in Blocks
           /\ phase # "rewrite" => ListBlock \in Blocks
           /\ \A b \in Blocks : instructions[b] \in Seq(DOMAIN inst)
           /\ \A b \in Blocks, v \in Variable :
                /\ current_def[b][v] \in Value(DOMAIN inst)
                /\ incomplete_phis[b][v] \in DOMAIN inst \cup {0}
<1>1. DOMAIN inst = 1 .. Len(inst) /\ Len(inst) \in Nat /\ 0 \notin DOMAIN inst
  BY PoolFacts DEF TypeOK
<1>2. /\ phase = "rewrite" => Block \in Blocks
      /\ phase # "rewrite" => ListBlock \in Blocks
  BY ProgramFacts DEF TypeOK, Block, ListBlock
<1>3. \A b \in Blocks : instructions[b] \in Seq(DOMAIN inst)
  BY DEF TypeOK, PlacesOK
<1>4. \A b \in Blocks, v \in Variable :
                /\ current_def[b][v] \in Value(DOMAIN inst)
                /\ incomplete_phis[b][v] \in DOMAIN inst \cup {0}
  BY DEF TypeOK, PlacesOK
<1> QED BY <1>1, <1>2, <1>3, <1>4, VariableAssumption

-----------------------------------------------------------------------------
(* The invariant holds at first                                            *)

\* The invariant holds when the passes begin: no phi, no definition, exact counts.
LEMMA InitInv == Init => IInv
<1> SUFFICES ASSUME Init PROVE IInv
  OBVIOUS
<1>1. WellFormed(program)
  BY ProgramsAssumption DEF Init
<1>2. inst = program.inst /\ instructions = program.instructions
  BY DEF Init
<1>3. PoolOK(inst) /\ NoneEmpty(inst) /\ Counted(inst)
  <2>1. inst \in Seq(Inst(DOMAIN inst))
    BY <1>1, <1>2 DEF WellFormed
  <2>2. \A i \in DOMAIN inst : inst[i].op \notin {"Phi", "Identity", "Void"}
    BY <1>1, <1>2 DEF WellFormed
  <2>3. \A i \in DOMAIN inst : \A k \in DOMAIN inst[i].args : inst[i].args[k] # Empty
    BY <1>1, <1>2 DEF WellFormed
  <2>4. \A i \in DOMAIN inst : inst[i].use_count = Cardinality(UsesOf(inst, i))
    BY <1>1, <1>2 DEF WellFormed
  <2> QED BY <2>1, <2>2, <2>3, <2>4 DEF PoolOK, NoneEmpty, Counted
<1>4. KindsOK(inst)
  BY <1>1, <1>2 DEF WellFormed, KindsOK
<1>5. /\ 1 \in DOMAIN program.order /\ program.order[1] \in Blocks
  BY <1>1, ProgramFacts
<1>6. instructions \in [Blocks -> Seq(DOMAIN inst)]
  <2>1. program.instructions \in Seq(Seq(DOMAIN program.inst))
    BY <1>1 DEF WellFormed
  <2> QED BY <1>2, <2>1, LenProperties DEF Blocks
<1>7. /\ current \in DOMAIN inst \cup {0}
      /\ current # 0 => Contains(instructions[program.order[1]], current)
  BY <1>5, <1>6, FirstOfFacts DEF Init
<1>8. /\ current_def = [b \in Blocks |-> [v \in Variable |-> Empty]]
      /\ incomplete_phis = [b \in Blocks |-> [v \in Variable |-> 0]]
  BY <1>2 DEF Init, Blocks
<1>9. PlacesOK(DOMAIN inst)
  <2>1. Empty \in Value(DOMAIN inst)
    BY DEF Value
  <2>2. stack = <<>> /\ to_invalidate = <<>>
    BY DEF Init
  <2>3. stack \in Seq(Frame(DOMAIN inst)) /\ to_invalidate \in Seq(DOMAIN inst)
    BY <2>2, EmptySeq
  <2> QED BY <1>6, <1>7, <1>8, <2>1, <2>3 DEF PlacesOK
<1>10. TypeOK
  BY <1>1, <1>3, <1>5, <1>9 DEF TypeOK, Init
<1>11. Listed
  <2>1. Contains(instructions[IF phase = "rewrite" THEN Block ELSE ListBlock], current)
            <=> Contains(instructions[program.order[1]], current)
    BY DEF Init, Block
  <2> QED BY <1>7, <1>8, <2>1 DEF Listed
<1>12. ReadsFor /\ StackOK /\ PhiIsDefined /\ OnePhiPerRead
  <2>1. read = 0 /\ stack = <<>> /\ DOMAIN stack = {}
    BY DEF Init
  <2> QED BY <2>1 DEF ReadsFor, StackOK, PhiIsDefined, OnePhiPerRead
<1> QED BY <1>3, <1>4, <1>10, <1>11, <1>12 DEF IInv

-----------------------------------------------------------------------------
(* VisitBlock                                                              *)

\* The parts about ReadVariable hold while it is not running.
LEMMA NoRead ==
    ASSUME read' = 0, stack' = <<>>
    PROVE  ReadsFor' /\ StackOK' /\ PhiIsDefined' /\ OnePhiPerRead'
<1>1. DOMAIN stack' = {}
  OBVIOUS
<1> QED BY <1>1 DEF ReadsFor, StackOK, PhiIsDefined, OnePhiPerRead

\* Going on to the next instruction of the block.
LEMMA NextKeeps ==
    ASSUME IInv, phase = "rewrite", current # 0
    PROVE  LET next == NextIn(instructions[Block], current)
           IN  /\ Block \in Blocks /\ current \in DOMAIN inst
               /\ instructions[Block] \in Seq(DOMAIN inst)
               /\ next \in DOMAIN inst \cup {0}
               /\ next # 0 => Contains(instructions[Block], next)
<1>1. Block \in Blocks /\ instructions[Block] \in Seq(DOMAIN inst)
  BY AtFacts DEF IInv
<1>2. current \in DOMAIN inst /\ Contains(instructions[Block], current)
  BY DEF IInv, TypeOK, PlacesOK, Listed
<1> QED BY <1>1, <1>2, NextInFacts

\* A Set becomes the definition of its variable.
LEMMA VisitSetInv ==
    ASSUME IInv, VisitSet
    PROVE  IInv'
<1> DEFINE next == NextIn(instructions[Block], current)
           v == inst[current].args[1]
           x == inst[current].var
<1>1. /\ phase = "rewrite" /\ read = 0 /\ sealing = 0 /\ current # 0
      /\ inst[current].op = "Set"
      /\ current_def' = [current_def EXCEPT ![Block][x] = v]
      /\ current' = next
      /\ UNCHANGED <<program, ir, incomplete_phis, ssa_sealed, cursor, sealing, read, stack,
                     to_invalidate, phase>>
  BY DEF VisitSet, Visiting
<1>2. /\ Block \in Blocks /\ current \in DOMAIN inst
      /\ next \in DOMAIN inst \cup {0}
      /\ next # 0 => Contains(instructions[Block], next)
  BY <1>1, NextKeeps
<1> HIDE DEF next
<1>3. x \in Variable /\ v \in Value(DOMAIN inst)
  <2>1. inst[current].args # <<>> /\ x \in Variable
    BY <1>1, <1>2 DEF IInv, KindsOK
  <2>2. 1 \in DOMAIN inst[current].args
    <3>1. inst[current].args \in Seq(Value(DOMAIN inst))
      BY <1>2, PoolFacts DEF IInv, TypeOK, Inst
    <3> QED BY <2>1, <3>1, EmptySeq, LenProperties
  <2> QED BY <1>2, <2>1, <2>2, PoolFacts DEF IInv, TypeOK
<1> HIDE DEF v, x
<1>4. TypeOK'
  <2>1. current_def' \in [Blocks -> [Variable -> Value(DOMAIN inst)]]
    BY <1>1, <1>2, <1>3 DEF IInv, TypeOK, PlacesOK
  <2>2. PlacesOK(DOMAIN inst)'
    BY <1>1, <1>2, <2>1 DEF IInv, TypeOK, PlacesOK, ir, Blocks, Frame, Statuses
  <2> QED BY <1>1, <2>2 DEF IInv, TypeOK, ir, Blocks
<1>5. Counted(inst)' /\ KindsOK(inst)'
  BY <1>1 DEF IInv, KindsOK, Counted, ir
<1>6. Listed'
  BY <1>1, <1>2 DEF IInv, Listed, ir, Blocks, Block, ListBlock
<1>7. ReadsFor' /\ StackOK' /\ PhiIsDefined' /\ OnePhiPerRead'
  <2>1. read' = 0 /\ stack' = <<>>
    BY <1>1 DEF IInv, StackOK
  <2> QED BY <2>1, NoRead
<1> QED BY <1>4, <1>5, <1>6, <1>7 DEF IInv

\* An instruction that is no Get or Set is passed by.
LEMMA VisitOtherInv ==
    ASSUME IInv, VisitOther
    PROVE  IInv'
<1> DEFINE next == NextIn(instructions[Block], current)
<1>1. /\ phase = "rewrite" /\ read = 0 /\ sealing = 0 /\ current # 0
      /\ current' = next
      /\ UNCHANGED <<program, ir, defs, ssa_sealed, cursor, sealing, read, stack,
                     to_invalidate, phase>>
  BY DEF VisitOther, Visiting
<1>2. /\ next \in DOMAIN inst \cup {0}
      /\ next # 0 => Contains(instructions[Block], next)
  BY <1>1, NextKeeps
<1> HIDE DEF next
<1>4. TypeOK'
  <2>2. PlacesOK(DOMAIN inst)'
    BY <1>1, <1>2 DEF IInv, TypeOK, PlacesOK, ir, defs, Blocks, Frame, Statuses
  <2> QED BY <1>1, <2>2 DEF IInv, TypeOK, ir, Blocks
<1>5. Counted(inst)' /\ KindsOK(inst)'
  BY <1>1 DEF IInv, KindsOK, Counted, ir
<1>6. Listed'
  BY <1>1, <1>2 DEF IInv, Listed, ir, defs, Blocks, Block, ListBlock
<1>7. ReadsFor' /\ StackOK' /\ PhiIsDefined' /\ OnePhiPerRead'
  <2>1. read' = 0 /\ stack' = <<>>
    BY <1>1 DEF IInv, StackOK
  <2> QED BY <2>1, NoRead
<1> QED BY <1>4, <1>5, <1>6, <1>7 DEF IInv

\* A read begins with the root and the block it is for.
LEMMA CallEffect ==
    ASSUME IInv, phase = "rewrite", NEW v \in Variable, NEW b \in Blocks, CallReadVariable(v, b),
           IF sealing = 0 THEN current # 0
           ELSE incomplete_phis[Block][v] # 0 /\ sealing <= Len(Preds(Block))
    PROVE  IInv'
<1>1. /\ read' = v
      /\ stack' = <<ReadState(0), ReadState(b)>>
      /\ UNCHANGED <<program, ir, defs, ssa_sealed, place, to_invalidate, phase>>
  BY DEF CallReadVariable
<1>2. v # 0 /\ v \in Variable
  BY VariableAssumption
<1>3. /\ stack' \in Seq(Frame(DOMAIN inst))
      /\ Len(stack') = 2 /\ DOMAIN stack' = {1, 2}
      /\ stack'[1] = ReadState(0) /\ stack'[2] = ReadState(b)
  <2> DEFINE F == Frame(DOMAIN inst)
             s == ReadState(0)
             t == ReadState(b)
  <2>1. s \in F /\ t \in F
    <3>1. Empty \in Value(DOMAIN inst)
      BY DEF Value
    <3> QED BY <3>1 DEF ReadState, Frame, Statuses
  <2> HIDE DEF F, s, t
  <2>2. /\ <<s, t>> \in Seq(F) /\ Len(<<s, t>>) = 2 /\ DOMAIN <<s, t>> = {1, 2}
        /\ <<s, t>>[1] = s /\ <<s, t>>[2] = t
    BY <2>1
  <2> QED BY <1>1, <2>2 DEF F, s, t
<1>4. TypeOK'
  <2>2. PlacesOK(DOMAIN inst)'
    BY <1>1, <1>3 DEF IInv, TypeOK, PlacesOK, ir, defs, place, Blocks, Frame, Statuses
  <2> QED BY <1>1, <2>2 DEF IInv, TypeOK, ir, place, Blocks
<1>5. Counted(inst)' /\ KindsOK(inst)'
  BY <1>1 DEF IInv, KindsOK, Counted, ir
<1>6. Listed' /\ ReadsFor'
  BY <1>1 DEF IInv, Listed, ReadsFor, ir, defs, place, Blocks, Block, ListBlock, Preds
<1>7. \A k \in DOMAIN stack' : stack'[k].pc = "Start"
  BY <1>3 DEF ReadState
<1>8. StackOK'
  <2>1. read' # 0 /\ phase' = "rewrite"
    BY <1>1, <1>2
  <2>2. stack' # <<>>
    BY <1>3
  <2>3. stack'[2].block \in Blocks /\ Blocks' = Blocks
    BY <1>1, <1>3 DEF ReadState, Blocks
  <2>4. \A k \in DOMAIN stack' : k > 1 => stack'[k].block \in Blocks'
    BY <1>3, <2>3
  <2>5. \A k \in DOMAIN stack' : ~(k > 1 /\ k < Len(stack'))
    BY <1>3
  <2>6. Top'.pc = "Start" /\ Len(stack') # 1
    BY <1>3 DEF Top, Last, ReadState
  <2> QED BY <1>3, <1>7, <2>1, <2>2, <2>4, <2>5, <2>6 DEF StackOK
<1>9. PhiIsDefined' /\ OnePhiPerRead'
  BY <1>7 DEF PhiIsDefined, OnePhiPerRead
<1> QED BY <1>4, <1>5, <1>6, <1>8, <1>9 DEF IInv

\* A Get starts a read of its variable in its block.
LEMMA VisitGetInv ==
    ASSUME IInv, VisitGet
    PROVE  IInv'
<1>1. /\ phase = "rewrite" /\ sealing = 0 /\ current # 0
      /\ inst[current].op = "Get"
      /\ CallReadVariable(inst[current].var, Block)
  BY DEF VisitGet, Visiting
<1>2. Block \in Blocks /\ current \in DOMAIN inst
  BY <1>1, NextKeeps
<1>3. inst[current].var \in Variable
  BY <1>1, <1>2 DEF IInv, KindsOK
<1> QED BY <1>1, <1>2, <1>3, CallEffect

\* The Get becomes an identity of what was read; its list still has the next one.
LEMMA ReplaceGetEffect ==
    ASSUME IInv, ReplaceGet
    PROVE  /\ Len(stack) = 1 /\ sealing = 0 /\ read # 0 /\ phase = "rewrite" /\ current # 0
           /\ read' = 0 /\ stack' = <<>>
           /\ UNCHANGED <<program, instructions, current_def, incomplete_phis, ssa_sealed, cursor,
                          sealing, to_invalidate, phase>>
           /\ current \in DOMAIN inst /\ current' \in DOMAIN inst \cup {0}
           /\ current' # 0 => Contains(instructions[Block], current')
           /\ PoolOK(inst') /\ NoneEmpty(inst') /\ Counted(inst')
           /\ DOMAIN inst' = DOMAIN inst
           /\ \A j \in DOMAIN inst : inst'[j].var = inst[j].var
           /\ \A j \in DOMAIN inst :
                j # current => /\ inst'[j].op = inst[j].op
                               /\ inst'[j].args = inst[j].args
                               /\ inst'[j].preds = inst[j].preds
           /\ inst'[current].op = "Identity" /\ inst'[current].preds = <<>>
<1> DEFINE next == NextIn(instructions[Block], current)
           v == stack[1].result
<1>1. /\ Len(stack) = 1 /\ sealing = 0
      /\ inst' = ReplaceUsesWith(inst, current, v)
      /\ current' = next
      /\ read' = 0 /\ stack' = <<>>
      /\ UNCHANGED <<program, instructions, defs, ssa_sealed, cursor, sealing, to_invalidate,
                     phase>>
  BY DEF ReplaceGet
<1>2. read # 0 /\ phase = "rewrite" /\ current # 0 /\ v # Empty
  <2>1. stack # <<>>
    BY <1>1
  <2> QED BY <1>1, <2>1 DEF IInv, StackOK, ReadsFor, Top, Last
<1>3. /\ current \in DOMAIN inst
      /\ next \in DOMAIN inst \cup {0}
      /\ next # 0 => Contains(instructions[Block], next)
  BY <1>2, NextKeeps
<1>4. v \in Value(DOMAIN inst)
  <2>1. stack \in Seq(Frame(DOMAIN inst)) /\ 1 \in 1 .. Len(stack)
    BY <1>1 DEF IInv, TypeOK, PlacesOK
  <2>2. stack[1] \in Frame(DOMAIN inst)
    BY <2>1, ElementOfSeq
  <2> QED BY <2>2 DEF Frame
<1> HIDE DEF next, v
<1>5. /\ PoolOK(inst') /\ NoneEmpty(inst') /\ Counted(inst')
      /\ DOMAIN inst' = DOMAIN inst
      /\ \A j \in DOMAIN inst : inst'[j].var = inst[j].var
      /\ \A j \in DOMAIN inst :
            j # current => /\ inst'[j].op = inst[j].op
                           /\ inst'[j].args = inst[j].args
                           /\ inst'[j].preds = inst[j].preds
      /\ inst'[current].op = "Identity" /\ inst'[current].preds = <<>>
  BY <1>1, <1>2, <1>3, <1>4, ReplaceEffect DEF IInv, TypeOK
<1> QED BY <1>1, <1>2, <1>3, <1>5 DEF defs

\* A Get that was replaced needs no definition.
LEMMA ReplaceGetInv ==
    ASSUME IInv, ReplaceGet
    PROVE  IInv'
<1>1. /\ read' = 0 /\ stack' = <<>>
      /\ UNCHANGED <<program, instructions, current_def, incomplete_phis, ssa_sealed, cursor,
                     sealing, to_invalidate, phase>>
  BY ReplaceGetEffect
<1>2. phase = "rewrite"
  BY ReplaceGetEffect
<1>3. /\ current' \in DOMAIN inst \cup {0}
      /\ current' # 0 => Contains(instructions[Block], current')
  BY ReplaceGetEffect
<1>5. /\ PoolOK(inst') /\ NoneEmpty(inst') /\ Counted(inst')
      /\ DOMAIN inst' = DOMAIN inst
      /\ \A j \in DOMAIN inst : inst'[j].var = inst[j].var
      /\ \A j \in DOMAIN inst :
            j # current => inst'[j].op = inst[j].op /\ inst'[j].args = inst[j].args
      /\ inst'[current].op = "Identity"
  BY ReplaceGetEffect
<1>6. TypeOK'
  <2>1. stack' \in Seq(Frame(DOMAIN inst))
    BY <1>1, EmptySeq
  <2>2. PlacesOK(DOMAIN inst)'
    BY <1>1, <1>3, <1>5, <2>1 DEF IInv, TypeOK, PlacesOK, Blocks, Frame, Statuses
  <2> QED BY <1>1, <1>5, <2>2 DEF IInv, TypeOK, Blocks
<1>7. KindsOK(inst)'
  <2>1. \A j \in DOMAIN inst : /\ inst[j].op \in {"Get", "Set"} => inst[j].var \in Variable
                               /\ inst[j].op = "Set" => inst[j].args # <<>>
    BY DEF IInv, KindsOK
  <2>2. \A j \in DOMAIN inst : /\ inst'[j].op \in {"Get", "Set"} => inst'[j].var \in Variable
                               /\ inst'[j].op = "Set" => inst'[j].args # <<>>
    BY <1>5, <2>1
  <2> QED BY <1>5, <2>2 DEF KindsOK
<1>8. Listed'
  BY <1>1, <1>2, <1>3 DEF IInv, Listed, Blocks, Block, ListBlock
<1>9. ReadsFor' /\ StackOK' /\ PhiIsDefined' /\ OnePhiPerRead'
  BY <1>1, NoRead
<1> QED BY <1>5, <1>6, <1>7, <1>8, <1>9 DEF IInv, Counted

-----------------------------------------------------------------------------
(* SealBlock                                                               *)

\* At the end of a block its incomplete phis are next.
LEMMA BeginSealInv ==
    ASSUME IInv, BeginSeal
    PROVE  IInv'
<1>1. /\ phase = "rewrite" /\ read = 0 /\ current = 0 /\ sealing' = 1
      /\ UNCHANGED <<program, ir, defs, ssa_sealed, cursor, current, read, stack, to_invalidate,
                     phase>>
  BY DEF BeginSeal
<1>2. TypeOK'
  <2>1. PlacesOK(DOMAIN inst)'
    BY <1>1 DEF IInv, TypeOK, PlacesOK, ir, defs, Blocks, Frame, Statuses
  <2> QED BY <1>1, <2>1 DEF IInv, TypeOK, ir, Blocks
<1>3. Counted(inst)' /\ KindsOK(inst)' /\ Listed'
  BY <1>1 DEF IInv, KindsOK, Counted, Listed, ir, defs, Blocks
<1>4. ReadsFor' /\ StackOK' /\ PhiIsDefined' /\ OnePhiPerRead'
  <2>1. read' = 0 /\ stack' = <<>>
    BY <1>1 DEF IInv, StackOK
  <2> QED BY <2>1, NoRead
<1> QED BY <1>2, <1>3, <1>4 DEF IInv

\* The variable whose phi is to be completed.
LEMMA IncompleteFacts ==
    ASSUME IInv, phase = "rewrite", Incomplete(Block) # {}
    PROVE  LET v == Lowest(Incomplete(Block))
           IN  /\ Block \in Blocks /\ v \in Variable
               /\ incomplete_phis[Block][v] \in DOMAIN inst
               /\ incomplete_phis[Block][v] # 0
               /\ Contains(instructions[Block], incomplete_phis[Block][v])
               /\ \A w \in Incomplete(Block) : v <= w
<1> DEFINE S == Incomplete(Block)
<1>1. S \subseteq Nat /\ S # {}
  BY VariableAssumption DEF Incomplete
<1>2. Lowest(S) \in S /\ \A w \in S : Lowest(S) <= w
  <2> HIDE DEF S
  <2> QED BY <1>1, LowestFacts
<1>3. Block \in Blocks
  BY AtFacts DEF IInv
<1>4. Lowest(S) \in Variable /\ incomplete_phis[Block][Lowest(S)] # 0
  BY <1>2 DEF Incomplete
<1>5. /\ incomplete_phis[Block][Lowest(S)] \in DOMAIN inst
      /\ Contains(instructions[Block], incomplete_phis[Block][Lowest(S)])
  <2> HIDE DEF S
  <2> QED BY <1>3, <1>4, AtFacts DEF IInv, Listed
<1> QED BY <1>2, <1>3, <1>4, <1>5

\* A read is started in a predecessor of the block that is sealed.
LEMMA ReadOperandInv ==
    ASSUME IInv, ReadOperand
    PROVE  IInv'
<1> DEFINE v == Lowest(Incomplete(Block))
           b == Preds(Block)[sealing]
<1>1. /\ sealing # 0 /\ phase = "rewrite" /\ Incomplete(Block) # {}
      /\ sealing <= Len(Preds(Block))
      /\ CallReadVariable(v, b)
  BY DEF ReadOperand, IInv, TypeOK
<1>2. Block \in Blocks /\ v \in Variable /\ incomplete_phis[Block][v] # 0
  BY <1>1, IncompleteFacts
<1>3. b \in Blocks
  <2>1. sealing \in Nat
    BY DEF IInv, TypeOK
  <2>2. Len(Preds(Block)) \in Nat /\ \A k \in 1 .. Len(Preds(Block)) : Preds(Block)[k] \in Blocks
    BY <1>2, ProgramFacts DEF IInv, TypeOK
  <2>3. sealing \in 1 .. Len(Preds(Block))
    BY <1>1, <2>1, <2>2
  <2> QED BY <2>2, <2>3
<1> HIDE DEF v, b
<1> QED BY <1>1, <1>2, <1>3, CallEffect

\* The operand read is used by the incomplete phi, and counted.
LEMMA PushOperandEffect ==
    ASSUME IInv, PushOperand
    PROVE  LET phi == incomplete_phis[Block][read]
           IN  /\ Len(stack) = 1 /\ sealing # 0 /\ read # 0 /\ phase = "rewrite"
               /\ read' = 0 /\ stack' = <<>> /\ sealing' = sealing + 1
               /\ UNCHANGED <<program, instructions, current_def, incomplete_phis, ssa_sealed,
                              cursor, current, to_invalidate, phase>>
               /\ Block \in Blocks /\ read \in Variable
               /\ sealing \in 1 .. Len(Preds(Block))
               /\ PoolOK(inst') /\ NoneEmpty(inst') /\ Counted(inst') /\ KindsOK(inst')
               /\ phi \in DOMAIN inst
               /\ DOMAIN inst' = DOMAIN inst
               /\ \A j \in DOMAIN inst : inst'[j].op = inst[j].op /\ inst'[j].var = inst[j].var
               /\ \A j \in DOMAIN inst : j # phi => inst'[j].preds = inst[j].preds
               /\ inst'[phi].preds = Append(inst[phi].preds, Preds(Block)[sealing])
<1> DEFINE phi == incomplete_phis[Block][read]
           b == Preds(Block)[sealing]
           v == stack[1].result
<1>1. /\ Len(stack) = 1 /\ sealing # 0
      /\ inst' = AddPhiOperand(inst, phi, b, v)
      /\ sealing' = sealing + 1
      /\ read' = 0 /\ stack' = <<>>
      /\ UNCHANGED <<program, instructions, defs, ssa_sealed, cursor, current, to_invalidate,
                     phase>>
  BY DEF PushOperand
<1>2. read # 0 /\ phase = "rewrite" /\ v # Empty
  <2>1. stack # <<>>
    <3>1. Len(stack) = 1
      BY <1>1
    <3> QED BY <3>1
  <2> QED BY <1>1, <2>1 DEF IInv, StackOK, Top, Last
<1>3. Block \in Blocks /\ read \in Variable
  BY <1>2, AtFacts DEF IInv, TypeOK
<1>4. phi \in DOMAIN inst /\ sealing <= Len(Preds(Block))
  BY <1>1, <1>2, <1>3, AtFacts DEF IInv, ReadsFor
<1>5. b \in Nat
  <2>1. sealing \in Nat
    BY DEF IInv, TypeOK
  <2>2. /\ Len(Preds(Block)) \in Nat /\ Blocks \subseteq Nat
        /\ \A k \in 1 .. Len(Preds(Block)) : Preds(Block)[k] \in Blocks
    BY <1>3, ProgramFacts DEF IInv, TypeOK
  <2>3. sealing \in 1 .. Len(Preds(Block))
    BY <1>1, <1>4, <2>1, <2>2
  <2> QED BY <2>2, <2>3
<1>6. v \in Value(DOMAIN inst)
  <2>1. stack \in Seq(Frame(DOMAIN inst)) /\ 1 \in 1 .. Len(stack)
    BY <1>1 DEF IInv, TypeOK, PlacesOK
  <2>2. stack[1] \in Frame(DOMAIN inst)
    BY <2>1, ElementOfSeq
  <2> QED BY <2>2 DEF Frame
<1> HIDE DEF phi, b, v
<1>7. /\ PoolOK(inst') /\ NoneEmpty(inst') /\ Counted(inst')
      /\ DOMAIN inst' = DOMAIN inst
      /\ \A j \in DOMAIN inst : inst'[j].op = inst[j].op /\ inst'[j].var = inst[j].var
      /\ \A j \in DOMAIN inst :
            j # phi => inst'[j].args = inst[j].args /\ inst'[j].preds = inst[j].preds
      /\ inst'[phi].args = Append(inst[phi].args, v)
      /\ inst'[phi].preds = Append(inst[phi].preds, b)
  <2>1. PoolOK(inst) /\ NoneEmpty(inst) /\ Counted(inst)
    BY DEF IInv, TypeOK
  <2>2. inst' = AddPhiOperand(inst, phi, b, v)
    BY <1>1
  <2>3. phi \in DOMAIN inst /\ b \in Nat /\ v \in Value(DOMAIN inst) /\ v # Empty
    BY <1>2, <1>4, <1>5, <1>6
  <2> DEFINE out == AddPhiOperand(inst, phi, b, v)
  <2>4. OneMoreOperand(inst, phi, b, v, out)
    BY <2>1, <2>3, AddPhiOperandEffect
  <2>5. inst' = out
    BY <2>2
  <2> HIDE DEF out
  <2> QED BY <2>4, <2>5 DEF OneMoreOperand
<1>8. KindsOK(inst)'
  <2>1. \A j \in DOMAIN inst : /\ inst[j].op \in {"Get", "Set"} => inst[j].var \in Variable
                               /\ inst[j].op = "Set" => inst[j].args # <<>>
    BY DEF IInv, KindsOK
  <2>2. inst'[phi].args # <<>>
    <3>1. inst[phi].args \in Seq(Value(DOMAIN inst))
      BY <1>4, PoolFacts DEF IInv, TypeOK, Inst
    <3> QED BY <1>6, <1>7, <3>1, AppendProperties
  <2>3. \A j \in DOMAIN inst : /\ inst'[j].op \in {"Get", "Set"} => inst'[j].var \in Variable
                               /\ inst'[j].op = "Set" => inst'[j].args # <<>>
    BY <1>7, <2>1, <2>2
  <2> QED BY <1>7, <2>3 DEF KindsOK
<1>9. sealing \in 1 .. Len(Preds(Block))
  <2>1. sealing \in Nat /\ Len(Preds(Block)) \in Nat
    BY <1>3, ProgramFacts DEF IInv, TypeOK
  <2> QED BY <1>1, <1>4, <2>1
<1> QED BY <1>1, <1>2, <1>3, <1>4, <1>7, <1>8, <1>9 DEF defs, phi, b

\* The incomplete phi keeps its place in the list.
LEMMA PushOperandInv ==
    ASSUME IInv, PushOperand
    PROVE  IInv'
<1>1. /\ read' = 0 /\ stack' = <<>> /\ sealing' = sealing + 1 /\ sealing # 0
      /\ phase = "rewrite"
      /\ UNCHANGED <<program, instructions, current_def, incomplete_phis, ssa_sealed, cursor,
                     current, to_invalidate, phase>>
  BY PushOperandEffect
<1>7. /\ PoolOK(inst') /\ NoneEmpty(inst') /\ Counted(inst') /\ KindsOK(inst')
      /\ DOMAIN inst' = DOMAIN inst
  BY PushOperandEffect
<1>8. TypeOK'
  <2>1. stack' \in Seq(Frame(DOMAIN inst))
    BY <1>1, EmptySeq
  <2>2. PlacesOK(DOMAIN inst)'
    BY <1>1, <1>7, <2>1 DEF IInv, TypeOK, PlacesOK, Blocks, Frame, Statuses
  <2> QED BY <1>1, <1>7, <2>2 DEF IInv, TypeOK, Blocks
<1>9. Listed'
  BY <1>1 DEF IInv, Listed, Blocks, Block, ListBlock
<1>10. ReadsFor' /\ StackOK' /\ PhiIsDefined' /\ OnePhiPerRead'
  BY <1>1, NoRead
<1> QED BY <1>7, <1>8, <1>9, <1>10 DEF IInv

\* The instructions of a pool out are those of in, some of them replaced, and new
\* ones that are no Get or Set.
LEMMA KindsKept ==
    ASSUME NEW in, KindsOK(in), NEW phi, NEW out,
           \A j \in DOMAIN in : out[j].var = in[j].var,
           \A j \in DOMAIN in :
                j # phi => out[j].op = in[j].op /\ out[j].args = in[j].args,
           out[phi] = in[phi] \/ out[phi].op = "Identity",
           \A j \in DOMAIN out \ DOMAIN in : out[j].op \in {"Phi", "Undef"}
    PROVE  KindsOK(out)
BY DEF KindsOK

\* A phi with its operands may turn out trivial; it stays in the list as an identity.
LEMMA CompletePhiEffect ==
    ASSUME IInv, CompletePhi
    PROVE  LET v == Lowest(Incomplete(Block))
               phi == incomplete_phis[Block][v]
           IN  /\ sealing # 0 /\ phase = "rewrite" /\ Incomplete(Block) # {} /\ read = 0
               /\ ~(sealing <= Len(Preds(Block))) /\ sealing' = 1
               /\ instructions' = [instructions EXCEPT ![Block] = instructions'[Block]]
               /\ incomplete_phis' = [incomplete_phis EXCEPT ![Block][v] = 0]
               /\ UNCHANGED <<program, current_def, ssa_sealed, cursor, current, read, stack,
                              to_invalidate, phase>>
               /\ Block \in Blocks /\ v \in Variable
               /\ phi \in DOMAIN inst /\ Contains(instructions[Block], phi)
               /\ \E result : Removal(inst, instructions[Block], phi, inst', instructions'[Block],
                                      result)
<1> DEFINE v == Lowest(Incomplete(Block))
           phi == incomplete_phis[Block][v]
           list == instructions[Block]
           tried == TryRemoveTrivialPhi(inst, list, phi)
           moved == tried.list
           result == tried.result
<1>1. /\ sealing # 0 /\ phase = "rewrite" /\ Incomplete(Block) # {} /\ read = 0
      /\ ~(sealing <= Len(Preds(Block)))
      /\ inst' = tried.inst
      /\ instructions' = [instructions EXCEPT ![Block] = moved]
      /\ incomplete_phis' = [incomplete_phis EXCEPT ![Block][v] = 0]
      /\ sealing' = 1
      /\ UNCHANGED <<program, current_def, ssa_sealed, cursor, current, read, stack,
                     to_invalidate, phase>>
  <2>1. sealing \in Nat /\ sealing > Len(Preds(Block)) /\ Len(Preds(Block)) \in Nat
    BY AtFacts, ProgramFacts DEF CompletePhi, IInv, TypeOK
  <2>2. ~(sealing <= Len(Preds(Block)))
    BY <2>1
  <2> QED BY <2>2 DEF CompletePhi, IInv, TypeOK
<1>2. Block \in Blocks /\ v \in Variable /\ phi \in DOMAIN inst /\ Contains(list, phi)
  BY <1>1, IncompleteFacts
<1>3. list \in Seq(DOMAIN inst)
  BY <1>2, AtFacts DEF IInv
<1> HIDE DEF v, phi
<1>4. Removal(inst, list, phi, inst', moved, result)
  BY <1>1, <1>2, <1>3, TryRemoveEffect DEF IInv, TypeOK
<1> HIDE DEF tried, moved, result
<1>5. instructions'[Block] = moved
  BY <1>1, <1>2 DEF IInv, TypeOK, PlacesOK
<1> QED BY <1>1, <1>2, <1>4, <1>5 DEF v, phi

\* A phi that is complete stays in its list.
LEMMA CompletePhiInv ==
    ASSUME IInv, CompletePhi
    PROVE  IInv'
<1> DEFINE v == Lowest(Incomplete(Block))
           phi == incomplete_phis[Block][v]
           list == instructions[Block]
           moved == instructions'[Block]
<1>1. /\ sealing # 0 /\ phase = "rewrite" /\ read = 0
      /\ instructions' = [instructions EXCEPT ![Block] = moved]
      /\ incomplete_phis' = [incomplete_phis EXCEPT ![Block][v] = 0]
      /\ sealing' = 1
      /\ UNCHANGED <<program, current_def, ssa_sealed, cursor, current, read, stack,
                     to_invalidate, phase>>
  BY CompletePhiEffect
<1>2. Block \in Blocks /\ v \in Variable /\ phi \in DOMAIN inst /\ Contains(list, phi)
  BY CompletePhiEffect
<1>4. PICK result : Removal(inst, list, phi, inst', moved, result)
  BY CompletePhiEffect
<1> HIDE DEF v, phi, list, moved
<1> DEFINE E == DOMAIN inst'
<1>5. /\ PoolOK(inst') /\ NoneEmpty(inst') /\ Counted(inst')
      /\ DOMAIN inst \subseteq E /\ moved \in Seq(E)
      /\ \A j : Contains(list, j) => Contains(moved, j)
  BY <1>4 DEF Removal
<1>6. PlacesOK(E)
  BY <1>5, PlacesGrow DEF IInv, TypeOK
<1>7. TypeOK'
  <2>1. instructions' \in [Blocks -> Seq(E)]
    BY <1>1, <1>5, <1>6 DEF PlacesOK
  <2>2. incomplete_phis' \in [Blocks -> [Variable -> E \cup {0}]]
    BY <1>1, <1>6 DEF PlacesOK
  <2>3. PlacesOK(DOMAIN inst)'
    BY <1>1, <1>6, <2>1, <2>2 DEF PlacesOK, Blocks, Frame, Statuses
  <2> QED BY <1>1, <1>5, <2>3 DEF IInv, TypeOK, Blocks
<1>8. KindsOK(inst)'
  <2>1. /\ \A j \in DOMAIN inst : inst'[j].var = inst[j].var
        /\ \A j \in DOMAIN inst :
                j # phi => inst'[j].op = inst[j].op /\ inst'[j].args = inst[j].args
        /\ inst'[phi] = inst[phi] \/ inst'[phi].op = "Identity"
        /\ \A j \in DOMAIN inst' \ DOMAIN inst : inst'[j].op \in {"Phi", "Undef"}
    BY <1>4 DEF Removal
  <2> QED BY <2>1, KindsKept DEF IInv
<1>9. Listed'
  <2>1. \A b \in Blocks : \A j : Contains(instructions[b], j) => Contains(instructions'[b], j)
    BY <1>1, <1>2, <1>5 DEF list, IInv, TypeOK, PlacesOK
  <2>2. \A b \in Blocks, w \in Variable :
            incomplete_phis'[b][w] # 0 => incomplete_phis'[b][w] = incomplete_phis[b][w]
    BY <1>1, <1>2 DEF IInv, TypeOK, PlacesOK
  <2>3. current' # 0 => Contains(instructions'[Block], current')
    BY <1>1, <1>2, <2>1 DEF IInv, Listed
  <2>4. \A b \in Blocks, w \in Variable :
            incomplete_phis'[b][w] # 0 => Contains(instructions'[b], incomplete_phis'[b][w])
    BY <1>1, <2>1, <2>2 DEF IInv, Listed
  <2> QED BY <1>1, <2>3, <2>4 DEF Listed, Blocks, Block
<1>10. ReadsFor' /\ StackOK' /\ PhiIsDefined' /\ OnePhiPerRead'
  <2>1. read' = 0 /\ stack' = <<>>
    BY <1>1 DEF IInv, StackOK
  <2> QED BY <2>1, NoRead
<1> QED BY <1>5, <1>7, <1>8, <1>9, <1>10 DEF IInv, Counted

\* The sealed block has no incomplete phi; the next block, or the other pass, begins.
LEMMA SealBlockInv ==
    ASSUME IInv, SealBlock
    PROVE  IInv'
<1>1. /\ phase = "rewrite" /\ read = 0 /\ sealing' = 0
      /\ ssa_sealed' = ssa_sealed \cup {Block}
      /\ UNCHANGED <<program, ir, defs, read, stack, to_invalidate>>
  BY DEF SealBlock, IInv, TypeOK
<1>2. Block \in Blocks
  BY <1>1, AtFacts DEF IInv
<1>3. /\ cursor \in 1 .. Len(program.order)
      /\ Len(program.order) \in Nat /\ DOMAIN program.order = 1 .. Len(program.order)
      /\ \A k \in DOMAIN program.order : program.order[k] \in Blocks
      /\ 1 \in DOMAIN program.list
      /\ \A k \in DOMAIN program.list : program.list[k] \in Blocks
  BY <1>1, ProgramFacts DEF IInv, TypeOK
<1>4. \A b \in Blocks :
        /\ FirstOf(instructions[b]) \in DOMAIN inst \cup {0}
        /\ FirstOf(instructions[b]) # 0 => Contains(instructions[b], FirstOf(instructions[b]))
  BY AtFacts, FirstOfFacts DEF IInv
<1>5. /\ cursor' \in Nat /\ phase' \in {"rewrite", "identities"}
      /\ phase' = "rewrite" => cursor' \in DOMAIN program.order
      /\ phase' # "rewrite" => cursor' \in DOMAIN program.list
      /\ current' \in DOMAIN inst \cup {0}
      /\ current' # 0 => Contains(instructions[IF phase' = "rewrite" THEN program.order[cursor']
                                               ELSE program.list[cursor']], current')
  <2>1. CASE cursor < Len(program.order)
    <3>1. cursor + 1 \in DOMAIN program.order /\ cursor + 1 \in Nat
      BY <1>3, <2>1
    <3>2. /\ cursor' = cursor + 1 /\ phase' = "rewrite"
          /\ current' = FirstOf(instructions[program.order[cursor + 1]])
      BY <1>1, <2>1 DEF SealBlock
    <3> QED BY <1>3, <1>4, <3>1, <3>2
  <2>2. CASE ~(cursor < Len(program.order))
    <3>1. /\ cursor' = 1 /\ phase' = "identities"
          /\ current' = FirstOf(instructions[program.list[1]])
      BY <2>2 DEF SealBlock
    <3> QED BY <1>3, <1>4, <3>1
  <2> QED BY <2>1, <2>2
<1>6. TypeOK'
  <2>1. PlacesOK(DOMAIN inst)'
    BY <1>1, <1>5 DEF IInv, TypeOK, PlacesOK, ir, defs, Blocks, Frame, Statuses
  <2>2. ssa_sealed' \subseteq Blocks
    BY <1>1, <1>2 DEF IInv, TypeOK
  <2> QED BY <1>1, <1>5, <2>1, <2>2 DEF IInv, TypeOK, ir, Blocks
<1>7. Counted(inst)' /\ KindsOK(inst)'
  BY <1>1 DEF IInv, KindsOK, Counted, ir
<1>8. Listed'
  BY <1>1, <1>5 DEF IInv, Listed, ir, defs, Blocks, Block, ListBlock
<1>9. ReadsFor' /\ StackOK' /\ PhiIsDefined' /\ OnePhiPerRead'
  <2>1. read' = 0 /\ stack' = <<>>
    BY <1>1 DEF IInv, StackOK
  <2> QED BY <2>1, NoRead
<1> QED BY <1>6, <1>7, <1>8, <1>9 DEF IInv

-----------------------------------------------------------------------------
(* ReadVariable                                                            *)

\* What is known while a block is read.
LEMMA ReadingFacts ==
    ASSUME IInv, Len(stack) > 1
    PROVE  /\ read \in Variable /\ read # 0 /\ phase = "rewrite" /\ stack # <<>>
           /\ Len(stack) \in Nat /\ DOMAIN stack = 1 .. Len(stack)
           /\ \A k \in 1 .. Len(stack) : stack[k] \in Frame(DOMAIN inst)
           /\ Top = stack[Len(stack)] /\ Top.block \in Blocks
           /\ instructions[Top.block] \in Seq(DOMAIN inst)
           /\ Len(Preds(Top.block)) \in Nat
           /\ \A k \in 1 .. Len(Preds(Top.block)) : Preds(Top.block)[k] \in Blocks
           /\ current_def[Top.block][read] \in Value(DOMAIN inst)
<1>1. stack \in Seq(Frame(DOMAIN inst))
  BY DEF IInv, TypeOK, PlacesOK
<1>2. /\ Len(stack) \in Nat /\ DOMAIN stack = 1 .. Len(stack)
      /\ \A k \in 1 .. Len(stack) : stack[k] \in Frame(DOMAIN inst)
  BY <1>1, LenProperties, ElementOfSeq
<1>3. stack # <<>>
  <2>1. Len(stack) # 0
    BY <1>2
  <2> QED BY <2>1
<1>4. read \in Variable /\ read # 0 /\ phase = "rewrite"
  BY <1>3 DEF IInv, TypeOK, StackOK
<1>5. Top = stack[Len(stack)]
  BY DEF Top, Last
<1>6. Top.block \in Blocks
  <2>1. Len(stack) \in DOMAIN stack
    BY <1>2
  <2> QED BY <1>5, <2>1 DEF IInv, StackOK
<1>7. /\ instructions[Top.block] \in Seq(DOMAIN inst)
      /\ Len(Preds(Top.block)) \in Nat
      /\ \A k \in 1 .. Len(Preds(Top.block)) : Preds(Top.block)[k] \in Blocks
      /\ current_def[Top.block][read] \in Value(DOMAIN inst)
  BY <1>4, <1>6, AtFacts, ProgramFacts DEF IInv, TypeOK
<1> QED BY <1>2, <1>3, <1>4, <1>5, <1>6, <1>7

\* The frame on top returns its result to the one below.
LEMMA ReturnFrames ==
    ASSUME IInv, Len(stack) > 1, NEW E, DOMAIN inst \subseteq E, NEW top, top.block = Top.block,
           top \in Frame(E), NEW result \in Value(E),
           Return([stack EXCEPT ![Len(stack)] = top], result)
    PROVE  LET n == Len(stack)
           IN  /\ stack' \in Seq(Frame(E)) /\ Len(stack') = n - 1 /\ DOMAIN stack' = 1 .. n - 1
               /\ \A k \in 1 .. n - 1 : /\ stack'[k].block = stack[k].block
                                        /\ stack'[k].phi = stack[k].phi
                                        /\ stack'[k].pred = stack[k].pred
                                        /\ stack'[k].pc = stack[k].pc
               /\ stack'[n - 1].result = result
               /\ current_def' = [current_def EXCEPT ![Top.block][read] = result]
<1> DEFINE n == Len(stack)
           frames == [stack EXCEPT ![n] = top]
           front == Front(frames)
           r == [stack[n - 1] EXCEPT !.result = result]
<1>1. /\ n \in Nat /\ n > 1 /\ read \in Variable /\ read # 0 /\ phase = "rewrite"
      /\ DOMAIN stack = 1 .. n
      /\ Top = stack[n] /\ Top.block \in Blocks
  BY ReadingFacts
<1>2. PlacesOK(E)
  BY PlacesGrow DEF IInv, TypeOK
<1>3. stack \in Seq(Frame(E)) /\ \A k \in 1 .. n : stack[k] \in Frame(E)
  BY <1>2, ElementOfSeq DEF PlacesOK
<1>4. /\ frames \in Seq(Frame(E)) /\ Len(frames) = n
      /\ frames[n] = top
      /\ \A k \in 1 .. n - 1 : frames[k] = stack[k]
  <2>1. n \in 1 .. Len(stack)
    BY <1>1
  <2>2. /\ frames \in Seq(Frame(E)) /\ Len(frames) = Len(stack)
        /\ \A k \in 1 .. Len(stack) : frames[k] = IF k = n THEN top ELSE stack[k]
    <3> HIDE DEF n
    <3> QED BY <1>3, <2>1, ExceptSeq
  <2> HIDE DEF frames
  <2>3. \A k \in 1 .. n - 1 : k \in 1 .. n /\ k # n
    <3> HIDE DEF n
    <3> QED BY <1>1
  <2> QED BY <2>1, <2>2, <2>3
<1>5. /\ stack' = [Front(frames) EXCEPT ![Len(frames) - 1].result = result]
      /\ current_def' = [current_def EXCEPT ![Last(frames).block][read] = result]
  BY DEF Return
<1> HIDE DEF n, frames
<1>6. /\ front \in Seq(Frame(E)) /\ Len(front) = n - 1
      /\ \A k \in 1 .. n - 1 : front[k] = stack[k]
  <2>1. front = SubSeq(frames, 1, n - 1)
    BY <1>4 DEF Front
  <2>2. /\ 1 \in Int /\ n - 1 \in Int
        /\ \A k \in 1 .. n - 1 : frames[k] \in Frame(E)
    BY <1>1, <1>3, <1>4
  <2>3. /\ SubSeq(frames, 1, n - 1) \in Seq(Frame(E))
        /\ Len(SubSeq(frames, 1, n - 1)) = IF 1 <= n - 1 THEN n - 1 - 1 + 1 ELSE 0
        /\ \A k \in 1 .. n - 1 - 1 + 1 : SubSeq(frames, 1, n - 1)[k] = frames[1 + k - 1]
    BY <2>2, SubSeqProperties
  <2>4. 1 <= n - 1 /\ n - 1 - 1 + 1 = n - 1 /\ \A k \in 1 .. n - 1 : 1 + k - 1 = k
    BY <1>1
  <2> HIDE DEF front
  <2> QED BY <1>4, <2>1, <2>3, <2>4
<1> HIDE DEF front
<1>7. /\ r \in Frame(E)
      /\ r.block = stack[n - 1].block /\ r.phi = stack[n - 1].phi
      /\ r.pred = stack[n - 1].pred /\ r.pc = stack[n - 1].pc /\ r.result = result
  <2>1. stack[n - 1] \in Frame(E)
    BY <1>1, <1>3
  <2> QED BY <2>1 DEF Frame
<1>8. stack' = [front EXCEPT ![n - 1] = r]
  <2>1. n - 1 \in 1 .. n - 1 /\ DOMAIN front = 1 .. n - 1
    BY <1>1, <1>6, LenProperties
  <2>2. front[n - 1] = stack[n - 1]
    BY <1>6, <2>1
  <2> QED BY <1>4, <1>5, <2>1, <2>2 DEF front
<1> HIDE DEF r
<1>9. /\ stack' \in Seq(Frame(E)) /\ Len(stack') = n - 1
      /\ \A k \in 1 .. n - 1 : stack'[k] = IF k = n - 1 THEN r ELSE stack[k]
  <2>1. n - 1 \in 1 .. Len(front)
    BY <1>1, <1>6
  <2>2. /\ [front EXCEPT ![n - 1] = r] \in Seq(Frame(E))
        /\ Len([front EXCEPT ![n - 1] = r]) = Len(front)
        /\ \A k \in 1 .. Len(front) :
                [front EXCEPT ![n - 1] = r][k] = IF k = n - 1 THEN r ELSE front[k]
    BY <1>6, <1>7, <2>1, ExceptSeq
  <2> QED BY <1>6, <1>8, <2>2
<1>10. DOMAIN stack' = 1 .. n - 1
  BY <1>9, LenProperties
<1>11. \A k \in 1 .. n - 1 : /\ stack'[k].block = stack[k].block
                             /\ stack'[k].phi = stack[k].phi
                             /\ stack'[k].pred = stack[k].pred
                             /\ stack'[k].pc = stack[k].pc
                             /\ k \in DOMAIN stack
  BY <1>1, <1>7, <1>9
<1>12. current_def' = [current_def EXCEPT ![Top.block][read] = result]
  <2>1. Last(frames).block = Top.block
    BY <1>4 DEF Last
  <2> QED BY <1>5, <2>1
<1>13. stack'[n - 1].result = result
  <2>1. n - 1 \in 1 .. n - 1
    BY <1>1
  <2> QED BY <1>7, <1>9, <2>1
<1> QED BY <1>9, <1>10, <1>11, <1>12, <1>13 DEF n

\* The frames that wait keep what they wait for.
LEMMA ReturnEffect ==
    ASSUME IInv, Len(stack) > 1, NEW E, DOMAIN inst \subseteq E, NEW top, top.block = Top.block,
           top \in Frame(E), NEW result \in Value(E), result # Empty,
           Return([stack EXCEPT ![Len(stack)] = top], result),
           UNCHANGED <<program, read, phase>>,
           \A b \in Blocks : \A j : Contains(instructions[b], j) => Contains(instructions'[b], j)
    PROVE  /\ stack' \in Seq(Frame(E))
           /\ current_def' \in [Blocks -> [Variable -> Value(E)]]
           /\ StackOK' /\ PhiIsDefined' /\ OnePhiPerRead'
<1> DEFINE n == Len(stack)
<1>1. /\ n \in Nat /\ n > 1 /\ read \in Variable /\ read # 0 /\ phase = "rewrite"
      /\ DOMAIN stack = 1 .. n
      /\ Top = stack[n] /\ Top.block \in Blocks
  BY ReadingFacts
<1>2. PlacesOK(E)
  BY PlacesGrow DEF IInv, TypeOK
<1>9. /\ stack' \in Seq(Frame(E)) /\ Len(stack') = n - 1 /\ DOMAIN stack' = 1 .. n - 1
      /\ \A k \in 1 .. n - 1 : /\ stack'[k].block = stack[k].block
                               /\ stack'[k].phi = stack[k].phi
                               /\ stack'[k].pred = stack[k].pred
                               /\ stack'[k].pc = stack[k].pc
      /\ stack'[n - 1].result = result
      /\ current_def' = [current_def EXCEPT ![Top.block][read] = result]
  BY ReturnFrames
<1> HIDE DEF n
<1>10. DOMAIN stack' = 1 .. n - 1
  BY <1>9
<1>11. \A k \in 1 .. n - 1 : /\ stack'[k].block = stack[k].block
                             /\ stack'[k].phi = stack[k].phi
                             /\ stack'[k].pred = stack[k].pred
                             /\ stack'[k].pc = stack[k].pc
                             /\ k \in DOMAIN stack
  <2>1. \A k \in 1 .. n - 1 : k \in 1 .. n
    BY <1>1
  <2> QED BY <1>1, <1>9, <2>1
<1>12. current_def' = [current_def EXCEPT ![Top.block][read] = result]
  BY <1>9
<1>13. /\ current_def' \in [Blocks -> [Variable -> Value(E)]]
       /\ \A b \in Blocks : current_def[b][read] # Empty => current_def'[b][read] # Empty
  <2>1. current_def \in [Blocks -> [Variable -> Value(E)]]
    BY <1>2 DEF PlacesOK
  <2> QED BY <1>1, <1>12, <2>1
<1>14. StackOK'
  <2>1. read' # 0 /\ phase' = "rewrite"
    BY <1>1
  <2>2. stack' # <<>>
    <3>1. Len(stack') # 0
      BY <1>1, <1>9
    <3> QED BY <3>1
  <2>3. stack'[1].pc = "Start"
    <3>1. 1 \in 1 .. n - 1 /\ stack # <<>>
      BY <1>1, ReadingFacts
    <3> QED BY <1>11, <3>1 DEF IInv, StackOK
  <2>4. Top'.result # Empty
    BY <1>9 DEF Top, Last
  <2>5. ASSUME NEW k \in DOMAIN stack'
        PROVE  /\ k > 1 => stack'[k].block \in Blocks'
               /\ k > 1 /\ k < Len(stack') => stack'[k].pc # "Start"
               /\ stack'[k].pc = "PushPhiArgument" =>
                        /\ Contains(instructions'[stack'[k].block], stack'[k].phi)
                        /\ stack'[k].pred \in 1 .. Len(program'.preds[stack'[k].block])
    <3>1. k \in 1 .. n - 1 /\ k \in DOMAIN stack
      BY <1>10, <1>11
    <3>2. k < Len(stack)
      BY <1>1, <3>1 DEF n
    <3>3. k > 1 => stack[k].block \in Blocks /\ stack[k].pc # "Start"
      BY <3>1, <3>2 DEF IInv, StackOK
    <3>4. stack[k].pc = "PushPhiArgument" =>
                /\ Contains(instructions[stack[k].block], stack[k].phi)
                /\ stack[k].pred \in 1 .. Len(Preds(stack[k].block))
      BY <3>1 DEF IInv, StackOK
    <3>5. stack[k].pc = "PushPhiArgument" => stack[k].block \in Blocks
      <4>1. CASE k > 1
        BY <3>3, <4>1
      <4>2. CASE ~(k > 1)
        <5>1. k = 1
          BY <1>1, <3>1, <4>2
        <5> QED BY <5>1, ReadingFacts DEF IInv, StackOK
      <4> QED BY <4>1, <4>2
    <3>6. Blocks' = Blocks /\ program' = program
      BY DEF Blocks
    <3>7. k < Len(stack') => k < n
      BY <1>1, <1>9, <3>1
    <3> QED BY <1>11, <3>1, <3>3, <3>4, <3>5, <3>6 DEF Preds
  <2> QED BY <2>1, <2>2, <2>3, <2>4, <2>5 DEF StackOK, Preds
<1>15. PhiIsDefined'
  <2> SUFFICES ASSUME NEW k \in DOMAIN stack', stack'[k].pc = "PushPhiArgument"
               PROVE  current_def'[stack'[k].block][read] # Empty
    BY DEF PhiIsDefined
  <2>1. k \in 1 .. n - 1 /\ k \in DOMAIN stack /\ stack[k].pc = "PushPhiArgument"
    BY <1>10, <1>11
  <2>2. current_def[stack[k].block][read] # Empty
    BY <2>1 DEF IInv, PhiIsDefined
  <2>3. stack[k].block \in Blocks
    <3>1. k # 1
      BY <2>1, ReadingFacts DEF IInv, StackOK
    <3>2. k > 1
      BY <1>1, <2>1, <3>1
    <3> QED BY <2>1, <3>2 DEF IInv, StackOK
  <2> QED BY <1>11, <1>13, <2>1, <2>2, <2>3
<1>16. OnePhiPerRead'
  <2>1. OnePhiPerRead
    BY DEF IInv
  <2> QED BY <1>10, <1>11, <2>1 DEF OnePhiPerRead
<1> QED BY <1>9, <1>13, <1>14, <1>15, <1>16

\* The frame on top waits for a block that is read next.
LEMMA PushFrames ==
    ASSUME IInv, Len(stack) > 1, NEW E, DOMAIN inst \subseteq E, NEW top \in Frame(E),
           NEW b \in Blocks,
           stack' = Append([stack EXCEPT ![Len(stack)] = top], ReadState(b))
    PROVE  LET n == Len(stack)
           IN  /\ stack' \in Seq(Frame(E)) /\ Len(stack') = n + 1 /\ DOMAIN stack' = 1 .. n + 1
               /\ stack'[n + 1] = ReadState(b)
               /\ \A k \in 1 .. n + 1 :
                    \/ k \in 1 .. n - 1 /\ stack'[k] = stack[k] /\ k \in DOMAIN stack /\ k < n
                    \/ k = n /\ stack'[k] = top
                    \/ k = n + 1 /\ stack'[k] = ReadState(b)
<1> DEFINE n == Len(stack)
           frames == [stack EXCEPT ![n] = top]
           next == ReadState(b)
<1>1. /\ n \in Nat /\ n > 1 /\ n = Len(stack)
      /\ read \in Variable /\ read # 0 /\ phase = "rewrite" /\ stack # <<>>
      /\ DOMAIN stack = 1 .. n
      /\ Top = stack[n] /\ Top.block \in Blocks
  BY ReadingFacts
<1>2. stack \in Seq(Frame(E))
  BY PlacesGrow DEF IInv, TypeOK, PlacesOK
<1>3. /\ next \in Frame(E) /\ next.block = b /\ next.pc = "Start"
  <2>1. Empty \in Value(E)
    BY DEF Value
  <2> QED BY <2>1 DEF ReadState, Frame, Statuses
<1>4. /\ frames \in Seq(Frame(E)) /\ Len(frames) = n
      /\ frames[n] = top
      /\ \A k \in 1 .. n - 1 : frames[k] = stack[k]
  <2>1. n \in 1 .. Len(stack)
    BY <1>1
  <2>2. /\ frames \in Seq(Frame(E)) /\ Len(frames) = Len(stack)
        /\ \A k \in 1 .. Len(stack) : frames[k] = IF k = n THEN top ELSE stack[k]
    <3> HIDE DEF n
    <3> QED BY <1>2, <2>1, ExceptSeq
  <2> HIDE DEF frames
  <2>3. \A k \in 1 .. n - 1 : k \in 1 .. n /\ k # n
    <3> HIDE DEF n
    <3> QED BY <1>1
  <2> QED BY <2>1, <2>2, <2>3
<1>5. stack' = Append(frames, next)
  OBVIOUS
<1> HIDE DEF n, frames, next
<1>6. /\ stack' \in Seq(Frame(E)) /\ Len(stack') = n + 1
      /\ \A k \in 1 .. n : stack'[k] = frames[k]
      /\ stack'[n + 1] = next
  <2> DEFINE pushed == Append(frames, next)
  <2>1. /\ pushed \in Seq(Frame(E)) /\ Len(pushed) = Len(frames) + 1
        /\ \A k \in 1 .. Len(frames) : pushed[k] = frames[k]
        /\ pushed[Len(frames) + 1] = next
    BY <1>3, <1>4, AppendProperties
  <2>2. stack' = pushed
    BY <1>5
  <2> HIDE DEF pushed
  <2> QED BY <1>4, <2>1, <2>2
<1>7. DOMAIN stack' = 1 .. n + 1
  BY <1>6, LenProperties
<1>8. \A k \in 1 .. n + 1 :
        \/ k \in 1 .. n - 1 /\ stack'[k] = stack[k] /\ k \in DOMAIN stack /\ k < n
        \/ k = n /\ stack'[k] = top
        \/ k = n + 1 /\ stack'[k] = next
  <2> SUFFICES ASSUME NEW k \in 1 .. n + 1, k # n, k # n + 1
               PROVE  k \in 1 .. n - 1 /\ stack'[k] = stack[k] /\ k \in DOMAIN stack /\ k < n
    <3>1. n \in 1 .. n
      BY <1>1
    <3> QED BY <1>4, <1>6, <3>1
  <2>1. k \in 1 .. n - 1 /\ k \in 1 .. n /\ k < n
    BY <1>1
  <2> QED BY <1>1, <1>4, <1>6, <2>1
<1> QED BY <1>6, <1>7, <1>8 DEF n, next

\* The new frame waits for nothing yet.
LEMMA PushEffect ==
    ASSUME IInv, Len(stack) > 1, NEW E, DOMAIN inst \subseteq E, NEW top \in Frame(E),
           top.block = Top.block, top.pc # "Start", NEW b \in Blocks,
           stack' = Append([stack EXCEPT ![Len(stack)] = top], ReadState(b)),
           UNCHANGED <<program, read, phase>>,
           \A c \in Blocks : \A j : Contains(instructions[c], j) => Contains(instructions'[c], j),
           \A c \in Blocks : current_def[c][read] # Empty => current_def'[c][read] # Empty,
           top.pc = "PushPhiArgument" =>
                /\ Contains(instructions'[top.block], top.phi)
                /\ top.pred \in 1 .. Len(Preds(top.block))
                /\ current_def'[top.block][read] # Empty
                /\ \A k \in 1 .. Len(stack) - 1 :
                        stack[k].pc = "PushPhiArgument" => stack[k].block # top.block
    PROVE  /\ stack' \in Seq(Frame(E))
           /\ StackOK' /\ PhiIsDefined' /\ OnePhiPerRead'
<1> DEFINE n == Len(stack)
           next == ReadState(b)
<1>1. /\ n \in Nat /\ n > 1 /\ n = Len(stack)
      /\ read \in Variable /\ read # 0 /\ phase = "rewrite" /\ stack # <<>>
      /\ DOMAIN stack = 1 .. n
      /\ Top = stack[n] /\ Top.block \in Blocks
  BY ReadingFacts
<1>3. next.block = b /\ next.pc = "Start"
  BY DEF ReadState
<1>6. /\ stack' \in Seq(Frame(E)) /\ Len(stack') = n + 1
      /\ DOMAIN stack' = 1 .. n + 1
      /\ stack'[n + 1] = next
      /\ \A k \in 1 .. n + 1 :
            \/ k \in 1 .. n - 1 /\ stack'[k] = stack[k] /\ k \in DOMAIN stack /\ k < n
            \/ k = n /\ stack'[k] = top
            \/ k = n + 1 /\ stack'[k] = next
  BY PushFrames
<1> HIDE DEF n, next
<1>7. DOMAIN stack' = 1 .. n + 1
  BY <1>6
<1>8. \A k \in 1 .. n + 1 :
        \/ k \in 1 .. n - 1 /\ stack'[k] = stack[k] /\ k \in DOMAIN stack /\ k < n
        \/ k = n /\ stack'[k] = top
        \/ k = n + 1 /\ stack'[k] = next
  BY <1>6
<1>9. \A k \in 1 .. n - 1 :
            stack[k].pc = "PushPhiArgument" => k > 1 /\ stack[k].block \in Blocks
  <2> SUFFICES ASSUME NEW k \in 1 .. n - 1, stack[k].pc = "PushPhiArgument"
               PROVE  k > 1 /\ stack[k].block \in Blocks
    OBVIOUS
  <2>1. k # 1
    BY <1>1 DEF IInv, StackOK
  <2>2. k > 1 /\ k \in DOMAIN stack
    BY <1>1, <2>1
  <2> QED BY <2>2 DEF IInv, StackOK
<1>10. StackOK'
  <2>1. read' # 0 /\ phase' = "rewrite"
    BY <1>1
  <2>2. stack' # <<>> /\ Len(stack') # 1
    <3>1. Len(stack') # 0 /\ Len(stack') # 1
      BY <1>1, <1>6
    <3> QED BY <3>1
  <2>3. stack'[1].pc = "Start"
    <3>1. 1 \in 1 .. n + 1 /\ 1 # n /\ 1 # n + 1
      BY <1>1
    <3>2. stack'[1] = stack[1]
      BY <1>8, <3>1
    <3> QED BY <1>1, <3>2 DEF IInv, StackOK
  <2>4. Top'.pc = "Start"
    BY <1>3, <1>6 DEF Top, Last
  <2>5. ASSUME NEW k \in DOMAIN stack'
        PROVE  /\ k > 1 => stack'[k].block \in Blocks'
               /\ k > 1 /\ k < Len(stack') => stack'[k].pc # "Start"
               /\ stack'[k].pc = "PushPhiArgument" =>
                        /\ Contains(instructions'[stack'[k].block], stack'[k].phi)
                        /\ stack'[k].pred \in 1 .. Len(program'.preds[stack'[k].block])
    <3>1. Blocks' = Blocks /\ program' = program
      BY DEF Blocks
    <3>2. CASE k \in 1 .. n - 1 /\ stack'[k] = stack[k] /\ k \in DOMAIN stack /\ k < n
      <4>1. /\ k > 1 => stack[k].block \in Blocks
            /\ k > 1 /\ k < Len(stack) => stack[k].pc # "Start"
            /\ stack[k].pc = "PushPhiArgument" =>
                /\ Contains(instructions[stack[k].block], stack[k].phi)
                /\ stack[k].pred \in 1 .. Len(Preds(stack[k].block))
        BY <3>2 DEF IInv, StackOK
      <4> QED BY <1>1, <1>9, <3>1, <3>2, <4>1 DEF Preds
    <3>3. CASE k = n /\ stack'[k] = top
      BY <1>1, <3>1, <3>3 DEF Preds
    <3>4. CASE k = n + 1 /\ stack'[k] = next
      <4>1. ~(k < Len(stack'))
        BY <1>1, <1>6, <3>4
      <4> QED BY <1>3, <3>1, <3>4, <4>1
    <3> QED BY <1>7, <1>8, <3>2, <3>3, <3>4
  <2> QED BY <2>1, <2>2, <2>3, <2>4, <2>5 DEF StackOK, Preds
<1>11. PhiIsDefined'
  <2> SUFFICES ASSUME NEW k \in DOMAIN stack', stack'[k].pc = "PushPhiArgument"
               PROVE  current_def'[stack'[k].block][read] # Empty
    BY DEF PhiIsDefined
  <2>1. CASE k \in 1 .. n - 1 /\ stack'[k] = stack[k] /\ k \in DOMAIN stack /\ k < n
    <3>1. current_def[stack[k].block][read] # Empty
      BY <2>1 DEF IInv, PhiIsDefined
    <3> QED BY <1>9, <2>1, <3>1
  <2>2. CASE k = n /\ stack'[k] = top
    BY <2>2
  <2>3. CASE k = n + 1 /\ stack'[k] = next
    BY <1>3, <2>3
  <2> QED BY <1>7, <1>8, <2>1, <2>2, <2>3
<1>12. OnePhiPerRead'
  <2> SUFFICES ASSUME NEW j \in DOMAIN stack', NEW k \in DOMAIN stack',
                      stack'[j].pc = "PushPhiArgument", stack'[k].pc = "PushPhiArgument",
                      stack'[j].block = stack'[k].block
               PROVE  j = k
    BY DEF OnePhiPerRead
  <2>1. \A i \in DOMAIN stack' : stack'[i].pc = "PushPhiArgument" =>
            \/ i \in 1 .. n - 1 /\ stack'[i] = stack[i] /\ i \in DOMAIN stack
            \/ i = n /\ stack'[i] = top
    BY <1>3, <1>7, <1>8
  <2>2. CASE j = n \/ k = n
    <3>1. top.pc = "PushPhiArgument" =>
            \A i \in 1 .. n - 1 : stack[i].pc = "PushPhiArgument" => stack[i].block # top.block
      BY DEF n
    <3>2. n \notin 1 .. n - 1
      BY <1>1
    <3> QED BY <2>1, <2>2, <3>1, <3>2
  <2>3. CASE j # n /\ k # n
    BY <2>1, <2>3 DEF IInv, OnePhiPerRead
  <2> QED BY <2>2, <2>3
<1> QED BY <1>6, <1>10, <1>11, <1>12

\* A turn of the loop keeps the invariant when it keeps pool, lists and stack in
\* order, for it changes nothing else.
LEMMA TurnInv ==
    ASSUME IInv, Len(stack) > 1, KeepWhileReading,
           PoolOK(inst'), NoneEmpty(inst'), Counted(inst'), KindsOK(inst'),
           DOMAIN inst \subseteq DOMAIN inst',
           instructions' \in [Blocks -> Seq(DOMAIN inst')],
           \A b \in Blocks : \A j : Contains(instructions[b], j) => Contains(instructions'[b], j),
           current_def' \in [Blocks -> [Variable -> Value(DOMAIN inst')]],
           incomplete_phis' \in [Blocks -> [Variable -> DOMAIN inst' \cup {0}]],
           \A b \in Blocks, v \in Variable :
                /\ incomplete_phis'[b][v] # 0 =>
                        Contains(instructions'[b], incomplete_phis'[b][v])
                /\ incomplete_phis[b][v] # 0 => incomplete_phis'[b][v] # 0,
           stack' \in Seq(Frame(DOMAIN inst')),
           StackOK', PhiIsDefined', OnePhiPerRead'
    PROVE  IInv'
<1>1. UNCHANGED <<program, ssa_sealed, cursor, current, sealing, read, to_invalidate, phase>>
  BY DEF KeepWhileReading, place
<1>2. phase = "rewrite" /\ read \in Variable /\ Block \in Blocks
  BY ReadingFacts, AtFacts DEF IInv
<1>3. TypeOK'
  <2>1. current' \in DOMAIN inst' \cup {0} /\ to_invalidate' \in Seq(DOMAIN inst')
    <3>1. PlacesOK(DOMAIN inst')
      BY PlacesGrow DEF IInv, TypeOK
    <3> QED BY <1>1, <3>1 DEF PlacesOK
  <2>2. PlacesOK(DOMAIN inst)'
    BY <1>1, <2>1 DEF PlacesOK, Blocks, Frame, Statuses
  <2> QED BY <1>1, <2>2 DEF IInv, TypeOK, Blocks
<1>4. Listed'
  <2>1. current' # 0 => Contains(instructions'[Block], current')
    BY <1>1, <1>2 DEF IInv, Listed
  <2> QED BY <1>1, <1>2, <2>1 DEF Listed, Blocks, Block
<1>5. ReadsFor'
  BY <1>1, <1>2 DEF IInv, ReadsFor, Block, Preds
<1> QED BY <1>3, <1>4, <1>5 DEF IInv, Counted, KindsOK

\* The frame on top in its place.
LEMMA TopInPlace ==
    ASSUME IInv, Len(stack) > 1
    PROVE  [stack EXCEPT ![Len(stack)] = Top] = stack
<1>1. stack \in Seq(Frame(DOMAIN inst)) /\ Len(stack) \in 1 .. Len(stack)
  BY ReadingFacts DEF IInv, TypeOK, PlacesOK
<1>2. Top = stack[Len(stack)]
  BY DEF Top, Last
<1> QED BY <1>1, <1>2, LenProperties

\* A turn that only returns a value keeps the invariant.
LEMMA ReturnTop ==
    ASSUME IInv, KeepWhileReading, UNCHANGED <<ir, incomplete_phis>>, Len(stack) > 1,
           NEW result \in Value(DOMAIN inst), result # Empty, Return(stack, result)
    PROVE  IInv'
<1>1. Top \in Frame(DOMAIN inst)
  <2>1. Len(stack) \in 1 .. Len(stack)
    BY ReadingFacts
  <2> QED BY <2>1, ReadingFacts
<1>2. UNCHANGED <<program, read, phase, inst, instructions, incomplete_phis>>
  BY DEF KeepWhileReading, ir
<1>3. /\ stack' \in Seq(Frame(DOMAIN inst))
      /\ current_def' \in [Blocks -> [Variable -> Value(DOMAIN inst)]]
      /\ StackOK' /\ PhiIsDefined' /\ OnePhiPerRead'
  <2>1. Return([stack EXCEPT ![Len(stack)] = Top], result)
    BY TopInPlace
  <2>2. \A b \in Blocks : \A j : Contains(instructions[b], j) => Contains(instructions'[b], j)
    BY <1>2
  <2> QED BY <1>1, <1>2, <2>1, <2>2, ReturnEffect
<1>4. /\ PoolOK(inst) /\ NoneEmpty(inst) /\ Counted(inst) /\ KindsOK(inst)
      /\ instructions \in [Blocks -> Seq(DOMAIN inst)]
      /\ incomplete_phis \in [Blocks -> [Variable -> DOMAIN inst \cup {0}]]
      /\ \A b \in Blocks, v \in Variable :
            incomplete_phis[b][v] # 0 => Contains(instructions[b], incomplete_phis[b][v])
  BY ReadingFacts DEF IInv, TypeOK, PlacesOK, Listed
<1> QED BY <1>2, <1>3, <1>4, TurnInv

\* The block has a definition of the variable.
LEMMA ReadDefinedInv ==
    ASSUME IInv, ReadDefined
    PROVE  IInv'
<1>1. /\ Len(stack) > 1 /\ current_def[Top.block][read] # Empty
      /\ Return(stack, current_def[Top.block][read])
      /\ UNCHANGED <<ir, incomplete_phis>>
      /\ KeepWhileReading
  BY DEF ReadDefined, Reading
<1>2. current_def[Top.block][read] \in Value(DOMAIN inst)
  BY <1>1, ReadingFacts
<1> QED BY <1>1, <1>2, ReturnTop

\* What the one predecessor gave is what the block gives.
LEMMA SetValueInv ==
    ASSUME IInv, SetValue
    PROVE  IInv'
<1>1. /\ Len(stack) > 1 /\ Top.pc = "SetValue"
      /\ Return(stack, Top.result)
      /\ UNCHANGED <<ir, incomplete_phis>>
      /\ KeepWhileReading
  BY DEF SetValue, Reading
<1>2. Top.result \in Value(DOMAIN inst) /\ Top.result # Empty
  <2>1. Len(stack) \in 1 .. Len(stack) /\ stack # <<>> /\ Top = stack[Len(stack)]
    BY <1>1, ReadingFacts
  <2>2. Top \in Frame(DOMAIN inst)
    BY <1>1, <2>1, ReadingFacts
  <2> QED BY <1>1, <2>1, <2>2 DEF Frame, IInv, StackOK
<1> QED BY <1>1, <1>2, ReturnTop

\* A phi is created at the head of the block on top.
LEMMA PrependEffect ==
    ASSUME IInv, Len(stack) > 1
    PROVE  LET grown == Append(inst, NewInst("Phi"))
               new == Len(inst) + 1
               lists == [instructions EXCEPT ![Top.block] = <<new>> \o @]
           IN  /\ PoolOK(grown) /\ NoneEmpty(grown) /\ Counted(grown) /\ KindsOK(grown)
               /\ DOMAIN grown = DOMAIN inst \cup {new}
               /\ new \notin DOMAIN inst /\ new # 0
               /\ \A j \in DOMAIN inst : grown[j] = inst[j]
               /\ grown[new] = NewInst("Phi")
               /\ lists \in [Blocks -> Seq(DOMAIN grown)]
               /\ \A b \in Blocks : \A j : Contains(instructions[b], j) => Contains(lists[b], j)
               /\ Contains(lists[Top.block], new)
<1> DEFINE grown == Append(inst, NewInst("Phi"))
           new == Len(inst) + 1
           lists == [instructions EXCEPT ![Top.block] = <<new>> \o @]
           E == DOMAIN grown
<1>1. /\ PoolOK(grown) /\ NoneEmpty(grown) /\ Counted(grown)
      /\ E = DOMAIN inst \cup {new} /\ new \notin DOMAIN inst /\ new # 0
      /\ \A j \in DOMAIN inst : grown[j] = inst[j]
      /\ grown[new] = NewInst("Phi")
  BY NewInstEffect DEF IInv, TypeOK
<1> HIDE DEF grown, new
<1>2. KindsOK(grown)
  <2>1. grown[new].op = "Phi"
    BY <1>1 DEF NewInst
  <2> QED BY <1>1, <2>1 DEF IInv, KindsOK
<1>3. PlacesOK(E)
  BY <1>1, PlacesGrow DEF IInv, TypeOK
<1>4. /\ Top.block \in Blocks /\ instructions \in [Blocks -> Seq(E)]
      /\ instructions[Top.block] \in Seq(E) /\ new \in E
  BY <1>1, <1>3, ReadingFacts DEF PlacesOK
<1> HIDE DEF E
<1>5. /\ <<new>> \o instructions[Top.block] \in Seq(E)
      /\ \A j : Contains(<<new>> \o instructions[Top.block], j) <=>
                    j = new \/ Contains(instructions[Top.block], j)
  BY <1>4, PrependMembers, ZenonT(60)
<1>6. /\ lists \in [Blocks -> Seq(E)]
      /\ lists[Top.block] = <<new>> \o instructions[Top.block]
      /\ \A b \in Blocks : b # Top.block => lists[b] = instructions[b]
  BY <1>4, <1>5
<1> HIDE DEF lists
<1>7. /\ \A b \in Blocks : \A j : Contains(instructions[b], j) => Contains(lists[b], j)
      /\ Contains(lists[Top.block], new)
  BY <1>5, <1>6
<1> QED BY <1>1, <1>2, <1>6, <1>7 DEF grown, new, lists, E

\* A block that is not sealed gets an incomplete phi.
LEMMA ReadUnsealedInv ==
    ASSUME IInv, ReadUnsealed
    PROVE  IInv'
<1> DEFINE new == Len(inst) + 1
<1>1. /\ Len(stack) > 1
      /\ inst' = Append(inst, NewInst("Phi"))
      /\ instructions' = [instructions EXCEPT ![Top.block] = <<new>> \o @]
      /\ incomplete_phis' = [incomplete_phis EXCEPT ![Top.block][read] = new]
      /\ Return(stack, InstValue(new))
      /\ KeepWhileReading
  BY DEF ReadUnsealed, Reading, PrependPhi
<1>2. /\ PoolOK(inst') /\ NoneEmpty(inst') /\ Counted(inst') /\ KindsOK(inst')
      /\ DOMAIN inst' = DOMAIN inst \cup {new} /\ new \notin DOMAIN inst /\ new # 0
      /\ instructions' \in [Blocks -> Seq(DOMAIN inst')]
      /\ \A b \in Blocks : \A j : Contains(instructions[b], j) => Contains(instructions'[b], j)
      /\ Contains(instructions'[Top.block], new)
  BY <1>1, PrependEffect
<1> HIDE DEF new
<1> DEFINE E == DOMAIN inst'
<1>3. InstValue(new) \in Value(E) /\ InstValue(new) # Empty
  BY <1>2, InstValues DEF Value
<1>4. Top \in Frame(E)
  <2>1. Len(stack) \in 1 .. Len(stack)
    BY <1>1, ReadingFacts
  <2>2. Top \in Frame(DOMAIN inst) /\ DOMAIN inst \subseteq E
    BY <1>1, <1>2, <2>1, ReadingFacts
  <2>3. Value(DOMAIN inst) \subseteq Value(E)
    BY <2>2, Monotonic
  <2> QED BY <2>2, <2>3 DEF Frame
<1>5. /\ stack' \in Seq(Frame(E))
      /\ current_def' \in [Blocks -> [Variable -> Value(E)]]
      /\ StackOK' /\ PhiIsDefined' /\ OnePhiPerRead'
  <2>1. Return([stack EXCEPT ![Len(stack)] = Top], InstValue(new))
    BY <1>1, TopInPlace
  <2>2. UNCHANGED <<program, read, phase>> /\ DOMAIN inst \subseteq E
    BY <1>1, <1>2 DEF KeepWhileReading
  <2> HIDE DEF E
  <2> QED BY <1>1, <1>2, <1>3, <1>4, <2>1, <2>2, ReturnEffect
<1>6. /\ incomplete_phis' \in [Blocks -> [Variable -> E \cup {0}]]
      /\ \A b \in Blocks, v \in Variable :
            /\ incomplete_phis'[b][v] # 0 =>
                    Contains(instructions'[b], incomplete_phis'[b][v])
            /\ incomplete_phis[b][v] # 0 => incomplete_phis'[b][v] # 0
  <2>1. PlacesOK(E)
    BY <1>2, PlacesGrow DEF IInv, TypeOK
  <2>2. incomplete_phis \in [Blocks -> [Variable -> E \cup {0}]]
    BY <2>1 DEF PlacesOK
  <2>3. Top.block \in Blocks /\ read \in Variable /\ new \in E
    BY <1>1, <1>2, ReadingFacts
  <2> HIDE DEF E
  <2>4. incomplete_phis' \in [Blocks -> [Variable -> E \cup {0}]]
    BY <1>1, <2>2, <2>3
  <2>5. \A b \in Blocks, v \in Variable :
            incomplete_phis'[b][v] = IF b = Top.block /\ v = read THEN new
                                     ELSE incomplete_phis[b][v]
    BY <1>1, <2>2, <2>3
  <2>6. phase = "rewrite"
    BY <1>1, ReadingFacts
  <2> QED BY <1>2, <2>4, <2>5, <2>6 DEF IInv, Listed
<1> QED BY <1>1, <1>2, <1>5, <1>6, TurnInv

\* A sealed block with one predecessor waits for it.
LEMMA ReadOnePredecessorInv ==
    ASSUME IInv, ReadOnePredecessor
    PROVE  IInv'
<1> DEFINE top == [Top EXCEPT !.pc = "SetValue"]
           b == Preds(Top.block)[1]
           n == Len(stack)
<1>1. /\ n > 1 /\ Len(Preds(Top.block)) = 1
      /\ stack' = Append([stack EXCEPT ![n].pc = "SetValue"], ReadState(b))
      /\ UNCHANGED <<program, inst, instructions, current_def, incomplete_phis, read, phase>>
      /\ KeepWhileReading
  BY DEF ReadOnePredecessor, Reading, KeepWhileReading, ir, defs
<1>2. n \in DOMAIN stack /\ n \in 1 .. n /\ Top = stack[n] /\ Top \in Frame(DOMAIN inst)
  BY <1>1, ReadingFacts
<1>3. [stack EXCEPT ![n].pc = "SetValue"] = [stack EXCEPT ![n] = top]
  BY <1>2
<1>4. top \in Frame(DOMAIN inst) /\ top.block = Top.block /\ top.pc = "SetValue"
  BY <1>2 DEF Frame, Statuses
<1>5. b \in Blocks
  <2>1. 1 \in 1 .. Len(Preds(Top.block))
    BY <1>1
  <2> QED BY <1>1, <2>1, ReadingFacts
<1> HIDE DEF top, b
<1>6. stack' = Append([stack EXCEPT ![n] = top], ReadState(b))
  BY <1>1, <1>3
<1>7. stack' \in Seq(Frame(DOMAIN inst)) /\ StackOK' /\ PhiIsDefined' /\ OnePhiPerRead'
  BY <1>1, <1>4, <1>5, <1>6, PushEffect
<1>8. /\ PoolOK(inst) /\ NoneEmpty(inst) /\ Counted(inst) /\ KindsOK(inst)
      /\ instructions \in [Blocks -> Seq(DOMAIN inst)]
      /\ current_def \in [Blocks -> [Variable -> Value(DOMAIN inst)]]
      /\ incomplete_phis \in [Blocks -> [Variable -> DOMAIN inst \cup {0}]]
      /\ \A c \in Blocks, v \in Variable :
            incomplete_phis[c][v] # 0 => Contains(instructions[c], incomplete_phis[c][v])
  BY <1>1, ReadingFacts DEF IInv, TypeOK, PlacesOK, Listed
<1> QED BY <1>1, <1>7, <1>8, TurnInv

\* prepare_phi_operand: either the next operand is read or the phi is complete.
LEMMA PrepareEffect ==
    ASSUME IInv, Len(stack) > 1,
           NEW in, PoolOK(in), NoneEmpty(in), Counted(in), DOMAIN inst \subseteq DOMAIN in,
           NEW lists \in [Blocks -> Seq(DOMAIN in)],
           NEW top \in Frame(DOMAIN in), top.block = Top.block, top.phi \in DOMAIN in,
           Contains(lists[top.block], top.phi), top.pred # 0,
           PreparePhiOperand([stack EXCEPT ![Len(stack)] = top], in, lists)
    PROVE  \/ /\ top.pred > Len(Preds(top.block))
              /\ instructions' = [lists EXCEPT ![top.block] = instructions'[top.block]]
              /\ \E result :
                    /\ Return([stack EXCEPT ![Len(stack)] = top], result)
                    /\ Removal(in, lists[top.block], top.phi, inst', instructions'[top.block],
                               result)
           \/ /\ top.pred \in 1 .. Len(Preds(top.block))
              /\ inst' = in /\ instructions' = lists
              /\ stack' = Append([stack EXCEPT ![Len(stack)] =
                                        [top EXCEPT !.pc = "PushPhiArgument"]],
                                 ReadState(Preds(top.block)[top.pred]))
              /\ Preds(top.block)[top.pred] \in Blocks
              /\ [top EXCEPT !.pc = "PushPhiArgument"] \in Frame(DOMAIN in)
<1> DEFINE n == Len(stack)
           frames == [stack EXCEPT ![n] = top]
           list == lists[top.block]
           tried == TryRemoveTrivialPhi(in, list, top.phi)
<1>1. /\ n \in 1 .. n /\ n \in DOMAIN stack /\ DOMAIN stack = 1 .. n /\ n = Len(stack)
      /\ Top = stack[n] /\ top.block \in Blocks
      /\ Len(Preds(top.block)) \in Nat
      /\ \A k \in 1 .. Len(Preds(top.block)) : Preds(top.block)[k] \in Blocks
  <2>1. /\ Len(stack) \in Nat /\ DOMAIN stack = 1 .. Len(stack)
        /\ Top = stack[Len(stack)] /\ Top.block \in Blocks
        /\ Len(Preds(Top.block)) \in Nat
        /\ \A k \in 1 .. Len(Preds(Top.block)) : Preds(Top.block)[k] \in Blocks
    BY ReadingFacts
  <2> HIDE DEF frames, list, tried
  <2> QED BY <2>1
<1>2. PlacesOK(DOMAIN in)
  BY PlacesGrow DEF IInv, TypeOK
<1>3. Len(frames) = n /\ frames[n] = top /\ Last(frames) = top
  <2>1. stack \in Seq(Frame(DOMAIN in)) /\ n \in 1 .. Len(stack)
    BY <1>1, <1>2 DEF PlacesOK
  <2>2. /\ Len(frames) = Len(stack)
        /\ \A k \in 1 .. Len(stack) : frames[k] = IF k = n THEN top ELSE stack[k]
    <3> HIDE DEF n
    <3> QED BY <2>1, ExceptSeq
  <2> HIDE DEF frames
  <2> QED BY <2>1, <2>2 DEF Last
<1>4. CASE top.pred > Len(Preds(top.block))
  <2> DEFINE moved == tried.list
             result == tried.result
  <2>1. /\ inst' = tried.inst
        /\ instructions' = [lists EXCEPT ![top.block] = moved]
        /\ Return(frames, result)
    <3> HIDE DEF frames, tried
    <3> QED BY <1>3, <1>4 DEF PreparePhiOperand, frames, tried
  <2>2. Removal(in, list, top.phi, inst', moved, result)
    <3>1. list \in Seq(DOMAIN in)
      BY <1>1
    <3> QED BY <2>1, <3>1, TryRemoveEffect
  <2>3. instructions'[top.block] = moved
    <3> HIDE DEF tried
    <3> QED BY <1>1, <2>1
  <2> HIDE DEF tried, moved, result
  <2> QED BY <1>4, <2>1, <2>2, <2>3
<1>5. CASE ~(top.pred > Len(Preds(top.block)))
  <2> DEFINE waits == [top EXCEPT !.pc = "PushPhiArgument"]
             b == Preds(top.block)[top.pred]
  <2>1. /\ inst' = in /\ instructions' = lists
        /\ stack' = Append([frames EXCEPT ![Len(frames)].pc = "PushPhiArgument"], ReadState(b))
    <3> HIDE DEF frames, tried
    <3> QED BY <1>3, <1>5 DEF PreparePhiOperand, frames, tried
  <2>2. [frames EXCEPT ![Len(frames)].pc = "PushPhiArgument"] = [stack EXCEPT ![n] = waits]
    <3>1. [frames EXCEPT ![n].pc = "PushPhiArgument"] = [stack EXCEPT ![n] = waits]
      BY <1>1
    <3> HIDE DEF frames
    <3> QED BY <1>3, <3>1
  <2>3. waits \in Frame(DOMAIN in)
    BY DEF Frame, Statuses
  <2>4. top.pred \in 1 .. Len(Preds(top.block)) /\ b \in Blocks
    <3>1. top.pred \in Nat
      BY DEF Frame
    <3>2. top.pred \in 1 .. Len(Preds(top.block))
      BY <1>1, <1>5, <3>1
    <3> QED BY <1>1, <3>2
  <2> HIDE DEF waits, b
  <2> QED BY <2>1, <2>2, <2>3, <2>4 DEF waits, b
<1> QED BY <1>4, <1>5

\* prepare_phi_operand on a pool that has grown, with a phi in the frame on top:
\* either the next operand is read or the phi is complete.
LEMMA PrepareInv ==
    ASSUME IInv, Len(stack) > 1, KeepWhileReading, UNCHANGED incomplete_phis,
           NEW in, PoolOK(in), NoneEmpty(in), Counted(in), KindsOK(in),
           DOMAIN inst \subseteq DOMAIN in,
           NEW lists \in [Blocks -> Seq(DOMAIN in)],
           \A b \in Blocks : \A j : Contains(instructions[b], j) => Contains(lists[b], j),
           NEW top \in Frame(DOMAIN in), top.block = Top.block, top.phi \in DOMAIN in,
           Contains(lists[top.block], top.phi), top.pred # 0,
           \A k \in 1 .. Len(stack) - 1 :
                stack[k].pc = "PushPhiArgument" => stack[k].block # top.block,
           PreparePhiOperand([stack EXCEPT ![Len(stack)] = top], in, lists),
           top.pred <= Len(Preds(top.block)) =>
                /\ current_def' \in [Blocks -> [Variable -> Value(DOMAIN in)]]
                /\ current_def'[top.block][read] # Empty
                /\ \A c \in Blocks : current_def[c][read] # Empty => current_def'[c][read] # Empty
    PROVE  IInv'
<1> DEFINE n == Len(stack)
           list == lists[top.block]
<1>1. /\ n \in 1 .. n /\ n \in DOMAIN stack /\ DOMAIN stack = 1 .. n /\ n = Len(stack)
      /\ Top = stack[n] /\ top.block \in Blocks
      /\ Len(Preds(top.block)) \in Nat /\ top.pred \in Nat
  BY ReadingFacts DEF Frame
<1>2. PlacesOK(DOMAIN in)
  BY PlacesGrow DEF IInv, TypeOK
<1>4. UNCHANGED <<program, read, phase, incomplete_phis>>
  BY DEF KeepWhileReading
<1>5. /\ incomplete_phis \in [Blocks -> [Variable -> DOMAIN in \cup {0}]]
      /\ \A b \in Blocks, v \in Variable :
            incomplete_phis[b][v] # 0 => Contains(instructions[b], incomplete_phis[b][v])
  BY <1>2, ReadingFacts DEF PlacesOK, IInv, Listed
<1>6. CASE top.pred > Len(Preds(top.block))
  <2> DEFINE moved == instructions'[top.block]
  <2>0. /\ ~(top.pred \in 1 .. Len(Preds(top.block)))
        /\ instructions' = [lists EXCEPT ![top.block] = moved]
    <3>1. ~(top.pred \in 1 .. Len(Preds(top.block)))
      BY <1>1, <1>6
    <3> QED BY <3>1, PrepareEffect
  <2>1. PICK result : /\ Return([stack EXCEPT ![n] = top], result)
                      /\ Removal(in, list, top.phi, inst', moved, result)
    BY <2>0, PrepareEffect
  <2>2. Removal(in, list, top.phi, inst', moved, result)
    BY <2>1
  <2> HIDE DEF list, moved
  <2> DEFINE E == DOMAIN inst'
  <2>3. /\ PoolOK(inst') /\ NoneEmpty(inst') /\ Counted(inst')
        /\ DOMAIN in \subseteq E /\ DOMAIN inst \subseteq E /\ moved \in Seq(E)
        /\ result \in Value(E) /\ result # Empty
        /\ \A j : Contains(list, j) => Contains(moved, j)
    BY <2>2 DEF Removal
  <2>4. KindsOK(inst')
    <3>1. /\ \A j \in DOMAIN in : inst'[j].var = in[j].var
          /\ \A j \in DOMAIN in :
                  j # top.phi => inst'[j].op = in[j].op /\ inst'[j].args = in[j].args
          /\ inst'[top.phi] = in[top.phi] \/ inst'[top.phi].op = "Identity"
          /\ \A j \in DOMAIN inst' \ DOMAIN in : inst'[j].op \in {"Phi", "Undef"}
      BY <2>2 DEF Removal
    <3> HIDE DEF E
    <3> QED BY <3>1 DEF KindsOK
  <2>5. Seq(DOMAIN in) \subseteq Seq(E) /\ top \in Frame(E)
    <3>1. Seq(DOMAIN in) \subseteq Seq(E) /\ Value(DOMAIN in) \subseteq Value(E)
      BY <2>3, Monotonic
    <3> QED BY <2>3, <3>1 DEF Frame
  <2>6. incomplete_phis \in [Blocks -> [Variable -> E \cup {0}]]
    <3> HIDE DEF E
    <3>1. PlacesOK(E)
      BY <2>3, PlacesGrow DEF IInv, TypeOK
    <3> QED BY <3>1 DEF PlacesOK
  <2> HIDE DEF E
  <2>7. /\ instructions' \in [Blocks -> Seq(E)]
        /\ \A b \in Blocks : \A j : Contains(instructions[b], j) => Contains(instructions'[b], j)
    <3>1. lists \in [Blocks -> Seq(E)]
      BY <2>5
    <3>2. /\ instructions' \in [Blocks -> Seq(E)]
          /\ instructions'[top.block] = moved
          /\ \A b \in Blocks : b # top.block => instructions'[b] = lists[b]
      BY <1>1, <2>0, <2>3, <3>1
    <3> QED BY <2>3, <3>2 DEF list
  <2>8. /\ stack' \in Seq(Frame(E))
        /\ current_def' \in [Blocks -> [Variable -> Value(E)]]
        /\ StackOK' /\ PhiIsDefined' /\ OnePhiPerRead'
    BY <1>4, <2>1, <2>3, <2>5, <2>7, ReturnEffect
  <2>9. \A b \in Blocks, v \in Variable :
            /\ incomplete_phis'[b][v] # 0 =>
                    Contains(instructions'[b], incomplete_phis'[b][v])
            /\ incomplete_phis[b][v] # 0 => incomplete_phis'[b][v] # 0
    BY <1>4, <1>5, <2>7
  <2> QED BY <1>4, <2>3, <2>4, <2>6, <2>7, <2>8, <2>9, TurnInv DEF E
<1>7. CASE ~(top.pred > Len(Preds(top.block)))
  <2> DEFINE waits == [top EXCEPT !.pc = "PushPhiArgument"]
             b == Preds(top.block)[top.pred]
  <2>1. /\ top.pred \in 1 .. Len(Preds(top.block))
        /\ inst' = in /\ instructions' = lists
        /\ stack' = Append([stack EXCEPT ![n] = waits], ReadState(b))
        /\ b \in Blocks /\ waits \in Frame(DOMAIN in)
    BY <1>7, PrepareEffect
  <2>3. /\ waits \in Frame(DOMAIN in) /\ waits.pc = "PushPhiArgument"
        /\ waits.block = top.block /\ waits.phi = top.phi /\ waits.pred = top.pred
    BY DEF Frame, Statuses
  <2>4. top.pred \in 1 .. Len(Preds(top.block)) /\ top.pred <= Len(Preds(top.block)) /\ b \in Blocks
    BY <1>1, <1>7, <2>1
  <2> HIDE DEF waits, b
  <2>5. /\ current_def' \in [Blocks -> [Variable -> Value(DOMAIN in)]]
        /\ current_def'[top.block][read] # Empty
        /\ \A c \in Blocks : current_def[c][read] # Empty => current_def'[c][read] # Empty
    BY <2>4
  <2>6. stack' = Append([stack EXCEPT ![n] = waits], ReadState(b))
    BY <2>1
  <2>7. /\ stack' \in Seq(Frame(DOMAIN in))
        /\ StackOK' /\ PhiIsDefined' /\ OnePhiPerRead'
    <3>1. \A c \in Blocks : \A j : Contains(instructions[c], j) => Contains(instructions'[c], j)
      BY <2>1
    <3>2. waits.pc = "PushPhiArgument" =>
                /\ Contains(instructions'[waits.block], waits.phi)
                /\ waits.pred \in 1 .. Len(Preds(waits.block))
                /\ current_def'[waits.block][read] # Empty
                /\ \A k \in 1 .. Len(stack) - 1 :
                        stack[k].pc = "PushPhiArgument" => stack[k].block # waits.block
      BY <2>1, <2>3, <2>4, <2>5
    <3>3. waits.block = Top.block /\ waits.pc # "Start" /\ UNCHANGED <<program, read, phase>>
      BY <1>4, <2>3
    <3> QED BY <2>3, <2>4, <2>5, <2>6, <3>1, <3>2, <3>3, PushEffect
  <2>8. \A c \in Blocks, v \in Variable :
            /\ incomplete_phis'[c][v] # 0 =>
                    Contains(instructions'[c], incomplete_phis'[c][v])
            /\ incomplete_phis[c][v] # 0 => incomplete_phis'[c][v] # 0
    BY <1>4, <1>5, <2>1
  <2> QED BY <1>4, <1>5, <2>1, <2>5, <2>7, <2>8, TurnInv
<1> QED BY <1>6, <1>7

\* A sealed block gets a phi without operands at its head, which is made in the
\* frame on top.
LEMMA ReadManyEffect ==
    ASSUME IInv, ReadManyPredecessors
    PROVE  LET n == Len(stack)
               new == Len(inst) + 1
               top == [Top EXCEPT !.phi = new, !.pred = 1]
               grown == Append(inst, NewInst("Phi"))
               lists == [instructions EXCEPT ![Top.block] = <<new>> \o @]
               E == DOMAIN grown
           IN  /\ n > 1 /\ Top.pc = "Start" /\ Top.block \in Blocks /\ read \in Variable
               /\ Len(Preds(Top.block)) \in Nat
               /\ current_def[Top.block][read] = Empty /\ Top.block \in ssa_sealed
               /\ UNCHANGED incomplete_phis /\ KeepWhileReading
               /\ PoolOK(grown) /\ NoneEmpty(grown) /\ Counted(grown) /\ KindsOK(grown)
               /\ E = DOMAIN inst \cup {new} /\ DOMAIN inst \subseteq E
               /\ new \in E /\ new \notin DOMAIN inst /\ new # 0
               /\ \A j \in DOMAIN inst : grown[j] = inst[j]
               /\ lists \in [Blocks -> Seq(E)]
               /\ \A b \in Blocks : \A j : Contains(instructions[b], j) => Contains(lists[b], j)
               /\ top \in Frame(E) /\ top.block = Top.block /\ top.phi = new /\ top.pred = 1
               /\ Contains(lists[top.block], top.phi) /\ top.phi \in E /\ top.pred # 0
               /\ \A k \in 1 .. n - 1 :
                    stack[k].pc = "PushPhiArgument" => stack[k].block # top.block
               /\ PreparePhiOperand([stack EXCEPT ![n] = top], grown, lists)
               /\ top.pred <= Len(Preds(top.block)) =>
                    /\ current_def' = [current_def EXCEPT ![Top.block][read] = InstValue(new)]
                    /\ InstValue(new) # Empty
                    /\ \A c \in Blocks, v \in Variable :
                            current_def[c][v] # Empty => current_def'[c][v] # Empty
<1> DEFINE n == Len(stack)
           new == Len(inst) + 1
           top == [Top EXCEPT !.phi = new, !.pred = 1]
           grown == Append(inst, NewInst("Phi"))
           lists == [instructions EXCEPT ![Top.block] = <<new>> \o @]
           E == DOMAIN grown
<1>1. /\ n > 1 /\ Top.pc = "Start"
      /\ current_def[Top.block][read] = Empty /\ Top.block \in ssa_sealed
      /\ PreparePhiOperand([stack EXCEPT ![n].phi = new, ![n].pred = 1], grown, lists)
      /\ Preds(Top.block) # <<>> =>
            current_def' = [current_def EXCEPT ![Top.block][read] = InstValue(new)]
      /\ UNCHANGED incomplete_phis
      /\ KeepWhileReading
  BY DEF ReadManyPredecessors, Reading
<1>2. /\ n \in 1 .. n /\ n \in DOMAIN stack /\ n = Len(stack) /\ Top = stack[n]
      /\ Top \in Frame(DOMAIN inst) /\ Top.block \in Blocks /\ read \in Variable
      /\ Len(Preds(Top.block)) \in Nat
  <2>1. /\ n \in Nat /\ DOMAIN stack = 1 .. n /\ Top = stack[n] /\ n = Len(stack)
        /\ \A k \in 1 .. n : stack[k] \in Frame(DOMAIN inst)
        /\ Top.block \in Blocks /\ read \in Variable
        /\ Len(Preds(Top.block)) \in Nat
    BY <1>1, ReadingFacts
  <2>2. n \in 1 .. n
    BY <1>1, <2>1
  <2> HIDE DEF n
  <2> QED BY <2>1, <2>2
<1>3. /\ PoolOK(grown) /\ NoneEmpty(grown) /\ Counted(grown) /\ KindsOK(grown)
      /\ E = DOMAIN inst \cup {new}
      /\ new \notin DOMAIN inst /\ new # 0
      /\ \A j \in DOMAIN inst : grown[j] = inst[j]
      /\ lists \in [Blocks -> Seq(E)]
      /\ \A b \in Blocks : \A j : Contains(instructions[b], j) => Contains(lists[b], j)
      /\ Contains(lists[Top.block], new)
  BY <1>1, PrependEffect
<1>4. [stack EXCEPT ![n].phi = new, ![n].pred = 1] = [stack EXCEPT ![n] = top]
  <2> HIDE DEF new
  <2> QED BY <1>2 DEF Frame
<1> HIDE DEF grown, lists, new
<1>5. PlacesOK(E)
  <2> HIDE DEF E
  <2> QED BY <1>3, PlacesGrow DEF IInv, TypeOK
<1>6. top \in Frame(E) /\ top.block = Top.block /\ top.phi = new /\ top.pred = 1
  <2>1. Value(DOMAIN inst) \subseteq Value(E)
    BY <1>3, Monotonic
  <2> HIDE DEF E
  <2> QED BY <1>2, <1>3, <2>1 DEF Frame
<1> HIDE DEF top
<1>7. \A k \in 1 .. n - 1 : stack[k].pc = "PushPhiArgument" => stack[k].block # top.block
  <2>1. \A k \in 1 .. n - 1 : k \in DOMAIN stack
    BY <1>1, ReadingFacts
  <2> QED BY <1>1, <1>6, <2>1 DEF IInv, PhiIsDefined
<1>8. ASSUME top.pred <= Len(Preds(top.block))
      PROVE  /\ current_def' = [current_def EXCEPT ![Top.block][read] = InstValue(new)]
             /\ InstValue(new) # Empty
             /\ \A c \in Blocks, v \in Variable :
                    current_def[c][v] # Empty => current_def'[c][v] # Empty
  <2>1. Preds(Top.block) # <<>>
    <3>1. Len(Preds(Top.block)) # 0
      BY <1>2, <1>6, <1>8
    <3> QED BY <3>1
  <2> DEFINE x == InstValue(new)
             b == Top.block
  <2>2. /\ current_def' = [current_def EXCEPT ![b][read] = x]
        /\ x # Empty /\ b \in Blocks /\ read \in Variable
    BY <1>1, <1>2, <2>1, InstValues
  <2> HIDE DEF x, b
  <2>3. \A c \in Blocks, v \in Variable :
            current_def[c][v] # Empty => current_def'[c][v] # Empty
    BY <2>2 DEF IInv, TypeOK, PlacesOK
  <2> QED BY <2>2, <2>3 DEF x, b
<1>9. PreparePhiOperand([stack EXCEPT ![n] = top], grown, lists)
  BY <1>1, <1>4
<1>10. DOMAIN inst \subseteq E /\ new \in E
  BY <1>3
<1>11. Contains(lists[top.block], top.phi) /\ top.phi \in E /\ top.pred # 0
  BY <1>3, <1>6
<1> HIDE DEF E
<1> QED BY <1>1, <1>2, <1>3, <1>6, <1>7, <1>8, <1>9, <1>10, <1>11
        DEF new, top, grown, lists, E

\* Any other sealed block gets a phi that is its definition at once.
LEMMA ReadManyPredecessorsInv ==
    ASSUME IInv, ReadManyPredecessors
    PROVE  IInv'
<1> DEFINE n == Len(stack)
           new == Len(inst) + 1
           top == [Top EXCEPT !.phi = new, !.pred = 1]
           grown == Append(inst, NewInst("Phi"))
           lists == [instructions EXCEPT ![Top.block] = <<new>> \o @]
           E == DOMAIN grown
<1>1. /\ n > 1 /\ Top.pc = "Start" /\ Top.block \in Blocks /\ read \in Variable
      /\ Len(Preds(Top.block)) \in Nat
      /\ current_def[Top.block][read] = Empty /\ Top.block \in ssa_sealed
      /\ UNCHANGED incomplete_phis /\ KeepWhileReading
      /\ PoolOK(grown) /\ NoneEmpty(grown) /\ Counted(grown) /\ KindsOK(grown)
      /\ E = DOMAIN inst \cup {new} /\ DOMAIN inst \subseteq E
      /\ new \in E /\ new \notin DOMAIN inst /\ new # 0
      /\ \A j \in DOMAIN inst : grown[j] = inst[j]
      /\ lists \in [Blocks -> Seq(E)]
      /\ \A b \in Blocks : \A j : Contains(instructions[b], j) => Contains(lists[b], j)
      /\ top \in Frame(E) /\ top.block = Top.block /\ top.phi = new /\ top.pred = 1
      /\ Contains(lists[top.block], top.phi) /\ top.phi \in E /\ top.pred # 0
      /\ \A k \in 1 .. n - 1 :
           stack[k].pc = "PushPhiArgument" => stack[k].block # top.block
      /\ PreparePhiOperand([stack EXCEPT ![n] = top], grown, lists)
      /\ top.pred <= Len(Preds(top.block)) =>
           /\ current_def' = [current_def EXCEPT ![Top.block][read] = InstValue(new)]
           /\ InstValue(new) # Empty
           /\ \A c \in Blocks, v \in Variable :
                   current_def[c][v] # Empty => current_def'[c][v] # Empty
  BY ReadManyEffect
<1> HIDE DEF grown, lists, new, top
<1>2. PlacesOK(E)
  <2> HIDE DEF E
  <2> QED BY <1>1, PlacesGrow DEF IInv, TypeOK
<1>3. ASSUME top.pred <= Len(Preds(top.block))
      PROVE  /\ current_def' \in [Blocks -> [Variable -> Value(E)]]
             /\ current_def'[top.block][read] # Empty
             /\ \A c \in Blocks : current_def[c][read] # Empty => current_def'[c][read] # Empty
  <2>1. InstValue(new) \in Value(E)
    BY <1>1 DEF Value
  <2>2. current_def \in [Blocks -> [Variable -> Value(E)]]
    BY <1>2 DEF PlacesOK
  <2> HIDE DEF E
  <2> DEFINE v == InstValue(new)
             b == Top.block
  <2>3. /\ current_def' = [current_def EXCEPT ![b][read] = v] /\ top.block = b
        /\ v \in Value(E) /\ v # Empty /\ b \in Blocks /\ read \in Variable
    BY <1>1, <1>3, <2>1
  <2> HIDE DEF v, b
  <2> QED BY <2>2, <2>3
<1> QED BY <1>1, <1>3, PrepareInv

\* The phi in the frame on top gets an operand, for the predecessor that was read.
LEMMA PushPhiArgumentEffect ==
    ASSUME IInv, PushPhiArgument
    PROVE  LET n == Len(stack)
               top == [Top EXCEPT !.pred = @ + 1]
               b == Preds(Top.block)[Top.pred]
               in == AddPhiOperand(inst, Top.phi, b, Top.result)
           IN  /\ n > 1 /\ Top.pc = "PushPhiArgument" /\ Top.block \in Blocks /\ read \in Variable
               /\ Len(Preds(Top.block)) \in Nat
               /\ UNCHANGED incomplete_phis /\ KeepWhileReading
               /\ Contains(instructions[Top.block], Top.phi) /\ Top.phi \in DOMAIN inst
               /\ Top.pred \in 1 .. Len(Preds(Top.block))
               /\ current_def[Top.block][read] # Empty
               /\ PoolOK(in) /\ NoneEmpty(in) /\ Counted(in) /\ KindsOK(in)
               /\ DOMAIN in = DOMAIN inst
               /\ \A j \in DOMAIN inst : in[j].op = inst[j].op
               /\ \A j \in DOMAIN inst : j # Top.phi => in[j].preds = inst[j].preds
               /\ in[Top.phi].preds = Append(inst[Top.phi].preds, b)
               /\ instructions \in [Blocks -> Seq(DOMAIN in)]
               /\ top \in Frame(DOMAIN in) /\ top.block = Top.block /\ top.phi = Top.phi
               /\ top.pred = Top.pred + 1 /\ top.pred # 0
               /\ \A k \in 1 .. n - 1 :
                    stack[k].pc = "PushPhiArgument" => stack[k].block # top.block
               /\ PreparePhiOperand([stack EXCEPT ![n] = top], in, instructions)
               /\ top.pred <= Len(Preds(top.block)) => current_def' = current_def
<1> DEFINE n == Len(stack)
           top == [Top EXCEPT !.pred = @ + 1]
           b == Preds(Top.block)[Top.pred]
           in == AddPhiOperand(inst, Top.phi, b, Top.result)
<1>1. /\ n > 1 /\ Top.pc = "PushPhiArgument"
      /\ PreparePhiOperand([stack EXCEPT ![n].pred = @ + 1], in, instructions)
      /\ Top.pred < Len(Preds(Top.block)) => UNCHANGED current_def
      /\ UNCHANGED incomplete_phis
      /\ KeepWhileReading
  BY DEF PushPhiArgument, Reading
<1>2. /\ n \in 1 .. n /\ n \in DOMAIN stack /\ n = Len(stack) /\ Top = stack[n]
      /\ Top \in Frame(DOMAIN inst) /\ Top.block \in Blocks /\ read \in Variable
      /\ Len(Preds(Top.block)) \in Nat /\ stack # <<>>
      /\ instructions[Top.block] \in Seq(DOMAIN inst)
      /\ \A k \in 1 .. Len(Preds(Top.block)) : Preds(Top.block)[k] \in Blocks
      /\ \A k \in 1 .. n - 1 : k \in DOMAIN stack /\ k # n
  BY <1>1, ReadingFacts
<1>3. /\ Contains(instructions[Top.block], Top.phi)
      /\ Top.pred \in 1 .. Len(Preds(Top.block))
      /\ Top.result # Empty /\ Top.result \in Value(DOMAIN inst)
      /\ current_def[Top.block][read] # Empty
  BY <1>1, <1>2 DEF IInv, StackOK, PhiIsDefined, Frame
<1>4. Top.phi \in DOMAIN inst /\ b \in Nat
  <2>1. \A k \in 1 .. Len(instructions[Top.block]) : instructions[Top.block][k] \in DOMAIN inst
    BY <1>2, ElementOfSeq
  <2>2. Top.phi \in DOMAIN inst
    BY <1>3, <2>1 DEF Contains
  <2>3. b \in Blocks
    BY <1>2, <1>3
  <2> QED BY <2>2, <2>3, ProgramFacts DEF IInv, TypeOK
<1> HIDE DEF b
<1>5. /\ PoolOK(in) /\ NoneEmpty(in) /\ Counted(in)
      /\ DOMAIN in = DOMAIN inst
      /\ \A j \in DOMAIN inst : in[j].op = inst[j].op /\ in[j].var = inst[j].var
      /\ \A j \in DOMAIN inst : j # Top.phi => in[j].args = inst[j].args
      /\ in[Top.phi].args = Append(inst[Top.phi].args, Top.result)
      /\ \A j \in DOMAIN inst : j # Top.phi => in[j].preds = inst[j].preds
      /\ in[Top.phi].preds = Append(inst[Top.phi].preds, b)
  <2>1. PoolOK(inst) /\ NoneEmpty(inst) /\ Counted(inst)
    BY DEF IInv, TypeOK
  <2> DEFINE phi == Top.phi
             v == Top.result
  <2>2. /\ in = AddPhiOperand(inst, phi, b, v)
        /\ phi \in DOMAIN inst /\ b \in Nat /\ v \in Value(DOMAIN inst) /\ v # Empty
    BY <1>3, <1>4
  <2> HIDE DEF in, phi, v
  <2> DEFINE out == AddPhiOperand(inst, phi, b, v)
  <2>3. OneMoreOperand(inst, phi, b, v, out)
    BY <2>1, <2>2, AddPhiOperandEffect
  <2>4. in = out
    BY <2>2
  <2> HIDE DEF out
  <2> QED BY <2>3, <2>4 DEF phi, v, OneMoreOperand
<1> HIDE DEF in
<1>6. KindsOK(in)
  <2>1. in[Top.phi].args # <<>>
    <3>1. inst[Top.phi].args \in Seq(Value(DOMAIN inst))
      BY <1>4, PoolFacts DEF IInv, TypeOK, Inst
    <3> QED BY <1>3, <1>5, <3>1, AppendProperties
  <2> QED BY <1>5, <2>1 DEF IInv, KindsOK
<1>7. [stack EXCEPT ![n].pred = @ + 1] = [stack EXCEPT ![n] = top]
  BY <1>2
<1>8. /\ top \in Frame(DOMAIN inst) /\ top.block = Top.block /\ top.phi = Top.phi
      /\ top.pred = Top.pred + 1 /\ Top.pred \in Nat
  BY <1>2, SMTT(60) DEF Frame
<1> HIDE DEF top
<1>9. \A k \in 1 .. n - 1 : stack[k].pc = "PushPhiArgument" => stack[k].block # top.block
  BY <1>1, <1>2, <1>8 DEF IInv, OnePhiPerRead
<1>10. ASSUME top.pred <= Len(Preds(top.block))
       PROVE  current_def' = current_def
  <2>1. Top.pred < Len(Preds(Top.block))
    BY <1>2, <1>8, <1>10
  <2> QED BY <1>1, <2>1
<1>11. top.pred # 0
  BY <1>8
<1>12. PreparePhiOperand([stack EXCEPT ![n] = top], in, instructions)
  BY <1>1, <1>7
<1>13. instructions \in [Blocks -> Seq(DOMAIN in)] /\ top \in Frame(DOMAIN in)
  BY <1>5, <1>8 DEF IInv, TypeOK, PlacesOK
<1> QED BY <1>1, <1>2, <1>3, <1>4, <1>5, <1>6, <1>8, <1>9, <1>10, <1>11, <1>12, <1>13
        DEF b, in, top

\* The operand a predecessor gave is used by the phi, and counted.
LEMMA PushPhiArgumentInv ==
    ASSUME IInv, PushPhiArgument
    PROVE  IInv'
<1> DEFINE n == Len(stack)
           top == [Top EXCEPT !.pred = @ + 1]
           b == Preds(Top.block)[Top.pred]
           in == AddPhiOperand(inst, Top.phi, b, Top.result)
<1>1. /\ n > 1 /\ Top.pc = "PushPhiArgument" /\ Top.block \in Blocks /\ read \in Variable
      /\ Len(Preds(Top.block)) \in Nat
      /\ UNCHANGED incomplete_phis /\ KeepWhileReading
      /\ Contains(instructions[Top.block], Top.phi) /\ Top.phi \in DOMAIN inst
      /\ Top.pred \in 1 .. Len(Preds(Top.block))
      /\ current_def[Top.block][read] # Empty
      /\ PoolOK(in) /\ NoneEmpty(in) /\ Counted(in) /\ KindsOK(in)
      /\ DOMAIN in = DOMAIN inst
      /\ \A j \in DOMAIN inst : in[j].op = inst[j].op
      /\ \A j \in DOMAIN inst : j # Top.phi => in[j].preds = inst[j].preds
      /\ in[Top.phi].preds = Append(inst[Top.phi].preds, b)
      /\ instructions \in [Blocks -> Seq(DOMAIN in)]
      /\ top \in Frame(DOMAIN in) /\ top.block = Top.block /\ top.phi = Top.phi
      /\ top.pred = Top.pred + 1 /\ top.pred # 0
      /\ \A k \in 1 .. n - 1 :
           stack[k].pc = "PushPhiArgument" => stack[k].block # top.block
      /\ PreparePhiOperand([stack EXCEPT ![n] = top], in, instructions)
      /\ top.pred <= Len(Preds(top.block)) => current_def' = current_def
  BY PushPhiArgumentEffect
<1> HIDE DEF in, top, b
<1>2. top.pred <= Len(Preds(top.block)) =>
            /\ current_def' \in [Blocks -> [Variable -> Value(DOMAIN in)]]
            /\ current_def'[top.block][read] # Empty
            /\ \A c \in Blocks : current_def[c][read] # Empty => current_def'[c][read] # Empty
  BY <1>1 DEF IInv, TypeOK, PlacesOK
<1>3. DOMAIN inst \subseteq DOMAIN in /\ top.phi \in DOMAIN in
  BY <1>1
<1>4. /\ \A c \in Blocks : \A j : Contains(instructions[c], j) => Contains(instructions[c], j)
      /\ Contains(instructions[top.block], top.phi)
  BY <1>1
<1> QED BY <1>1, <1>2, <1>3, <1>4, PrepareInv

-----------------------------------------------------------------------------
(* IdentityRemovalPass                                                     *)

\* No variable is read any more.
LEMMA NoReadLater ==
    ASSUME IInv, phase # "rewrite"
    PROVE  read = 0 /\ stack = <<>> /\ sealing = 0
BY DEF IInv, StackOK, TypeOK

\* An argument that skips an identity moves one use from the identity on.
LEMMA SkipIdentityEffect ==
    ASSUME IInv, SkipIdentity
    PROVE  /\ phase = "identities" /\ current # 0
           /\ UNCHANGED <<program, instructions, current_def, incomplete_phis, ssa_sealed, cursor,
                          current, sealing, read, stack, to_invalidate, phase>>
           /\ PoolOK(inst') /\ NoneEmpty(inst') /\ Counted(inst') /\ KindsOK(inst')
           /\ DOMAIN inst' = DOMAIN inst
           /\ \A j \in DOMAIN inst : inst'[j].op = inst[j].op /\ inst'[j].preds = inst[j].preds
           /\ IdentityArgs # {} /\ current \in DOMAIN inst
           /\ \A j \in DOMAIN inst : j # current => inst'[j].args = inst[j].args
<1> DEFINE k == Lowest(IdentityArgs)
           old == inst[current].args[k]
           v == inst[old[2]].args[1]
           i == current
<1>1. /\ phase = "identities" /\ current # 0 /\ IdentityArgs # {}
      /\ inst' = SetArg(inst, i, k, v)
      /\ UNCHANGED <<program, instructions, current_def, incomplete_phis, ssa_sealed, cursor,
                     current, sealing, read, stack, to_invalidate, phase>>
  BY DEF SkipIdentity, defs, place
<1>2. PoolOK(inst) /\ NoneEmpty(inst) /\ Counted(inst) /\ i \in DOMAIN inst
  BY <1>1 DEF IInv, TypeOK, PlacesOK
<1>3. k \in DOMAIN inst[i].args /\ IsIdentity(inst, old)
  <2>1. IdentityArgs \subseteq Nat
    BY <1>2, PoolFacts DEF IdentityArgs
  <2>2. k \in IdentityArgs
    BY <1>1, <2>1, LowestFacts
  <2> HIDE DEF k
  <2> QED BY <2>2 DEF IdentityArgs
<1> HIDE DEF k
<1>4. old \in Value(DOMAIN inst)
  BY <1>2, <1>3, PoolFacts
<1> HIDE DEF old
<1>5. old[2] \in DOMAIN inst /\ inst[old[2]].op = "Identity"
  BY <1>3, <1>4, ValueCases DEF IsIdentity
<1>6. v \in Value(DOMAIN inst) /\ v # Empty
  <2>1. inst[old[2]].args # <<>>
    BY <1>2, <1>5 DEF PoolOK
  <2>2. 1 \in DOMAIN inst[old[2]].args
    <3>1. inst[old[2]].args \in Seq(Value(DOMAIN inst))
      BY <1>2, <1>5, PoolFacts DEF Inst
    <3> QED BY <2>1, <3>1, EmptySeq, LenProperties
  <2> QED BY <1>2, <1>5, <2>2, PoolFacts DEF NoneEmpty
<1> HIDE DEF v, i
<1> DEFINE out == SetArg(inst, i, k, v)
<1>7. /\ PoolOK(out) /\ NoneEmpty(out) /\ Counted(out)
      /\ DOMAIN out = DOMAIN inst
      /\ \A j \in DOMAIN inst : /\ out[j].op = inst[j].op /\ out[j].var = inst[j].var
                                /\ out[j].preds = inst[j].preds
      /\ \A j \in DOMAIN inst : j # i => out[j].args = inst[j].args
      /\ out[i].args = [inst[i].args EXCEPT ![k] = v]
  BY <1>2, <1>3, <1>6, SetArgEffect
<1>8. inst' = out
  BY <1>1
<1> HIDE DEF out
<1>9. KindsOK(inst')
  <2>1. out[i].args # <<>>
    <3>1. DOMAIN out[i].args = DOMAIN inst[i].args
      BY <1>7
    <3>2. DOMAIN out[i].args # {}
      BY <1>3, <3>1
    <3> QED BY <3>2
  <2> QED BY <1>7, <1>8, <2>1 DEF IInv, KindsOK
<1> QED BY <1>1, <1>2, <1>7, <1>8, <1>9 DEF i

\* Skipping an identity moves nothing.
LEMMA SkipIdentityInv ==
    ASSUME IInv, SkipIdentity
    PROVE  IInv'
<1>1. /\ phase = "identities"
      /\ UNCHANGED <<program, instructions, current_def, incomplete_phis, ssa_sealed, cursor,
                     current, sealing, read, stack, to_invalidate, phase>>
  BY SkipIdentityEffect
<1>7. /\ PoolOK(inst') /\ NoneEmpty(inst') /\ Counted(inst') /\ KindsOK(inst')
      /\ DOMAIN inst' = DOMAIN inst
  BY SkipIdentityEffect
<1>10. TypeOK'
  <2>1. PlacesOK(DOMAIN inst)'
    BY <1>1, <1>7 DEF IInv, TypeOK, PlacesOK, Blocks, Frame, Statuses
  <2> QED BY <1>1, <1>7, <2>1 DEF IInv, TypeOK, Blocks
<1>11. Listed'
  BY <1>1 DEF IInv, Listed, ListBlock
<1>12. ReadsFor' /\ StackOK' /\ PhiIsDefined' /\ OnePhiPerRead'
  <2>1. read' = 0 /\ stack' = <<>>
    BY <1>1, NoReadLater
  <2> QED BY <2>1, NoRead
<1> QED BY <1>7, <1>10, <1>11, <1>12 DEF IInv

\* An erased instruction leaves the list and not the pool.
LEMMA EraseIdentityInv ==
    ASSUME IInv, EraseIdentity
    PROVE  IInv'
<1> DEFINE list == instructions[ListBlock]
           next == NextIn(list, current)
           rest == Erase(list, current)
<1>1. /\ phase = "identities" /\ current # 0
      /\ current' = next
      /\ UNCHANGED <<program, inst, current_def, incomplete_phis, ssa_sealed, cursor,
                     sealing, read, stack, phase>>
  BY DEF EraseIdentity, defs
<1>2. /\ ListBlock \in Blocks /\ list \in Seq(DOMAIN inst)
      /\ current \in DOMAIN inst /\ Contains(list, current)
  BY <1>1, AtFacts DEF IInv, TypeOK, PlacesOK, Listed
<1>3. /\ next \in DOMAIN inst \cup {0}
      /\ next # 0 => Contains(list, next) /\ Contains(rest, next)
      /\ rest \in Seq(DOMAIN inst)
  <2>1. rest \in Seq(DOMAIN inst)
    BY <1>2, EraseFacts
  <2> QED BY <1>2, <2>1, NextInFacts
<1>4. \/ instructions' = [instructions EXCEPT ![ListBlock] = rest] /\
         to_invalidate' = Append(to_invalidate, current)
      \/ UNCHANGED <<to_invalidate, instructions>>
  BY DEF EraseIdentity
<1> HIDE DEF list, next, rest
<1>5. /\ instructions' \in [Blocks -> Seq(DOMAIN inst)]
      /\ to_invalidate' \in Seq(DOMAIN inst)
      /\ instructions'[ListBlock] \in {list, rest}
  <2>1. instructions \in [Blocks -> Seq(DOMAIN inst)] /\ to_invalidate \in Seq(DOMAIN inst)
    BY DEF IInv, TypeOK, PlacesOK
  <2>2. CASE instructions' = [instructions EXCEPT ![ListBlock] = rest] /\
             to_invalidate' = Append(to_invalidate, current)
    <3>1. Append(to_invalidate, current) \in Seq(DOMAIN inst)
      BY <1>2, <2>1, AppendProperties
    <3> QED BY <1>2, <1>3, <2>1, <2>2, <3>1
  <2>3. CASE UNCHANGED <<to_invalidate, instructions>>
    BY <2>1, <2>3 DEF list
  <2> QED BY <1>4, <2>2, <2>3
<1>6. TypeOK'
  <2>1. PlacesOK(DOMAIN inst)'
    BY <1>1, <1>3, <1>5 DEF IInv, TypeOK, PlacesOK, Blocks, Frame, Statuses
  <2> QED BY <1>1, <2>1 DEF IInv, TypeOK, Blocks
<1>7. Counted(inst)' /\ KindsOK(inst)'
  BY <1>1 DEF IInv, KindsOK, Counted
<1>8. Listed'
  <2>1. phase' # "rewrite" /\ ListBlock' = ListBlock
    BY <1>1 DEF ListBlock
  <2>2. current' # 0 => Contains(instructions'[ListBlock], current')
    BY <1>1, <1>3, <1>5
  <2> QED BY <2>1, <2>2 DEF Listed
<1>9. ReadsFor' /\ StackOK' /\ PhiIsDefined' /\ OnePhiPerRead'
  <2>1. read' = 0 /\ stack' = <<>>
    BY <1>1, NoReadLater
  <2> QED BY <2>1, NoRead
<1> QED BY <1>6, <1>7, <1>8, <1>9 DEF IInv

\* The next list is begun at its first instruction.
LEMMA NextListInv ==
    ASSUME IInv, NextList
    PROVE  IInv'
<1>1. /\ phase = "identities" /\ cursor' = cursor + 1 /\ cursor < Len(program.list)
      /\ current' = FirstOf(instructions[program.list[cursor + 1]])
      /\ UNCHANGED <<program, ir, defs, ssa_sealed, sealing, read, stack, to_invalidate, phase>>
  BY DEF NextList
<1>2. cursor + 1 \in Nat /\ cursor + 1 \in DOMAIN program.list
  <2>1. /\ cursor \in 1 .. Len(program.list) /\ Len(program.list) \in Nat
        /\ DOMAIN program.list = 1 .. Len(program.list)
    BY <1>1, ProgramFacts DEF IInv, TypeOK
  <2> QED BY <1>1, <2>1
<1>3. program.list[cursor + 1] \in Blocks
  BY <1>2, ProgramFacts DEF IInv, TypeOK
<1>4. /\ current' \in DOMAIN inst \cup {0}
      /\ current' # 0 => Contains(instructions[program.list[cursor + 1]], current')
  BY <1>1, <1>3, AtFacts, FirstOfFacts DEF IInv
<1>5. TypeOK'
  <2>1. PlacesOK(DOMAIN inst)'
    BY <1>1, <1>4 DEF IInv, TypeOK, PlacesOK, ir, defs, Blocks, Frame, Statuses
  <2> QED BY <1>1, <1>2, <2>1 DEF IInv, TypeOK, ir, Blocks
<1>6. Counted(inst)' /\ KindsOK(inst)'
  BY <1>1 DEF IInv, KindsOK, Counted, ir
<1>7. Listed'
  BY <1>1, <1>4 DEF Listed, ir, ListBlock
<1>8. ReadsFor' /\ StackOK' /\ PhiIsDefined' /\ OnePhiPerRead'
  <2>1. read' = 0 /\ stack' = <<>>
    BY <1>1, NoReadLater
  <2> QED BY <2>1, NoRead
<1> QED BY <1>5, <1>6, <1>7, <1>8 DEF IInv

\* An erased instruction gives up its uses.
LEMMA InvalidateErasedEffect ==
    ASSUME IInv, InvalidateErased
    PROVE  LET i == Head(to_invalidate)
           IN  /\ phase = "identities" /\ current = 0 /\ to_invalidate # <<>>
               /\ to_invalidate' = Tail(to_invalidate)
               /\ UNCHANGED <<program, instructions, current_def, incomplete_phis, ssa_sealed,
                              cursor, current, sealing, read, stack, phase>>
               /\ i \in DOMAIN inst /\ Tail(to_invalidate) \in Seq(DOMAIN inst)
               /\ PoolOK(inst') /\ NoneEmpty(inst') /\ Counted(inst')
               /\ DOMAIN inst' = DOMAIN inst
               /\ \A j \in DOMAIN inst : inst'[j].var = inst[j].var
               /\ \A j \in DOMAIN inst :
                    j # i => /\ inst'[j].op = inst[j].op
                             /\ inst'[j].args = inst[j].args
                             /\ inst'[j].preds = inst[j].preds
               /\ inst'[i].op = "Void" /\ inst'[i].args = <<>> /\ inst'[i].preds = <<>>
<1> DEFINE i == Head(to_invalidate)
           out == Invalidate(inst, i)
<1>1. /\ phase = "identities" /\ current = 0 /\ to_invalidate # <<>>
      /\ inst' = out
      /\ to_invalidate' = Tail(to_invalidate)
      /\ UNCHANGED <<program, instructions, current_def, incomplete_phis, ssa_sealed, cursor,
                     current, sealing, read, stack, phase>>
  BY DEF InvalidateErased, AllListed, defs, place
<1>2. PoolOK(inst) /\ NoneEmpty(inst) /\ Counted(inst) /\ to_invalidate \in Seq(DOMAIN inst)
  BY DEF IInv, TypeOK, PlacesOK
<1>3. i \in DOMAIN inst /\ Tail(to_invalidate) \in Seq(DOMAIN inst)
  BY <1>1, <1>2, HeadTailProperties
<1> HIDE DEF i
<1>4. /\ PoolOK(out) /\ NoneEmpty(out) /\ Counted(out)
      /\ DOMAIN out = DOMAIN inst
      /\ \A j \in DOMAIN inst : out[j].var = inst[j].var
      /\ \A j \in DOMAIN inst :
            j # i => /\ out[j].op = inst[j].op
                     /\ out[j].args = inst[j].args
                     /\ out[j].preds = inst[j].preds
      /\ out[i].op = "Void" /\ out[i].args = <<>> /\ out[i].preds = <<>>
  BY <1>2, <1>3, InvalidateEffect
<1> HIDE DEF out
<1> QED BY <1>1, <1>3, <1>4 DEF i

\* The instruction invalidated stays in the pool.
LEMMA InvalidateErasedInv ==
    ASSUME IInv, InvalidateErased
    PROVE  IInv'
<1> DEFINE i == Head(to_invalidate)
<1>1. /\ phase = "identities" /\ current = 0
      /\ to_invalidate' = Tail(to_invalidate)
      /\ UNCHANGED <<program, instructions, current_def, incomplete_phis, ssa_sealed, cursor,
                     current, sealing, read, stack, phase>>
  BY InvalidateErasedEffect
<1>3. i \in DOMAIN inst /\ Tail(to_invalidate) \in Seq(DOMAIN inst)
  BY InvalidateErasedEffect
<1>4. /\ PoolOK(inst') /\ NoneEmpty(inst') /\ Counted(inst')
      /\ DOMAIN inst' = DOMAIN inst
      /\ \A j \in DOMAIN inst : inst'[j].var = inst[j].var
      /\ \A j \in DOMAIN inst : j # i => inst'[j].op = inst[j].op /\ inst'[j].args = inst[j].args
      /\ inst'[i].op = "Void"
  BY InvalidateErasedEffect
<1> HIDE DEF i
<1>5. KindsOK(inst')
  BY <1>1, <1>4 DEF IInv, KindsOK
<1>6. TypeOK'
  <2>1. PlacesOK(DOMAIN inst)'
    BY <1>1, <1>3, <1>4 DEF IInv, TypeOK, PlacesOK, Blocks, Frame, Statuses
  <2> QED BY <1>1, <1>4, <2>1 DEF IInv, TypeOK, Blocks
<1>7. Listed'
  BY <1>1 DEF Listed
<1>8. ReadsFor' /\ StackOK' /\ PhiIsDefined' /\ OnePhiPerRead'
  <2>1. read' = 0 /\ stack' = <<>>
    BY <1>1, NoReadLater
  <2> QED BY <2>1, NoRead
<1> QED BY <1>1, <1>4, <1>5, <1>6, <1>7, <1>8 DEF IInv

\* Nothing is left to invalidate.
LEMMA FinishInv ==
    ASSUME IInv, Finish
    PROVE  IInv'
<1>1. /\ phase = "identities" /\ current = 0 /\ phase' = "done"
      /\ UNCHANGED <<program, ir, defs, ssa_sealed, place, read, stack, to_invalidate>>
  BY DEF Finish, AllListed
<1>2. TypeOK'
  <2>1. PlacesOK(DOMAIN inst)'
    BY <1>1 DEF IInv, TypeOK, PlacesOK, ir, defs, place, Blocks, Frame, Statuses
  <2> QED BY <1>1, <2>1, NoReadLater DEF IInv, TypeOK, ir, place, Blocks
<1>3. Counted(inst)' /\ KindsOK(inst)'
  BY <1>1 DEF IInv, KindsOK, Counted, ir
<1>4. Listed'
  BY <1>1 DEF Listed, place
<1>5. ReadsFor' /\ StackOK' /\ PhiIsDefined' /\ OnePhiPerRead'
  <2>1. read' = 0 /\ stack' = <<>>
    BY <1>1, NoReadLater
  <2> QED BY <2>1, NoRead
<1> QED BY <1>2, <1>3, <1>4, <1>5 DEF IInv

-----------------------------------------------------------------------------
(* The theorems                                                            *)

\* What a step of the passes keeps.
LEMMA StepInv ==
    ASSUME IInv, [Next]_vars
    PROVE  IInv'
<1>1. CASE VisitSet
  BY <1>1, VisitSetInv
<1>2. CASE VisitOther
  BY <1>2, VisitOtherInv
<1>3. CASE VisitGet
  BY <1>3, VisitGetInv
<1>4. CASE ReplaceGet
  BY <1>4, ReplaceGetInv
<1>5. CASE BeginSeal
  BY <1>5, BeginSealInv
<1>6. CASE ReadOperand
  BY <1>6, ReadOperandInv
<1>7. CASE PushOperand
  BY <1>7, PushOperandInv
<1>8. CASE CompletePhi
  BY <1>8, CompletePhiInv
<1>9. CASE SealBlock
  BY <1>9, SealBlockInv
<1>10. CASE ReadDefined
  BY <1>10, ReadDefinedInv
<1>11. CASE ReadUnsealed
  BY <1>11, ReadUnsealedInv
<1>12. CASE ReadOnePredecessor
  BY <1>12, ReadOnePredecessorInv
<1>13. CASE ReadManyPredecessors
  BY <1>13, ReadManyPredecessorsInv
<1>14. CASE SetValue
  BY <1>14, SetValueInv
<1>15. CASE PushPhiArgument
  BY <1>15, PushPhiArgumentInv
<1>16. CASE SkipIdentity
  BY <1>16, SkipIdentityInv
<1>17. CASE EraseIdentity
  BY <1>17, EraseIdentityInv
<1>18. CASE NextList
  BY <1>18, NextListInv
<1>19. CASE InvalidateErased
  BY <1>19, InvalidateErasedInv
<1>20. CASE Finish
  BY <1>20, FinishInv
<1>21. CASE UNCHANGED vars
  <2>1. UNCHANGED <<program, inst, instructions, current_def, incomplete_phis, ssa_sealed,
                    cursor, current, sealing, read, stack, to_invalidate, phase>>
    BY <1>21 DEF vars, ir, defs, place
  <2>2. TypeOK'
    <3>1. PlacesOK(DOMAIN inst)'
      BY <2>1 DEF IInv, TypeOK, PlacesOK, Blocks, Frame, Statuses
    <3> QED BY <2>1, <3>1 DEF IInv, TypeOK, Blocks
  <2>3. Counted(inst)' /\ KindsOK(inst)'
    BY <2>1 DEF IInv, KindsOK, Counted
  <2>4. Listed' /\ ReadsFor'
    BY <2>1 DEF IInv, Listed, ReadsFor, Blocks, Block, ListBlock, Preds
  <2>5. StackOK'
    BY <2>1 DEF IInv, StackOK, Blocks, Preds, Top, Last
  <2>6. PhiIsDefined' /\ OnePhiPerRead'
    BY <2>1 DEF IInv, PhiIsDefined, OnePhiPerRead
  <2> QED BY <2>2, <2>3, <2>4, <2>5, <2>6 DEF IInv
<1> QED BY <1>1, <1>2, <1>3, <1>4, <1>5, <1>6, <1>7, <1>8, <1>9, <1>10, <1>11, <1>12, <1>13,
           <1>14, <1>15, <1>16, <1>17, <1>18, <1>19, <1>20, <1>21
        DEF Next, Rewrite, Terminated

\* The invariant of both passes, for every set of well formed programs.
THEOREM Inductive == Spec => []IInv
<1>1. Init => IInv
  BY InitInv
<1>2. IInv /\ [Next]_vars => IInv'
  BY StepInv
<1> QED BY <1>1, <1>2, PTL DEF Spec

\* Whatever the program, an instruction that was not replaced counts exactly
\* the arguments that name it, at every step of both passes.
THEOREM CountsAreExact == Spec => []UsesAreCounted
<1>1. IInv => UsesAreCounted
  BY DEF IInv, Counted, UsesAreCounted
<1> QED BY <1>1, Inductive, PTL

\* Whatever the program and however its loops nest, a read of a variable makes at
\* most one phi for a block.
THEOREM ReadsMakeOnePhi == Spec => []OnePhiPerRead
<1>1. IInv => OnePhiPerRead
  BY DEF IInv
<1> QED BY <1>1, Inductive, PTL
=============================================================================
