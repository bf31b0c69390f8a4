---------------------------- MODULE PostOrderProofs ----------------------------
(***************************************************************************)
(* The properties of PostOrder hold for every set of blocks and every      *)
(* graph, with or without loops, self-loops and unreachable blocks.  The   *)
(* inductive invariant is PostOrder!IInv.                                  *)
(***************************************************************************)
EXTENDS PostOrder, SequenceTheorems, TLAPS

-----------------------------------------------------------------------------
(* Sequences.                                                              *)

\* What Append adds to the elements of a sequence.
LEMMA AppendLemma ==
    ASSUME NEW S, NEW s \in Seq(S), NEW x \in S
    PROVE  /\ Append(s, x) \in Seq(S)
           /\ Len(Append(s, x)) = Len(s) + 1
           /\ DOMAIN s = 1 .. Len(s)
           /\ DOMAIN Append(s, x) = 1 .. Len(s) + 1
           /\ \A i \in 1 .. Len(s) : Append(s, x)[i] = s[i]
           /\ Append(s, x)[Len(s) + 1] = x
           /\ Elems(Append(s, x)) = Elems(s) \cup {x}
<1>1. /\ Append(s, x) \in Seq(S)
      /\ Len(Append(s, x)) = Len(s) + 1
      /\ DOMAIN s = 1 .. Len(s)
      /\ Len(s) \in Nat
      /\ DOMAIN Append(s, x) = 1 .. Len(s) + 1
      /\ \A i \in 1 .. Len(s) : Append(s, x)[i] = s[i]
      /\ Append(s, x)[Len(s) + 1] = x
  BY AppendProperties, LenProperties
<1>2. Elems(Append(s, x)) = Elems(s) \cup {x}
  BY <1>1 DEF Elems
<1>3. QED  BY <1>1, <1>2

\* Taking the last element off a sequence.
LEMMA PopLemma ==
    ASSUME NEW S, NEW s \in Seq(S), s # <<>>
    PROVE  /\ Len(s) \in Nat \ {0}
           /\ DOMAIN s = 1 .. Len(s)
           /\ s[Len(s)] \in S
           /\ SubSeq(s, 1, Len(s) - 1) \in Seq(S)
           /\ DOMAIN SubSeq(s, 1, Len(s) - 1) = 1 .. Len(s) - 1
           /\ \A i \in 1 .. Len(s) - 1 : SubSeq(s, 1, Len(s) - 1)[i] = s[i]
           /\ Elems(s) = Elems(SubSeq(s, 1, Len(s) - 1)) \cup {s[Len(s)]}
<1> DEFINE t == SubSeq(s, 1, Len(s) - 1)
<1>1. /\ Len(s) \in Nat \ {0}
      /\ DOMAIN s = 1 .. Len(s)
      /\ \A i \in 1 .. Len(s) : s[i] \in S
  BY EmptySeq, LenProperties, ElementOfSeq
<1>2. /\ t \in Seq(S)
      /\ Len(t) = Len(s) - 1
      /\ \A i \in 1 .. Len(s) - 1 : t[i] = s[i]
  BY <1>1, SubSeqProperties
<1>3. DOMAIN t = 1 .. Len(s) - 1
  BY <1>2, LenProperties
<1>4. Elems(s) = Elems(t) \cup {s[Len(s)]}
  <2>1. \A i \in 1 .. Len(s) - 1 : s[i] \in Elems(t)
    BY <1>2, <1>3 DEF Elems
  <2>2. \A n \in Nat \ {0} : \A i \in 1 .. n : i \in 1 .. n - 1 \/ i = n
    OBVIOUS
  <2>3. Elems(s) \subseteq Elems(t) \cup {s[Len(s)]}
    BY <1>1, <2>1, <2>2 DEF Elems
  <2>4. Elems(t) \subseteq Elems(s) /\ s[Len(s)] \in Elems(s)
    BY <1>1, <1>2, <1>3 DEF Elems
  <2>5. QED  BY <2>3, <2>4
<1>5. QED  BY <1>1, <1>2, <1>3, <1>4

-----------------------------------------------------------------------------
(* Reachability.                                                           *)

\* A block reaches itself, by the empty path.
LEMMA ReachesSelf == \A a : Reaches(a, a)
  BY DEF Reaches

\* Two paths in a row are a path.
LEMMA ReachesTransitive ==
    ASSUME NEW a, NEW b, NEW c, Reaches(a, b), Reaches(b, c)
    PROVE  Reaches(a, c)
  BY DEF Reaches

\* A successor of what is reached is reached.
LEMMA ReachesSuccessor ==
    ASSUME NEW a, NEW b, NEW c \in Elems(imm_successors[b]), Reaches(a, b)
    PROVE  Reaches(a, c)
  BY DEF Reaches, Closed

\* The graph does not change, so neither does reachability.
LEMMA ReachesStable ==
    ASSUME imm_successors' = imm_successors
    PROVE  \A a, b : Reaches(a, b) <=> Reaches(a, b)'
  BY DEF Reaches, Closed

-----------------------------------------------------------------------------
\* The invariant holds when the walk starts: First alone is visited, on the stack.
LEMMA InitIInv == Init => IInv
<1> SUFFICES ASSUME Init PROVE IInv
  OBVIOUS
<1>1. /\ First \in Block
      /\ imm_successors \in [Block -> Seq(Block)]
      /\ block_stack = <<First>>
      /\ visited = {First}
      /\ post_order_blocks = <<>>
  BY FirstAssumption, GraphsAssumption DEF Init
<1>2. /\ Elems(block_stack) = {First}
      /\ Elems(post_order_blocks) = {}
      /\ DOMAIN block_stack = {1}
      /\ block_stack[1] = First
      /\ DOMAIN post_order_blocks = {}
  BY <1>1 DEF Elems
<1>3. TypeOK
  BY <1>1 DEF TypeOK
<1>4. VisitedIsStackOrListed
  BY <1>1, <1>2 DEF VisitedIsStackOrListed, NoDuplicates
<1>5. StackIsAPath
  BY <1>2, ReachesSelf DEF StackIsAPath
<1>6. VisitedFromFirst
  BY <1>1, ReachesSelf DEF VisitedFromFirst
<1>7. ListedIsComplete /\ SuccessorsFirst
  BY <1>2 DEF ListedIsComplete, SuccessorsFirst
<1>8. QED  BY <1>3, <1>4, <1>5, <1>6, <1>7 DEF IInv

\* A step that leaves every variable alone.
LEMMA StutterIInv == IInv /\ UNCHANGED vars => IInv'
  BY DEF IInv, vars, TypeOK, VisitedIsStackOrListed, StackIsAPath, VisitedFromFirst,
         ListedIsComplete, SuccessorsFirst, Reaches, Closed

\* Pushing a successor that was not visited keeps the invariant: the path on the
\* stack grows by an edge.
LEMMA DescendIInv == IInv /\ Descend => IInv'
<1> SUFFICES ASSUME IInv, Descend PROVE IInv'
  OBVIOUS
<1> DEFINE n == Len(block_stack)
<1>1. PICK i \in DOMAIN imm_successors[Top] :
          /\ imm_successors[Top][i] \notin visited
          /\ visited' = visited \cup {imm_successors[Top][i]}
          /\ block_stack' = Append(block_stack, imm_successors[Top][i])
  BY DEF Descend
<1> DEFINE branch == imm_successors[Top][i]
<1>2. /\ block_stack # <<>>
      /\ imm_successors' = imm_successors
      /\ post_order_blocks' = post_order_blocks
  BY DEF Descend
<1>3. /\ n \in Nat \ {0} /\ DOMAIN block_stack = 1 .. n
      /\ Top = block_stack[n] /\ Top \in Block
  BY <1>2, PopLemma DEF IInv, TypeOK, Top
<1>4. branch \in Block /\ branch \in Elems(imm_successors[Top])
  BY <1>3, ElementOfSeq, LenProperties DEF IInv, TypeOK, Elems
<1>5. /\ block_stack' \in Seq(Block)
      /\ DOMAIN block_stack' = 1 .. n + 1
      /\ \A k \in 1 .. n : block_stack'[k] = block_stack[k]
      /\ block_stack'[n + 1] = branch
      /\ Elems(block_stack') = Elems(block_stack) \cup {branch}
  BY <1>1, <1>4, AppendLemma DEF IInv, TypeOK
<1>6. branch \notin Elems(block_stack) /\ branch \notin Elems(post_order_blocks)
  BY <1>1 DEF IInv, VisitedIsStackOrListed
<1>7. TypeOK'
  BY <1>1, <1>2, <1>4, <1>5 DEF IInv, TypeOK
<1>8. VisitedIsStackOrListed'
  <2>1. NoDuplicates(block_stack')
    BY <1>3, <1>5, <1>6 DEF IInv, VisitedIsStackOrListed, NoDuplicates, Elems
  <2>2. QED
    BY <1>1, <1>2, <1>5, <1>6, <2>1 DEF IInv, VisitedIsStackOrListed
<1>9. StackIsAPath'
  <2> SUFFICES ASSUME NEW k \in 1 .. n + 1, NEW l \in 1 .. n + 1, k <= l
               PROVE  Reaches(block_stack'[k], block_stack'[l])
    BY <1>2, <1>5, ReachesStable DEF StackIsAPath
  <2>1. CASE l <= n
    BY <1>3, <1>5, <2>1 DEF IInv, StackIsAPath
  <2>2. CASE k <= n /\ l = n + 1
    <3>1. Reaches(block_stack[k], Top)
      BY <1>3, <2>2 DEF IInv, StackIsAPath
    <3>2. QED  BY <1>3, <1>4, <1>5, <2>2, <3>1, ReachesSuccessor
  <2>3. CASE k = n + 1 /\ l = n + 1
    BY <2>3, ReachesSelf
  <2>4. QED  BY <1>3, <2>1, <2>2, <2>3
<1>10. VisitedFromFirst'
  <2>1. Top \in visited
    BY <1>3 DEF IInv, VisitedIsStackOrListed, Elems
  <2>2. Reaches(First, branch)
    BY <1>4, <2>1, ReachesSuccessor DEF IInv, VisitedFromFirst
  <2>3. \A b \in visited' : Reaches(First, b)
    BY <1>1, <2>2 DEF IInv, VisitedFromFirst
  <2>4. QED
    BY <1>1, <1>2, <2>3, ReachesStable DEF IInv, VisitedFromFirst
<1>11. ListedIsComplete'
  <2> SUFFICES ASSUME NEW j \in DOMAIN post_order_blocks
               PROVE  LET listed == Elems(imm_successors[post_order_blocks[j]])
                      IN  /\ listed \subseteq visited'
                          /\ \A c \in listed : c \in Elems(block_stack')
                                => Reaches(c, post_order_blocks[j])
    BY <1>2, ReachesStable DEF ListedIsComplete, Elems
  <2>1. Elems(imm_successors[post_order_blocks[j]]) \subseteq visited
    BY DEF IInv, ListedIsComplete
  <2>2. branch \notin Elems(imm_successors[post_order_blocks[j]])
    BY <1>1, <2>1
  <2>3. QED
    BY <1>1, <1>5, <2>1, <2>2 DEF IInv, ListedIsComplete
<1>12. SuccessorsFirst'
  BY <1>2, ReachesStable DEF IInv, SuccessorsFirst, Elems
<1>13. QED
  BY <1>7, <1>8, <1>9, <1>10, <1>11, <1>12 DEF IInv

\* Listing the block on top of the stack keeps the invariant: its successors were
\* visited, and those on the stack reach it along the stack.
LEMMA EmitIInv == IInv /\ Emit => IInv'
<1> SUFFICES ASSUME IInv, Emit PROVE IInv'
  OBVIOUS
<1> DEFINE n == Len(block_stack)
           m == Len(post_order_blocks)
<1>1. /\ block_stack # <<>>
      /\ Elems(imm_successors[Top]) \subseteq visited
      /\ block_stack' = Popped
      /\ post_order_blocks' = Append(post_order_blocks, Top)
      /\ imm_successors' = imm_successors
      /\ visited' = visited
  BY DEF Emit
<1>2. /\ n \in Nat \ {0} /\ DOMAIN block_stack = 1 .. n
      /\ Top = block_stack[n] /\ Top \in Block
      /\ block_stack' \in Seq(Block)
      /\ DOMAIN block_stack' = 1 .. n - 1
      /\ \A k \in 1 .. n - 1 : block_stack'[k] = block_stack[k]
      /\ Elems(block_stack) = Elems(block_stack') \cup {Top}
  BY <1>1, PopLemma DEF IInv, TypeOK, Top, Popped
<1>3. /\ m \in Nat
      /\ post_order_blocks' \in Seq(Block)
      /\ DOMAIN post_order_blocks = 1 .. m
      /\ DOMAIN post_order_blocks' = 1 .. m + 1
      /\ \A k \in 1 .. m : post_order_blocks'[k] = post_order_blocks[k]
      /\ post_order_blocks'[m + 1] = Top
      /\ Elems(post_order_blocks') = Elems(post_order_blocks) \cup {Top}
  BY <1>1, <1>2, AppendLemma, LenProperties DEF IInv, TypeOK
<1>4. Top \notin Elems(block_stack')
  BY <1>2 DEF IInv, VisitedIsStackOrListed, NoDuplicates, Elems
<1>5. Top \notin Elems(post_order_blocks)
  BY <1>2 DEF IInv, VisitedIsStackOrListed
<1>6. TypeOK'
  BY <1>1, <1>2, <1>3 DEF IInv, TypeOK
<1>7. VisitedIsStackOrListed'
  <2>1. NoDuplicates(block_stack')
    BY <1>2 DEF IInv, VisitedIsStackOrListed, NoDuplicates
  <2>2. NoDuplicates(post_order_blocks')
    BY <1>3, <1>5 DEF IInv, VisitedIsStackOrListed, NoDuplicates, Elems
  <2>3. QED
    BY <1>1, <1>2, <1>3, <1>4, <2>1, <2>2 DEF IInv, VisitedIsStackOrListed
<1>8. StackIsAPath'
  BY <1>1, <1>2, ReachesStable DEF IInv, StackIsAPath
<1>9. VisitedFromFirst'
  BY <1>1, ReachesStable DEF IInv, VisitedFromFirst
\* What is still on the stack leads to the block that was on its top.
<1>10. \A c \in Elems(block_stack) : Reaches(c, Top)
  BY <1>2 DEF IInv, StackIsAPath, Elems
<1>11. ListedIsComplete'
  <2> DEFINE Listed(j) == Elems(imm_successors[post_order_blocks'[j]])
  <2> SUFFICES ASSUME NEW j \in 1 .. m + 1
               PROVE  /\ Listed(j) \subseteq visited
                      /\ \A c \in Listed(j) : c \in Elems(block_stack')
                                => Reaches(c, post_order_blocks'[j])
    <3>1. \A j \in 1 .. m + 1 : \A c :
             Reaches(c, post_order_blocks'[j]) => Reaches(c, post_order_blocks[j])'
      BY <1>1 DEF Reaches, Closed
    <3>2. QED  BY <1>1, <1>3, <3>1 DEF ListedIsComplete
  <2>1. CASE j \in 1 .. m
    BY <1>2, <1>3, <2>1 DEF IInv, ListedIsComplete
  <2>2. CASE j = m + 1
    BY <1>1, <1>2, <1>3, <1>10, <2>2
  <2>3. QED  BY <1>3, <2>1, <2>2
<1>12. SuccessorsFirst'
  <2> SUFFICES ASSUME NEW i \in 1 .. m + 1, NEW j \in 1 .. m + 1, i < j,
                      post_order_blocks'[j] \in Elems(imm_successors[post_order_blocks'[i]])
               PROVE  Reaches(post_order_blocks'[j], post_order_blocks'[i])
    <3>1. \A i, j \in 1 .. m + 1 :
             Reaches(post_order_blocks'[j], post_order_blocks'[i])
                => Reaches(post_order_blocks[j], post_order_blocks[i])'
      BY <1>1 DEF Reaches, Closed
    <3>2. QED  BY <1>1, <1>3, <3>1 DEF SuccessorsFirst
  <2>1. CASE j \in 1 .. m
    BY <1>3, <2>1 DEF IInv, SuccessorsFirst
  <2>2. CASE j = m + 1
    <3>1. i \in 1 .. m /\ Top \in Elems(imm_successors[post_order_blocks[i]])
      BY <1>3, <2>2
    <3>2. Reaches(Top, post_order_blocks[i])
      BY <1>2, <1>3, <3>1 DEF IInv, ListedIsComplete
    <3>3. QED  BY <1>3, <2>2, <3>1, <3>2
  <2>3. QED  BY <1>3, <2>1, <2>2
<1>13. QED
  BY <1>6, <1>7, <1>8, <1>9, <1>11, <1>12 DEF IInv

\* IInv holds at every step of the walk.
THEOREM Inductive == Spec => []IInv
<1>1. IInv /\ [Next]_vars => IInv'
  BY StutterIInv, DescendIInv, EmitIInv DEF Next, Terminated
<1>2. QED  BY InitIInv, <1>1, PTL DEF Spec

\* The variables keep their types, whatever the graph.
THEOREM TypeCorrect == Spec => []TypeOK
<1>1. IInv => TypeOK
  BY DEF IInv
<1>2. QED  BY Inductive, <1>1, PTL

\* At the end the list is a permutation of the blocks reachable from the first.
THEOREM ReachableListed == Spec => []ListsTheReachable
<1>1. IInv => ListsTheReachable
  <2> SUFFICES ASSUME IInv, Done PROVE ListsTheReachable
    BY DEF ListsTheReachable
  <2>1. Elems(block_stack) = {} /\ visited = Elems(post_order_blocks)
    BY DEF Done, Elems, IInv, VisitedIsStackOrListed
  <2>2. visited \in SUBSET Block /\ First \in visited
    BY DEF IInv, TypeOK, VisitedFromFirst
  <2>3. Closed(visited)
    BY <2>1 DEF Closed, IInv, ListedIsComplete, Elems
  <2>4. \A b \in Block : Reaches(First, b) => b \in visited
    BY <2>2, <2>3 DEF Reaches
  <2>5. \A b \in visited : Reaches(First, b)
    BY DEF IInv, VisitedFromFirst
  <2>6. QED
    BY <2>1, <2>4, <2>5 DEF ListsTheReachable, IInv, VisitedIsStackOrListed
<1>2. QED  BY Inductive, <1>1, PTL

\* Only an edge that closes a loop goes to a block listed later.
THEOREM OnlyLoopsGoBack == Spec => []SuccessorsFirst
<1>1. IInv => SuccessorsFirst
  BY DEF IInv
<1>2. QED  BY Inductive, <1>1, PTL
=============================================================================
