-------------------------- MODULE TranslatePassProofs ---------------------------
(***************************************************************************)
(* What holds of the IR blocks, their edges and the syntax list that       *)
(* TranslatePass makes of every set of control flow graphs of any size.    *)
(*                                                                         *)
(* The way: what the goto pass leaves of the order BuildTree lists         *)
(* statements in (Opened: every If and Loop has a statement that opens a   *)
(* block); the list and the edges by themselves (Layout) and what a new    *)
(* node, a new block and a node filled in do to them; the call stack and   *)
(* the blocks its calls have reserved (Frames, Build); where in the tree   *)
(* the calls are (Walks, OnlyLabels); a lemma for each case of Visit; and  *)
(* the list and the edges when the root's Visit has returned (Finished).   *)
(***************************************************************************)
EXTENDS TranslatePass, GotoPassProofs

-----------------------------------------------------------------------------
(* What the goto pass leaves of the order BuildTree lists statements in    *)

\* Every label in the list has the reset of its variable behind it.
LabelsFollowed(st, list) ==
    \A i \in 1 .. Len(list) :
        st[list[i]].type = "Label" => i < Len(list) /\ st[list[i + 1]].type = "SetVariable"

\* Some statement of the list opens a block when it is visited.
Opens(st, list) == \E i \in 1 .. Len(list) : st[list[i]].type \notin {"Label", "Goto"}

StartsWithReset(st, list) == Len(list) # 0 /\ st[list[1]].type = "SetVariable"

\* The list of p has its labels followed; it opens a block if p is an If or a Loop
\* and starts with a reset if p is the root.
WellOpened(st, p) ==
    /\ LabelsFollowed(st, Children(st, p))
    /\ st[p].type \in {"If", "Loop"} => Opens(st, Children(st, p))
    /\ p = Root => StartsWithReset(st, Children(st, p))

Opened(st) == \A p \in DOMAIN st : WellOpened(st, p)

\* The parts of a list.
LEMMA JoinedAt ==
    ASSUME NEW D, NEW X \in Seq(D), NEW Y \in Seq(D)
    PROVE  /\ X \o Y \in Seq(D) /\ Len(X) \in Nat /\ Len(Y) \in Nat
           /\ Len(X \o Y) = Len(X) + Len(Y)
           /\ \A i \in 1 .. Len(X) : (X \o Y)[i] = X[i]
           /\ \A i \in 1 .. Len(Y) : (X \o Y)[Len(X) + i] = Y[i]
<1>1. X \o Y \in Seq(D) /\ Len(X) \in Nat /\ Len(Y) \in Nat /\ Len(X \o Y) = Len(X) + Len(Y)
  BY LenProperties, ConcatProperties
<1>2. \A i \in 1 .. Len(X) + Len(Y) : (X \o Y)[i] = IF i <= Len(X) THEN X[i] ELSE Y[i - Len(X)]
  BY ConcatProperties
<1> DEFINE m == Len(X)
           n == Len(Y)
           u == X \o Y
<1>3. \A i \in 1 .. m : u[i] = X[i]
  <2>1. \A i \in 1 .. m : i \in 1 .. m + n /\ i <= m
    BY <1>1
  <2> QED BY <1>2, <2>1
<1>4. \A i \in 1 .. n : u[m + i] = Y[i]
  <2>1. \A i \in 1 .. n : m + i \in 1 .. m + n /\ ~(m + i <= m) /\ (m + i) - m = i
    BY <1>1
  <2> QED BY <1>2, <2>1
<1> QED BY <1>1, <1>3, <1>4

\* Labels are followed in two lists put together, and in parts of one that is cut
\* where no reset stands.
LEMMA FollowedParts ==
    ASSUME NEW st, NEW D, NEW X \in Seq(D), NEW Y \in Seq(D)
    PROVE  /\ LabelsFollowed(st, X) /\ LabelsFollowed(st, Y) => LabelsFollowed(st, X \o Y)
           /\ LabelsFollowed(st, X \o Y) => LabelsFollowed(st, Y)
           /\ LabelsFollowed(st, X \o Y) /\ (Len(Y) # 0 => st[Y[1]].type # "SetVariable")
              => LabelsFollowed(st, X)
<1> DEFINE m == Len(X)
           n == Len(Y)
           u == X \o Y
<1>1. /\ m \in Nat /\ n \in Nat /\ Len(u) = m + n
      /\ \A i \in 1 .. m : u[i] = X[i]
      /\ \A i \in 1 .. n : u[m + i] = Y[i]
  BY JoinedAt
<1> HIDE DEF u
<1>2. ASSUME LabelsFollowed(st, X), LabelsFollowed(st, Y), NEW i \in 1 .. Len(u),
             st[u[i]].type = "Label"
      PROVE  i < Len(u) /\ st[u[i + 1]].type = "SetVariable"
  <2>1. CASE i \in 1 .. m
    <3>1. i < m /\ st[X[i + 1]].type = "SetVariable"
      BY <1>1, <1>2, <2>1 DEF LabelsFollowed
    <3>2. i + 1 \in 1 .. m /\ i < m + n
      BY <1>1, <2>1, <3>1
    <3> QED BY <1>1, <3>1, <3>2
  <2>2. CASE i \notin 1 .. m
    <3>1. i - m \in 1 .. n /\ m + (i - m) = i
      BY <1>1, <1>2, <2>2
    <3>2. i - m < n /\ st[Y[(i - m) + 1]].type = "SetVariable"
      BY <1>1, <1>2, <3>1 DEF LabelsFollowed
    <3>3. (i - m) + 1 \in 1 .. n /\ m + ((i - m) + 1) = i + 1 /\ i < m + n
      BY <1>1, <3>1, <3>2
    <3> QED BY <1>1, <3>2, <3>3
  <2> QED BY <2>1, <2>2
<1>3. ASSUME LabelsFollowed(st, u), NEW i \in 1 .. n, st[Y[i]].type = "Label"
      PROVE  i < n /\ st[Y[i + 1]].type = "SetVariable"
  <2>1. m + i \in 1 .. m + n /\ (m + i) + 1 = m + (i + 1)
    BY <1>1
  <2>2. m + i < m + n /\ st[u[(m + i) + 1]].type = "SetVariable"
    BY <1>1, <1>3, <2>1 DEF LabelsFollowed
  <2>3. i < n /\ i + 1 \in 1 .. n
    BY <1>1, <2>2
  <2> QED BY <1>1, <2>1, <2>2, <2>3
<1>4. ASSUME LabelsFollowed(st, u), n # 0 => st[Y[1]].type # "SetVariable",
             NEW i \in 1 .. m, st[X[i]].type = "Label"
      PROVE  i < m /\ st[X[i + 1]].type = "SetVariable"
  <2>1. i \in 1 .. m + n
    BY <1>1
  <2>2. i < m + n /\ st[u[i + 1]].type = "SetVariable"
    BY <1>1, <1>4, <2>1 DEF LabelsFollowed
  <2>3. ~(i = m)
    <3> SUFFICES ASSUME i = m PROVE FALSE
      OBVIOUS
    <3>1. n # 0 /\ 1 \in 1 .. n
      BY <1>1, <2>2
    <3> QED BY <1>1, <1>4, <2>2, <3>1
  <2>4. i < m /\ i + 1 \in 1 .. m
    BY <1>1, <2>3
  <2> QED BY <1>1, <2>2, <2>4
<1>5. LabelsFollowed(st, X) /\ LabelsFollowed(st, Y) => LabelsFollowed(st, u)
  <2> SUFFICES ASSUME LabelsFollowed(st, X), LabelsFollowed(st, Y) PROVE LabelsFollowed(st, u)
    OBVIOUS
  <2> QED BY <1>2 DEF LabelsFollowed
<1>6. LabelsFollowed(st, u) => LabelsFollowed(st, Y)
  BY <1>3 DEF LabelsFollowed
<1>7. LabelsFollowed(st, u) /\ (n # 0 => st[Y[1]].type # "SetVariable") => LabelsFollowed(st, X)
  BY <1>4 DEF LabelsFollowed
<1> QED BY <1>5, <1>6, <1>7 DEF u

\* The statement z in the middle is no reset: the list can be cut before it.
LEMMA FollowedCut ==
    ASSUME NEW st, NEW D, NEW X \in Seq(D), NEW z \in D, NEW Y \in Seq(D),
           LabelsFollowed(st, (X \o <<z>>) \o Y)
    PROVE  /\ LabelsFollowed(st, Y)
           /\ st[z].type # "SetVariable" => LabelsFollowed(st, X)
<1>1. <<z>> \in Seq(D) /\ Len(<<z>>) = 1 /\ <<z>>[1] = z
  OBVIOUS
<1>2. X \o <<z>> \in Seq(D) /\ <<z>> \o Y \in Seq(D)
  BY <1>1, ConcatProperties
<1>3. (X \o <<z>>) \o Y = X \o (<<z>> \o Y)
  BY <1>1, ConcatAssociative
<1>4. Len(Y) \in Nat /\ Len(<<z>> \o Y) = 1 + Len(Y) /\ 1 \in 1 .. 1 + Len(Y)
  BY <1>1, ConcatProperties, LenProperties
<1>5. (<<z>> \o Y)[1] = z
  BY <1>1, <1>4, ConcatProperties
<1>6. LabelsFollowed(st, Y)
  BY <1>2, FollowedParts
<1>7. st[z].type # "SetVariable" => LabelsFollowed(st, X)
  BY <1>2, <1>3, <1>5, FollowedParts
<1> QED BY <1>6, <1>7

\* A list of one statement that is no label.
LEMMA FollowedOne ==
    ASSUME NEW st, NEW z, st[z].type # "Label"
    PROVE  LabelsFollowed(st, <<z>>)
<1>1. Len(<<z>>) = 1 /\ <<z>>[1] = z
  OBVIOUS
<1>2. \A i \in 1 .. 1 : i = 1
  OBVIOUS
<1> QED BY <1>1, <1>2 DEF LabelsFollowed

\* The empty list.
LEMMA FollowedNone == ASSUME NEW st PROVE LabelsFollowed(st, <<>>)
BY EmptySeq DEF LabelsFollowed

\* A list of two statements that are no labels.
LEMMA FollowedTwo ==
    ASSUME NEW st, NEW y, NEW z, st[y].type # "Label", st[z].type # "Label"
    PROVE  LabelsFollowed(st, <<y, z>>)
<1>1. Len(<<y, z>>) = 2 /\ <<y, z>>[1] = y /\ <<y, z>>[2] = z
  OBVIOUS
<1>2. \A i \in 1 .. 2 : i = 1 \/ i = 2
  OBVIOUS
<1> QED BY <1>1, <1>2 DEF LabelsFollowed

\* The list has something that opens a block.
LEMMA OpensMeans ==
    ASSUME NEW st, NEW list
    PROVE  Opens(st, list) <=> \E c : Contains(list, c) /\ st[c].type \notin {"Label", "Goto"}
BY DEF Opens, Contains

\* A list that does not begin with a goto opens a block.
LEMMA FollowedOpens ==
    ASSUME NEW st, NEW D, NEW list \in Seq(D), list # <<>>, LabelsFollowed(st, list),
           st[list[1]].type # "Goto"
    PROVE  Opens(st, list)
<1>1. Len(list) \in Nat /\ Len(list) # 0
  BY LenProperties, EmptySeq
<1>2. 1 \in 1 .. Len(list)
  BY <1>1
<1>3. CASE st[list[1]].type # "Label"
  BY <1>2, <1>3 DEF Opens, Contains
<1>4. CASE st[list[1]].type = "Label"
  <2>1. 1 < Len(list) /\ st[list[1 + 1]].type = "SetVariable"
    BY <1>2, <1>4 DEF LabelsFollowed
  <2>2. 1 + 1 \in 1 .. Len(list)
    BY <1>1, <2>1
  <2> QED BY <2>1, <2>2 DEF Opens
<1> QED BY <1>3, <1>4

\* The list of the root can be cut behind its first reset, and more can be put behind
\* it.
LEMMA StartCut ==
    ASSUME NEW st, NEW D, NEW X \in Seq(D), NEW z \in D, NEW Y \in Seq(D), NEW W \in Seq(D)
    PROVE  /\ StartsWithReset(st, (X \o <<z>>) \o Y) /\ st[z].type # "SetVariable"
              => StartsWithReset(st, X)
           /\ StartsWithReset(st, X) => StartsWithReset(st, X \o W)
<1>1. <<z>> \in Seq(D) /\ Len(<<z>>) = 1 /\ <<z>>[1] = z
  OBVIOUS
<1>2. Len(X) \in Nat /\ Len(Y) \in Nat /\ Len(W) \in Nat
  BY LenProperties
<1>3. ASSUME StartsWithReset(st, (X \o <<z>>) \o Y), st[z].type # "SetVariable"
      PROVE  StartsWithReset(st, X)
  <2>0. X \o <<z>> \in Seq(D) /\ Len(X \o <<z>>) = Len(X) + 1
    BY <1>1, ConcatProperties
  <2>1. 1 \in 1 .. Len(X \o <<z>>)
    BY <1>2, <2>0
  <2>2. ((X \o <<z>>) \o Y)[1] = (X \o <<z>>)[1]
    BY <2>0, <2>1, JoinedAt
  <2>3. CASE Len(X) = 0
    <3>1. (X \o <<z>>)[0 + 1] = <<z>>[1]
      BY <1>1, <2>3, JoinedAt
    <3> QED BY <1>1, <1>3, <2>2, <3>1 DEF StartsWithReset
  <2>4. CASE Len(X) # 0
    <3>1. 1 \in 1 .. Len(X)
      BY <1>2, <2>4
    <3>2. (X \o <<z>>)[1] = X[1]
      BY <1>1, <3>1, JoinedAt
    <3> QED BY <1>3, <2>2, <2>4, <3>2 DEF StartsWithReset
  <2> QED BY <2>3, <2>4
<1>4. ASSUME StartsWithReset(st, X) PROVE StartsWithReset(st, X \o W)
  <2>1. 1 \in 1 .. Len(X) /\ Len(X \o W) # 0
    BY <1>2, <1>4, JoinedAt DEF StartsWithReset
  <2>2. (X \o W)[1] = X[1]
    BY <2>1, JoinedAt
  <2> QED BY <1>4, <2>1, <2>2 DEF StartsWithReset
<1> QED BY <1>3, <1>4

\* Only the types of the statements matter.
LEMMA OpenedSame ==
    ASSUME NEW st, NEW s2, NEW D, NEW list \in Seq(D), \A x \in D : s2[x].type = st[x].type
    PROVE  /\ LabelsFollowed(s2, list) <=> LabelsFollowed(st, list)
           /\ Opens(s2, list) <=> Opens(st, list)
           /\ StartsWithReset(s2, list) <=> StartsWithReset(st, list)
<1>1. Len(list) \in Nat /\ \A i \in 1 .. Len(list) : s2[list[i]].type = st[list[i]].type
  BY ElementOfSeq, LenProperties
<1>2. \A i \in 1 .. Len(list) : i < Len(list) => i + 1 \in 1 .. Len(list)
  BY <1>1
<1>3. LabelsFollowed(s2, list) <=> LabelsFollowed(st, list)
  BY <1>1, <1>2 DEF LabelsFollowed
<1>4. Opens(s2, list) <=> Opens(st, list)
  BY <1>1 DEF Opens
<1>5. Len(list) # 0 => 1 \in 1 .. Len(list)
  BY <1>1
<1>6. StartsWithReset(s2, list) <=> StartsWithReset(st, list)
  BY <1>1, <1>5 DEF StartsWithReset
<1> QED BY <1>3, <1>4, <1>6

\* A statement without children has nothing to show.
LEMMA LeafOpened ==
    ASSUME NEW st, NEW x, st[x].type \notin {"If", "Loop", "Function"}, x # Root
    PROVE  WellOpened(st, x)
<1>1. Children(st, x) = <<>>
  BY DEF Children, HasChildren
<1> QED BY <1>1, FollowedNone DEF WellOpened

\* The lists that are not changed stay well opened.
LEMMA OpenedStays ==
    ASSUME NEW st, Fields(st), Opened(st), NEW s2, NEW changed, OtherLists(st, s2, changed),
           \A x \in DOMAIN st : x \in DOMAIN s2 /\ s2[x].type = st[x].type,
           \A x \in DOMAIN s2 : x \in changed \/ x \notin DOMAIN st => WellOpened(s2, x)
    PROVE  Opened(s2)
<1> SUFFICES ASSUME NEW x \in DOMAIN s2 PROVE WellOpened(s2, x)
  BY DEF Opened
<1>1. CASE x \in changed \/ x \notin DOMAIN st
  BY <1>1
<1>2. CASE x \in DOMAIN st /\ x \notin changed
  <2>1. Children(s2, x) = Children(st, x) /\ Children(st, x) \in Seq(DOMAIN st)
    BY <1>2 DEF OtherLists, Fields
  <2>2. WellOpened(st, x) /\ s2[x].type = st[x].type
    BY <1>2 DEF Opened
  <2> DEFINE L == Children(st, x)
  <2>3. /\ LabelsFollowed(s2, L) <=> LabelsFollowed(st, L)
        /\ Opens(s2, L) <=> Opens(st, L)
        /\ StartsWithReset(s2, L) <=> StartsWithReset(st, L)
    <3>1. L \in Seq(DOMAIN st) /\ \A y \in DOMAIN st : s2[y].type = st[y].type
      BY <2>1
    <3> HIDE DEF L
    <3> QED BY <3>1, OpenedSame
  <2> QED BY <2>1, <2>2, <2>3 DEF WellOpened
<1> QED BY <1>1, <1>2

\* A list of some is a list of more.
LEMMA ListsGrow ==
    ASSUME NEW D, NEW E, D \subseteq E, NEW list \in Seq(D)
    PROVE  list \in Seq(E)
OBVIOUS

\* In the list of p the statement z, which is no reset, and what is behind it up to Z is
\* replaced by M.
LEMMA Rebuilt ==
    ASSUME NEW st, NEW s2, NEW D, NEW E, D \subseteq E, \A x \in D : s2[x].type = st[x].type,
           NEW p \in D, WellOpened(st, p),
           NEW X \in Seq(D), NEW z \in D, NEW Y \in Seq(D),
           Children(st, p) = (X \o <<z>>) \o Y, st[z].type # "SetVariable",
           NEW M \in Seq(E), NEW Z \in Seq(D), Children(s2, p) = (X \o M) \o Z,
           LabelsFollowed(s2, M), LabelsFollowed(st, Z), Opens(s2, M)
    PROVE  WellOpened(s2, p)
<1>1. X \in Seq(E) /\ Z \in Seq(E)
  BY ListsGrow
<1>2. LabelsFollowed(st, X)
  BY FollowedCut DEF WellOpened
<1>3. LabelsFollowed(s2, X) /\ LabelsFollowed(s2, Z)
  BY <1>2, OpenedSame
<1>4. X \o M \in Seq(E)
  BY <1>1, ConcatProperties
<1>5. LabelsFollowed(s2, X \o M)
  BY <1>1, <1>3, FollowedParts
<1>6. LabelsFollowed(s2, (X \o M) \o Z)
  BY <1>1, <1>3, <1>4, <1>5, FollowedParts
<1>7. Opens(s2, (X \o M) \o Z)
  <2>1. PICK c : Contains(M, c) /\ s2[c].type \notin {"Label", "Goto"}
    BY OpensMeans
  <2>2. Contains((X \o M) \o Z, c)
    BY <1>1, <1>4, <2>1, Joined
  <2> QED BY <2>1, <2>2, OpensMeans
<1>8. ASSUME p = Root PROVE StartsWithReset(s2, (X \o M) \o Z)
  <2>1. StartsWithReset(st, (X \o <<z>>) \o Y)
    BY <1>8 DEF WellOpened
  <2>2. StartsWithReset(st, X)
    BY <2>1, StartCut
  <2>3. StartsWithReset(s2, X)
    BY <2>2, OpenedSame
  <2>4. (X \o M) \o Z = X \o (M \o Z) /\ M \o Z \in Seq(E)
    <3>1. (X \o M) \o Z = X \o (M \o Z)
      BY <1>1, ConcatAssociative
    <3>2. M \o Z \in Seq(E)
      BY <1>1, ConcatProperties
    <3> QED BY <3>1, <3>2
  <2>5. StartsWithReset(s2, X \o (M \o Z))
    <3> DEFINE W == M \o Z
    <3> HIDE DEF W
    <3>1. W \in Seq(E)
      BY <2>4 DEF W
    <3>2. StartsWithReset(s2, X \o W)
      <4>1. /\ Len(X) \in Nat /\ Len(W) \in Nat /\ Len(X \o W) = Len(X) + Len(W)
            /\ \A i \in 1 .. Len(X) : (X \o W)[i] = X[i]
        BY <1>1, <3>1, JoinedAt
      <4>2. 1 \in 1 .. Len(X)
        BY <2>3, <4>1 DEF StartsWithReset
      <4> QED BY <2>3, <4>1, <4>2 DEF StartsWithReset
    <3> QED BY <3>2 DEF W
  <2> QED BY <2>4, <2>5
<1> QED BY <1>6, <1>7, <1>8 DEF WellOpened

\* The goto z is taken out.
LEMMA RebuiltWithout ==
    ASSUME NEW st, NEW s2, NEW D, \A x \in D : s2[x].type = st[x].type,
           NEW p \in D, WellOpened(st, p),
           NEW X \in Seq(D), NEW z \in D, NEW Y \in Seq(D),
           Children(st, p) = (X \o <<z>>) \o Y, st[z].type = "Goto",
           Children(s2, p) = X \o Y
    PROVE  WellOpened(s2, p)
<1>0. st[z].type # "SetVariable"
  OBVIOUS
<1>1. LabelsFollowed(st, X) /\ LabelsFollowed(st, Y)
  BY <1>0, FollowedCut DEF WellOpened
<1>2. LabelsFollowed(s2, X) /\ LabelsFollowed(s2, Y)
  BY <1>1, OpenedSame
<1>3. LabelsFollowed(s2, X \o Y)
  BY <1>2, FollowedParts
<1>4. ASSUME p = Root PROVE StartsWithReset(s2, X \o Y)
  <2>1. StartsWithReset(st, (X \o <<z>>) \o Y)
    BY <1>4 DEF WellOpened
  <2>2. StartsWithReset(st, X)
    BY <1>0, <2>1, StartCut
  <2>3. StartsWithReset(s2, X)
    BY <2>2, OpenedSame
  <2> QED BY <2>3, StartCut
<1>5. ASSUME s2[p].type \in {"If", "Loop"} PROVE Opens(s2, X \o Y)
  <2>1. Opens(st, (X \o <<z>>) \o Y)
    BY <1>5 DEF WellOpened
  <2>2. PICK c : Contains((X \o <<z>>) \o Y, c) /\ st[c].type \notin {"Label", "Goto"}
    BY <2>1, OpensMeans
  <2>3. Contains(X, c) \/ Contains(Y, c)
    BY <2>2, ThreeOne
  <2>4. Contains(X \o Y, c) /\ c \in D
    BY <2>3, Joined, ContainedIn
  <2> QED BY <2>2, <2>4, OpensMeans
<1> QED BY <1>3, <1>4, <1>5 DEF WellOpened

\* The list of a goto, and the same list cut elsewhere.
LEMMA GotoInList ==
    ASSUME NEW st, PoolOK(st), NEW g \in GotosIn(st)
    PROVE  /\ g \in DOMAIN st /\ g # Root /\ st[g].type = "Goto"
           /\ st[g].up \in DOMAIN st /\ st[g].up # 0 /\ HasChildren(st, st[g].up)
           /\ Siblings(st, g) = Children(st, st[g].up)
           /\ st[st[g].up].children = Children(st, st[g].up)
           /\ Children(st, st[g].up) \in Seq(DOMAIN st) /\ Once(Children(st, st[g].up))
           /\ Before(st, g) \in Seq(DOMAIN st) /\ After(st, g) \in Seq(DOMAIN st)
           /\ Children(st, st[g].up) = (Before(st, g) \o <<g>>) \o After(st, g)
<1>1. g \in DOMAIN st /\ g # Root /\ st[g].type = "Goto" /\ Contains(Siblings(st, g), g)
  BY DEF GotosIn, PoolOK, Fields
<1>2. /\ st[g].up \in DOMAIN st /\ st[g].up # 0 /\ HasChildren(st, st[g].up)
      /\ Siblings(st, g) = st[st[g].up].children
      /\ Siblings(st, g) \in Seq(DOMAIN st) /\ Once(Siblings(st, g))
  BY <1>1, ListOf
<1>3. /\ Before(st, g) \in Seq(DOMAIN st) /\ After(st, g) \in Seq(DOMAIN st)
      /\ st[st[g].up].children = (Before(st, g) \o <<g>>) \o After(st, g)
  BY <1>1, <1>2, CutAt
<1> QED BY <1>1, <1>2, <1>3 DEF Siblings

\* Statements keep their types where only leaves are added or taken.
LEMMA TypesKept ==
    ASSUME NEW st, NEW s2, NEW gone, Keeps(st, s2, gone)
    PROVE  \A x \in DOMAIN st : x \in DOMAIN s2 /\ s2[x].type = st[x].type
BY DEF Keeps, SameKind

\* EraseGoto takes a goto out of its list.
LEMMA EraseOpened ==
    ASSUME NEW st, PoolOK(st), Numbered(st), NEW g \in GotosIn(st), Opened(st)
    PROVE  Opened(SetChildren(st, st[g].up, Before(st, g) \o After(st, g)))
<1> DEFINE D == DOMAIN st
           p == st[g].up
           X == Before(st, g)
           Y == After(st, g)
           s2 == SetChildren(st, p, X \o Y)
<1>1. /\ DOMAIN s2 = DOMAIN st /\ Keeps(st, s2, {g})
      /\ Children(s2, p) = X \o Y
      /\ OtherLists(st, s2, {p})
  BY EraseKeeps
<1>2. /\ g \in D /\ st[g].type = "Goto" /\ p \in D
      /\ X \in Seq(D) /\ Y \in Seq(D)
      /\ Children(st, p) = (X \o <<g>>) \o Y
  BY GotoInList
<1> HIDE DEF p, X, Y, s2
<1>3. \A x \in D : x \in DOMAIN s2 /\ s2[x].type = st[x].type
  BY <1>1, TypesKept
<1>4. WellOpened(st, p)
  BY <1>2 DEF Opened
<1>5. WellOpened(s2, p)
  <2> HIDE DEF D
  <2> QED BY <1>1, <1>2, <1>3, <1>4, RebuiltWithout
<1>6. Fields(st)
  BY DEF PoolOK
<1>7. Opened(s2)
  BY <1>1, <1>3, <1>5, <1>6, OpenedStays
<1> QED BY <1>7 DEF s2, p, X, Y

\* Any part of a list that holds no goto and is not empty can be the list of a new Tree,
\* if the labels in it are followed.
LEMMA NewTreeOpened ==
    ASSUME NEW st, NEW s2, NEW D, \A x \in D : s2[x].type = st[x].type,
           NEW t, t # Root, NEW C \in Seq(D), C # <<>>, LabelsFollowed(st, C),
           st[C[1]].type # "Goto", Children(s2, t) = C
    PROVE  WellOpened(s2, t)
<1>1. Opens(st, C)
  BY FollowedOpens
<1>2. LabelsFollowed(s2, C) /\ Opens(s2, C)
  BY <1>1, OpenedSame
<1> QED BY <1>2 DEF WellOpened

\* No goto stands behind g in its list.
NoGotoBehind(st, g) ==
    \A e \in DOMAIN st : Earlier(Siblings(st, g), g, e) => st[e].type # "Goto"

\* The first element of a list that is not empty.
LEMMA HeadOf ==
    ASSUME NEW D, NEW C \in Seq(D), C # <<>>
    PROVE  C[1] \in D /\ Contains(C, C[1])
<1>1. Len(C) \in Nat /\ Len(C) # 0
  BY LenProperties, EmptySeq
<1>2. 1 \in 1 .. Len(C)
  BY <1>1
<1> QED BY <1>2, ElementOfSeq DEF Contains

\* What is between the goto and m, and what begins with m.
LEMMA CutBehind ==
    ASSUME NEW st, PoolOK(st), NEW g \in GotosIn(st), WellOpened(st, st[g].up), NoGotoBehind(st, g),
           NEW m \in DOMAIN st, st[m].up = st[g].up, Earlier(Siblings(st, g), g, m),
           st[m].type # "SetVariable"
    PROVE  LET K == Tail(Span(st, g, m))
               F == From(st, m)
           IN  /\ K \in Seq(DOMAIN st) /\ F \in Seq(DOMAIN st)
               /\ LabelsFollowed(st, K) /\ LabelsFollowed(st, F)
               /\ K # <<>> => st[K[1]].type # "Goto"
<1> DEFINE D == DOMAIN st
           p == st[g].up
           X == Before(st, g)
           Y == After(st, g)
           K == Tail(Span(st, g, m))
           F == From(st, m)
           Z == After(st, m)
           L == Children(st, p)
<1>1. /\ g \in D /\ st[g].type = "Goto" /\ p \in D /\ Siblings(st, g) = L
      /\ X \in Seq(D) /\ Y \in Seq(D) /\ L = (X \o <<g>>) \o Y
      /\ st[p].children = L /\ L \in Seq(D) /\ Once(L)
  BY GotoInList
<1>2. K \in Seq(D) /\ Y = K \o F
  <2>1. /\ st[st[g].up].children \in Seq(D) /\ Once(st[st[g].up].children)
        /\ Earlier(st[st[g].up].children, g, m) /\ st[g].up = st[m].up
    BY <1>1
  <2> HIDE DEF D
  <2> QED BY <2>1, CutBetween, ZenonT(60)
<1>3. Contains(L, m)
  BY <1>1, EarlierContained
<1>4. F \in Seq(D) /\ F = <<m>> \o Z /\ Z \in Seq(D) /\ <<m>> \in Seq(D)
  BY <1>1, <1>3, CutAt
<1>5. LabelsFollowed(st, L) /\ st[g].type # "SetVariable"
  BY <1>1 DEF WellOpened
<1> HIDE DEF D, p, X, Y, K, F, Z, L
<1>6. LabelsFollowed(st, Y)
  <2>1. LabelsFollowed(st, (X \o <<g>>) \o Y)
    BY <1>1, <1>5
  <2> QED BY <1>1, <2>1, FollowedCut
<1>7. F[1] = m
  BY <1>4, JoinedAt
<1>8. LabelsFollowed(st, K) /\ LabelsFollowed(st, F)
  BY <1>2, <1>4, <1>6, <1>7, FollowedParts
<1>9. ASSUME K # <<>> PROVE st[K[1]].type # "Goto"
  <2>1. K[1] \in D /\ Contains(K, K[1])
    BY <1>2, <1>9, HeadOf
  <2>2. Contains(Y, K[1])
    BY <1>2, <1>4, <2>1, Joined
  <2>3. Earlier(L, g, K[1])
    BY <1>1, <2>2, ThreeOne
  <2> QED BY <1>1, <2>1, <2>3 DEF NoGotoBehind, D
<1>10. K \in Seq(D) /\ F \in Seq(D) /\ LabelsFollowed(st, K) /\ LabelsFollowed(st, F)
       /\ (K # <<>> => st[K[1]].type # "Goto")
  BY <1>2, <1>4, <1>8, <1>9
<1> QED BY <1>10 DEF D, K, F

\* EliminateAsConditional puts what is between the goto and its label into an If.
LEMMA ConditionalOpened ==
    ASSUME NEW st, PoolOK(st), Numbered(st), NEW g \in GotosIn(st), Opened(st),
           st[st[g].label].up = st[g].up, Earlier(Siblings(st, g), g, st[g].label),
           NoGotoBehind(st, g), Tail(Span(st, g, st[g].label)) # <<>>
    PROVE  Opened(EliminateAsConditional(st, g))
<1> DEFINE D == DOMAIN st
           p == st[g].up
           l == st[g].label
           t == Len(st) + 1
           X == Before(st, g)
           Y == After(st, g)
           K == Tail(Span(st, g, l))
           F == From(st, l)
           s2 == EliminateAsConditional(st, g)
           E == DOMAIN s2
<1>1. /\ Keeps(st, s2, {g})
      /\ E = D \cup {t}
      /\ Children(s2, t) = K /\ Children(s2, p) = (X \o <<t>>) \o F
      /\ OtherLists(st, s2, {p})
  BY ConditionalKeeps
<1>2. /\ g \in D /\ st[g].type = "Goto" /\ p \in D
      /\ X \in Seq(D) /\ Y \in Seq(D) /\ Children(st, p) = (X \o <<g>>) \o Y
  BY GotoInList
<1>3. l \in D /\ st[l].type = "Label"
  BY <1>2 DEF PoolOK, Fields
<1>4. Len(st) \in Nat /\ D = 1 .. Len(st) /\ Root \in D
  BY NumberedPool DEF PoolOK, Fields
<1>5. t \notin D /\ t # Root /\ t \in E
  BY <1>1, <1>4 DEF Root
<1>6. E = D \cup {t} /\ s2[t].type = "If"
  <2>1. E = D \cup {t}
    BY ConditionalKeeps
  <2>2. t \in E \ D
    BY <1>5
  <2>3. \A n \in E \ D : s2[n].type = "If"
    BY ConditionalKeeps
  <2> QED BY <2>1, <2>2, <2>3
<1>7. WellOpened(st, p)
  BY <1>2 DEF Opened
<1>8. /\ K \in Seq(D) /\ F \in Seq(D)
      /\ LabelsFollowed(st, K) /\ LabelsFollowed(st, F)
      /\ st[K[1]].type # "Goto"
  BY <1>3, <1>7, CutBehind
<1>9. K # <<>>
  OBVIOUS
<1>10. Fields(st)
  BY DEF PoolOK
<1> HIDE DEF p, l, t, X, Y, K, F, s2, E
<1>11. \A x \in D : x \in E /\ s2[x].type = st[x].type
  BY <1>1, TypesKept DEF E
<1>12. WellOpened(s2, t)
  <2> HIDE DEF D
  <2> QED BY <1>1, <1>5, <1>8, <1>9, <1>11, NewTreeOpened
<1>13. WellOpened(s2, p)
  <2> DEFINE M == <<t>>
  <2>1. M \in Seq(E) /\ D \subseteq E
    BY <1>6
  <2>2. LabelsFollowed(s2, M)
    BY <1>6, FollowedOne
  <2>3. Opens(s2, M)
    <3>1. Contains(M, t)
      BY OneIn
    <3> QED BY <1>6, <3>1, OpensMeans
  <2>4. Children(s2, p) = (X \o M) \o F
    BY <1>1
  <2>5. st[g].type # "SetVariable"
    BY <1>2
  <2> HIDE DEF D, M
  <2> QED BY <1>2, <1>7, <1>8, <1>11, <2>1, <2>2, <2>3, <2>4, <2>5, Rebuilt
<1>14. Opened(s2)
  <2>1. \A x \in DOMAIN s2 : x \in {p} \/ x \notin DOMAIN st => WellOpened(s2, x)
    BY <1>6, <1>12, <1>13 DEF E
  <2>2. \A x \in DOMAIN st : x \in DOMAIN s2 /\ s2[x].type = st[x].type
    BY <1>11 DEF E
  <2> QED BY <1>1, <1>10, <2>1, <2>2, OpenedStays
<1> QED BY <1>14 DEF s2

\* What is from l to the goto, around it and behind the goto.
LEMMA CutBeforeGoto ==
    ASSUME NEW st, PoolOK(st), NEW g \in GotosIn(st), WellOpened(st, st[g].up),
           NEW l \in DOMAIN st, st[l].up = st[g].up, Earlier(Siblings(st, g), l, g),
           st[l].type # "SetVariable"
    PROVE  LET S == Span(st, l, g)
               B == After(st, g)
           IN  /\ S \in Seq(DOMAIN st) /\ B \in Seq(DOMAIN st) /\ S # <<>> /\ S[1] = l
               /\ Before(st, l) \in Seq(DOMAIN st) /\ After(st, l) \in Seq(DOMAIN st)
               /\ Children(st, st[g].up) = (Before(st, l) \o <<l>>) \o After(st, l)
               /\ LabelsFollowed(st, S) /\ LabelsFollowed(st, B)
<1> DEFINE D == DOMAIN st
           p == st[g].up
           X == Before(st, g)
           B == After(st, g)
           S == Span(st, l, g)
           G == From(st, g)
           A == Before(st, l)
           Y == After(st, l)
           F == From(st, l)
           R == Tail(S)
           L == Children(st, p)
<1>1. /\ g \in D /\ st[g].type = "Goto" /\ p \in D /\ Siblings(st, g) = L
      /\ X \in Seq(D) /\ B \in Seq(D) /\ L = (X \o <<g>>) \o B
      /\ st[p].children = L /\ L \in Seq(D) /\ Once(L)
  BY GotoInList
<1>2. S \in Seq(D) /\ R \in Seq(D) /\ S = <<l>> \o R /\ F = S \o G
  <2>1. /\ st[st[l].up].children \in Seq(D) /\ Once(st[st[l].up].children)
        /\ Earlier(st[st[l].up].children, l, g) /\ st[l].up = st[g].up
    BY <1>1
  <2> HIDE DEF D
  <2> QED BY <2>1, CutBetween, ZenonT(60)
<1>3. Contains(st[st[l].up].children, l) /\ Contains(st[st[g].up].children, g)
  BY <1>1, EarlierContained
<1>4. /\ A \in Seq(D) /\ Y \in Seq(D) /\ F \in Seq(D) /\ L = A \o F
      /\ L = (A \o <<l>>) \o Y
  BY <1>1, <1>3, CutAt
<1>5. G \in Seq(D) /\ G = <<g>> \o B
  BY <1>1, <1>3, CutAt
<1>6. LabelsFollowed(st, L) /\ st[g].type # "SetVariable"
  BY <1>1 DEF WellOpened
<1>7. <<g>> \in Seq(D) /\ <<l>> \in Seq(D)
  BY <1>1
<1> HIDE DEF D, p, X, B, S, G, A, Y, F, R, L
<1>8. LabelsFollowed(st, B)
  <2>1. LabelsFollowed(st, (X \o <<g>>) \o B)
    BY <1>1, <1>6
  <2> QED BY <1>1, <2>1, FollowedCut
<1>9. LabelsFollowed(st, F)
  <2>1. LabelsFollowed(st, A \o F)
    BY <1>4, <1>6
  <2> QED BY <1>4, <2>1, FollowedParts
<1>10. G[1] = g
  BY <1>5, <1>7, <1>1, JoinedAt
<1>11. LabelsFollowed(st, S)
  <2>1. LabelsFollowed(st, S \o G)
    BY <1>2, <1>9
  <2>2. Len(G) # 0 => st[G[1]].type # "SetVariable"
    BY <1>6, <1>10
  <2> QED BY <1>2, <1>5, <2>1, <2>2, FollowedParts
<1>12. S # <<>> /\ S[1] = l
  <2>1. Len(<<l>>) = 1 /\ <<l>>[1] = l /\ Len(R) \in Nat
    BY <1>2, LenProperties
  <2>2. Len(S) = 1 + Len(R) /\ S[1] = l
    BY <1>2, <1>7, <2>1, JoinedAt
  <2>3. Len(S) # 0
    BY <2>1, <2>2
  <2> QED BY <2>2, <2>3, EmptySeq
<1>13. /\ S \in Seq(D) /\ B \in Seq(D) /\ S # <<>> /\ S[1] = l
       /\ A \in Seq(D) /\ Y \in Seq(D) /\ L = (A \o <<l>>) \o Y
       /\ LabelsFollowed(st, S) /\ LabelsFollowed(st, B)
  BY <1>1, <1>2, <1>4, <1>8, <1>11, <1>12
<1> QED BY <1>13 DEF D, S, B, A, Y, L, p

\* EliminateAsLoop puts what is from the label to the goto into a Loop.
LEMMA LoopOpened ==
    ASSUME NEW st, PoolOK(st), Numbered(st), NEW g \in GotosIn(st), Opened(st),
           st[st[g].label].up = st[g].up, Earlier(Siblings(st, g), st[g].label, g)
    PROVE  Opened(EliminateAsLoop(st, g))
<1> DEFINE D == DOMAIN st
           p == st[g].up
           l == st[g].label
           t == Len(st) + 1
           A == Before(st, l)
           Y == After(st, l)
           S == Span(st, l, g)
           B == After(st, g)
           s2 == EliminateAsLoop(st, g)
           E == DOMAIN s2
<1>1. /\ Keeps(st, s2, {g})
      /\ E = D \cup {t}
      /\ \A n \in E \ D : s2[n].type = "Loop"
      /\ Children(s2, t) = S /\ Children(s2, p) = (A \o <<t>>) \o B
      /\ OtherLists(st, s2, {p})
  BY LoopKeeps
<1>2. g \in D /\ st[g].type = "Goto" /\ p \in D
  BY GotoInList
<1>3. l \in D /\ st[l].type = "Label"
  BY <1>2 DEF PoolOK, Fields
<1>4. Len(st) \in Nat /\ D = 1 .. Len(st) /\ Root \in D
  BY NumberedPool DEF PoolOK, Fields
<1>5. t \notin D /\ t # Root /\ t \in E
  BY <1>1, <1>4 DEF Root
<1>6. s2[t].type = "Loop"
  BY <1>1, <1>5
<1>7. WellOpened(st, p)
  BY <1>2 DEF Opened
<1>8. /\ S \in Seq(D) /\ B \in Seq(D) /\ S # <<>> /\ S[1] = l
      /\ A \in Seq(D) /\ Y \in Seq(D)
      /\ Children(st, p) = (A \o <<l>>) \o Y
      /\ LabelsFollowed(st, S) /\ LabelsFollowed(st, B)
  BY <1>3, <1>7, CutBeforeGoto
<1>9. Fields(st)
  BY DEF PoolOK
<1> HIDE DEF p, l, t, A, Y, S, B, s2, E
<1>11. \A x \in D : x \in E /\ s2[x].type = st[x].type
  BY <1>1, TypesKept DEF E
<1>12. WellOpened(s2, t)
  <2>1. st[S[1]].type # "Goto"
    BY <1>3, <1>8
  <2> HIDE DEF D
  <2> QED BY <1>1, <1>5, <1>8, <1>11, <2>1, NewTreeOpened
<1>13. WellOpened(s2, p)
  <2> DEFINE M == <<t>>
  <2>1. M \in Seq(E) /\ D \subseteq E
    BY <1>1, <1>5
  <2>2. LabelsFollowed(s2, M)
    BY <1>6, FollowedOne
  <2>3. Opens(s2, M)
    <3>1. Contains(M, t)
      BY OneIn
    <3> QED BY <1>6, <3>1, OpensMeans
  <2>4. Children(s2, p) = (A \o M) \o B
    BY <1>1
  <2>5. st[l].type # "SetVariable"
    BY <1>3
  <2> HIDE DEF D, M
  <2> QED BY <1>2, <1>3, <1>7, <1>8, <1>11, <2>1, <2>2, <2>3, <2>4, <2>5, Rebuilt
<1>14. Opened(s2)
  <2>1. \A x \in DOMAIN s2 : x \in {p} \/ x \notin DOMAIN st => WellOpened(s2, x)
    BY <1>1, <1>12, <1>13 DEF E
  <2>2. \A x \in DOMAIN st : x \in DOMAIN s2 /\ s2[x].type = st[x].type
    BY <1>11 DEF E
  <2> QED BY <1>1, <1>9, <2>1, <2>2, OpenedStays
<1> QED BY <1>14 DEF s2

\* Lift puts a Loop around what is before the goto, or moves it out of one.
LEMMA LiftOpened ==
    ASSUME NEW st, PoolOK(st), Numbered(st), NEW g \in GotosIn(st), Opened(st),
           NEW l \in DOMAIN st, st[l].up = st[g].up, Earlier(Siblings(st, g), l, g),
           l = SiblingFromNephew(st, g, st[g].label), st[l].type # "SetVariable"
    PROVE  Opened(Lift(st, g))
<1> DEFINE D == DOMAIN st
           p == st[g].up
           n == Len(st) + 2
           t == n - 1
           a == n + 1
           A == Before(st, l)
           Y == After(st, l)
           S == Span(st, l, g)
           B == After(st, g)
           s2 == Lift(st, g)
           E == DOMAIN s2
<1>1. /\ Keeps(st, s2, {g})
      /\ E = D \cup {t, n, a}
      /\ s2[t].type = "Loop" /\ s2[n].type = "Goto" /\ s2[a].type = "SetVariable"
      /\ Children(s2, t) = (<<n>> \o S) \o <<a>> /\ Children(s2, p) = (A \o <<t>>) \o B
      /\ OtherLists(st, s2, {p})
  <2>1. Lifted(st, s2, g, l, n) /\ LiftListed(st, s2, g, l, n)
    BY LiftMoves
  <2> HIDE DEF s2, n
  <2> QED BY <2>1 DEF LiftListed, Lifted
<1>2. g \in D /\ st[g].type = "Goto" /\ p \in D /\ l \in D
  BY GotoInList
<1>4. Len(st) \in Nat /\ D = 1 .. Len(st) /\ Root \in D
  BY NumberedPool DEF PoolOK, Fields
<1>5. t # Root /\ n # Root /\ a # Root
  BY <1>4 DEF Root
<1>7. WellOpened(st, p)
  BY <1>2 DEF Opened
<1>8. /\ S \in Seq(D) /\ B \in Seq(D) /\ S # <<>> /\ S[1] = l
      /\ A \in Seq(D) /\ Y \in Seq(D)
      /\ Children(st, p) = (A \o <<l>>) \o Y
      /\ LabelsFollowed(st, S) /\ LabelsFollowed(st, B)
  BY <1>7, CutBeforeGoto
<1>9. Fields(st)
  BY DEF PoolOK
<1> HIDE DEF p, n, t, a, A, Y, S, B, s2, E
<1>11. \A x \in D : x \in E /\ s2[x].type = st[x].type
  BY <1>1, TypesKept DEF E
<1>12. WellOpened(s2, t)
  <2> DEFINE N == <<n>>
             V == <<a>>
  <2>1. N \in Seq(E) /\ V \in Seq(E) /\ S \in Seq(E)
    BY <1>1, <1>8, ListsGrow
  <2>2. N \o S \in Seq(E)
    BY <2>1, ConcatProperties
  <2>3. LabelsFollowed(s2, N) /\ LabelsFollowed(s2, V)
    BY <1>1, FollowedOne
  <2>4. LabelsFollowed(s2, S)
    <3> HIDE DEF D
    <3> QED BY <1>8, <1>11, OpenedSame
  <2>5. Contains(V, a)
    BY OneIn
  <2> HIDE DEF N, V
  <2>6. LabelsFollowed(s2, N \o S)
    BY <2>1, <2>3, <2>4, FollowedParts
  <2>7. LabelsFollowed(s2, (N \o S) \o V)
    BY <2>1, <2>2, <2>3, <2>6, FollowedParts
  <2>8. Opens(s2, (N \o S) \o V)
    <3>1. Contains((N \o S) \o V, a)
      BY <2>1, <2>2, <2>5, Joined
    <3> QED BY <1>1, <3>1, OpensMeans
  <2>9. Children(s2, t) = (N \o S) \o V
    BY <1>1 DEF N, V
  <2> QED BY <1>5, <2>7, <2>8, <2>9 DEF WellOpened
<1>13. WellOpened(s2, p)
  <2> DEFINE M == <<t>>
  <2>1. M \in Seq(E) /\ D \subseteq E
    BY <1>1
  <2>2. LabelsFollowed(s2, M)
    BY <1>1, FollowedOne
  <2>3. Opens(s2, M)
    <3>1. Contains(M, t)
      BY OneIn
    <3> QED BY <1>1, <3>1, OpensMeans
  <2>4. Children(s2, p) = (A \o M) \o B
    BY <1>1
  <2> HIDE DEF D, M
  <2> QED BY <1>2, <1>7, <1>8, <1>11, <2>1, <2>2, <2>3, <2>4, Rebuilt, ZenonT(60)
<1>14. WellOpened(s2, n) /\ WellOpened(s2, a)
  BY <1>1, <1>5, LeafOpened
<1>15. Opened(s2)
  <2>1. \A x \in DOMAIN s2 : x \in {p} \/ x \notin DOMAIN st => WellOpened(s2, x)
    BY <1>1, <1>12, <1>13, <1>14 DEF E
  <2>2. \A x \in DOMAIN st : x \in DOMAIN s2 /\ s2[x].type = st[x].type
    BY <1>11 DEF E
  <2> QED BY <1>1, <1>9, <2>1, <2>2, OpenedStays
<1> QED BY <1>15 DEF s2

\* MoveOutward takes the goto out of an If or a Loop.
LEMMA OutwardOpened ==
    ASSUME NEW st, PoolOK(st), Numbered(st), NEW g \in GotosIn(st), Opened(st),
           st[st[g].up].type = "Loop"
    PROVE  Opened(MoveOutwardLoop(st, g))
<1> DEFINE D == DOMAIN st
           p == st[g].up
           q == st[p].up
           n == Len(st) + 3
           a == n - 2
           b == n - 1
           X == Before(st, g)
           Y == After(st, g)
           U == Before(st, p)
           V == After(st, p)
           s2 == MoveOutwardLoop(st, g)
           E == DOMAIN s2
<1>1. /\ E = D \cup {a, b, n}
      /\ s2[a].type = "SetVariable" /\ s2[b].type = "Break" /\ s2[n].type = "Goto"
      /\ Children(s2, p) = (X \o <<a, b>>) \o Y
      /\ Children(s2, q) = (U \o <<p, n>>) \o V
      /\ OtherLists(st, s2, {p, q})
      /\ Leaves(st, s2, {g})
  <2>1. MovedOut(st, s2, g, n) /\ OutwardLists(st, s2, g, n)
    BY OutwardMovesOut
  <2> HIDE DEF s2, n
  <2> QED BY <2>1 DEF MovedOut, OutwardLists
<1>2. /\ g \in D /\ st[g].type = "Goto" /\ p \in D
      /\ X \in Seq(D) /\ Y \in Seq(D) /\ Children(st, p) = (X \o <<g>>) \o Y
  BY GotoInList
<1>3. Fields(st)
  BY DEF PoolOK
<1>4. Len(st) \in Nat /\ D = 1 .. Len(st) /\ Root \in D
  BY NumberedPool DEF PoolOK, Fields
<1>5. a # Root /\ b # Root /\ n # Root
  BY <1>4 DEF Root
<1>6. p # Root /\ Contains(Siblings(st, p), p)
  BY <1>2 DEF PoolOK, Fields, Lists
<1>7. /\ q \in D /\ Siblings(st, p) = st[q].children /\ st[q].children \in Seq(D)
      /\ Once(st[q].children) /\ Contains(st[q].children, p) /\ Children(st, q) = st[q].children
  BY <1>2, <1>6, ListOf DEF Siblings
<1>8. U \in Seq(D) /\ V \in Seq(D) /\ Children(st, q) = (U \o <<p>>) \o V
  BY <1>7, CutAt
<1>9. WellOpened(st, p) /\ WellOpened(st, q) /\ st[p].type = "Loop"
  BY <1>2, <1>7 DEF Opened
<1> HIDE DEF p, q, n, a, b, X, Y, U, V, s2, E
<1>11. \A x \in D : x \in E /\ s2[x].type = st[x].type
  BY <1>1 DEF Leaves, SameKind, E
<1>12. WellOpened(s2, p)
  <2> DEFINE M == <<a, b>>
  <2>1. M \in Seq(E) /\ D \subseteq E
    BY <1>1
  <2>2. LabelsFollowed(s2, M)
    BY <1>1, FollowedTwo
  <2>3. Opens(s2, M)
    <3>1. Contains(M, a)
      BY TwoIn
    <3> QED BY <1>1, <3>1, OpensMeans
  <2>4. Children(s2, p) = (X \o M) \o Y
    BY <1>1
  <2>5. st[g].type # "SetVariable"
    BY <1>2
  <2>6. LabelsFollowed(st, Y)
    <3> HIDE DEF D
    <3>1. LabelsFollowed(st, (X \o <<g>>) \o Y)
      BY <1>2, <1>9 DEF WellOpened
    <3> QED BY <1>2, <3>1, FollowedCut
  <2> HIDE DEF D, M
  <2> QED BY <1>2, <1>9, <1>11, <2>1, <2>2, <2>3, <2>4, <2>5, <2>6, Rebuilt
<1>13. WellOpened(s2, q)
  <2> DEFINE M == <<p, n>>
  <2>0. s2[p].type = "Loop"
    BY <1>2, <1>9, <1>11
  <2>1. M \in Seq(E) /\ D \subseteq E
    BY <1>1, <1>2
  <2>2. LabelsFollowed(s2, M)
    BY <1>1, <2>0, FollowedTwo
  <2>3. Opens(s2, M)
    <3>1. Contains(M, p)
      BY TwoIn
    <3> QED BY <2>0, <3>1, OpensMeans
  <2>4. Children(s2, q) = (U \o M) \o V
    BY <1>1
  <2>5. st[p].type # "SetVariable"
    BY <1>9
  <2>6. LabelsFollowed(st, V)
    <3> HIDE DEF D
    <3>1. LabelsFollowed(st, (U \o <<p>>) \o V)
      BY <1>8, <1>9 DEF WellOpened
    <3> QED BY <1>2, <1>8, <3>1, FollowedCut
  <2> HIDE DEF D, M
  <2> QED BY <1>2, <1>7, <1>8, <1>9, <1>11, <2>1, <2>2, <2>3, <2>4, <2>5, <2>6, Rebuilt, ZenonT(60)
<1>14. WellOpened(s2, a) /\ WellOpened(s2, b) /\ WellOpened(s2, n)
  BY <1>1, <1>5, LeafOpened
<1>15. Opened(s2)
  <2>1. \A x \in DOMAIN s2 : x \in {p, q} \/ x \notin DOMAIN st => WellOpened(s2, x)
    BY <1>1, <1>12, <1>13, <1>14 DEF E
  <2>2. \A x \in DOMAIN st : x \in DOMAIN s2 /\ s2[x].type = st[x].type
    BY <1>11 DEF E
  <2> QED BY <1>1, <1>3, <2>1, <2>2, OpenedStays
<1> QED BY <1>15 DEF s2

\* A goto is put in front of a list.
LEMMA GotoInFront ==
    ASSUME NEW st, NEW s2, NEW D, NEW E, D \subseteq E, \A x \in D : s2[x].type = st[x].type,
           NEW m \in D, m # Root, WellOpened(st, m), Children(st, m) \in Seq(D),
           NEW n \in E, s2[n].type = "Goto", Children(s2, m) = <<n>> \o Children(st, m)
    PROVE  WellOpened(s2, m)
<1> DEFINE M == Children(st, m)
           N == <<n>>
<1>1. M \in Seq(E) /\ N \in Seq(E)
  BY ListsGrow
<1>2. LabelsFollowed(st, M) /\ (s2[m].type \in {"If", "Loop"} => Opens(st, M))
  BY DEF WellOpened
<1>3. LabelsFollowed(s2, N)
  BY FollowedOne
<1> HIDE DEF M, N
<1>4. LabelsFollowed(s2, M) /\ (s2[m].type \in {"If", "Loop"} => Opens(s2, M))
  <2>1. M \in Seq(D)
    BY DEF M
  <2> QED BY <1>2, <2>1, OpenedSame
<1>5. LabelsFollowed(s2, N \o M)
  BY <1>1, <1>3, <1>4, FollowedParts
<1>6. ASSUME s2[m].type \in {"If", "Loop"} PROVE Opens(s2, N \o M)
  <2>1. PICK c : Contains(M, c) /\ s2[c].type \notin {"Label", "Goto"}
    BY <1>4, <1>6, OpensMeans
  <2>2. Contains(N \o M, c)
    BY <1>1, <2>1, Joined
  <2> QED BY <2>1, <2>2, OpensMeans
<1>7. Children(s2, m) = N \o M
  BY DEF N, M
<1> QED BY <1>5, <1>6, <1>7 DEF WellOpened

\* The lists that a goto moved inward leaves.
LEMMA InwardListsOpened ==
    ASSUME NEW st, PoolOK(st), NEW g \in GotosIn(st), Opened(st), NoGotoBehind(st, g),
           NEW m \in DOMAIN st, HasChildren(st, m), st[m].up = st[g].up,
           Earlier(Siblings(st, g), g, m),
           NEW s2, NEW n, NEW between, InwardListed(st, s2, g, m, n, between),
           \A x \in DOMAIN st : x \in DOMAIN s2 /\ s2[x].type = st[x].type,
           n \in DOMAIN s2, s2[n].type = "Goto",
           between \in Seq(DOMAIN s2), LabelsFollowed(s2, between), Opens(s2, between)
    PROVE  WellOpened(s2, st[g].up) /\ WellOpened(s2, m)
<1> DEFINE D == DOMAIN st
           E == DOMAIN s2
           p == st[g].up
           X == Before(st, g)
           Y == After(st, g)
           F == From(st, m)
<1>1. /\ g \in D /\ st[g].type = "Goto" /\ p \in D /\ p # 0
      /\ X \in Seq(D) /\ Y \in Seq(D) /\ Children(st, p) = (X \o <<g>>) \o Y
  BY GotoInList
<1>2. WellOpened(st, p) /\ WellOpened(st, m)
  BY <1>1 DEF Opened
<1>3. st[m].type \in {"If", "Loop", "Function"}
  BY DEF HasChildren
<1>4. F \in Seq(D) /\ LabelsFollowed(st, F)
  BY <1>2, <1>3, CutBehind
<1>5. m # Root /\ Children(st, m) \in Seq(D) /\ Children(st, m) = st[m].children
  BY <1>1 DEF PoolOK, Fields, Children
<1>6. /\ Children(s2, p) = (X \o between) \o F
      /\ Children(s2, m) = <<n>> \o Children(st, m)
  BY <1>5 DEF InwardListed
<1>7. D \subseteq E /\ \A x \in D : s2[x].type = st[x].type
  OBVIOUS
<1>8. between \in Seq(E) /\ m \in D /\ n \in E /\ st[g].type # "SetVariable"
  BY <1>1
<1> HIDE DEF D, E, p, X, Y, F
<1>9. WellOpened(s2, p)
  BY <1>1, <1>2, <1>4, <1>6, <1>7, <1>8, Rebuilt
<1>10. WellOpened(s2, m)
  BY <1>2, <1>5, <1>6, <1>7, <1>8, GotoInFront
<1> QED BY <1>9, <1>10 DEF p

\* MoveInward takes the goto into an If or a Loop.
LEMMA InwardOpened ==
    ASSUME NEW st, PoolOK(st), Numbered(st), NEW g \in GotosIn(st), Opened(st),
           NoGotoBehind(st, g),
           NEW m \in DOMAIN st, HasChildren(st, m), st[m].up = st[g].up,
           Earlier(Siblings(st, g), g, m), m = SiblingFromNephew(st, g, st[g].label)
    PROVE  Opened(MoveInward(st, g))
<1> DEFINE D == DOMAIN st
           p == st[g].up
           a == Len(st) + 1
           b == Len(st) + 2
           c == Len(st) + 3
           K == Tail(Span(st, g, m))
           s2 == MoveInward(st, g)
           E == DOMAIN s2
<1>1. Len(st) \in Nat /\ D = 1 .. Len(st) /\ Root \in D /\ Fields(st)
  BY NumberedPool DEF PoolOK, Fields
<1>2. a # Root /\ b # Root /\ c # Root /\ a # b /\ b # c /\ a # c
  BY <1>1 DEF Root
<1>3. p \in D
  BY GotoInList
<1>4. WellOpened(st, p)
  BY <1>3 DEF Opened
<1>5. st[m].type # "SetVariable"
  BY DEF HasChildren
<1>6. K \in Seq(D) /\ LabelsFollowed(st, K) /\ (K # <<>> => st[K[1]].type # "Goto")
  BY <1>4, <1>5, CutBehind
<1>7. CASE K = <<>>
  <2>1. /\ MovedIn(st, s2, g, m, b)
        /\ InwardListed(st, s2, g, m, b, <<a>>)
        /\ E = D \cup {a, b} /\ s2[a].type = "SetVariable"
    BY <1>7, InwardNext
  <2>2. Keeps(st, s2, {g}) /\ b \in E /\ s2[b].type = "Goto"
    BY <2>1 DEF MovedIn
  <2> HIDE DEF a, b, p, s2
  <2>3. \A x \in DOMAIN st : x \in DOMAIN s2 /\ s2[x].type = st[x].type
    BY <2>2, TypesKept
  <2>4. <<a>> \in Seq(E) /\ LabelsFollowed(s2, <<a>>)
    BY <2>1, FollowedOne
  <2>5. Opens(s2, <<a>>)
    <3>1. Contains(<<a>>, a)
      BY OneIn
    <3> QED BY <2>1, <3>1, OpensMeans
  <2>6. WellOpened(s2, st[g].up) /\ WellOpened(s2, m)
    BY <2>1, <2>2, <2>3, <2>4, <2>5, InwardListsOpened
  <2>7. WellOpened(s2, a) /\ WellOpened(s2, b)
    BY <1>2, <2>1, <2>2, LeafOpened
  <2>8. \A x \in DOMAIN s2 : x \in {p, m} \/ x \notin DOMAIN st => WellOpened(s2, x)
    BY <2>1, <2>6, <2>7 DEF p
  <2>9. OtherLists(st, s2, {p, m})
    BY <2>1 DEF InwardListed, p
  <2>10. Opened(s2)
    BY <1>1, <2>3, <2>8, <2>9, OpenedStays
  <2> QED BY <2>10 DEF s2
<1>8. CASE K # <<>>
  <2>1. /\ MovedIn(st, s2, g, m, c)
        /\ InwardListed(st, s2, g, m, c, <<a, b>>)
        /\ E = D \cup {a, b, c}
        /\ s2[a].type = "SetVariable" /\ s2[b].type = "If"
        /\ Children(s2, b) = K
    BY <1>8, InwardSkips
  <2>2. Keeps(st, s2, {g}) /\ c \in E /\ s2[c].type = "Goto"
    BY <2>1 DEF MovedIn
  <2> HIDE DEF a, b, c, p, s2, K
  <2>3. \A x \in DOMAIN st : x \in DOMAIN s2 /\ s2[x].type = st[x].type
    BY <2>2, TypesKept
  <2>4. <<a, b>> \in Seq(E) /\ LabelsFollowed(s2, <<a, b>>)
    BY <2>1, FollowedTwo
  <2>5. Opens(s2, <<a, b>>)
    <3>1. Contains(<<a, b>>, a)
      BY TwoIn
    <3> QED BY <2>1, <3>1, OpensMeans
  <2>6. WellOpened(s2, st[g].up) /\ WellOpened(s2, m)
    BY <2>1, <2>2, <2>3, <2>4, <2>5, InwardListsOpened
  <2>7. WellOpened(s2, a) /\ WellOpened(s2, c)
    BY <1>2, <2>1, <2>2, LeafOpened
  <2>8. WellOpened(s2, b)
    <3>1. \A x \in D : s2[x].type = st[x].type
      BY <2>3
    <3> HIDE DEF D
    <3> QED BY <1>2, <1>6, <1>8, <2>1, <3>1, NewTreeOpened
  <2>9. \A x \in DOMAIN s2 : x \in {p, m} \/ x \notin DOMAIN st => WellOpened(s2, x)
    BY <2>1, <2>6, <2>7, <2>8 DEF p
  <2>10. OtherLists(st, s2, {p, m})
    BY <2>1 DEF InwardListed, p
  <2>11. Opened(s2)
    BY <1>1, <2>3, <2>9, <2>10, OpenedStays
  <2> QED BY <2>11 DEF s2
<1> QED BY <1>7, <1>8

\* When no waiting goto is behind the goto that is moved, none is.
LEMMA ClearMeansNoGoto ==
    ASSUME TreeOK, WaitingOK, goto_stmt # 0,
           \A w : Contains(gotos, w) => Clear(stmt, goto_stmt, w)
    PROVE  NoGotoBehind(stmt, goto_stmt)
<1> SUFFICES ASSUME NEW e \in DOMAIN stmt, Earlier(Siblings(stmt, goto_stmt), goto_stmt, e),
                    stmt[e].type = "Goto"
             PROVE  FALSE
  BY DEF NoGotoBehind
<1>1. goto_stmt \in GotosIn(stmt) /\ PoolOK(stmt) /\ Rooted(stmt)
  BY TheGoto DEF TreeOK, PoolOK
<1>2. Siblings(stmt, goto_stmt) = Children(stmt, stmt[goto_stmt].up)
      /\ stmt[goto_stmt].up \in DOMAIN stmt
      /\ Once(Siblings(stmt, goto_stmt))
  BY <1>1, GotoInList
<1>3. Contains(Siblings(stmt, goto_stmt), e)
  BY EarlierContained
<1>4. stmt[e].up = stmt[goto_stmt].up
  BY <1>1, <1>2, <1>3 DEF PoolOK, Lists
<1>5. e \in GotosIn(stmt)
  BY <1>3, <1>4 DEF GotosIn, Siblings
<1>6. e # goto_stmt
  BY <1>2 DEF Once
<1>7. Contains(gotos, e)
  BY <1>5, <1>6 DEF WaitingOK
<1>8. e \in Chain(stmt, e)
  BY <1>1, ChainEquation
<1> QED BY <1>7, <1>8 DEF Clear

\* Whichever way the goto moves out, the lists stay as they should be.
LEMMA MoveOutwardOpened ==
    ASSUME TreeOK, WaitingOK, goto_stmt # 0, OutwardOK, MoveOutward,
           step' # "LogicError", Opened(stmt)
    PROVE  Opened(stmt')
<1> DEFINE g == goto_stmt
           p == stmt[g].up
<1>1. /\ g \in GotosIn(stmt) /\ g \in DOMAIN stmt /\ g # Root /\ p \in DOMAIN stmt /\ p # 0
      /\ Rooted(stmt)
  BY TheGoto
<1>2. p \in Chain(stmt, g) /\ p # g
  <2>1. p \in Chain(stmt, g)
    BY <1>1, ChainEquation, ChainGoesUp
  <2>2. g \notin Chain(stmt, p) /\ p \in Chain(stmt, p)
    BY <1>1, NotInItself, ChainEquation
  <2> QED BY <2>1, <2>2
<1>3. stmt[p].type \in {"If", "Loop"}
  BY DEF MoveOutward
<1>4. p # Root
  BY <1>3 DEF TreeOK, PoolOK, Fields
<1>5. stmt[p].type = "Loop"
  BY <1>2, <1>4 DEF OutwardOK, OutwardPath
<1>6. stmt' = MoveOutwardLoop(stmt, g)
  BY <1>5 DEF MoveOutward
<1>7. Opened(MoveOutwardLoop(stmt, g))
  BY <1>1, <1>5, OutwardOpened DEF TreeOK
<1> QED BY <1>6, <1>7

\* The step of RemoveGoto that lifts the goto.
LEMMA GotoLiftingOpened ==
    ASSUME IInv, GotoLifting, Opened(stmt)
    PROVE  Opened(stmt')
<1> DEFINE g == goto_stmt
           l == label_stmt
           x == SiblingFromNephew(stmt, g, l)
<1>1. TreeOK /\ WaitingOK /\ g # 0 /\ LiftOK
  BY DEF IInv, MovingOK, GotoLifting
<1>2. /\ g \in GotosIn(stmt) /\ l \in DOMAIN stmt /\ stmt[g].label = l
      /\ Level(stmt, g) \in Nat /\ Level(stmt, l) \in Nat
      /\ Level(stmt, g) = 1 + Level(stmt, stmt[g].up)
      /\ Level(stmt, l) = 1 + Level(stmt, stmt[l].up)
      /\ stmt[l].type = "Label"
  BY <1>1, TheGoto
<1>3. stmt[l].up = stmt[g].up /\ Earlier(Siblings(stmt, g), l, g)
  BY <1>1 DEF LiftOK
<1> HIDE DEF g, l
<1>4. x = l
  <2>1. Level(stmt, l) - Level(stmt, g) = 0
    BY <1>2, <1>3
  <2>2. Ancestor(stmt, l, 0) = l
    BY AncestorSteps
  <2> QED BY <2>1, <2>2 DEF SiblingFromNephew
<1>5. stmt' = Lift(stmt, g)
  <2>1. step' = "inward"
    BY GotoLiftingKeeps
  <2> QED BY <2>1 DEF GotoLifting, g
<1>6. l = SiblingFromNephew(stmt, g, stmt[g].label)
  BY <1>2, <1>4
<1>7. PoolOK(stmt) /\ Numbered(stmt)
  BY <1>1 DEF TreeOK
<1>8. Opened(Lift(stmt, g))
  BY <1>2, <1>3, <1>6, <1>7, LiftOpened
<1> QED BY <1>5, <1>8

\* The step of RemoveGoto that moves the goto in.
LEMMA InwardToLevelOpened ==
    ASSUME IInv, InwardToLevel, Opened(stmt)
    PROVE  Opened(stmt')
<1> DEFINE g == goto_stmt
           l == label_stmt
           x == SiblingFromNephew(stmt, g, l)
<1>1. /\ TreeOK /\ WaitingOK /\ g # 0 /\ InwardOK
      /\ goto_level \in Nat /\ label_level \in Nat /\ goto_level < label_level
  BY DEF IInv, MovingOK, InwardToLevel
<1>2. g \in GotosIn(stmt) /\ stmt[g].label = l
  BY <1>1, TheGoto
<1>3. /\ x \in DOMAIN stmt /\ HasChildren(stmt, x) /\ stmt[x].up = stmt[g].up
      /\ Earlier(Siblings(stmt, g), g, x)
      /\ \A w : Contains(gotos, w) => Clear(stmt, g, w)
  BY <1>1, TowardsTheLabel
<1>4. stmt' = MoveInward(stmt, g)
  BY <1>3 DEF InwardToLevel
<1>5. NoGotoBehind(stmt, g)
  BY <1>1, <1>3, ClearMeansNoGoto
<1> HIDE DEF g, l
<1>6. x = SiblingFromNephew(stmt, g, stmt[g].label)
  BY <1>2
<1> HIDE DEF x
<1>7. PoolOK(stmt) /\ Numbered(stmt)
  BY <1>1 DEF TreeOK
<1>8. Opened(MoveInward(stmt, g))
  BY <1>2, <1>3, <1>5, <1>6, <1>7, InwardOpened
<1> QED BY <1>4, <1>8

\* The step of RemoveGoto that eliminates the goto.
LEMMA EliminateOpened ==
    ASSUME IInv, Eliminate, Opened(stmt)
    PROVE  Opened(stmt')
<1> DEFINE g == goto_stmt
           l == label_stmt
<1>1. TreeOK /\ WaitingOK /\ g # 0
  BY AtTheLabel DEF IInv, Eliminate
<1>2. /\ g \in GotosIn(stmt) /\ g \in DOMAIN stmt /\ g # Root /\ l \in DOMAIN stmt
      /\ stmt[g].label = l /\ l # Root
      /\ stmt[g].type = "Goto" /\ stmt[l].type = "Label"
  BY <1>1, TheGoto
<1>3. /\ stmt[l].up = stmt[g].up
      /\ NextToLabel \/ \A w : Contains(gotos, w) => Clear(stmt, g, w)
  BY AtTheLabel DEF Eliminate
<1>4. /\ Siblings(stmt, g) = stmt[stmt[g].up].children /\ Siblings(stmt, l) = Siblings(stmt, g)
      /\ Siblings(stmt, g) \in Seq(DOMAIN stmt) /\ Once(Siblings(stmt, g))
      /\ Contains(Siblings(stmt, g), g) /\ Contains(Siblings(stmt, g), l) /\ g # l
  <2>1. /\ Siblings(stmt, g) = stmt[stmt[g].up].children
        /\ stmt[stmt[g].up].children \in Seq(DOMAIN stmt) /\ Once(stmt[stmt[g].up].children)
    BY <1>1, <1>2, ListOf DEF TreeOK
  <2>2. Contains(Siblings(stmt, l), l)
    BY <1>1, <1>2 DEF TreeOK, PoolOK, Lists
  <2>3. Siblings(stmt, l) = Siblings(stmt, g)
    BY <1>3 DEF Siblings
  <2> QED BY <1>2, <2>1, <2>2, <2>3 DEF GotosIn
<1>5. AreSiblings(stmt, g, l)
  BY <1>4 DEF AreSiblings
<1>6. AreOrdered(stmt, g, l) <=> Earlier(Siblings(stmt, g), g, l)
  <2> HIDE DEF g, l
  <2>1. AreOrdered(stmt, g, l) <=> Earlier(Siblings(stmt, l), g, l)
    BY <1>1, <1>2, <1>4, OrderedMeans DEF TreeOK
  <2> QED BY <1>4, <2>1
<1>7. PoolOK(stmt) /\ Numbered(stmt)
  BY <1>1 DEF TreeOK
<1>8. CASE EraseGoto
  BY <1>2, <1>7, <1>8, EraseOpened DEF EraseGoto
<1>9. CASE EliminateForward
  <2>1. stmt' = EliminateAsConditional(stmt, g) /\ ~NextToLabel /\ AreOrdered(stmt, g, l)
    BY <1>9 DEF EliminateForward
  <2>2. stmt[stmt[g].label].up = stmt[g].up /\ Earlier(Siblings(stmt, g), g, stmt[g].label)
    BY <1>2, <1>3, <1>6, <2>1
  <2>3. NoGotoBehind(stmt, g)
    BY <1>1, <1>3, <2>1, ClearMeansNoGoto
  <2>4. Tail(Span(stmt, g, stmt[g].label)) # <<>>
    <3> DEFINE K == Tail(Span(stmt, g, l))
               F == From(stmt, l)
               Z == After(stmt, l)
               D == DOMAIN stmt
    <3>1. SUFFICES ASSUME K = <<>> PROVE FALSE
      BY <1>2
    <3>2. After(stmt, g) = K \o F
      <4> HIDE DEF g, l, D
      <4>1. stmt[g].up = stmt[l].up /\ Earlier(stmt[stmt[g].up].children, g, l)
        BY <1>2, <1>3, <1>4, <2>2
      <4>2. stmt[stmt[g].up].children \in Seq(DOMAIN stmt) /\ Once(stmt[stmt[g].up].children)
        BY <1>4
      <4> QED BY <4>1, <4>2, CutBetween, ZenonT(60)
    <3>3. F \in Seq(D) /\ F = <<l>> \o Z /\ Z \in Seq(D) /\ <<l>> \in Seq(D)
      <4>1. /\ stmt[stmt[l].up].children \in Seq(DOMAIN stmt) /\ Once(stmt[stmt[l].up].children)
            /\ Contains(stmt[stmt[l].up].children, l)
        BY <1>3, <1>4
      <4> QED BY <4>1, CutAt
    <3> HIDE DEF K, F, Z
    <3>4. After(stmt, g) = F
      BY <3>1, <3>2, <3>3
    <3>5. Len(F) # 0 /\ F[1] = l
      <4>1. Len(<<l>>) = 1 /\ <<l>>[1] = l /\ Len(Z) \in Nat
        BY <3>3, LenProperties
      <4>2. Len(F) = 1 + Len(Z) /\ F[1] = l
        BY <3>3, <4>1, JoinedAt
      <4> QED BY <4>1, <4>2
    <3>6. F # <<>> /\ Head(F) = l
      BY <3>3, <3>5, EmptySeq
    <3> QED BY <2>1, <3>4, <3>6 DEF NextToLabel
  <2> HIDE DEF g, l
  <2> QED BY <1>2, <1>7, <2>1, <2>2, <2>3, <2>4, ConditionalOpened
<1>10. CASE EliminateBackward
  <2>1. stmt' = EliminateAsLoop(stmt, g) /\ ~AreOrdered(stmt, g, l)
    BY <1>5, <1>10 DEF EliminateBackward
  <2>2. Earlier(Siblings(stmt, g), l, g)
    <3> HIDE DEF g, l
    <3> QED BY <1>4, <1>6, <2>1, EarlierOrLater
  <2>3. stmt[stmt[g].label].up = stmt[g].up /\ Earlier(Siblings(stmt, g), stmt[g].label, g)
    BY <1>2, <1>3, <2>2
  <2> HIDE DEF g, l
  <2> QED BY <1>2, <1>7, <2>1, <2>3, LoopOpened
<1> QED BY <1>8, <1>9, <1>10 DEF Eliminate

\* Every step of the goto pass.
LEMMA NextOpened ==
    ASSUME IInv, cfg \in Cfgs, [Next]_vars, Opened(stmt)
    PROVE  Opened(stmt')
<1>1. CASE stmt' = stmt
  BY <1>1
<1>2. ASSUME OutwardToRelate PROVE Opened(stmt')
  <2>1. step' # "LogicError" /\ MoveOutward /\ step = "relate"
    BY <1>2, OutwardToRelateKeeps DEF OutwardToRelate
  <2>2. TreeOK /\ WaitingOK /\ goto_stmt # 0 /\ OutwardOK
    BY <2>1 DEF IInv, MovingOK
  <2> QED BY <2>1, <2>2, MoveOutwardOpened
<1>3. ASSUME OutwardToLevel PROVE Opened(stmt')
  <2>1. step' # "LogicError" /\ MoveOutward /\ step = "outward"
    BY <1>3, OutwardToLevelKeeps DEF OutwardToLevel
  <2>2. TreeOK /\ WaitingOK /\ goto_stmt # 0 /\ OutwardOK
    BY <2>1 DEF IInv, MovingOK
  <2> QED BY <2>1, <2>2, MoveOutwardOpened
<1>4. ASSUME NextGoto PROVE stmt' = stmt
  BY <1>4 DEF NextGoto
<1>5. ASSUME Related PROVE stmt' = stmt
  BY <1>5 DEF Related
<1>6. ASSUME CountLevels PROVE stmt' = stmt
  BY <1>6 DEF CountLevels
<1>7. ASSUME Finish PROVE stmt' = stmt
  BY <1>7 DEF Finish
<1>8. ASSUME Terminated \/ UNCHANGED vars PROVE stmt' = stmt
  BY <1>8 DEF Terminated, vars
<1> QED BY <1>1, <1>2, <1>3, <1>4, <1>5, <1>6, <1>7, <1>8, GotoLiftingOpened,
           InwardToLevelOpened, EliminateOpened DEF Next

\* BuildTree lists a reset first and one behind every label.
LEMMA InitOpened ==
    ASSUME Init
    PROVE  Opened(stmt)
<1>1. TargetsAreBlocks(cfg) /\ cfg # <<>> /\ stmt = BuildTree(cfg)
  BY CfgsAssumption, NonEmptyAssumption DEF Init
<1>2. PICK m : FlatPool(stmt, m) /\ Resets(stmt, m, Len(cfg))
  BY <1>1, TheTreeIsFlat
<1>3. Len(cfg) # 0
  BY <1>1, EmptySeq DEF TargetsAreBlocks
<1>4. /\ m \in Nat /\ m > 1 /\ DOMAIN stmt = 1 .. m /\ stmt[2].type = "SetVariable"
      /\ \A s \in 2 .. m : stmt[s].type = "Label" => s < m /\ stmt[s + 1].type = "SetVariable"
      /\ \A s \in 2 .. m : stmt[s].type \in {"Label", "SetVariable", "Code", "Return", "Goto"}
      /\ stmt[Root].type = "Function"
  BY <1>2, <1>3 DEF FlatPool, Resets
<1> DEFINE list == [i \in 1 .. m - 1 |-> i + 1]
<1>5. Children(stmt, Root) = list
  BY <1>2, <1>4 DEF FlatPool, Children, HasChildren
<1>6. Len(list) = m - 1 /\ \A i \in 1 .. m - 1 : list[i] = i + 1
  <2>1. m - 1 \in Nat /\ DOMAIN list = 1 .. m - 1
    BY <1>4
  <2>2. \A i \in 1 .. m - 1 : list[i] = i + 1
    OBVIOUS
  <2>3. list \in Seq(Nat)
    <3>1. Children(stmt, Root) \in Seq(DOMAIN stmt)
      BY <1>2, FlatList
    <3>2. DOMAIN stmt \subseteq Nat
      BY <1>4
    <3> QED BY <1>5, <3>1, <3>2
  <2> HIDE DEF list
  <2> QED BY <2>1, <2>2, <2>3, LenProperties
<1> HIDE DEF list
<1>7. LabelsFollowed(stmt, list)
  <2> SUFFICES ASSUME NEW i \in 1 .. m - 1, stmt[list[i]].type = "Label"
               PROVE  i < m - 1 /\ stmt[list[i + 1]].type = "SetVariable"
    BY <1>6 DEF LabelsFollowed
  <2>1. i + 1 \in 2 .. m /\ stmt[i + 1].type = "Label"
    BY <1>4, <1>6
  <2>2. i + 1 < m /\ stmt[(i + 1) + 1].type = "SetVariable"
    BY <1>4, <2>1
  <2>3. i < m - 1 /\ i + 1 \in 1 .. m - 1
    BY <1>4, <2>2
  <2> QED BY <1>6, <2>2, <2>3
<1>8. StartsWithReset(stmt, list)
  <2>1. 1 \in 1 .. m - 1 /\ m - 1 # 0
    BY <1>4
  <2> QED BY <1>4, <1>6, <2>1 DEF StartsWithReset
<1>9. WellOpened(stmt, Root)
  BY <1>4, <1>5, <1>7, <1>8 DEF WellOpened
<1>10. \A s \in 2 .. m : WellOpened(stmt, s)
  <2>1. \A s \in 2 .. m : s # Root /\ stmt[s].type \notin {"If", "Loop", "Function"}
    BY <1>4 DEF Root
  <2> QED BY <2>1, LeafOpened
<1> QED BY <1>4, <1>9, <1>10 DEF Opened, Root

\* The tree the goto pass leaves, and all it makes on the way, has a statement that opens
\* a block in every If and Loop.
THEOREM ListsStayOpened == Spec => []Opened(stmt)
<1>1. Init => Opened(stmt)
  BY InitOpened
<1>2. IInv /\ cfg \in Cfgs /\ Opened(stmt) /\ [Next]_vars => Opened(stmt)'
  BY NextOpened
<1> QED BY <1>1, <1>2, GotoInvariant, PTL DEF Spec

-----------------------------------------------------------------------------
(* IR blocks, and what the operations do to them.                          *)
\* A list of IR blocks.
Blocks(ir) ==
    /\ Numbered(ir)
    /\ \A b \in 1 .. Len(ir) :
          /\ DOMAIN ir[b] = {"successors", "body"}
          /\ ir[b].successors \in Seq(Nat)

\* Where block b goes.
Succs(ir, b) == ToSet(ir[b].successors)

\* Where the edges that leave b go.
Targets(edges, b) == {edges[i][2] : i \in {j \in 1 .. Len(edges) : edges[j][1] = b}}

\* The successors of a block after one more.
LEMMA InSuccs ==
    ASSUME NEW s \in Seq(Nat), NEW c \in Nat
    PROVE  /\ Contains(s, c) <=> c \in ToSet(s)
           /\ Append(s, c) \in Seq(Nat)
           /\ ToSet(Append(s, c)) = ToSet(s) \cup {c}
<1>1. /\ Append(s, c) \in Seq(Nat) /\ Len(s) \in Nat
      /\ Len(Append(s, c)) = Len(s) + 1
      /\ \A i \in 1 .. Len(s) : Append(s, c)[i] = s[i]
      /\ Append(s, c)[Len(s) + 1] = c
  BY AppendProperties, LenProperties
<1>2. DOMAIN s = 1 .. Len(s) /\ DOMAIN Append(s, c) = 1 .. Len(s) + 1
  BY <1>1, LenProperties
<1>3. 1 .. Len(s) + 1 = (1 .. Len(s)) \cup {Len(s) + 1}
  BY <1>1
<1>4. ToSet(s) = {s[i] : i \in 1 .. Len(s)}
  BY <1>2 DEF ToSet
<1>5. ToSet(Append(s, c)) = {Append(s, c)[i] : i \in 1 .. Len(s) + 1}
  BY <1>2 DEF ToSet
<1> DEFINE t == Append(s, c)
           L == Len(s)
<1>6. /\ L \in Nat /\ \A i \in 1 .. L : t[i] = s[i]
      /\ t[L + 1] = c /\ 1 .. L + 1 = (1 .. L) \cup {L + 1}
      /\ ToSet(s) = {s[i] : i \in 1 .. L} /\ ToSet(t) = {t[i] : i \in 1 .. L + 1}
  BY <1>1, <1>3, <1>4, <1>5
<1>7. ToSet(t) = ToSet(s) \cup {c}
  <2> HIDE DEF t, L
  <2> QED BY <1>6
<1>8. Contains(s, c) <=> c \in ToSet(s)
  BY <1>2, <1>4 DEF Contains
<1> QED BY <1>1, <1>7, <1>8

\* AddBranch adds one edge and nothing else.
LEMMA AddBranchDoes ==
    ASSUME NEW ir, Blocks(ir), NEW b \in 1 .. Len(ir), NEW c \in Nat
    PROVE  LET i2 == AddBranch(ir, b, c)
           IN  /\ Blocks(i2) /\ Len(i2) = Len(ir)
               /\ \A x \in 1 .. Len(ir) : i2[x].body = ir[x].body
               /\ \A x \in 1 .. Len(ir) : x # b => Succs(i2, x) = Succs(ir, x)
               /\ Succs(i2, b) = Succs(ir, b) \cup {c}
<1> DEFINE i2 == AddBranch(ir, b, c)
<1>1. Len(ir) \in Nat /\ DOMAIN ir = 1 .. Len(ir)
  BY NumberedPool DEF Blocks
<1>2. /\ i2 = [x \in 1 .. Len(ir) |-> IF x = b
                    THEN [ir[b] EXCEPT !.successors = Append(ir[b].successors, c)] ELSE ir[x]]
  BY <1>1 DEF AddBranch
<1>3. Numbered(i2) /\ Len(i2) = Len(ir)
  <2>1. i2 = [x \in 1 .. Len(ir) |-> i2[x]]
    BY <1>2
  <2> HIDE DEF i2
  <2> QED BY <1>1, <2>1, NumberPool
<1>4. \A x \in 1 .. Len(ir) : x # b => i2[x] = ir[x]
  BY <1>2
<1>5. i2[b] = [ir[b] EXCEPT !.successors = Append(ir[b].successors, c)]
  BY <1>2
<1>6. /\ DOMAIN ir[b] = {"successors", "body"}
      /\ ir[b].successors \in Seq(Nat)
  BY DEF Blocks
<1> HIDE DEF i2
<1>7. /\ DOMAIN i2[b] = {"successors", "body"} /\ i2[b].body = ir[b].body
      /\ i2[b].successors = Append(ir[b].successors, c)
  BY <1>5, <1>6
<1>8. Append(ir[b].successors, c) \in Seq(Nat)
  BY <1>6, InSuccs
<1>9. Blocks(i2)
  <2> SUFFICES ASSUME NEW x \in 1 .. Len(ir)
               PROVE  DOMAIN i2[x] = {"successors", "body"} /\ i2[x].successors \in Seq(Nat)
    BY <1>3 DEF Blocks
  <2>1. CASE x = b
    BY <2>1, <1>7, <1>8
  <2>2. CASE x # b
    BY <2>2, <1>4 DEF Blocks
  <2> QED BY <2>1, <2>2
<1>10. Succs(i2, b) = Succs(ir, b) \cup {c}
  BY <1>6, <1>7, InSuccs DEF Succs
<1>11. \A x \in 1 .. Len(ir) : x # b => Succs(i2, x) = Succs(ir, x)
  BY <1>4 DEF Succs
<1>12. \A x \in 1 .. Len(ir) : i2[x].body = ir[x].body
  BY <1>4, <1>7
<1> QED BY <1>3, <1>9, <1>10, <1>11, <1>12 DEF i2

\* The blocks when the first n edges were added.
Adding(ir, edges, n, f) ==
    /\ f = [i \in 0 .. n |-> f[i]]
    /\ f[0] = ir
    /\ \A i \in 1 .. n : f[i] = AddBranch(f[i - 1], edges[i][1], edges[i][2])

\* There is a sequence of blocks with one edge more each.
LEMMA AddingExists ==
    ASSUME NEW ir, NEW edges, NEW n \in Nat
    PROVE  \E f : Adding(ir, edges, n, f)
<1> DEFINE Missing == {k \in Nat : ~ \E f : Adding(ir, edges, k, f)}
<1> SUFFICES ASSUME Missing # {} PROVE FALSE
  OBVIOUS
<1>1. PICK k \in Missing : \A j \in Missing : k <= j
  <2>1. Missing \subseteq Nat
    OBVIOUS
  <2> HIDE DEF Missing
  <2> QED BY <2>1, NatMin
<1>2. k # 0
  <2>1. Adding(ir, edges, 0, [i \in 0 .. 0 |-> ir])
    BY DEF Adding
  <2> QED BY <2>1
<1>3. k - 1 \in Nat /\ k \in 1 .. k /\ ~(k <= k - 1) /\ k \notin 0 .. k - 1
  BY <1>2
<1>4. PICK f : Adding(ir, edges, k - 1, f)
  BY <1>1, <1>3
<1> DEFINE g == [i \in 0 .. k |-> IF i = k THEN AddBranch(f[k - 1], edges[k][1], edges[k][2])
                                  ELSE f[i]]
<1>5. /\ g[k] = AddBranch(f[k - 1], edges[k][1], edges[k][2])
      /\ \A i \in 0 .. k - 1 : g[i] = f[i]
  BY <1>3
<1>6. g = [i \in 0 .. k |-> g[i]]
  OBVIOUS
<1> HIDE DEF g
<1>7. g[0] = ir
  BY <1>3, <1>4, <1>5 DEF Adding
<1>8. ASSUME NEW i \in 1 .. k PROVE g[i] = AddBranch(g[i - 1], edges[i][1], edges[i][2])
  <2>1. CASE i = k
    BY <2>1, <1>3, <1>5
  <2>2. CASE i # k
    <3>1. i \in 1 .. k - 1 /\ i \in 0 .. k - 1 /\ i - 1 \in 0 .. k - 1
      BY <2>2, <1>3
    <3> QED BY <3>1, <1>4, <1>5 DEF Adding
  <2> QED BY <2>1, <2>2
<1>9. Adding(ir, edges, k, g)
  BY <1>6, <1>7, <1>8 DEF Adding
<1> QED BY <1>9

\* AddBranches makes the last of them.
LEMMA AddBranchesAdding ==
    ASSUME NEW ir, NEW edges, Len(edges) \in Nat
    PROVE  \E f : Adding(ir, edges, Len(edges), f) /\ AddBranches(ir, edges) = f[Len(edges)]
<1> DEFINE n == Len(edges)
           Solves(h) == h = [i \in 0 .. n |-> IF i = 0 THEN ir
                                 ELSE AddBranch(h[i - 1], edges[i][1], edges[i][2])]
           h == CHOOSE h : Solves(h)
<1>1. PICK f : Adding(ir, edges, n, f)
  BY AddingExists
<1>2. Solves(f)
  <2>1. f = [i \in 0 .. n |-> f[i]]
    BY <1>1 DEF Adding
  <2>2. \A i \in 0 .. n : f[i] = IF i = 0 THEN ir
                                 ELSE AddBranch(f[i - 1], edges[i][1], edges[i][2])
    <3>1. \A i \in 0 .. n : i = 0 \/ i \in 1 .. n
      OBVIOUS
    <3>2. /\ f[0] = ir
          /\ \A i \in 1 .. n : f[i] = AddBranch(f[i - 1], edges[i][1], edges[i][2])
      BY <1>1 DEF Adding
    <3>3. \A i \in 1 .. n : i # 0
      OBVIOUS
    <3> HIDE DEF h, Solves
    <3> QED BY <3>1, <3>2, <3>3, Zenon
  <2> HIDE DEF h
  <2> QED BY <2>1, <2>2
<1>3. Solves(h)
  <2> HIDE DEF Solves
  <2> QED BY <1>2
<1>4. AddBranches(ir, edges) = h[n]
  BY DEF AddBranches
<1> HIDE DEF h
<1>5. Adding(ir, edges, n, h)
  <2>1. h = [i \in 0 .. n |-> h[i]]
    BY <1>3
  <2>2. h[0] = ir
    BY <1>3
  <2>3. \A i \in 1 .. n : h[i] = AddBranch(h[i - 1], edges[i][1], edges[i][2])
    BY <1>3
  <2> HIDE DEF Solves
  <2> QED BY <2>1, <2>2, <2>3 DEF Adding
<1> QED BY <1>4, <1>5

\* i2 is ir with the edges added.
EdgesAdded(ir, i2, edges) ==
    /\ Blocks(i2) /\ Len(i2) = Len(ir)
    /\ \A x \in 1 .. Len(ir) : i2[x].body = ir[x].body
    /\ \A x \in 1 .. Len(ir) : Succs(i2, x) = Succs(ir, x) \cup Targets(edges, x)

\* AddBranches adds the targets of the edges to the blocks they leave.
LEMMA AddBranchesDoes ==
    ASSUME NEW ir, Blocks(ir), NEW edges, Len(edges) \in Nat,
           \A i \in 1 .. Len(edges) : edges[i][1] \in 1 .. Len(ir) /\ edges[i][2] \in Nat
    PROVE  EdgesAdded(ir, AddBranches(ir, edges), edges)
<1>1. PICK f : Adding(ir, edges, Len(edges), f) /\ AddBranches(ir, edges) = f[Len(edges)]
  BY AddBranchesAdding
<1> DEFINE n == Len(edges)
           UpTo(k, b) == {edges[i][2] : i \in {j \in 1 .. k : edges[j][1] = b}}
           Good(k) == /\ Blocks(f[k]) /\ Len(f[k]) = Len(ir)
                      /\ \A x \in 1 .. Len(ir) : f[k][x].body = ir[x].body
                      /\ \A x \in 1 .. Len(ir) : Succs(f[k], x) = Succs(ir, x) \cup UpTo(k, x)
           Bad == {k \in 0 .. n : ~Good(k)}
<1>2. \A k \in 0 .. n : Good(k)
  <2> SUFFICES ASSUME Bad # {} PROVE FALSE
    OBVIOUS
  <2>1. PICK k \in Bad : \A j \in Bad : k <= j
    <3>1. Bad \subseteq Nat
      OBVIOUS
    <3> HIDE DEF Bad
    <3> QED BY <3>1, NatMin
  <2>2. k # 0
    <3>1. f[0] = ir
      BY <1>1 DEF Adding
    <3>2. \A x : UpTo(0, x) = {}
      OBVIOUS
    <3>3. Good(0)
      BY <3>1, <3>2
    <3> QED BY <3>3
  <2>3. k \in 1 .. n /\ k - 1 \in 0 .. n /\ ~(k <= k - 1)
    BY <2>2
  <2>4. Good(k - 1)
    <3>1. k - 1 \notin Bad
      BY <2>1, <2>3
    <3> QED BY <2>3, <3>1
  <2>5. f[k] = AddBranch(f[k - 1], edges[k][1], edges[k][2])
    BY <1>1, <2>3 DEF Adding
  <2> DEFINE b == edges[k][1]
             c == edges[k][2]
  <2>6. b \in 1 .. Len(ir) /\ c \in Nat
    BY <2>3
  <2>7. \A x : UpTo(k, x) = IF x = b THEN UpTo(k - 1, x) \cup {c} ELSE UpTo(k - 1, x)
    <3>1. 1 .. k = (1 .. k - 1) \cup {k} /\ k \notin 1 .. k - 1
      BY <2>3
    <3> QED BY <3>1
  <2> HIDE DEF b, c, UpTo, Bad
  <2>8. Blocks(f[k - 1]) /\ b \in 1 .. Len(f[k - 1]) /\ c \in Nat
    BY <2>4, <2>6
  <2>9. /\ Blocks(f[k]) /\ Len(f[k]) = Len(ir)
        /\ \A x \in 1 .. Len(ir) : f[k][x].body = f[k - 1][x].body
        /\ \A x \in 1 .. Len(ir) : x # b => Succs(f[k], x) = Succs(f[k - 1], x)
        /\ Succs(f[k], b) = Succs(f[k - 1], b) \cup {c}
    <3>1. f[k] = AddBranch(f[k - 1], b, c)
      BY <2>5 DEF b, c
    <3>2. Len(f[k - 1]) = Len(ir)
      BY <2>4
    <3> HIDE DEF Good
    <3> QED BY <2>8, <3>1, <3>2, AddBranchDoes
  <2>10. Good(k)
    BY <2>4, <2>6, <2>7, <2>9
  <2> QED BY <2>1, <2>10 DEF Bad
<1>3. Good(n)
  <2>1. n \in 0 .. n
    OBVIOUS
  <2> HIDE DEF Good
  <2> QED BY <1>2, <2>1
<1>4. \A b : UpTo(n, b) = Targets(edges, b)
  BY DEF Targets
<1> HIDE DEF UpTo
<1> QED BY <1>1, <1>3, <1>4 DEF EdgesAdded

\* i2 is ir with something emitted into block b.
BodySet(ir, i2, b, body) ==
    /\ Blocks(i2) /\ Len(i2) = Len(ir)
    /\ \A x \in 1 .. Len(ir) : x # b => i2[x].body = ir[x].body
    /\ i2[b].body = body
    /\ \A x \in 1 .. Len(ir) : Succs(i2, x) = Succs(ir, x)

\* Setting what a block has leaves the rest alone.
LEMMA SetBodyDoes ==
    ASSUME NEW ir, Blocks(ir), NEW b \in 1 .. Len(ir), NEW body,
           NEW i2, i2 = [ir EXCEPT ![b].body = body]
    PROVE  BodySet(ir, i2, b, body)
<1>1. Len(ir) \in Nat /\ DOMAIN ir = 1 .. Len(ir)
  BY NumberedPool DEF Blocks
<1>2. /\ i2 = [x \in 1 .. Len(ir) |-> IF x = b THEN [ir[b] EXCEPT !.body = body] ELSE ir[x]]
  BY <1>1
<1>3. Numbered(i2) /\ Len(i2) = Len(ir)
  <2>1. i2 = [x \in 1 .. Len(ir) |-> i2[x]]
    BY <1>2
  <2>2. Len(ir) \in Nat
    BY <1>1
  <2> DEFINE n == Len(ir)
  <2>3. n \in Nat /\ i2 = [x \in 1 .. n |-> i2[x]]
    BY <2>1, <2>2
  <2> HIDE DEF n
  <2>4. Numbered(i2) /\ Len(i2) = n
    BY ONLY <2>3, NumberPool
  <2> QED BY <2>4 DEF n
<1>4. \A x \in 1 .. Len(ir) : x # b => i2[x] = ir[x]
  BY <1>2
<1>5. i2[b] = [ir[b] EXCEPT !.body = body]
  BY <1>2
<1>6. /\ DOMAIN ir[b] = {"successors", "body"}
      /\ ir[b].successors \in Seq(Nat)
  BY DEF Blocks
<1>7. /\ DOMAIN i2[b] = {"successors", "body"} /\ i2[b].body = body
      /\ i2[b].successors = ir[b].successors
  BY <1>5, <1>6
<1>8. \A x \in 1 .. Len(ir) : i2[x].successors = ir[x].successors
  BY <1>4, <1>7
<1>9. Blocks(i2)
  <2> SUFFICES ASSUME NEW x \in 1 .. Len(ir)
               PROVE  DOMAIN i2[x] = {"successors", "body"} /\ i2[x].successors \in Seq(Nat)
    BY <1>3 DEF Blocks
  <2>1. CASE x = b
    BY <2>1, <1>6, <1>7
  <2>2. CASE x # b
    BY <2>2, <1>4 DEF Blocks
  <2> QED BY <2>1, <2>2
<1>10. \A x \in 1 .. Len(ir) : Succs(i2, x) = Succs(ir, x)
  BY <1>8 DEF Succs
<1> QED BY <1>3, <1>4, <1>7, <1>8, <1>9, <1>10 DEF BodySet

\* Emit puts its effects behind what the block has.
LEMMA EmitDoes ==
    ASSUME NEW ir, Blocks(ir), NEW b \in 1 .. Len(ir), NEW effects
    PROVE  BodySet(ir, Emit(ir, b, effects), b, ir[b].body \o effects)
<1>1. DOMAIN ir[b] = {"successors", "body"} /\ DOMAIN ir = 1 .. Len(ir)
  BY NumberedPool DEF Blocks
<1> DEFINE body == ir[b].body \o effects
<1>2. Emit(ir, b, effects) = [ir EXCEPT ![b].body = body]
  BY <1>1 DEF Emit
<1> HIDE DEF body
<1>3. BodySet(ir, Emit(ir, b, effects), b, body)
  BY <1>2, SetBodyDoes
<1> QED BY <1>3 DEF body

\* i2 is ir with one more block.
BlockMade(ir, i2) ==
    /\ Blocks(i2) /\ Len(ir) \in Nat /\ Len(i2) = Len(ir) + 1
    /\ \A x \in 1 .. Len(ir) : i2[x] = ir[x] /\ Succs(i2, x) = Succs(ir, x)
    /\ Succs(i2, Len(ir) + 1) = {} /\ i2[Len(ir) + 1].body = <<>>

\* A new block is empty and leads nowhere.
LEMMA NewBlockDoes ==
    ASSUME NEW ir, Blocks(ir)
    PROVE  BlockMade(ir, NewBlock(ir))
<1> DEFINE r == [successors |-> <<>>, body |-> <<>>]
           i2 == NewBlock(ir)
           n == Len(ir) + 1
<1>1. Created(ir, i2, r)
  BY CreateDoes DEF Blocks, NewBlock, Create
<1>2. /\ DOMAIN r = {"successors", "body"} /\ r.successors = <<>> /\ r.body = <<>>
  OBVIOUS
<1>3. DOMAIN ir = 1 .. Len(ir) /\ Len(ir) \in Nat
  BY NumberedPool DEF Blocks
<1> HIDE DEF r, i2
<1>4. /\ i2[n] = r /\ Len(i2) = n /\ \A x \in 1 .. Len(ir) : i2[x] = ir[x]
      /\ Numbered(i2)
  BY <1>1, <1>3 DEF Created
<1>5. 1 .. n = (1 .. Len(ir)) \cup {n} /\ n \notin 1 .. Len(ir)
  BY <1>3
<1>6. <<>> \in Seq(Nat) /\ ToSet(<<>>) = {}
  BY DEF ToSet
<1>7. Blocks(i2)
  <2> SUFFICES ASSUME NEW x \in 1 .. n
               PROVE  DOMAIN i2[x] = {"successors", "body"} /\ i2[x].successors \in Seq(Nat)
    BY <1>4 DEF Blocks
  <2>1. CASE x = n
    BY <2>1, <1>2, <1>4, <1>6
  <2>2. CASE x # n
    <3>1. x \in 1 .. Len(ir)
      BY <1>5, <2>2
    <3> QED BY <3>1, <1>4 DEF Blocks
  <2> QED BY <2>1, <2>2
<1>8. Succs(i2, n) = {} /\ i2[n].body = <<>>
  BY <1>2, <1>4, <1>6 DEF Succs
<1>9. \A x \in 1 .. Len(ir) : Succs(i2, x) = Succs(ir, x)
  BY <1>4 DEF Succs
<1> QED BY <1>3, <1>4, <1>7, <1>8, <1>9 DEF BlockMade, i2

\* AddBranch does not throw on edges that are all new.
LEMMA CanBranchIf ==
    ASSUME NEW ir, Blocks(ir), NEW edges, DOMAIN edges = 1 .. Len(edges),
           \A i \in 1 .. Len(edges) : edges[i][1] \in 1 .. Len(ir) /\ edges[i][2] \in Nat,
           \A i \in 1 .. Len(edges) : Succs(ir, edges[i][1]) = {},
           \A i, j \in 1 .. Len(edges) :
              i # j => edges[i][1] # edges[j][1] \/ edges[i][2] # edges[j][2]
    PROVE  CanBranch(ir, edges)
<1> SUFFICES ASSUME NEW i \in 1 .. Len(edges)
             PROVE  /\ ~Contains(ir[edges[i][1]].successors, edges[i][2])
                    /\ \A j \in 1 .. i - 1 : edges[i] # edges[j]
  BY DEF CanBranch
<1>1. ir[edges[i][1]].successors \in Seq(Nat)
  BY DEF Blocks
<1>2. ~Contains(ir[edges[i][1]].successors, edges[i][2])
  BY <1>1, InSuccs DEF Succs
<1>3. ASSUME NEW j \in 1 .. i - 1 PROVE edges[i] # edges[j]
  <2>1. j \in 1 .. Len(edges) /\ i # j
    OBVIOUS
  <2> QED BY <2>1
<1> QED BY <1>2, <1>3

-----------------------------------------------------------------------------
(* The list and the edges, by themselves.                                  *)

\* Node i of the list is that of block b.
At(list, i, b) == i \in 1 .. Len(list) /\ list[i] = BlockNode(b)

\* Where the node after node i goes.
NextGoesTo(list, i) == IF i < Len(list) THEN NodeGoesTo(list[i + 1]) ELSE {}

\* The edge from the block of node i to c is that of the Repeat behind it.
Repeats(list, i, c) ==
    i < Len(list) /\ list[i + 1].type = "Repeat" /\ list[i + 1].header = c

\* The list has every block of 1 .. n but those of R, each once, and the edges S between
\* them are what it says; an edge that does not go forward is that of a Repeat, from a
\* block of Q.  The list ends with the block cur that is open, or with no block.
NodesAreBlocks(n, list) ==
    \A i \in 1 .. Len(list) : list[i].type = "Block" =>
        list[i] = BlockNode(list[i].block) /\ list[i].block \in 1 .. n
ListedOnce(n, list) ==
    \A i, j \in 1 .. Len(list), b \in 1 .. n : At(list, i, b) /\ At(list, j, b) => i = j
AllListed(R, n, list) ==
    \A b \in 1 .. n : b \in R <=> ~ \E i \in 1 .. Len(list) : At(list, i, b)
EdgesFollow(R, n, S, list) ==
    /\ \A i \in 1 .. Len(list), b \in 1 .. n : At(list, i, b) => S[b] = NextGoesTo(list, i)
    /\ \A b \in R : S[b] = {}
EdgesGoForward(n, S, Q, list) ==
    \A i, j \in 1 .. Len(list), b, c \in 1 .. n :
        At(list, i, b) /\ At(list, j, c) /\ c \in S[b] =>
            i < j \/ (Repeats(list, i, c) /\ b \in Q)
EndsWith(list, cur) ==
    /\ cur # 0 => At(list, Len(list), cur)
    /\ cur = 0 /\ Len(list) # 0 => list[Len(list)].type # "Block"
Layout(R, n, S, Q, list, cur) ==
    /\ n \in Nat /\ S \in [1 .. n -> SUBSET (2 .. n)] /\ R \subseteq 1 .. n /\ Numbered(list)
    /\ cur \in 0 .. n
    /\ NodesAreBlocks(n, list)
    /\ ListedOnce(n, list)
    /\ AllListed(R, n, list)
    /\ EdgesFollow(R, n, S, list)
    /\ EdgesGoForward(n, S, Q, list)
    /\ EndsWith(list, cur)
    /\ Len(list) # 0 => At(list, 1, 1)

-----------------------------------------------------------------------------
(* The calls.                                                              *)
CallRecords ==
    [parent : Nat, at : Nat \ {0}, current : Nat, break : Nat, fallthrough : Nat,
     locals : [header : Nat, continue : Nat, merge : Nat, node : Nat]]

IsLoop(c) == c.locals.header # 0

\* The blocks that call c lists when it ends.
ReservedBy(c) == {c.locals.continue, c.locals.merge} \ {0}
Reserved(cs) == UNION {ReservedBy(cs[i]) : i \in 1 .. Len(cs)}

\* What a call was called with.
CallOK(cs, i) ==
    LET c == cs[i]
        l == c.locals
    IN  /\ i = 1 => l = NoLocals /\ c.fallthrough = 0 /\ c.break = 0
        /\ i # 1 => /\ l.merge # 0
                    /\ IsLoop(c) => /\ l.continue # 0 /\ l.continue # l.merge
                                    /\ c.fallthrough = l.continue
                    /\ ~IsLoop(c) => l.continue = 0 /\ c.fallthrough = l.merge
        /\ c.break # 0 => \E j \in 1 .. i : IsLoop(cs[j]) /\ c.break = cs[j].locals.merge

\* Its node waits to be filled in, behind the block it is about; a block follows.
NodeOK(cs, i, list) ==
    LET c == cs[i]
        k == c.locals.node
    IN  /\ i # 1 => /\ k \in 2 .. Len(list)
                    /\ list[k] = [type |-> "Pending"]
                    /\ IF IsLoop(c) THEN list[k - 1] = BlockNode(c.locals.header)
                       ELSE list[k - 1] = BlockNode(cs[i - 1].current)
        /\ k < Len(list) => list[k + 1].type = "Block"
Frames(cs, list) ==
    /\ cs \in Seq(CallRecords) /\ Len(cs) # 0
    /\ \A i \in 1 .. Len(cs) : CallOK(cs, i) /\ NodeOK(cs, i, list)
    /\ \A i, j \in 1 .. Len(cs) : i < j =>
          /\ ReservedBy(cs[i]) \cap ReservedBy(cs[j]) = {}
          /\ cs[i].locals.node < cs[j].locals.node

SuccsOf(ir) == [b \in 1 .. Len(ir) |-> Succs(ir, b)]
Quiet(ir) == {b \in 1 .. Len(ir) : \A e \in ToSet(ir[b].body) : e[1] = "ConditionRef"}

Build(cs, ir, list) ==
    /\ Blocks(ir)
    /\ Frames(cs, list)
    /\ Layout(Reserved(cs), Len(ir), SuccsOf(ir), Quiet(ir), list, cs[Len(cs)].current)
    /\ \A b \in Reserved(cs) : ir[b].body = <<>>

\* When the pass has returned.
Finished(ir, list) ==
    /\ Blocks(ir) /\ Len(list) # 0
    /\ Layout({}, Len(ir), SuccsOf(ir), Quiet(ir), list, 0)

\* What BlockNode makes.
LEMMA BlockNodeIs ==
    /\ \A b : BlockNode(b).type = "Block" /\ BlockNode(b).block = b
    /\ \A b, c : BlockNode(b) = BlockNode(c) => b = c
<1>1. \A b : BlockNode(b).type = "Block" /\ BlockNode(b).block = b
  BY DEF BlockNode
<1> QED BY <1>1

\* More blocks, that wait to be listed.
MoreBlocks(R, n, S, R2, n2, S2) ==
    /\ n2 \in Nat /\ n <= n2 /\ R2 = R \cup (n + 1 .. n2)
    /\ S2 \in [1 .. n2 -> SUBSET (2 .. n2)]
    /\ \A b \in 1 .. n : S2[b] = S[b]
    /\ \A b \in n + 1 .. n2 : S2[b] = {}

\* Blocks that are made but not listed wait.
LEMMA LayoutGrows ==
    ASSUME NEW R, NEW n, NEW S, NEW Q, NEW list, NEW cur, Layout(R, n, S, Q, list, cur),
           NEW R2, NEW n2, NEW S2, MoreBlocks(R, n, S, R2, n2, S2), NEW Q2, Q \subseteq Q2
    PROVE  Layout(R2, n2, S2, Q2, list, cur)
<1>1. /\ n \in Nat /\ R \subseteq 1 .. n /\ Numbered(list) /\ cur \in 0 .. n
      /\ S \in [1 .. n -> SUBSET (2 .. n)]
      /\ Len(list) # 0 => At(list, 1, 1)
  BY DEF Layout
<1> USE DEF MoreBlocks
<1>2. 1 .. n2 = (1 .. n) \cup (n + 1 .. n2) /\ n2 \in Nat /\ cur \in 0 .. n2
  BY <1>1
<1>3. \A i \in 1 .. Len(list) : \A b : At(list, i, b) => b \in 1 .. n
  BY BlockNodeIs DEF Layout, NodesAreBlocks, At
<1>4. NodesAreBlocks(n2, list)
  BY <1>2 DEF Layout, NodesAreBlocks
<1>5. ListedOnce(n2, list)
  BY <1>3 DEF Layout, ListedOnce
<1>6. AllListed(R2, n2, list)
  <2>1. AllListed(R, n, list)
    BY DEF Layout
  <2>2. \A b \in 1 .. n : b \in R2 <=> b \in R
    BY <1>1
  <2> QED BY <1>2, <1>3, <2>1, <2>2 DEF AllListed
<1>7. EdgesFollow(R2, n2, S2, list)
  <2>1. EdgesFollow(R, n, S, list)
    BY DEF Layout
  <2>2. \A b \in R : b \in 1 .. n
    BY <1>1
  <2>3. \A b \in R2 : S2[b] = {}
    BY <2>1, <2>2 DEF EdgesFollow
  <2> QED BY <1>3, <2>1, <2>3 DEF EdgesFollow
<1>8. EdgesGoForward(n2, S2, Q2, list)
  BY <1>3 DEF Layout, EdgesGoForward
<1>9. EndsWith(list, cur)
  BY DEF Layout
<1>10. R2 \subseteq 1 .. n2
  BY <1>1, <1>2
<1>11. S2 \in [1 .. n2 -> SUBSET (2 .. n2)]
  OBVIOUS
<1>12. Layout(R2, n2, S2, Q2, list, cur)
  BY <1>1, <1>2, <1>4, <1>5, <1>6, <1>7, <1>8, <1>9, <1>10, <1>11 DEF Layout
<1> QED BY <1>12

\* Something is emitted into the open block, or into the first.
LEMMA LayoutWrites ==
    ASSUME NEW R, NEW n, NEW S, NEW Q, NEW list, NEW cur, Layout(R, n, S, Q, list, cur),
           NEW Q2, \A b \in Q : b \in Q2 \/ b = cur \/ b = 1
    PROVE  Layout(R, n, S, Q2, list, cur)
<1>1. /\ n \in Nat /\ Numbered(list) /\ S \in [1 .. n -> SUBSET (2 .. n)]
      /\ Len(list) # 0 => At(list, 1, 1)
      /\ ListedOnce(n, list) /\ EndsWith(list, cur) /\ EdgesGoForward(n, S, Q, list)
      /\ EdgesFollow(R, n, S, list)
  BY DEF Layout
<1>2. Len(list) \in Nat
  BY <1>1, NumberedPool
<1>3. EdgesGoForward(n, S, Q2, list)
  <2> SUFFICES ASSUME NEW i \in 1 .. Len(list), NEW j \in 1 .. Len(list), NEW b \in 1 .. n,
                      NEW c \in 1 .. n, At(list, i, b), At(list, j, c), c \in S[b], ~(i < j)
               PROVE  Repeats(list, i, c) /\ b \in Q2
    BY DEF EdgesGoForward
  <2>1. Repeats(list, i, c) /\ b \in Q
    BY <1>1 DEF EdgesGoForward
  <2>2. i < Len(list)
    BY <2>1 DEF Repeats
  <2>3. b # cur
    <3> SUFFICES ASSUME b = cur PROVE FALSE
      OBVIOUS
    <3>1. At(list, Len(list), b) /\ Len(list) \in 1 .. Len(list)
      BY <1>1, <1>2 DEF EndsWith, At
    <3>2. i = Len(list)
      BY <1>1, <3>1 DEF ListedOnce
    <3> QED BY <2>2, <3>2, <1>2
  <2>4. b # 1
    <3> SUFFICES ASSUME b = 1 PROVE FALSE
      OBVIOUS
    <3>1. At(list, 1, 1) /\ 1 \in 1 .. Len(list)
      BY <1>1, <1>2
    <3>2. i = 1
      BY <1>1, <3>1 DEF ListedOnce
    <3>3. j = 1
      BY <3>2, <1>2
    <3>4. c = 1
      BY <3>1, <3>3, BlockNodeIs DEF At
    <3>5. S[b] \subseteq 2 .. n
      BY <1>1
    <3> QED BY <3>4, <3>5
  <2> QED BY <2>1, <2>3, <2>4
<1> QED BY <1>3 DEF Layout

\* list2 is list with more nodes behind it.
Extends(list, list2) ==
    /\ Numbered(list) /\ Numbered(list2)
    /\ Len(list) <= Len(list2)
    /\ \A i \in 1 .. Len(list) : list2[i] = list[i]

\* A node that goes nowhere closes the open block.
LEMMA LayoutCloses ==
    ASSUME NEW R, NEW n, NEW S, NEW Q, NEW list, NEW cur, Layout(R, n, S, Q, list, cur),
           cur # 0,
           NEW list2, Extends(list, list2), Len(list2) = Len(list) + 1,
           list2[Len(list) + 1].type # "Block", NodeGoesTo(list2[Len(list) + 1]) = {}
    PROVE  Layout(R, n, S, Q, list2, 0)
<1> DEFINE L == Len(list)
<1>1. /\ n \in Nat /\ Numbered(list) /\ S \in [1 .. n -> SUBSET (2 .. n)]
      /\ ListedOnce(n, list) /\ AllListed(R, n, list) /\ EdgesGoForward(n, S, Q, list)
      /\ EdgesFollow(R, n, S, list) /\ NodesAreBlocks(n, list) /\ EndsWith(list, cur)
      /\ cur \in 1 .. n /\ R \subseteq 1 .. n
      /\ L # 0 => At(list, 1, 1)
  BY DEF Layout
<1>2. L \in Nat /\ Len(list2) = L + 1 /\ \A i \in 1 .. L : list2[i] = list[i]
  BY <1>1, NumberedPool DEF Extends
<1>3. 1 .. L + 1 = (1 .. L) \cup {L + 1} /\ L + 1 \notin 1 .. L
  BY <1>2
<1>4. \A i, b : At(list2, i, b) <=> At(list, i, b)
  BY <1>2, <1>3, BlockNodeIs DEF At
<1>5. At(list, L, cur) /\ L \in 1 .. L
  BY <1>1 DEF EndsWith, At
<1>6. NodesAreBlocks(n, list2)
  BY <1>1, <1>2, <1>3 DEF NodesAreBlocks
<1>7. \A i, b : At(list2, i, b) => i \in 1 .. L /\ At(list, i, b)
  BY <1>4 DEF At
<1>8. ListedOnce(n, list2)
  BY <1>1, <1>7 DEF ListedOnce
<1>9. AllListed(R, n, list2)
  <2>1. \A b : (\E i \in 1 .. L + 1 : At(list2, i, b)) <=> \E i \in 1 .. L : At(list, i, b)
    BY <1>3, <1>4, <1>7
  <2> QED BY <1>1, <1>2, <2>1 DEF AllListed
<1>10. \A i \in 1 .. L : NextGoesTo(list2, i) = NextGoesTo(list, i)
  <2> SUFFICES ASSUME NEW i \in 1 .. L PROVE NextGoesTo(list2, i) = NextGoesTo(list, i)
    OBVIOUS
  <2>1. CASE i < L
    <3>1. i + 1 \in 1 .. L /\ i < L + 1
      BY <2>1, <1>2
    <3> QED BY <2>1, <3>1, <1>2 DEF NextGoesTo
  <2>2. CASE i = L
    <3>1. ~(i < L) /\ i < L + 1
      BY <2>2, <1>2
    <3> QED BY <2>2, <3>1, <1>2 DEF NextGoesTo
  <2> QED BY <2>1, <2>2, <1>2
<1>11. EdgesFollow(R, n, S, list2)
  BY <1>1, <1>7, <1>10 DEF EdgesFollow
<1>12. \A i \in 1 .. L : \A c : Repeats(list, i, c) => Repeats(list2, i, c)
  <2> SUFFICES ASSUME NEW i \in 1 .. L, NEW c, Repeats(list, i, c) PROVE Repeats(list2, i, c)
    OBVIOUS
  <2>1. i < L /\ i + 1 \in 1 .. L /\ i < L + 1
    BY <1>2 DEF Repeats
  <2> QED BY <2>1, <1>2 DEF Repeats
<1>13. EdgesGoForward(n, S, Q, list2)
  BY <1>1, <1>7, <1>12 DEF EdgesGoForward
<1>14. EndsWith(list2, 0)
  BY <1>2 DEF EndsWith
<1>15. At(list2, 1, 1)
  BY <1>1, <1>4, <1>5
<1> QED BY <1>1, <1>6, <1>8, <1>9, <1>11, <1>13, <1>14, <1>15 DEF Layout, Extends

\* A block that waited is listed, behind nothing or behind a node, and opened; the block
\* that was open goes where the node behind it says.
LEMMA LayoutPuts ==
    ASSUME NEW R, NEW n, NEW S, NEW Q, NEW list, NEW cur, Layout(R, n, S, Q, list, cur),
           NEW b \in R, NEW X \in SUBSET (2 .. n),
           NEW list2, Extends(list, list2), Len(list2) \in {Len(list) + 1, Len(list) + 2},
           list2[Len(list2)] = BlockNode(b),
           Len(list2) = Len(list) + 2 => list2[Len(list) + 1].type # "Block",
           Len(list) = 0 => b = 1 /\ Len(list2) = 1,
           cur # 0 => X = NodeGoesTo(list2[Len(list) + 1]),
           \A c \in X : c \in R \/ (Repeats(list2, Len(list), c) /\ cur \in Q),
           NEW S2, S2 = IF cur = 0 THEN S ELSE [S EXCEPT ![cur] = X]
    PROVE  Layout(R \ {b}, n, S2, Q, list2, b)
<1> DEFINE L == Len(list)
           k == Len(list2)
<1>1. /\ n \in Nat /\ Numbered(list) /\ S \in [1 .. n -> SUBSET (2 .. n)]
      /\ ListedOnce(n, list) /\ AllListed(R, n, list) /\ EdgesGoForward(n, S, Q, list)
      /\ EdgesFollow(R, n, S, list) /\ NodesAreBlocks(n, list) /\ EndsWith(list, cur)
      /\ cur \in 0 .. n /\ R \subseteq 1 .. n
      /\ L # 0 => At(list, 1, 1)
  BY DEF Layout
<1>2. L \in Nat /\ Len(list2) = k /\ \A i \in 1 .. L : list2[i] = list[i]
  BY <1>1, NumberedPool DEF Extends
<1>3. /\ k \in Nat /\ k > L /\ k >= 1 /\ L + 1 \in 1 .. k
      /\ \A i \in 1 .. k : i \in 1 .. L \/ i = k \/ (i = L + 1 /\ k = L + 2)
      /\ \A i \in 1 .. L : i \in 1 .. k /\ i # k /\ i < k
  BY <1>2
<1>4. \A i, c : At(list2, i, c) <=> At(list, i, c) \/ (i = k /\ c = b)
  <2> SUFFICES ASSUME NEW i, NEW c
               PROVE  At(list2, i, c) <=> At(list, i, c) \/ (i = k /\ c = b)
    OBVIOUS
  <2>1. CASE i \in 1 .. L
    BY <2>1, <1>2, <1>3 DEF At
  <2>2. CASE i = k
    BY <2>2, <1>2, <1>3, BlockNodeIs DEF At
  <2>3. CASE i \notin 1 .. L /\ i # k
    <3>1. ~At(list, i, c)
      BY <2>3 DEF At
    <3>2. ~At(list2, i, c)
      <4> SUFFICES ASSUME At(list2, i, c) PROVE FALSE
        OBVIOUS
      <4>1. i = L + 1 /\ k = L + 2 /\ list2[i] = BlockNode(c)
        BY <2>3, <1>2, <1>3 DEF At
      <4> QED BY <4>1, BlockNodeIs
    <3> QED BY <2>3, <3>1, <3>2
  <2> QED BY <2>1, <2>2, <2>3
<1>5. b \in 1 .. n /\ \A i \in 1 .. L : ~At(list, i, b)
  BY <1>1 DEF AllListed
<1>6. cur # 0 => cur \in 1 .. n /\ At(list, L, cur) /\ L \in 1 .. L
  BY <1>1 DEF EndsWith, At
<1>7. S2 \in [1 .. n -> SUBSET (2 .. n)]
  BY <1>1
<1>8. /\ cur # 0 => S2[cur] = X
      /\ \A c \in 1 .. n : c # cur => S2[c] = S[c]
  BY <1>1, <1>6
<1>9. NodesAreBlocks(n, list2)
  <2> SUFFICES ASSUME NEW i \in 1 .. k, list2[i].type = "Block"
               PROVE  list2[i] = BlockNode(list2[i].block) /\ list2[i].block \in 1 .. n
    BY <1>2 DEF NodesAreBlocks
  <2>1. CASE i \in 1 .. L
    BY <2>1, <1>1, <1>2 DEF NodesAreBlocks
  <2>2. CASE i = k
    BY <2>2, <1>5, BlockNodeIs
  <2> QED BY <2>1, <2>2, <1>3
<1>10. \A i, c : At(list, i, c) => i \in 1 .. L
  BY DEF At
<1>11. ListedOnce(n, list2)
  <2> SUFFICES ASSUME NEW i, NEW j, NEW c \in 1 .. n, At(list2, i, c), At(list2, j, c)
               PROVE  i = j
    BY DEF ListedOnce
  <2> QED BY <1>1, <1>4, <1>5, <1>10 DEF ListedOnce
<1>12. AllListed(R \ {b}, n, list2)
  <2> SUFFICES ASSUME NEW c \in 1 .. n
               PROVE  c \in R \ {b} <=> ~ \E i \in 1 .. k : At(list2, i, c)
    BY <1>2 DEF AllListed
  <2>1. c \in R <=> ~ \E i \in 1 .. L : At(list, i, c)
    BY <1>1 DEF AllListed
  <2>2. k \in 1 .. k
    BY <1>3
  <2> QED BY <2>1, <2>2, <1>3, <1>4, <1>10
<1>13. \A i \in 1 .. L : i < L => NextGoesTo(list2, i) = NextGoesTo(list, i)
  <2> SUFFICES ASSUME NEW i \in 1 .. L, i < L PROVE NextGoesTo(list2, i) = NextGoesTo(list, i)
    OBVIOUS
  <2>1. i + 1 \in 1 .. L /\ i < k
    BY <1>2, <1>3
  <2> QED BY <2>1, <1>2 DEF NextGoesTo
<1>14. /\ L \in 1 .. L => NextGoesTo(list2, L) = NodeGoesTo(list2[L + 1])
       /\ NextGoesTo(list2, k) = {}
  BY <1>2, <1>3 DEF NextGoesTo
<1>15. \A i, c : At(list, i, c) /\ c # cur => c \in 1 .. n /\ i \in 1 .. L /\ i < L
  <2> SUFFICES ASSUME NEW i, NEW c, At(list, i, c), c # cur
               PROVE  c \in 1 .. n /\ i \in 1 .. L /\ i < L
    OBVIOUS
  <2>1. i \in 1 .. L /\ list[i] = BlockNode(c)
    BY DEF At
  <2>2. c \in 1 .. n
    BY <1>1, <2>1, BlockNodeIs DEF NodesAreBlocks
  <2>3. i # L
    <3> SUFFICES ASSUME i = L PROVE FALSE
      OBVIOUS
    <3>1. L # 0 /\ list[L].type = "Block"
      BY <2>1, <1>2, BlockNodeIs
    <3>2. cur # 0
      BY <1>1, <3>1 DEF EndsWith
    <3> QED BY <1>6, <3>2, <2>1, BlockNodeIs DEF At
  <2> QED BY <2>1, <2>2, <2>3, <1>2
<1>16. EdgesFollow(R \ {b}, n, S2, list2)
  <2>1. ASSUME NEW i, NEW c \in 1 .. n, At(list2, i, c) PROVE S2[c] = NextGoesTo(list2, i)
    <3>1. CASE i = k /\ c = b
      <4>1. b # cur
        BY <1>5, <1>6
      <4>2. S[b] = {}
        BY <1>1 DEF EdgesFollow
      <4> QED BY <3>1, <4>1, <4>2, <1>8, <1>14
    <3>2. CASE At(list, i, c) /\ c = cur
      <4>1. cur # 0 /\ i = L
        <5>1. cur # 0
          BY <3>2, <1>1
        <5> QED BY <5>1, <1>1, <1>6, <3>2, <1>10 DEF ListedOnce
      <4> QED BY <3>2, <4>1, <1>6, <1>8, <1>14
    <3>3. CASE At(list, i, c) /\ c # cur
      <4>1. i \in 1 .. L /\ i < L
        BY <3>3, <1>15
      <4>2. S[c] = NextGoesTo(list, i)
        BY <3>3, <4>1, <1>1 DEF EdgesFollow
      <4> QED BY <3>3, <4>1, <4>2, <1>8, <1>13
    <3> QED BY <2>1, <3>1, <3>2, <3>3, <1>4
  <2>2. ASSUME NEW c \in R \ {b} PROVE S2[c] = {}
    <3>1. c \in 1 .. n /\ \A i \in 1 .. L : ~At(list, i, c)
      BY <1>1 DEF AllListed
    <3>2. c # cur
      BY <3>1, <1>6
    <3> QED BY <3>1, <3>2, <1>1, <1>8 DEF EdgesFollow
  <2> QED BY <2>1, <2>2 DEF EdgesFollow
<1>18. \A i \in 1 .. L : \A c : Repeats(list, i, c) => Repeats(list2, i, c)
  <2> SUFFICES ASSUME NEW i \in 1 .. L, NEW c, Repeats(list, i, c) PROVE Repeats(list2, i, c)
    OBVIOUS
  <2>1. i < L /\ i + 1 \in 1 .. L /\ i < k
    BY <1>2, <1>3 DEF Repeats
  <2> QED BY <2>1, <1>2 DEF Repeats
<1>19. EdgesGoForward(n, S2, Q, list2)
  <2> SUFFICES ASSUME NEW i, NEW j, NEW c \in 1 .. n, NEW d \in 1 .. n,
                      At(list2, i, c), At(list2, j, d), d \in S2[c], ~(i < j)
               PROVE  Repeats(list2, i, d) /\ c \in Q
    BY DEF EdgesGoForward
  <2>1. CASE i = k /\ c = b
    <3>1. b # cur
      BY <1>5, <1>6
    <3>2. S[b] = {}
      BY <1>1 DEF EdgesFollow
    <3> QED BY <2>1, <3>1, <3>2, <1>8
  <2>2. CASE At(list, i, c) /\ c = cur
    <3>1. cur # 0 /\ i = L /\ i \in 1 .. L
      <4>1. cur # 0
        BY <2>2, <1>1
      <4> QED BY <4>1, <1>1, <1>6, <2>2, <1>10 DEF ListedOnce
    <3>2. d \in X
      BY <2>2, <3>1, <1>8
    <3>3. CASE d \in R
      <4>1. \A l \in 1 .. L : ~At(list, l, d)
        BY <3>3, <1>1 DEF AllListed
      <4>2. j = k
        BY <4>1, <1>4, <1>10
      <4> QED BY <4>2, <3>1, <1>3
    <3>4. CASE Repeats(list2, L, d) /\ cur \in Q
      BY <3>1, <3>4, <2>2
    <3> QED BY <3>2, <3>3, <3>4
  <2>3. CASE At(list, i, c) /\ c # cur
    <3>1. d \in S[c] /\ i \in 1 .. L
      BY <2>3, <1>8, <1>10
    <3>2. CASE At(list, j, d)
      <4>1. Repeats(list, i, d) /\ c \in Q
        BY <2>3, <3>1, <3>2, <1>1, <1>10 DEF EdgesGoForward
      <4> QED BY <4>1, <3>1, <1>18
    <3>3. CASE j = k
      BY <3>1, <3>3, <1>3
    <3> QED BY <3>2, <3>3, <1>4
  <2> QED BY <2>1, <2>2, <2>3, <1>4
<1>20. EndsWith(list2, b)
  <2>1. b # 0 /\ At(list2, k, b)
    BY <1>1, <1>4, <1>5
  <2> QED BY <2>1, <1>2 DEF EndsWith
<1>21. At(list2, 1, 1)
  BY <1>1, <1>2, <1>4
<1> QED BY <1>1, <1>5, <1>7, <1>9, <1>11, <1>12, <1>16, <1>19, <1>20, <1>21 DEF Layout, Extends

\* Node k waits to be filled in, behind the node of block h.
Waits(n, list, k, h) ==
    /\ k \in 2 .. Len(list) /\ list[k] = [type |-> "Pending"]
    /\ h \in 1 .. n /\ At(list, k - 1, h)

\* S2 are the edges S but that block h goes to X.
Redirected(n, S, h, X, S2) ==
    /\ S2 \in [1 .. n -> SUBSET (2 .. n)]
    /\ \A x \in 1 .. n : S2[x] = IF x = h THEN X ELSE S[x]

\* A node that waited is filled in, and the block before it goes where it says.
LEMMA LayoutLinks ==
    ASSUME NEW R, NEW n, NEW S, NEW Q, NEW list, NEW cur, Layout(R, n, S, Q, list, cur),
           NEW k, NEW h, Waits(n, list, k, h),
           NEW node, node.type # "Block",
           NEW list2, Numbered(list2), Len(list2) = Len(list), list2[k] = node,
           \A i \in 1 .. Len(list) : i # k => list2[i] = list[i],
           NEW X \in SUBSET (2 .. n), X = NodeGoesTo(node),
           \A c \in X : c \in R \/ \E j \in 1 .. Len(list) : k < j /\ At(list, j, c),
           NEW S2, Redirected(n, S, h, X, S2)
    PROVE  Layout(R, n, S2, Q, list2, cur)
<1> DEFINE L == Len(list)
<1>0. /\ k \in 2 .. Len(list) /\ list[k].type = "Pending" /\ h \in 1 .. n /\ At(list, k - 1, h)
      /\ S2 \in [1 .. n -> SUBSET (2 .. n)]
      /\ \A x \in 1 .. n : S2[x] = IF x = h THEN X ELSE S[x]
  BY DEF Waits, Redirected
<1>1. /\ n \in Nat /\ Numbered(list) /\ S \in [1 .. n -> SUBSET (2 .. n)]
      /\ ListedOnce(n, list) /\ AllListed(R, n, list) /\ EdgesGoForward(n, S, Q, list)
      /\ EdgesFollow(R, n, S, list) /\ NodesAreBlocks(n, list) /\ EndsWith(list, cur)
      /\ cur \in 0 .. n /\ R \subseteq 1 .. n
      /\ L # 0 => At(list, 1, 1)
  BY DEF Layout
<1>2. L \in Nat /\ DOMAIN list = 1 .. L
  BY <1>0, <1>1, NumberedPool
<1>3. /\ k \in 1 .. L /\ k - 1 \in 1 .. L /\ k \in Nat /\ k # 1 /\ k - 1 < L /\ (k - 1) + 1 = k
      /\ k # k - 1
  BY <1>0, <1>2
<1>5. Numbered(list2) /\ Len(list2) = L
  OBVIOUS
<1>6. list2[k] = node /\ \A i \in 1 .. L : i # k => list2[i] = list[i]
  OBVIOUS
<1>7. \A b : ~At(list2, k, b) /\ ~At(list, k, b)
  BY <1>0, <1>6, BlockNodeIs DEF At
<1>8. \A i, b : At(list2, i, b) <=> At(list, i, b)
  <2> SUFFICES ASSUME NEW i, NEW b PROVE At(list2, i, b) <=> At(list, i, b)
    OBVIOUS
  <2>1. CASE i = k
    BY <1>0, <2>1, <1>7
  <2>2. CASE i # k
    BY <1>0, <2>2, <1>5, <1>6 DEF At
  <2> QED BY <1>0, <2>1, <2>2
<1>9. \A i, b : At(list, i, b) => i \in 1 .. L /\ b \in 1 .. n
  BY <1>0, <1>1, BlockNodeIs DEF At, NodesAreBlocks
<1>10. /\ S2 \in [1 .. n -> SUBSET (2 .. n)] /\ S2[h] = X
       /\ \A b \in 1 .. n : b # h => S2[b] = S[b]
  BY <1>0, <1>1
<1>11. NodesAreBlocks(n, list2)
  <2> SUFFICES ASSUME NEW i \in 1 .. L, list2[i].type = "Block"
               PROVE  list2[i] = BlockNode(list2[i].block) /\ list2[i].block \in 1 .. n
    BY <1>5 DEF NodesAreBlocks
  <2>1. i # k
    BY <1>6
  <2> QED BY <1>0, <2>1, <1>1, <1>6 DEF NodesAreBlocks
<1>12. ListedOnce(n, list2)
  BY <1>0, <1>1, <1>5, <1>8 DEF ListedOnce
<1>13. AllListed(R, n, list2)
  BY <1>0, <1>1, <1>5, <1>8 DEF AllListed
<1>14. NextGoesTo(list2, k - 1) = X
  BY <1>3, <1>5, <1>6 DEF NextGoesTo
<1>15. \A i \in 1 .. L : i # k - 1 => NextGoesTo(list2, i) = NextGoesTo(list, i)
  <2> SUFFICES ASSUME NEW i \in 1 .. L, i # k - 1
               PROVE  NextGoesTo(list2, i) = NextGoesTo(list, i)
    OBVIOUS
  <2>1. CASE i < L
    <3>1. i + 1 \in 1 .. L /\ i + 1 # k
      BY <1>0, <2>1, <1>2, <1>3
    <3> QED BY <1>0, <2>1, <3>1, <1>5, <1>6 DEF NextGoesTo
  <2>2. CASE ~(i < L)
    BY <1>0, <2>2, <1>5 DEF NextGoesTo
  <2> QED BY <1>0, <2>1, <2>2
<1>16. EdgesFollow(R, n, S2, list2)
  <2>1. ASSUME NEW i, NEW b \in 1 .. n, At(list, i, b) PROVE S2[b] = NextGoesTo(list2, i)
    <3>1. i \in 1 .. L
      BY <1>0, <2>1, <1>9
    <3>2. CASE i = k - 1
      <4>1. b = h
        BY <1>0, <2>1, <3>2, BlockNodeIs DEF At
      <4> QED BY <1>0, <3>2, <4>1, <1>10, <1>14
    <3>3. CASE i # k - 1
      <4>1. b # h
        BY <1>0, <2>1, <3>1, <3>3, <1>1, <1>3 DEF ListedOnce
      <4>2. S[b] = NextGoesTo(list, i)
        BY <1>0, <2>1, <3>1, <1>1 DEF EdgesFollow
      <4> QED BY <1>0, <3>1, <3>3, <4>1, <4>2, <1>10, <1>15
    <3> QED BY <1>0, <3>2, <3>3
  <2>2. ASSUME NEW b \in R PROVE S2[b] = {}
    <3>1. b \in 1 .. n /\ b # h
      BY <1>0, <1>1, <1>3 DEF AllListed
    <3> QED BY <1>0, <3>1, <1>1, <1>10 DEF EdgesFollow
  <2> QED BY <1>0, <2>1, <2>2, <1>5, <1>8 DEF EdgesFollow
<1>17. \A i \in 1 .. L : \A c : Repeats(list, i, c) => Repeats(list2, i, c)
  <2> SUFFICES ASSUME NEW i \in 1 .. L, NEW c, Repeats(list, i, c) PROVE Repeats(list2, i, c)
    OBVIOUS
  <2>1. i < L /\ i + 1 \in 1 .. L /\ list[i + 1].type = "Repeat"
    BY <1>2 DEF Repeats
  <2>2. i + 1 # k
    BY <1>0, <2>1
  <2> QED BY <1>0, <2>1, <2>2, <1>5, <1>6 DEF Repeats
<1>18. EdgesGoForward(n, S2, Q, list2)
  <2> SUFFICES ASSUME NEW i, NEW j, NEW c \in 1 .. n, NEW d \in 1 .. n,
                      At(list, i, c), At(list, j, d), d \in S2[c], ~(i < j)
               PROVE  Repeats(list2, i, d) /\ c \in Q
    BY <1>5, <1>8 DEF EdgesGoForward
  <2>1. i \in 1 .. L /\ j \in 1 .. L
    BY <1>9
  <2>2. CASE c = h
    <3>1. i = k - 1 /\ d \in X
      BY <1>0, <2>1, <2>2, <1>1, <1>3, <1>10 DEF ListedOnce
    <3>2. d \notin R
      BY <1>0, <2>1, <1>1 DEF AllListed
    <3>3. PICK l \in 1 .. L : k < l /\ At(list, l, d)
      BY <1>0, <3>1, <3>2
    <3>4. l = j
      BY <1>0, <2>1, <3>3, <1>1 DEF ListedOnce
    <3> QED BY <1>0, <3>1, <3>3, <3>4, <1>2, <1>3
  <2>3. CASE c # h
    <3>1. d \in S[c]
      BY <1>0, <2>3, <1>10
    <3>2. Repeats(list, i, d) /\ c \in Q
      BY <1>0, <2>1, <3>1, <1>1 DEF EdgesGoForward
    <3> QED BY <1>0, <2>1, <3>2, <1>17
  <2> QED BY <1>0, <2>2, <2>3
<1>19. EndsWith(list2, cur)
  <2>1. cur # 0 => At(list2, L, cur)
    BY <1>0, <1>1, <1>8 DEF EndsWith
  <2>2. ASSUME cur = 0, L # 0 PROVE list2[L].type # "Block"
    <3>1. L \in 1 .. L /\ list[L].type # "Block"
      BY <1>0, <2>2, <1>1, <1>2 DEF EndsWith
    <3> QED BY <1>0, <3>1, <1>6
  <2> QED BY <1>0, <2>1, <2>2, <1>5 DEF EndsWith
<1>20. L # 0 => At(list2, 1, 1)
  BY <1>0, <1>1, <1>8
<1> HIDE DEF L
<1> QED BY <1>0, <1>1, <1>5, <1>10, <1>11, <1>12, <1>13, <1>16, <1>18, <1>19, <1>20 DEF Layout, L

\* cs2 are the calls cs, and where they are.  The last may have another current block,
\* and so may one that called for a Loop.
Resumes(cs, cs2) ==
    /\ cs2 \in Seq(CallRecords) /\ Len(cs2) = Len(cs)
    /\ \A i \in 1 .. Len(cs) : /\ cs2[i].locals = cs[i].locals
                               /\ cs2[i].break = cs[i].break
                               /\ cs2[i].fallthrough = cs[i].fallthrough
    /\ \A i \in 1 .. Len(cs) - 1 : IsLoop(cs[i + 1]) \/ cs2[i].current = cs[i].current

\* The innermost call goes on, and the list grows.
LEMMA FramesResume ==
    ASSUME NEW cs, NEW list, Frames(cs, list), NEW cs2, Resumes(cs, cs2),
           NEW list2, Extends(list, list2),
           Len(list) < Len(list2) /\ (Len(list) = 0 \/ list[Len(list)].type = "Pending")
              => list2[Len(list) + 1].type = "Block"
    PROVE  Frames(cs2, list2) /\ Reserved(cs2) = Reserved(cs)
<1> DEFINE n == Len(cs)
           L == Len(list)
<1>1. /\ cs \in Seq(CallRecords) /\ n \in Nat /\ n # 0 /\ Len(cs2) = n /\ L \in Nat
      /\ Numbered(list2) /\ L <= Len(list2) /\ \A i \in 1 .. L : list2[i] = list[i]
      /\ Len(list2) \in Nat
  BY LenProperties, NumberedPool DEF Frames, Resumes, Extends
<1>2. \A i \in 1 .. n : /\ cs2[i].locals = cs[i].locals /\ cs2[i].break = cs[i].break
                        /\ cs2[i].fallthrough = cs[i].fallthrough
  BY DEF Resumes
<1>3. \A i \in 1 .. n : IsLoop(cs2[i]) = IsLoop(cs[i]) /\ ReservedBy(cs2[i]) = ReservedBy(cs[i])
  BY <1>2 DEF IsLoop, ReservedBy
<1>4. Reserved(cs2) = Reserved(cs)
  BY <1>1, <1>3 DEF Reserved
<1>5. ASSUME NEW i \in 1 .. n PROVE CallOK(cs2, i)
  <2>1. CallOK(cs, i)
    BY DEF Frames
  <2>2. \A j \in 1 .. i : j \in 1 .. n
    BY <1>1
  <2> QED BY <2>1, <2>2, <1>2, <1>3 DEF CallOK
<1>6. ASSUME NEW i \in 1 .. n PROVE NodeOK(cs2, i, list2)
  <2> DEFINE k == cs[i].locals.node
  <2>1. NodeOK(cs, i, list) /\ CallOK(cs, i) /\ cs[i] \in CallRecords
    BY <1>1, ElementOfSeq DEF Frames
  <2>2. k \in Nat
    BY <2>1 DEF CallRecords
  <2>3. ASSUME i # 1
        PROVE  /\ k \in 2 .. Len(list2) /\ list2[k] = [type |-> "Pending"]
               /\ IF IsLoop(cs2[i]) THEN list2[k - 1] = BlockNode(cs2[i].locals.header)
                  ELSE list2[k - 1] = BlockNode(cs2[i - 1].current)
    <3>1. /\ k \in 2 .. L /\ list[k] = [type |-> "Pending"]
          /\ IF IsLoop(cs[i]) THEN list[k - 1] = BlockNode(cs[i].locals.header)
             ELSE list[k - 1] = BlockNode(cs[i - 1].current)
      BY <2>1, <2>3 DEF NodeOK
    <3>2. k \in 1 .. L /\ k - 1 \in 1 .. L /\ k \in 2 .. Len(list2)
      BY <3>1, <1>1
    <3>3. i - 1 \in 1 .. n - 1
      BY <2>3, <1>1
    <3>4. IsLoop(cs[i]) \/ cs2[i - 1].current = cs[i - 1].current
      <4>1. (i - 1) + 1 = i
        BY <1>1
      <4> QED BY <3>3, <4>1 DEF Resumes
    <3> QED BY <3>1, <3>2, <3>4, <1>1, <1>2, <1>3
  <2>4. ASSUME k < Len(list2) PROVE list2[k + 1].type = "Block"
    <3>1. CASE k < L
      <4>1. list[k + 1].type = "Block" /\ k + 1 \in 1 .. L
        BY <3>1, <2>1, <2>2, <1>1 DEF NodeOK
      <4> QED BY <4>1, <1>1
    <3>2. CASE ~(k < L)
      <4>1. k = L /\ (L = 0 \/ list[L].type = "Pending")
        <5>1. CASE i = 1
          <6>1. k = 0
            BY <2>1, <5>1 DEF CallOK, NoLocals
          <6> QED BY <6>1, <3>2, <1>1
        <5>2. CASE i # 1
          <6>1. k \in 2 .. L /\ list[k] = [type |-> "Pending"]
            BY <2>1, <5>2 DEF NodeOK
          <6> QED BY <6>1, <3>2, <1>1
        <5> QED BY <5>1, <5>2
      <4> QED BY <4>1, <2>4
    <3> QED BY <3>1, <3>2
  <2>5. cs2[i].locals.node = k
    BY <1>2
  <2> HIDE DEF k
  <2> QED BY <2>3, <2>4, <2>5 DEF NodeOK
<1>7. \A i, j \in 1 .. n : i < j =>
          /\ ReservedBy(cs2[i]) \cap ReservedBy(cs2[j]) = {}
          /\ cs2[i].locals.node < cs2[j].locals.node
  BY <1>2, <1>3 DEF Frames
<1>8. cs2 \in Seq(CallRecords)
  BY DEF Resumes
<1> HIDE DEF n, L
<1>9. Frames(cs2, list2)
  BY <1>1, <1>5, <1>6, <1>7, <1>8 DEF Frames
<1> QED BY <1>4, <1>9

\* A Visit is called, its node waiting behind the last block.
LEMMA FramesPush ==
    ASSUME NEW cs, NEW list, Frames(cs, list), NEW c \in CallRecords,
           NEW list2, Extends(list, list2), Len(list2) = Len(list) + 1, Len(list) # 0,
           list2[Len(list) + 1] = [type |-> "Pending"],
           c.locals.node = Len(list) + 1, c.locals.merge # 0,
           IsLoop(c) => /\ c.locals.continue # 0 /\ c.locals.continue # c.locals.merge
                        /\ c.fallthrough = c.locals.continue
                        /\ list[Len(list)] = BlockNode(c.locals.header)
                        /\ c.break = c.locals.merge,
           ~IsLoop(c) => /\ c.locals.continue = 0 /\ c.fallthrough = c.locals.merge
                         /\ list[Len(list)] = BlockNode(cs[Len(cs)].current)
                         /\ c.break = cs[Len(cs)].break,
           Reserved(cs) \cap ReservedBy(c) = {}
    PROVE  Frames(Append(cs, c), list2) /\ Reserved(Append(cs, c)) = Reserved(cs) \cup ReservedBy(c)
<1> DEFINE n == Len(cs)
           L == Len(list)
           cs2 == Append(cs, c)
<1>1. /\ cs \in Seq(CallRecords) /\ n \in Nat /\ n # 0 /\ L \in Nat
      /\ Numbered(list) /\ Numbered(list2) /\ \A i \in 1 .. L : list2[i] = list[i]
      /\ Len(list2) = L + 1
  BY LenProperties, NumberedPool DEF Frames, Extends
<1>2. /\ cs2 \in Seq(CallRecords) /\ Len(cs2) = n + 1 /\ cs2[n + 1] = c
      /\ \A i \in 1 .. n : cs2[i] = cs[i]
  BY <1>1, AppendProperties
<1> HIDE DEF cs2
<1>3. 1 .. n + 1 = (1 .. n) \cup {n + 1} /\ n + 1 \notin 1 .. n /\ n \in 1 .. n
  BY <1>1
<1>4. Reserved(cs2) = Reserved(cs) \cup ReservedBy(c)
  BY <1>2, <1>3 DEF Reserved
<1>5. list[L].type = "Block" /\ L \in 1 .. L
  BY <1>1, BlockNodeIs
<1>6. \A i \in 1 .. n : cs[i].locals.node < L /\ cs[i].locals.node \in Nat
  <2> SUFFICES ASSUME NEW i \in 1 .. n PROVE cs[i].locals.node < L /\ cs[i].locals.node \in Nat
    OBVIOUS
  <2> DEFINE k == cs[i].locals.node
  <2>1. NodeOK(cs, i, list) /\ CallOK(cs, i) /\ cs[i] \in CallRecords
    BY <1>1, ElementOfSeq DEF Frames
  <2>2. k \in Nat
    BY <2>1 DEF CallRecords
  <2>3. CASE i = 1
    <3>1. k = 0
      BY <2>1, <2>3 DEF CallOK, NoLocals
    <3> QED BY <3>1, <1>1
  <2>4. CASE i # 1
    <3>1. k \in 2 .. L /\ list[k] = [type |-> "Pending"]
      BY <2>1, <2>4 DEF NodeOK
    <3>2. k # L
      BY <3>1, <1>5
    <3> QED BY <3>1, <3>2, <1>1
  <2> QED BY <2>3, <2>4
<1>7. ASSUME NEW i \in 1 .. n PROVE CallOK(cs2, i) /\ NodeOK(cs2, i, list2)
  <2>1. CallOK(cs, i) /\ NodeOK(cs, i, list)
    BY DEF Frames
  <2>2. \A j \in 1 .. i : j \in 1 .. n
    BY <1>1
  <2>3. CallOK(cs2, i)
    BY <2>1, <2>2, <1>2 DEF CallOK
  <2> DEFINE k == cs[i].locals.node
  <2>4. k < L /\ k \in Nat /\ cs2[i] = cs[i]
    BY <1>2, <1>6
  <2>5. ASSUME i # 1
        PROVE  /\ k \in 2 .. Len(list2) /\ list2[k] = [type |-> "Pending"]
               /\ IF IsLoop(cs[i]) THEN list2[k - 1] = BlockNode(cs[i].locals.header)
                  ELSE list2[k - 1] = BlockNode(cs2[i - 1].current)
    <3>1. /\ k \in 2 .. L /\ list[k] = [type |-> "Pending"]
          /\ IF IsLoop(cs[i]) THEN list[k - 1] = BlockNode(cs[i].locals.header)
             ELSE list[k - 1] = BlockNode(cs[i - 1].current)
      BY <2>1, <2>5 DEF NodeOK
    <3>2. k \in 1 .. L /\ k - 1 \in 1 .. L /\ k \in 2 .. L + 1 /\ i - 1 \in 1 .. n
      BY <3>1, <1>1, <2>5
    <3>3. cs2[i - 1] = cs[i - 1]
      BY <3>2, <1>2
    <3> QED BY <3>1, <3>2, <3>3, <1>1
  <2>6. list2[k + 1].type = "Block"
    <3>1. list[k + 1].type = "Block" /\ k + 1 \in 1 .. L
      BY <2>1, <2>4, <1>1 DEF NodeOK
    <3> QED BY <3>1, <1>1
  <2> QED BY <2>3, <2>4, <2>5, <2>6 DEF NodeOK
<1>8. CallOK(cs2, n + 1)
  <2>1. n + 1 # 1 /\ n + 1 \in 1 .. n + 1
    BY <1>1
  <2>2. c.break # 0 => \E j \in 1 .. n + 1 : IsLoop(cs2[j]) /\ c.break = cs2[j].locals.merge
    <3>1. CASE IsLoop(c)
      BY <3>1, <2>1, <1>2
    <3>2. CASE ~IsLoop(c)
      <4>1. CallOK(cs, n) /\ c.break = cs[n].break
        BY <3>2, <1>3 DEF Frames
      <4>2. c.break # 0 => \E j \in 1 .. n : IsLoop(cs[j]) /\ c.break = cs[j].locals.merge
        BY <4>1 DEF CallOK
      <4> QED BY <4>2, <1>2, <1>3
    <3> QED BY <3>1, <3>2
  <2> QED BY <1>2, <2>1, <2>2 DEF CallOK
<1>9. NodeOK(cs2, n + 1, list2)
  <2>1. /\ L + 1 \in 2 .. L + 1 /\ (L + 1) - 1 = L /\ (n + 1) - 1 = n /\ n + 1 # 1
        /\ ~(L + 1 < L + 1)
    BY <1>1, <1>5
  <2>2. list2[L] = list[L] /\ cs2[n] = cs[n]
    BY <1>1, <1>2, <1>3, <1>5
  <2> QED BY <1>1, <1>2, <2>1, <2>2 DEF NodeOK
<1>10. ASSUME NEW i \in 1 .. n + 1, NEW j \in 1 .. n + 1, i < j
       PROVE  /\ ReservedBy(cs2[i]) \cap ReservedBy(cs2[j]) = {}
              /\ cs2[i].locals.node < cs2[j].locals.node
  <2>1. i \in 1 .. n /\ cs2[i] = cs[i]
    BY <1>1, <1>2, <1>10
  <2>2. CASE j \in 1 .. n
    BY <2>1, <2>2, <1>2, <1>10 DEF Frames
  <2>3. CASE j = n + 1
    <3>1. ReservedBy(cs[i]) \subseteq Reserved(cs)
      BY <2>1 DEF Reserved
    <3>2. cs[i].locals.node < L + 1
      BY <2>1, <1>1, <1>6
    <3> QED BY <2>1, <2>3, <3>1, <3>2, <1>2
  <2> QED BY <2>2, <2>3, <1>3
<1> HIDE DEF n, L
<1>11. Frames(cs2, list2)
  <2>1. \A i \in 1 .. n + 1 : CallOK(cs2, i) /\ NodeOK(cs2, i, list2)
    BY <1>3, <1>7, <1>8, <1>9
  <2>2. n + 1 # 0
    BY <1>1
  <2> QED BY <1>2, <1>10, <2>1, <2>2 DEF Frames
<1> QED BY <1>4, <1>11 DEF cs2

\* cs2 are the calls cs without the last, the one before it with another current block.
Returns(cs, cs2) ==
    /\ cs2 \in Seq(CallRecords) /\ Len(cs2) = Len(cs) - 1
    /\ \A i \in 1 .. Len(cs) - 1 : /\ cs2[i].locals = cs[i].locals
                                   /\ cs2[i].break = cs[i].break
                                   /\ cs2[i].fallthrough = cs[i].fallthrough
    /\ \A i \in 1 .. Len(cs) - 2 : cs2[i].current = cs[i].current

\* A Visit ends: its node is filled in and more nodes follow.
LEMMA FramesReturn ==
    ASSUME NEW cs, NEW list, Frames(cs, list), Len(cs) # 1, NEW cs2, Returns(cs, cs2),
           NEW list2, Numbered(list), Numbered(list2), Len(list) <= Len(list2),
           cs[Len(cs)].locals.node < Len(list),
           \A i \in 1 .. Len(list) : i # cs[Len(cs)].locals.node => list2[i] = list[i]
    PROVE  Frames(cs2, list2) /\ Reserved(cs2) = Reserved(cs) \ ReservedBy(cs[Len(cs)])
<1> DEFINE n == Len(cs)
           L == Len(list)
           q == cs[n].locals.node
<1>1. /\ cs \in Seq(CallRecords) /\ n \in Nat /\ n # 0 /\ n # 1 /\ L \in Nat
      /\ Len(list2) \in Nat /\ L <= Len(list2)
      /\ Len(cs2) = n - 1 /\ cs2 \in Seq(CallRecords)
  BY LenProperties, NumberedPool DEF Frames, Returns
<1>2. 1 .. n = (1 .. n - 1) \cup {n} /\ n \in 1 .. n /\ n - 1 # 0 /\ n \notin 1 .. n - 1
  BY <1>1
<1>3. \A i \in 1 .. n - 1 : /\ cs2[i].locals = cs[i].locals /\ cs2[i].break = cs[i].break
                            /\ cs2[i].fallthrough = cs[i].fallthrough
  BY DEF Returns
<1>4. \A i \in 1 .. n - 1 :
        IsLoop(cs2[i]) = IsLoop(cs[i]) /\ ReservedBy(cs2[i]) = ReservedBy(cs[i])
  BY <1>3 DEF IsLoop, ReservedBy
<1>5. \A i \in 1 .. n - 1 :
        /\ ReservedBy(cs[i]) \cap ReservedBy(cs[n]) = {}
        /\ cs[i].locals.node < q
  <2> SUFFICES ASSUME NEW i \in 1 .. n - 1
               PROVE  /\ ReservedBy(cs[i]) \cap ReservedBy(cs[n]) = {}
                      /\ cs[i].locals.node < q
    OBVIOUS
  <2>1. i \in 1 .. n /\ i < n
    BY <1>1, <1>2
  <2> QED BY <1>2, <2>1 DEF Frames
<1>6. Reserved(cs2) = Reserved(cs) \ ReservedBy(cs[n])
  <2>1. Reserved(cs2) = UNION {ReservedBy(cs[i]) : i \in 1 .. n - 1}
    BY <1>1, <1>4 DEF Reserved
  <2>2. Reserved(cs) = (UNION {ReservedBy(cs[i]) : i \in 1 .. n - 1}) \cup ReservedBy(cs[n])
    BY <1>2 DEF Reserved
  <2>3. (UNION {ReservedBy(cs[i]) : i \in 1 .. n - 1}) \cap ReservedBy(cs[n]) = {}
    BY <1>5
  <2> QED BY <2>1, <2>2, <2>3
<1>7. ASSUME NEW i \in 1 .. n - 1 PROVE CallOK(cs2, i)
  <2>1. CallOK(cs, i)
    BY <1>2 DEF Frames
  <2>2. \A j \in 1 .. i : j \in 1 .. n - 1
    BY <1>1
  <2> QED BY <2>1, <2>2, <1>3, <1>4 DEF CallOK
<1>8. NodeOK(cs, n, list) /\ q \in 2 .. L /\ list[q] = [type |-> "Pending"]
  BY <1>1, <1>2 DEF Frames, NodeOK
<1>9. ASSUME NEW i \in 1 .. n - 1 PROVE NodeOK(cs2, i, list2)
  <2> DEFINE k == cs[i].locals.node
  <2>1. NodeOK(cs, i, list) /\ CallOK(cs, i) /\ cs[i] \in CallRecords
    BY <1>1, <1>2, ElementOfSeq DEF Frames
  <2>2. k \in Nat /\ k < q
    BY <2>1, <1>5 DEF CallRecords
  <2>3. ASSUME i # 1
        PROVE  /\ k \in 2 .. Len(list2) /\ list2[k] = [type |-> "Pending"]
               /\ IF IsLoop(cs2[i]) THEN list2[k - 1] = BlockNode(cs2[i].locals.header)
                  ELSE list2[k - 1] = BlockNode(cs2[i - 1].current)
    <3>1. /\ k \in 2 .. L /\ list[k] = [type |-> "Pending"]
          /\ IF IsLoop(cs[i]) THEN list[k - 1] = BlockNode(cs[i].locals.header)
             ELSE list[k - 1] = BlockNode(cs[i - 1].current)
      BY <2>1, <2>3 DEF NodeOK
    <3>2. k \in 1 .. L /\ k - 1 \in 1 .. L /\ k \in 2 .. Len(list2) /\ k # q /\ k - 1 # q
      <4>1. /\ k \in 2 .. L /\ k \in Nat /\ k < q /\ q \in 2 .. L
            /\ L \in Nat /\ Len(list2) \in Nat /\ L <= Len(list2)
        BY <3>1, <2>2, <1>1, <1>8
      <4> HIDE DEF k, q, L
      <4> QED BY ONLY <4>1
    <3>3. i - 1 \in 1 .. n - 2
      BY <2>3, <1>1
    <3>4. cs2[i - 1].current = cs[i - 1].current
      BY <3>3 DEF Returns
    <3> QED BY <3>1, <3>2, <3>4, <1>1, <1>3, <1>4
  <2>4. list2[k + 1].type = "Block"
    <3>1. k < L /\ k + 1 \in 1 .. L
      <4>1. k \in Nat /\ k < q /\ q \in 2 .. L /\ L \in Nat
        BY <2>2, <1>1, <1>8
      <4> HIDE DEF k, q, L
      <4> QED BY ONLY <4>1
    <3>2. list[k + 1].type = "Block"
      BY <2>1, <3>1 DEF NodeOK
    <3>3. k + 1 # q
      BY <3>2, <1>8
    <3> QED BY <3>1, <3>2, <3>3
  <2>5. cs2[i].locals.node = k
    BY <1>3
  <2> HIDE DEF k
  <2> QED BY <2>3, <2>4, <2>5 DEF NodeOK
<1>10. \A i, j \in 1 .. n - 1 : i < j =>
          /\ ReservedBy(cs2[i]) \cap ReservedBy(cs2[j]) = {}
          /\ cs2[i].locals.node < cs2[j].locals.node
  BY <1>2, <1>3, <1>4 DEF Frames
<1> HIDE DEF n, L, q
<1>11. Frames(cs2, list2)
  BY <1>1, <1>2, <1>7, <1>9, <1>10 DEF Frames
<1> QED BY <1>6, <1>11 DEF n

-----------------------------------------------------------------------------
(* What the steps of the pass do to the build.                             *)

\* What can be used of it.
LEMMA BuildMeans ==
    ASSUME NEW cs, NEW ir, NEW list, Build(cs, ir, list)
    PROVE  /\ Blocks(ir) /\ Frames(cs, list) /\ Len(ir) \in Nat /\ DOMAIN ir = 1 .. Len(ir)
           /\ Layout(Reserved(cs), Len(ir), SuccsOf(ir), Quiet(ir), list, cs[Len(cs)].current)
           /\ Numbered(list) /\ Len(list) \in Nat /\ DOMAIN list = 1 .. Len(list)
           /\ cs \in Seq(CallRecords) /\ Len(cs) \in Nat /\ Len(cs) # 0 /\ Len(cs) \in 1 .. Len(cs)
           /\ cs[Len(cs)] \in CallRecords
           /\ cs[Len(cs)].current \in 0 .. Len(ir)
           /\ Reserved(cs) \subseteq 1 .. Len(ir)
           /\ \A b \in Reserved(cs) : ir[b].body = <<>> /\ Succs(ir, b) = {}
<1>1. /\ Blocks(ir) /\ Frames(cs, list)
      /\ Layout(Reserved(cs), Len(ir), SuccsOf(ir), Quiet(ir), list, cs[Len(cs)].current)
      /\ \A b \in Reserved(cs) : ir[b].body = <<>>
  BY DEF Build
<1>2. Len(ir) \in Nat /\ DOMAIN ir = 1 .. Len(ir)
  BY <1>1, NumberedPool DEF Blocks
<1>3. cs \in Seq(CallRecords) /\ Len(cs) \in Nat /\ Len(cs) # 0
  BY <1>1, LenProperties DEF Frames
<1>4. Len(cs) \in 1 .. Len(cs)
  BY <1>3
<1>5. cs[Len(cs)] \in CallRecords
  BY <1>3, <1>4, ElementOfSeq
<1>6. /\ Numbered(list) /\ cs[Len(cs)].current \in 0 .. Len(ir)
      /\ Reserved(cs) \subseteq 1 .. Len(ir)
      /\ \A b \in Reserved(cs) : SuccsOf(ir)[b] = {}
  BY <1>1 DEF Layout, EdgesFollow
<1>7. Len(list) \in Nat /\ DOMAIN list = 1 .. Len(list)
  BY <1>6, NumberedPool
<1>8. \A b \in Reserved(cs) : Succs(ir, b) = {}
  BY <1>6 DEF SuccsOf
<1> QED BY <1>1, <1>2, <1>3, <1>4, <1>5, <1>6, <1>7, <1>8

\* The open block has no edges and its node is the last.
LEMMA OpenBlock ==
    ASSUME NEW cs, NEW ir, NEW list, Build(cs, ir, list)
    PROVE  LET c == cs[Len(cs)].current
           IN  /\ c # 0 => /\ c \in 1 .. Len(ir) /\ Succs(ir, c) = {} /\ c \notin Reserved(cs)
                           /\ Len(list) # 0 /\ list[Len(list)] = BlockNode(c)
                           /\ At(list, Len(list), c)
               /\ c = 0 /\ Len(list) # 0 => list[Len(list)].type # "Block"
<1> DEFINE c == cs[Len(cs)].current
           L == Len(list)
<1>1. /\ Layout(Reserved(cs), Len(ir), SuccsOf(ir), Quiet(ir), list, c)
      /\ L \in Nat /\ Len(ir) \in Nat /\ c \in 0 .. Len(ir)
  BY BuildMeans
<1>2. /\ EndsWith(list, c) /\ AllListed(Reserved(cs), Len(ir), list)
      /\ EdgesFollow(Reserved(cs), Len(ir), SuccsOf(ir), list)
  BY <1>1 DEF Layout
<1>3. ASSUME c # 0
      PROVE  /\ c \in 1 .. Len(ir) /\ Succs(ir, c) = {} /\ c \notin Reserved(cs)
             /\ L # 0 /\ list[L] = BlockNode(c) /\ At(list, L, c)
  <2>1. c \in 1 .. Len(ir) /\ At(list, L, c) /\ L \in 1 .. L
    BY <1>1, <1>2, <1>3 DEF EndsWith, At
  <2>2. SuccsOf(ir)[c] = NextGoesTo(list, L)
    BY <1>2, <2>1 DEF EdgesFollow
  <2>3. NextGoesTo(list, L) = {}
    BY <1>1 DEF NextGoesTo
  <2>4. Succs(ir, c) = {}
    BY <2>1, <2>2, <2>3 DEF SuccsOf
  <2>5. c \notin Reserved(cs)
    BY <1>2, <2>1 DEF AllListed
  <2> QED BY <2>1, <2>4, <2>5 DEF At
<1>4. c = 0 /\ L # 0 => list[L].type # "Block"
  BY <1>2 DEF EndsWith
<1> QED BY <1>3, <1>4

\* The first block of all is block 1.
LEMMA FirstBlockIsOne ==
    ASSUME NEW cs, NEW ir, NEW list, Build(cs, ir, list), Len(list) = 0
    PROVE  Len(ir) = 0 /\ Len(cs) = 1
<1>1. /\ Frames(cs, list) /\ Len(ir) \in Nat /\ Len(cs) \in 1 .. Len(cs)
      /\ Layout(Reserved(cs), Len(ir), SuccsOf(ir), Quiet(ir), list, cs[Len(cs)].current)
  BY BuildMeans
<1>2. Len(cs) = 1
  <2> SUFFICES ASSUME Len(cs) # 1 PROVE FALSE
    OBVIOUS
  <2>1. cs[Len(cs)].locals.node \in 2 .. Len(list)
    BY <1>1 DEF Frames, NodeOK
  <2> QED BY <2>1
<1>3. Reserved(cs) = {}
  <2>1. \A i \in 1 .. Len(cs) : i = 1
    BY <1>2
  <2>2. cs[1].locals = NoLocals
    BY <1>1, <1>2 DEF Frames, CallOK
  <2>3. ReservedBy(cs[1]) = {}
    BY <2>2 DEF ReservedBy, NoLocals
  <2> QED BY <2>1, <2>3 DEF Reserved
<1>4. Len(ir) = 0
  <2> SUFFICES ASSUME Len(ir) # 0 PROVE FALSE
    OBVIOUS
  <2>1. 1 \in 1 .. Len(ir)
    BY <1>1
  <2>2. PICK i \in 1 .. Len(list) : TRUE
    BY <1>1, <1>3, <2>1 DEF Layout, AllListed
  <2> QED BY <2>2
<1> QED BY <1>2, <1>4

\* A Visit goes on where it is.
LEMMA BuildResumes ==
    ASSUME NEW cs, NEW ir, NEW list, Build(cs, ir, list), NEW cs2, Resumes(cs, cs2),
           cs2[Len(cs)].current = cs[Len(cs)].current
    PROVE  Build(cs2, ir, list)
<1>1. /\ Frames(cs, list) /\ Numbered(list) /\ Len(list) \in Nat
      /\ Layout(Reserved(cs), Len(ir), SuccsOf(ir), Quiet(ir), list, cs[Len(cs)].current)
      /\ Blocks(ir) /\ \A b \in Reserved(cs) : ir[b].body = <<>>
  BY BuildMeans
<1>2. Extends(list, list) /\ ~(Len(list) < Len(list))
  BY <1>1 DEF Extends
<1>3. Frames(cs2, list) /\ Reserved(cs2) = Reserved(cs)
  BY <1>1, <1>2, FramesResume
<1>4. Len(cs2) = Len(cs)
  BY DEF Resumes
<1> QED BY <1>1, <1>3, <1>4 DEF Build

\* Something is emitted into the open block.
LEMMA BuildWrites ==
    ASSUME NEW cs, NEW ir, NEW list, Build(cs, ir, list), cs[Len(cs)].current # 0,
           NEW i2, NEW body, BodySet(ir, i2, cs[Len(cs)].current, body)
    PROVE  Build(cs, i2, list)
<1> DEFINE c == cs[Len(cs)].current
<1>1. /\ Frames(cs, list)
      /\ Layout(Reserved(cs), Len(ir), SuccsOf(ir), Quiet(ir), list, c)
      /\ Blocks(ir) /\ \A b \in Reserved(cs) : ir[b].body = <<>> /\ b \in 1 .. Len(ir)
  BY BuildMeans
<1>2. c \in 1 .. Len(ir) /\ c \notin Reserved(cs)
  BY OpenBlock
<1>3. /\ Blocks(i2) /\ Len(i2) = Len(ir)
      /\ \A x \in 1 .. Len(ir) : x # c => i2[x].body = ir[x].body
      /\ \A x \in 1 .. Len(ir) : Succs(i2, x) = Succs(ir, x)
  BY DEF BodySet
<1>4. SuccsOf(i2) = SuccsOf(ir)
  BY <1>3 DEF SuccsOf
<1>5. \A b \in Quiet(ir) : b \in Quiet(i2) \/ b = c \/ b = 1
  BY <1>3 DEF Quiet
<1>6. Layout(Reserved(cs), Len(i2), SuccsOf(i2), Quiet(i2), list, c)
  BY <1>1, <1>3, <1>4, <1>5, LayoutWrites
<1>7. \A b \in Reserved(cs) : i2[b].body = <<>>
  BY <1>1, <1>2, <1>3
<1> QED BY <1>1, <1>3, <1>6, <1>7 DEF Build

\* The open block is closed by a node that goes nowhere.
LEMMA BuildCloses ==
    ASSUME NEW cs, NEW ir, NEW list, Build(cs, ir, list), cs[Len(cs)].current # 0,
           NEW list2, Extends(list, list2), Len(list2) = Len(list) + 1,
           list2[Len(list) + 1].type # "Block", NodeGoesTo(list2[Len(list) + 1]) = {},
           NEW cs2, Resumes(cs, cs2), cs2[Len(cs)].current = 0
    PROVE  Build(cs2, ir, list2)
<1>1. /\ Frames(cs, list)
      /\ Layout(Reserved(cs), Len(ir), SuccsOf(ir), Quiet(ir), list, cs[Len(cs)].current)
      /\ Blocks(ir) /\ \A b \in Reserved(cs) : ir[b].body = <<>>
  BY BuildMeans
<1>2. Len(list) # 0 /\ list[Len(list)].type = "Block"
  BY OpenBlock, BlockNodeIs
<1>3. Frames(cs2, list2) /\ Reserved(cs2) = Reserved(cs)
  BY <1>1, <1>2, FramesResume
<1>4. Layout(Reserved(cs), Len(ir), SuccsOf(ir), Quiet(ir), list2, 0)
  BY <1>1, LayoutCloses
<1>5. Len(cs2) = Len(cs)
  BY DEF Resumes
<1> QED BY <1>1, <1>3, <1>4, <1>5 DEF Build

\* i2 are the blocks ir and m more.
Grown(ir, i2, m) ==
    /\ Blocks(i2) /\ Len(i2) = Len(ir) + m
    /\ \A x \in 1 .. Len(ir) : i2[x].body = ir[x].body /\ Succs(i2, x) = Succs(ir, x)
    /\ \A x \in Len(ir) + 1 .. Len(ir) + m : i2[x].body = <<>> /\ Succs(i2, x) = {}

\* Edges lead to blocks, and not to the first.
LEMMA SuccsInRange ==
    ASSUME NEW R, NEW ir, NEW Q, NEW list, NEW cur,
           Layout(R, Len(ir), SuccsOf(ir), Q, list, cur)
    PROVE  \A x \in 1 .. Len(ir) : Succs(ir, x) \in SUBSET (2 .. Len(ir))
BY DEF Layout, SuccsOf

\* The Visit of an If or a Loop is called.
LEMMA BuildPushes ==
    ASSUME NEW cs, NEW ir, NEW list, Build(cs, ir, list), cs[Len(cs)].current # 0,
           NEW i2, NEW m \in Nat, Grown(ir, i2, m),
           NEW list2, Extends(list, list2), Len(list2) = Len(list) + 1,
           list2[Len(list) + 1] = [type |-> "Pending"],
           NEW c \in CallRecords, c.current = 0,
           c.locals.node = Len(list) + 1, c.locals.merge # 0,
           IsLoop(c) => /\ c.locals.continue # 0 /\ c.locals.continue # c.locals.merge
                        /\ c.fallthrough = c.locals.continue
                        /\ cs[Len(cs)].current = c.locals.header
                        /\ c.break = c.locals.merge,
           ~IsLoop(c) => /\ c.locals.continue = 0 /\ c.fallthrough = c.locals.merge
                         /\ c.break = cs[Len(cs)].break,
           ReservedBy(c) = Len(ir) + 1 .. Len(ir) + m
    PROVE  Build(Append(cs, c), i2, list2)
<1> DEFINE n == Len(ir)
           cur == cs[Len(cs)].current
           R2 == Reserved(cs) \cup (n + 1 .. n + m)
           cs2 == Append(cs, c)
<1>1. /\ Frames(cs, list) /\ n \in Nat /\ Reserved(cs) \subseteq 1 .. n
      /\ Layout(Reserved(cs), n, SuccsOf(ir), Quiet(ir), list, cur)
      /\ Blocks(ir) /\ \A b \in Reserved(cs) : ir[b].body = <<>>
      /\ cs \in Seq(CallRecords)
  BY BuildMeans
<1>2. Len(list) # 0 /\ list[Len(list)] = BlockNode(cur)
  BY OpenBlock
<1>3. /\ Blocks(i2) /\ Len(i2) = n + m
      /\ \A x \in 1 .. n : i2[x].body = ir[x].body /\ Succs(i2, x) = Succs(ir, x)
      /\ \A x \in n + 1 .. n + m : i2[x].body = <<>> /\ Succs(i2, x) = {}
  BY DEF Grown
<1>4. 1 .. n + m = (1 .. n) \cup (n + 1 .. n + m) /\ n + m \in Nat
  BY <1>1
<1>5. Reserved(cs) \cap ReservedBy(c) = {}
  BY <1>1
<1>6. Frames(cs2, list2) /\ Reserved(cs2) = R2
  <2> HIDE DEF cs2, R2
  <2>1. Frames(Append(cs, c), list2) /\ Reserved(Append(cs, c)) = Reserved(cs) \cup ReservedBy(c)
    BY <1>1, <1>2, <1>5, FramesPush
  <2> QED BY <2>1 DEF cs2, R2
<1>7. SuccsOf(i2) \in [1 .. n + m -> SUBSET (2 .. n + m)]
  <2>1. \A x \in 1 .. n : Succs(ir, x) \in SUBSET (2 .. n)
    BY <1>1, SuccsInRange
  <2>2. 2 .. n \subseteq 2 .. n + m
    BY <1>1
  <2>3. \A x \in 1 .. n + m : Succs(i2, x) \in SUBSET (2 .. n + m)
    BY <2>1, <2>2, <1>3, <1>4
  <2> QED BY <2>3, <1>3 DEF SuccsOf
<1>8. /\ \A b \in 1 .. n : SuccsOf(i2)[b] = SuccsOf(ir)[b]
      /\ \A b \in n + 1 .. n + m : SuccsOf(i2)[b] = {}
  BY <1>3, <1>4 DEF SuccsOf
<1>9. Quiet(ir) \subseteq Quiet(i2)
  BY <1>3, <1>4 DEF Quiet
<1>10. Layout(R2, n + m, SuccsOf(i2), Quiet(i2), list, cur)
  <2>1. MoreBlocks(Reserved(cs), n, SuccsOf(ir), R2, n + m, SuccsOf(i2))
    <3>1. n <= n + m /\ R2 = Reserved(cs) \cup (n + 1 .. n + m)
      BY <1>1
    <3> HIDE DEF n, R2
    <3> QED BY <1>4, <1>7, <1>8, <3>1 DEF MoreBlocks
  <2> HIDE DEF n, cur, R2
  <2> QED BY <1>1, <1>9, <2>1, LayoutGrows
<1>11. NodeGoesTo(list2[Len(list) + 1]) = {} /\ list2[Len(list) + 1].type # "Block"
  BY DEF NodeGoesTo
<1>12. Layout(R2, n + m, SuccsOf(i2), Quiet(i2), list2, 0)
  <2> HIDE DEF n, cur, R2
  <2>1. cur # 0
    BY DEF cur
  <2> QED BY <2>1, <1>10, <1>11, LayoutCloses
<1>13. \A b \in R2 : i2[b].body = <<>>
  BY <1>1, <1>3
<1>14. cs2[Len(cs2)].current = 0
  BY <1>1, AppendProperties
<1> HIDE DEF cs2
<1>15. Build(cs2, i2, list2)
  BY <1>3, <1>6, <1>12, <1>13, <1>14 DEF Build
<1> QED BY <1>15 DEF cs2

\* Where each kind of node goes.
LEMMA NodeGoes ==
    /\ NodeGoesTo([type |-> "Pending"]) = {}
    /\ NodeGoesTo([type |-> "Return"]) = {}
    /\ NodeGoesTo([type |-> "Unreachable"]) = {}
    /\ \A b : NodeGoesTo(BlockNode(b)) = {b}
    /\ \A m : NodeGoesTo([type |-> "EndIf", merge |-> m]) = {m}
    /\ \A m, t : NodeGoesTo([type |-> "If", body |-> t, merge |-> m]) = {t, m}
    /\ \A c, m, t : NodeGoesTo([type |-> "Loop", body |-> t, continue |-> c, merge |-> m]) = {t}
    /\ \A h, m : NodeGoesTo([type |-> "Repeat", header |-> h, merge |-> m]) = {h, m}
    /\ \A m, k : NodeGoesTo([type |-> "Break", merge |-> m, skip |-> k]) = {m, k}
BY DEF NodeGoesTo, BlockNode

\* A block is made and listed, behind nothing or behind a node, and is the one that is
\* open; the block that was open goes where the node behind it says.
LEMMA BuildOpens ==
    ASSUME NEW cs, NEW ir, NEW list, Build(cs, ir, list),
           NEW i2, Blocks(i2), Len(i2) = Len(ir) + 1,
           \A x \in 1 .. Len(ir) : i2[x].body = ir[x].body,
           NEW X \in SUBSET (2 .. Len(ir) + 1),
           \A x \in 1 .. Len(ir) : Succs(i2, x) = IF x = cs[Len(cs)].current THEN X ELSE Succs(ir, x),
           i2[Len(ir) + 1].body = <<>>, Succs(i2, Len(ir) + 1) = {},
           NEW list2, Extends(list, list2), Len(list2) \in {Len(list) + 1, Len(list) + 2},
           list2[Len(list2)] = BlockNode(Len(ir) + 1),
           Len(list2) = Len(list) + 2 => cs[Len(cs)].current # 0 /\ list2[Len(list) + 1].type # "Block",
           cs[Len(cs)].current # 0 => X = NodeGoesTo(list2[Len(list) + 1]),
           \A t \in X : t \in Reserved(cs) \/ t = Len(ir) + 1,
           NEW cs2, Resumes(cs, cs2), cs2[Len(cs)].current = Len(ir) + 1
    PROVE  Build(cs2, i2, list2)
<1> DEFINE n == Len(ir)
           b == n + 1
           L == Len(list)
           k == Len(list2)
           cur == cs[Len(cs)].current
           R == Reserved(cs)
           R1 == R \cup (n + 1 .. n + 1)
           S1 == [x \in 1 .. n + 1 |-> IF x \in 1 .. n THEN Succs(ir, x) ELSE {}]
           S2 == IF cur = 0 THEN S1 ELSE [S1 EXCEPT ![cur] = X]
<1>1. /\ Frames(cs, list) /\ n \in Nat /\ R \subseteq 1 .. n /\ L \in Nat
      /\ Layout(R, n, SuccsOf(ir), Quiet(ir), list, cur)
      /\ Blocks(ir) /\ \A x \in R : ir[x].body = <<>>
      /\ cur \in 0 .. n
  BY BuildMeans
<1>2. /\ cur # 0 => L # 0 /\ list[L].type = "Block"
      /\ L = 0 => n = 0
  BY OpenBlock, BlockNodeIs, FirstBlockIsOne
<1>3. 1 .. n + 1 = (1 .. n) \cup {b} /\ b \notin 1 .. n /\ n + 1 .. n + 1 = {b} /\ b # 0
  BY <1>1
<1>4. S1 \in [1 .. n + 1 -> SUBSET (2 .. n + 1)]
  <2>1. \A x \in 1 .. n : Succs(ir, x) \in SUBSET (2 .. n)
    BY <1>1, SuccsInRange
  <2>2. 2 .. n \subseteq 2 .. n + 1
    BY <1>1
  <2> QED BY <2>1, <2>2
<1>5. /\ \A x \in 1 .. n : S1[x] = SuccsOf(ir)[x]
      /\ \A x \in n + 1 .. n + 1 : S1[x] = {}
  BY <1>3 DEF SuccsOf
<1>6. Quiet(ir) \subseteq Quiet(i2)
  BY <1>3 DEF Quiet
<1>7. Layout(R1, n + 1, S1, Quiet(i2), list, cur)
  <2>1. MoreBlocks(R, n, SuccsOf(ir), R1, n + 1, S1)
    <3>1. n <= n + 1 /\ n + 1 \in Nat /\ R1 = R \cup (n + 1 .. n + 1)
      BY <1>1
    <3> HIDE DEF n, R1, S1
    <3> QED BY <1>4, <1>5, <3>1 DEF MoreBlocks
  <2> HIDE DEF n, S1, cur, R1, R, b
  <2> QED BY <1>1, <1>6, <2>1, LayoutGrows
<1>8. Layout(R1 \ {b}, n + 1, S2, Quiet(i2), list2, b)
  <2>1. b \in R1 /\ \A t \in X : t \in R1
    BY <1>3
  <2>2. L = 0 => b = 1 /\ k = 1
    BY <1>2
  <2>3. list2[k] = BlockNode(b) /\ X \in SUBSET (2 .. n + 1) /\ k \in {L + 1, L + 2}
    OBVIOUS
  <2>4. /\ k = L + 2 => list2[L + 1].type # "Block"
        /\ cur # 0 => X = NodeGoesTo(list2[L + 1])
    OBVIOUS
  <2>5. S2 = IF cur = 0 THEN S1 ELSE [S1 EXCEPT ![cur] = X]
    OBVIOUS
  <2> HIDE DEF n, S1, S2, R1, b, cur
  <2> QED BY <1>7, <2>1, <2>2, <2>3, <2>4, <2>5, LayoutPuts
<1>9. R1 \ {b} = R
  BY <1>1, <1>3
<1>10. S2 = SuccsOf(i2)
  <2>1. ASSUME NEW x \in 1 .. n + 1 PROVE S2[x] = Succs(i2, x)
    <3>1. S1[x] = IF x \in 1 .. n THEN Succs(ir, x) ELSE {}
      OBVIOUS
    <3>2. S2[x] = IF x = cur THEN X ELSE S1[x]
      <4>1. cur = 0 => x # cur
        BY <1>1
      <4> HIDE DEF S1, cur
      <4> QED BY <4>1, <1>4
    <3>3. x = cur => x \in 1 .. n
      BY <1>1
    <3> HIDE DEF S1, S2
    <3>4. CASE x \in 1 .. n
      BY <3>1, <3>2, <3>4
    <3>5. CASE x = b
      BY <3>1, <3>2, <3>3, <3>5, <1>3
    <3> QED BY <3>4, <3>5, <1>3
  <2>2. S2 = [x \in 1 .. n + 1 |-> S2[x]]
    BY <1>4
  <2> HIDE DEF S2
  <2> QED BY <2>1, <2>2 DEF SuccsOf
<1>11. Frames(cs2, list2) /\ Reserved(cs2) = R
  <2>1. L < Len(list2) /\ (L = 0 \/ list[L].type = "Pending") => list2[L + 1].type = "Block"
    <3> SUFFICES ASSUME L = 0 \/ list[L].type = "Pending" PROVE list2[L + 1].type = "Block"
      OBVIOUS
    <3>1. cur = 0
      BY <1>2
    <3>2. k = L + 1
      BY <3>1
    <3> QED BY <3>2, BlockNodeIs
  <2> QED BY <1>1, <2>1, FramesResume
<1>12. Len(cs2) = Len(cs)
  BY DEF Resumes
<1>13. \A x \in R : i2[x].body = <<>>
  BY <1>1
<1> HIDE DEF R1, S1, S2, R
<1> QED BY <1>8, <1>9, <1>10, <1>11, <1>12, <1>13 DEF Build, R

-----------------------------------------------------------------------------
(* The end of an If or a Loop.                                             *)

\* The block its node is about, and the block it begins with.
HeadBlock(cs) ==
    LET c == cs[Len(cs)] IN IF IsLoop(c) THEN c.locals.header ELSE cs[Len(cs) - 1].current
BodyBlock(cs, list) == list[cs[Len(cs)].locals.node + 1].block

\* What the innermost call stands for, if it is not that of the root.
LEMMA TheCall ==
    ASSUME NEW cs, NEW ir, NEW list, Build(cs, ir, list), Len(cs) # 1
    PROVE  LET c == cs[Len(cs)]
               k == c.locals.node
               h == HeadBlock(cs)
               t == BodyBlock(cs, list)
           IN  /\ k \in 2 .. Len(list) /\ list[k] = [type |-> "Pending"]
               /\ h \in 1 .. Len(ir) /\ At(list, k - 1, h) /\ Succs(ir, h) = {} /\ h # c.current
               /\ h \notin Reserved(cs)
               /\ k < Len(list) => /\ k + 1 \in 1 .. Len(list) /\ At(list, k + 1, t)
                                   /\ t \in 2 .. Len(ir) /\ t \notin Reserved(cs)
               /\ c.locals.merge \in 2 .. Len(ir) /\ c.locals.merge \in Reserved(cs)
               /\ IsLoop(c) => /\ c.locals.continue \in 2 .. Len(ir)
                               /\ c.locals.continue \in Reserved(cs)
                               /\ c.locals.continue # c.locals.merge
                               /\ c.fallthrough = c.locals.continue
                               /\ ReservedBy(c) = {c.locals.continue, c.locals.merge}
               /\ ~IsLoop(c) => /\ ReservedBy(c) = {c.locals.merge}
                                /\ c.fallthrough = c.locals.merge
               /\ c.current \notin Reserved(cs)
<1> DEFINE n == Len(cs)
           c == cs[n]
           k == c.locals.node
           h == HeadBlock(cs)
           t == BodyBlock(cs, list)
           N == Len(ir)
           L == Len(list)
           R == Reserved(cs)
<1>1. /\ Frames(cs, list) /\ N \in Nat /\ R \subseteq 1 .. N /\ L \in Nat
      /\ Layout(R, N, SuccsOf(ir), Quiet(ir), list, c.current)
      /\ n \in 1 .. n /\ c \in CallRecords
  BY BuildMeans
<1>2. /\ NodesAreBlocks(N, list) /\ ListedOnce(N, list) /\ AllListed(R, N, list)
      /\ EdgesFollow(R, N, SuccsOf(ir), list) /\ EndsWith(list, c.current)
      /\ L # 0 => At(list, 1, 1)
  BY <1>1 DEF Layout
<1>3. CallOK(cs, n) /\ NodeOK(cs, n, list) /\ n # 1
  BY <1>1 DEF Frames
<1>4. k \in 2 .. L /\ list[k] = [type |-> "Pending"] /\ list[k - 1] = BlockNode(h)
  BY <1>3 DEF NodeOK, HeadBlock
<1>5. k - 1 \in 1 .. L /\ k \in Nat /\ k \in 1 .. L /\ k - 1 < L /\ k - 1 # L /\ (k - 1) + 1 = k
  BY <1>1, <1>4
<1>6. h \in 1 .. N /\ At(list, k - 1, h)
  <2> HIDE DEF h, k
  <2> QED BY <1>2, <1>4, <1>5, BlockNodeIs DEF NodesAreBlocks, At
<1>7. Succs(ir, h) = {}
  <2>1. SuccsOf(ir)[h] = NextGoesTo(list, k - 1)
    BY <1>2, <1>5, <1>6 DEF EdgesFollow
  <2>2. NextGoesTo(list, k - 1) = NodeGoesTo(list[k])
    BY <1>5 DEF NextGoesTo
  <2>3. NextGoesTo(list, k - 1) = {}
    BY <1>4, <2>2, NodeGoes
  <2> QED BY <1>6, <2>1, <2>3 DEF SuccsOf
<1>8. h # c.current
  <2> SUFFICES ASSUME h = c.current PROVE FALSE
    OBVIOUS
  <2>1. h # 0
    BY <1>6
  <2>2. At(list, L, h) /\ L \in 1 .. L
    BY <1>2, <2>1 DEF EndsWith, At
  <2>3. k - 1 = L
    BY <1>2, <1>5, <1>6, <2>2 DEF ListedOnce
  <2> QED BY <1>5, <2>3
<1>9. h \notin R
  BY <1>2, <1>5, <1>6 DEF AllListed
<1>10. At(list, 1, 1) /\ 1 \in 1 .. L
  BY <1>1, <1>2, <1>4
<1>11. ASSUME k < L
       PROVE  k + 1 \in 1 .. L /\ At(list, k + 1, t) /\ t \in 2 .. N /\ t \notin R
  <2>1. k + 1 \in 1 .. L /\ k + 1 # 1
    BY <1>1, <1>5, <1>11
  <2>2. list[k + 1].type = "Block"
    BY <1>3, <1>11 DEF NodeOK
  <2>3. list[k + 1] = BlockNode(t) /\ t \in 1 .. N
    BY <1>2, <2>1, <2>2 DEF NodesAreBlocks, BodyBlock
  <2>4. At(list, k + 1, t)
    BY <2>1, <2>3 DEF At
  <2>5. t # 1
    BY <1>2, <1>10, <2>1, <2>3, <2>4 DEF ListedOnce
  <2>6. t \notin R
    BY <1>2, <2>1, <2>3, <2>4 DEF AllListed
  <2>7. t \in 2 .. N
    BY <2>3, <2>5
  <2> QED BY <2>1, <2>4, <2>6, <2>7
<1>12. ReservedBy(c) \subseteq R
  BY <1>1 DEF Reserved
<1>13. 1 \notin R
  <2> SUFFICES ASSUME 1 \in R PROVE FALSE
    OBVIOUS
  <2>1. 1 \in 1 .. N
    BY <1>1
  <2> QED BY <1>2, <1>10, <2>1 DEF AllListed
<1>14. \A b \in R : b \in 2 .. N
  BY <1>1, <1>13
<1>15. /\ c.locals.merge # 0
       /\ IsLoop(c) => /\ c.locals.continue # 0 /\ c.locals.continue # c.locals.merge
                       /\ c.fallthrough = c.locals.continue
       /\ ~IsLoop(c) => c.locals.continue = 0 /\ c.fallthrough = c.locals.merge
  BY <1>3 DEF CallOK
<1>16. c.locals.merge \in R
  BY <1>12, <1>15 DEF ReservedBy
<1>17. IsLoop(c) => /\ c.locals.continue \in R
                    /\ ReservedBy(c) = {c.locals.continue, c.locals.merge}
  BY <1>12, <1>15 DEF ReservedBy
<1>18. ~IsLoop(c) => ReservedBy(c) = {c.locals.merge}
  BY <1>15 DEF ReservedBy
<1>19. c.current \notin R
  <2>1. c.current # 0 => c.current \notin R
    BY OpenBlock
  <2> QED BY <2>1, <1>14
<1> HIDE DEF R, N, L, k, h, t, c
<1> QED
  BY <1>4, <1>6, <1>7, <1>8, <1>9, <1>11, <1>14, <1>15, <1>16, <1>17, <1>18, <1>19
     DEF R, N, L, k, h, t, c

\* Two nodes more.
LEMMA TwoMore ==
    ASSUME NEW list, Numbered(list), NEW x, NEW y
    PROVE  /\ Extends(list, list \o <<x, y>>) /\ Len(list \o <<x, y>>) = Len(list) + 2
           /\ (list \o <<x, y>>)[Len(list) + 1] = x
           /\ (list \o <<x, y>>)[Len(list) + 2] = y
<1>1. PICK A : list \in Seq(A)
  BY DEF Numbered
<1> DEFINE D == A \cup {x, y}
<1>2. list \in Seq(D) /\ <<x, y>> \in Seq(D) /\ Len(<<x, y>>) = 2
  <2>1. A \subseteq D /\ x \in D /\ y \in D
    OBVIOUS
  <2> HIDE DEF D
  <2>2. <<x, y>> \in Seq(D)
    BY <2>1
  <2> QED BY <1>1, <2>1, <2>2, ListsGrow
<1> HIDE DEF D
<1>3. /\ list \o <<x, y>> \in Seq(D) /\ Len(list) \in Nat
      /\ Len(list \o <<x, y>>) = Len(list) + 2
      /\ \A i \in 1 .. Len(list) : (list \o <<x, y>>)[i] = list[i]
      /\ \A i \in 1 .. 2 : (list \o <<x, y>>)[Len(list) + i] = <<x, y>>[i]
  BY <1>2, JoinedAt
<1>4. /\ (list \o <<x, y>>)[Len(list) + 1] = x
      /\ (list \o <<x, y>>)[Len(list) + 2] = y
  BY <1>3
<1> QED BY <1>3, <1>4 DEF Extends, Numbered

\* One node more.
LEMMA OneMore ==
    ASSUME NEW list, Numbered(list), NEW x
    PROVE  /\ Extends(list, Append(list, x)) /\ Len(Append(list, x)) = Len(list) + 1
           /\ Append(list, x)[Len(list) + 1] = x
<1>1. PICK A : list \in Seq(A)
  BY DEF Numbered
<1> DEFINE D == A \cup {x}
<1>2. list \in Seq(D) /\ x \in D
  <2>1. A \subseteq D /\ x \in D
    OBVIOUS
  <2> HIDE DEF D
  <2> QED BY <1>1, <2>1, ListsGrow
<1> HIDE DEF D
<1>3. /\ Append(list, x) \in Seq(D) /\ Len(list) \in Nat
      /\ Len(Append(list, x)) = Len(list) + 1
      /\ \A i \in 1 .. Len(list) : Append(list, x)[i] = list[i]
      /\ Append(list, x)[Len(list) + 1] = x
  BY <1>2, AppendProperties, LenProperties
<1> QED BY <1>3 DEF Extends, Numbered

\* More nodes, and more again.
LEMMA ExtendsOn ==
    ASSUME NEW a, NEW b, NEW c, Extends(a, b), Extends(b, c)
    PROVE  Extends(a, c)
<1>1. Len(a) \in Nat /\ Len(b) \in Nat /\ Len(c) \in Nat
  BY NumberedPool DEF Extends
<1>2. \A i \in 1 .. Len(a) : i \in 1 .. Len(b)
  BY <1>1 DEF Extends
<1> QED BY <1>1, <1>2 DEF Extends

\* list2 is list with node k filled in, and more nodes behind it.
FilledAt(list, list2, k, node) ==
    /\ Numbered(list2) /\ Len(list) <= Len(list2) /\ list2[k] = node
    /\ \A i \in 1 .. Len(list) : i # k => list2[i] = list[i]

\* The node goes to blocks that are not listed yet or are listed behind it.
Fills(R, n, list, k, node, X) ==
    /\ node.type # "Block" /\ X \in SUBSET (2 .. n) /\ X = NodeGoesTo(node)
    /\ \A c \in X : c \in R \/ \E j \in 1 .. Len(list) : k < j /\ At(list, j, c)

\* list2 is list with node k filled in.
Filled(list, list2, k, node) ==
    /\ Numbered(list2) /\ Len(list2) = Len(list) /\ list2[k] = node
    /\ \A i \in 1 .. Len(list) : i # k => list2[i] = list[i]

\* There is a list with the node filled in.
LEMMA FilledExists ==
    ASSUME NEW list, Numbered(list), NEW k \in 1 .. Len(list), NEW node
    PROVE  \E list2 : Filled(list, list2, k, node)
<1> DEFINE list2 == [list EXCEPT ![k] = node]
<1>1. list2 = [list EXCEPT ![k] = node]
  OBVIOUS
<1>2. Len(list) \in Nat /\ DOMAIN list = 1 .. Len(list)
  BY NumberedPool
<1>3. list2 = [i \in 1 .. Len(list) |-> IF i = k THEN node ELSE list[i]]
  BY <1>1, <1>2
<1> HIDE DEF list2
<1>4. list2[k] = node /\ \A i \in 1 .. Len(list) : i # k => list2[i] = list[i]
  BY <1>3
<1>5. list2 = [i \in 1 .. Len(list) |-> list2[i]]
  BY <1>3
<1>6. Numbered(list2) /\ Len(list2) = Len(list)
  BY <1>2, <1>5, NumberPool, ZenonT(60)
<1> QED BY <1>4, <1>6 DEF Filled

\* A node that waited is filled in, and the block before it goes where it says.
LEMMA LayoutFills ==
    ASSUME NEW R, NEW n, NEW S, NEW Q, NEW list, NEW cur, Layout(R, n, S, Q, list, cur),
           NEW k, NEW h, Waits(n, list, k, h),
           NEW node, NEW X, Fills(R, n, list, k, node, X),
           NEW S2, Redirected(n, S, h, X, S2),
           NEW list2, FilledAt(list, list2, k, node)
    PROVE  \E list1 : /\ Layout(R, n, S2, Q, list1, cur)
                      /\ Extends(list1, list2) /\ Len(list1) = Len(list)
<1>1. Numbered(list)
  BY DEF Layout
<1>2. k \in 1 .. Len(list)
  BY <1>1, NumberedPool DEF Waits
<1>3. PICK list1 : Filled(list, list1, k, node)
  BY <1>1, <1>2, FilledExists
<1>31. /\ Numbered(list1) /\ Len(list1) = Len(list) /\ list1[k] = node
       /\ \A i \in 1 .. Len(list) : i # k => list1[i] = list[i]
  BY <1>3 DEF Filled
<1>32. /\ X \in SUBSET (2 .. n) /\ X = NodeGoesTo(node) /\ node.type # "Block"
       /\ \A c \in X : c \in R \/ \E j \in 1 .. Len(list) : k < j /\ At(list, j, c)
  BY DEF Fills
<1>4. Layout(R, n, S2, Q, list1, cur)
  BY <1>31, <1>32, LayoutLinks
<1>5. Extends(list1, list2)
  BY <1>31 DEF Extends, FilledAt
<1> QED BY <1>31, <1>4, <1>5

\* The end of an If, in the list and the edges.
IfNodes(list, list2, k, node, then, merge) ==
    /\ FilledAt(list, list2, k, node) /\ Len(list2) = Len(list) + 2
    /\ node.type # "Block" /\ NodeGoesTo(node) = {then, merge}
    /\ list2[Len(list) + 1].type # "Block" /\ NodeGoesTo(list2[Len(list) + 1]) = {merge}
    /\ list2[Len(list) + 2] = BlockNode(merge)
IfEdges(n, S, h, cur, then, merge, S2) ==
    /\ S2 \in [1 .. n -> SUBSET (2 .. n)]
    /\ \A x \in 1 .. n : S2[x] = IF x = h THEN {then, merge}
                                  ELSE IF x = cur THEN {merge} ELSE S[x]

\* The node of an If is filled in, and its merge block listed and opened.
LEMMA LayoutReturnsFromIf ==
    ASSUME NEW R, NEW n, NEW S, NEW Q, NEW list, NEW cur, Layout(R, n, S, Q, list, cur),
           NEW k, NEW h, Waits(n, list, k, h), k < Len(list), h # cur,
           NEW then \in 2 .. n, At(list, k + 1, then),
           NEW merge \in 2 .. n, merge \in R,
           NEW node, NEW list2, IfNodes(list, list2, k, node, then, merge),
           NEW S2, IfEdges(n, S, h, cur, then, merge, S2)
    PROVE  Layout(R \ {merge}, n, S2, Q, list2, merge)
<1> DEFINE L == Len(list)
           X1 == {then, merge}
           X2 == {merge}
           S1 == [S EXCEPT ![h] = X1]
<1>0. /\ FilledAt(list, list2, k, node) /\ Len(list2) = L + 2
      /\ node.type # "Block" /\ NodeGoesTo(node) = {then, merge}
      /\ list2[L + 1].type # "Block" /\ NodeGoesTo(list2[L + 1]) = {merge}
      /\ list2[L + 2] = BlockNode(merge)
  BY DEF IfNodes
<1>00. /\ S2 \in [1 .. n -> SUBSET (2 .. n)]
       /\ \A x \in 1 .. n : S2[x] = IF x = h THEN X1 ELSE IF x = cur THEN X2 ELSE S[x]
  BY DEF IfEdges
<1>1. /\ k \in 2 .. Len(list) /\ h \in 1 .. n
      /\ n \in Nat /\ Numbered(list) /\ S \in [1 .. n -> SUBSET (2 .. n)] /\ cur \in 0 .. n
  BY DEF Layout, Waits
<1>2. L \in Nat
  BY <1>1, NumberedPool
<1>3. k < k + 1 /\ k \in 1 .. L /\ L # 0 /\ k \in Nat /\ k + 1 \in 1 .. L
  BY <1>1, <1>2
<1>4. X1 = NodeGoesTo(node) /\ X2 = NodeGoesTo(list2[L + 1])
  BY <1>0
<1>5. X1 \in SUBSET (2 .. n) /\ X2 \in SUBSET (2 .. n)
  OBVIOUS
<1>6. \A x \in X1 : x \in R \/ \E j \in 1 .. L : k < j /\ At(list, j, x)
  BY <1>3
<1>7. \A x \in X2 : x \in R
  OBVIOUS
<1>8. Redirected(n, S, h, X1, S1)
  <2> HIDE DEF X1
  <2> QED BY <1>1, <1>5 DEF Redirected
<1>82. S1 \in [1 .. n -> SUBSET (2 .. n)] /\ \A x \in 1 .. n : S1[x] = IF x = h THEN X1 ELSE S[x]
  <2> HIDE DEF X1, S1
  <2> QED BY <1>8 DEF Redirected
<1>9. S2 = IF cur = 0 THEN S1 ELSE [S1 EXCEPT ![cur] = X2]
  <2> DEFINE T == IF cur = 0 THEN S1 ELSE [S1 EXCEPT ![cur] = X2]
  <2>2. T \in [1 .. n -> SUBSET (2 .. n)] /\ \A x \in 1 .. n : T[x] = IF x = cur THEN X2 ELSE S1[x]
    <3> HIDE DEF S1, X2
    <3> QED BY <1>1, <1>5, <1>82
  <2> HIDE DEF T, S1, X1, X2
  <2>4. \A x \in 1 .. n : S2[x] = T[x]
    <3> SUFFICES ASSUME NEW x \in 1 .. n PROVE S2[x] = T[x]
      OBVIOUS
    <3>1. S2[x] = IF x = h THEN X1 ELSE IF x = cur THEN X2 ELSE S[x]
      BY <1>00
    <3>2. T[x] = IF x = cur THEN X2 ELSE S1[x]
      BY <2>2
    <3>3. S1[x] = IF x = h THEN X1 ELSE S[x]
      BY <1>82
    <3> QED BY <3>1, <3>2, <3>3
  <2>5. S2 = T
    <3>1. S2 = [x \in 1 .. n |-> S2[x]] /\ T = [x \in 1 .. n |-> T[x]]
      BY <1>00, <2>2
    <3>2. [x \in 1 .. n |-> S2[x]] = [x \in 1 .. n |-> T[x]]
      BY <2>4, Zenon
    <3> QED BY <3>1, <3>2
  <2> QED BY <2>5 DEF T
<1> HIDE DEF X1, X2, S1
<1>10. PICK list1 : /\ Layout(R, n, S1, Q, list1, cur)
                    /\ Extends(list1, list2) /\ Len(list1) = Len(list)
  <2>1. Fills(R, n, list, k, node, X1)
    BY <1>0, <1>4, <1>5, <1>6 DEF Fills
  <2>2. FilledAt(list, list2, k, node)
    BY <1>0
  <2> HIDE DEF L
  <2> QED BY <1>8, <2>1, <2>2, LayoutFills
<1>11. Layout(R \ {merge}, n, S2, Q, list2, merge)
  <2>1. /\ Len(list2) \in {Len(list1) + 1, Len(list1) + 2} /\ ~(Len(list1) = 0)
        /\ list2[Len(list2)] = BlockNode(merge)
        /\ list2[Len(list1) + 1].type # "Block"
        /\ X2 = NodeGoesTo(list2[Len(list1) + 1])
    BY <1>0, <1>3, <1>4, <1>10
  <2>2. \A x \in X2 : x \in R \/ (Repeats(list2, Len(list1), x) /\ cur \in Q)
    BY <1>7
  <2> QED BY <1>5, <1>9, <1>10, <2>1, <2>2, LayoutPuts
<1> QED BY <1>11

\* The Visit of an If returns.
LEMMA BuildReturnsFromIf ==
    ASSUME NEW cs, NEW ir, NEW list, Build(cs, ir, list), Len(cs) # 1, ~IsLoop(cs[Len(cs)]),
           NEW k, k = cs[Len(cs)].locals.node, k < Len(list),
           NEW merge, merge = cs[Len(cs)].locals.merge,
           NEW then, then = BodyBlock(cs, list),
           NEW i2, Blocks(i2), Len(i2) = Len(ir),
           \A x \in 1 .. Len(ir) : i2[x].body = ir[x].body,
           \A x \in 1 .. Len(ir) : Succs(i2, x) =
              IF x = HeadBlock(cs) THEN {then, merge}
              ELSE IF x = cs[Len(cs)].current THEN {merge} ELSE Succs(ir, x),
           NEW node, NEW list2, IfNodes(list, list2, k, node, then, merge),
           NEW cs2, Returns(cs, cs2), cs2[Len(cs) - 1].current = merge
    PROVE  Build(cs2, i2, list2)
<1> DEFINE n == Len(ir)
           cur == cs[Len(cs)].current
           h == HeadBlock(cs)
           R == Reserved(cs)
           S == SuccsOf(ir)
           S2 == SuccsOf(i2)
<1>1. /\ Frames(cs, list) /\ n \in Nat /\ R \subseteq 1 .. n /\ Len(list) \in Nat /\ Numbered(list)
      /\ Layout(R, n, S, Quiet(ir), list, cur)
      /\ Blocks(ir) /\ \A x \in R : ir[x].body = <<>>
  BY BuildMeans
<1>2. /\ k \in 2 .. Len(list) /\ list[k] = [type |-> "Pending"]
      /\ h \in 1 .. n /\ At(list, k - 1, h) /\ h # cur /\ Waits(n, list, k, h)
      /\ At(list, k + 1, then) /\ then \in 2 .. n
      /\ merge \in 2 .. n /\ merge \in R
      /\ ReservedBy(cs[Len(cs)]) = {merge}
  BY TheCall DEF Waits
<1>3. \A x \in 1 .. n : S[x] = Succs(ir, x) /\ S2[x] = Succs(i2, x)
  BY DEF SuccsOf
<1>4. ASSUME NEW x \in 1 .. n
      PROVE  S2[x] = IF x = h THEN {then, merge} ELSE IF x = cur THEN {merge} ELSE S[x]
  <2>1. S[x] = Succs(ir, x) /\ S2[x] = Succs(i2, x)
    BY <1>3
  <2>2. Succs(i2, x) = IF x = h THEN {then, merge} ELSE IF x = cur THEN {merge} ELSE Succs(ir, x)
    OBVIOUS
  <2> HIDE DEF S, S2, n, h, cur
  <2> QED BY <2>1, <2>2
<1>5. S2 \in [1 .. n -> SUBSET (2 .. n)]
  <2>1. \A x \in 1 .. n : S[x] \in SUBSET (2 .. n)
    BY <1>1 DEF Layout
  <2>2. ASSUME NEW x \in 1 .. n PROVE S2[x] \in SUBSET (2 .. n)
    <3>1. {then, merge} \in SUBSET (2 .. n) /\ {merge} \in SUBSET (2 .. n)
      BY <1>2
    <3>2. S2[x] = {then, merge} \/ S2[x] = {merge} \/ S2[x] = S[x]
      BY <1>4
    <3> HIDE DEF S, S2, n, h, cur
    <3> QED BY <3>1, <3>2, <2>1
  <2>3. S2 = [x \in 1 .. n |-> S2[x]]
    BY DEF SuccsOf
  <2> HIDE DEF S2
  <2> QED BY <2>2, <2>3
<1>51. IfEdges(n, S, h, cur, then, merge, S2)
  BY <1>4, <1>5 DEF IfEdges
<1> HIDE DEF S, S2, n, h, cur, R
<1>6. Layout(R \ {merge}, n, S2, Quiet(ir), list2, merge)
  BY <1>1, <1>2, <1>51, LayoutReturnsFromIf
<1>7. Frames(cs2, list2) /\ Reserved(cs2) = R \ {merge}
  <2>1. Len(list) <= Len(list2) /\ Numbered(list2)
    BY DEF FilledAt, IfNodes
  <2>2. \A i \in 1 .. Len(list) : i # k => list2[i] = list[i]
    BY DEF FilledAt, IfNodes
  <2>3. Frames(cs2, list2) /\ Reserved(cs2) = Reserved(cs) \ ReservedBy(cs[Len(cs)])
    BY <1>1, <2>1, <2>2, FramesReturn
  <2> QED BY <1>2, <2>3 DEF R
<1>8. Len(cs2) = Len(cs) - 1
  BY DEF Returns
<1>9. Quiet(i2) = Quiet(ir)
  BY DEF Quiet
<1>10. \A x \in R \ {merge} : i2[x].body = <<>>
  BY <1>1 DEF n
<1> QED BY <1>6, <1>7, <1>8, <1>9, <1>10 DEF Build, S2, n

\* What comes first in a list.
LEMMA PrefixExists ==
    ASSUME NEW list, Numbered(list), NEW m \in Nat, m <= Len(list)
    PROVE  \E list1 : Extends(list1, list) /\ Len(list1) = m
<1> DEFINE list1 == [i \in 1 .. m |-> list[i]]
<1>1. Len(list) \in Nat /\ DOMAIN list = 1 .. Len(list)
  BY NumberedPool
<1>2. \A i \in 1 .. m : list[i] = list1[i]
  OBVIOUS
<1>3. list1 = [i \in 1 .. m |-> list1[i]]
  OBVIOUS
<1> HIDE DEF list1
<1>4. Numbered(list1) /\ Len(list1) = m
  BY <1>3, NumberPool, ZenonT(60)
<1> QED BY <1>1, <1>2, <1>4 DEF Extends

\* The end of a Loop, in the list and the edges.
LoopNodes(list, list2, k, node, body, h, continue, merge) ==
    /\ FilledAt(list, list2, k, node) /\ Len(list2) = Len(list) + 3
    /\ node.type # "Block" /\ NodeGoesTo(node) = {body}
    /\ list2[Len(list) + 1] = BlockNode(continue)
    /\ list2[Len(list) + 2].type = "Repeat" /\ list2[Len(list) + 2].header = h
    /\ NodeGoesTo(list2[Len(list) + 2]) = {h, merge}
    /\ list2[Len(list) + 3] = BlockNode(merge)
LoopEdges(n, S, h, cur, body, continue, merge, S2) ==
    /\ S2 \in [1 .. n -> SUBSET (2 .. n)]
    /\ \A x \in 1 .. n : S2[x] = IF x = h THEN {body}
                                  ELSE IF x = continue THEN {h, merge}
                                  ELSE IF x = cur THEN {continue} ELSE S[x]

\* The node of a Loop is filled in, and its continue and merge blocks are listed.
LEMMA LayoutReturnsFromLoop ==
    ASSUME NEW R, NEW n, NEW S, NEW Q, NEW list, NEW cur, Layout(R, n, S, Q, list, cur),
           NEW k, NEW h \in 2 .. n, Waits(n, list, k, h), k < Len(list), h # cur, h \notin R,
           NEW body \in 2 .. n, At(list, k + 1, body),
           NEW continue \in 2 .. n, continue \in R, continue \in Q, continue # cur,
           NEW merge \in 2 .. n, merge \in R, merge # continue,
           NEW node, NEW list2, LoopNodes(list, list2, k, node, body, h, continue, merge),
           NEW S2, LoopEdges(n, S, h, cur, body, continue, merge, S2)
    PROVE  Layout(R \ {continue, merge}, n, S2, Q, list2, merge)
<1> DEFINE L == Len(list)
           X1 == {body}
           X2 == {continue}
           X3 == {h, merge}
           S1 == [S EXCEPT ![h] = X1]
           T == IF cur = 0 THEN S1 ELSE [S1 EXCEPT ![cur] = X2]
           U == [T EXCEPT ![continue] = X3]
           R1 == R \ {continue}
<1>0. /\ FilledAt(list, list2, k, node) /\ Len(list2) = L + 3
      /\ node.type # "Block" /\ NodeGoesTo(node) = X1
      /\ list2[L + 1] = BlockNode(continue)
      /\ list2[L + 2].type = "Repeat" /\ list2[L + 2].header = h
      /\ NodeGoesTo(list2[L + 2]) = X3
      /\ list2[L + 3] = BlockNode(merge)
  BY DEF LoopNodes
<1>00. /\ S2 \in [1 .. n -> SUBSET (2 .. n)]
       /\ \A x \in 1 .. n : S2[x] = IF x = h THEN X1 ELSE IF x = continue THEN X3
                                     ELSE IF x = cur THEN X2 ELSE S[x]
  BY DEF LoopEdges
<1>1. /\ k \in 2 .. Len(list) /\ h \in 1 .. n
      /\ n \in Nat /\ Numbered(list) /\ S \in [1 .. n -> SUBSET (2 .. n)] /\ cur \in 0 .. n
  BY DEF Layout, Waits
<1>2. L \in Nat
  BY <1>1, NumberedPool
<1>3. k < k + 1 /\ k \in 1 .. L /\ L # 0 /\ k \in Nat /\ k + 1 \in 1 .. L
  BY <1>1, <1>2
<1>4. X1 \in SUBSET (2 .. n) /\ X2 \in SUBSET (2 .. n) /\ X3 \in SUBSET (2 .. n)
  OBVIOUS
<1>5. Fills(R, n, list, k, node, X1)
  <2>1. \A x \in X1 : x \in R \/ \E j \in 1 .. L : k < j /\ At(list, j, x)
    BY <1>3
  <2>2. node.type # "Block" /\ X1 \in SUBSET (2 .. n) /\ X1 = NodeGoesTo(node)
    BY <1>0, <1>4
  <2> HIDE DEF X1
  <2> QED BY <2>1, <2>2 DEF Fills
<1>6. S1 \in [1 .. n -> SUBSET (2 .. n)] /\ \A x \in 1 .. n : S1[x] = IF x = h THEN X1 ELSE S[x]
  <2> HIDE DEF X1
  <2> QED BY <1>1, <1>4
<1>7. Redirected(n, S, h, X1, S1)
  <2> HIDE DEF X1, S1
  <2> QED BY <1>6 DEF Redirected
<1>8. T \in [1 .. n -> SUBSET (2 .. n)] /\ \A x \in 1 .. n : T[x] = IF x = cur THEN X2 ELSE S1[x]
  <2> HIDE DEF S1, X2
  <2> QED BY <1>1, <1>4, <1>6
<1>9. U \in [1 .. n -> SUBSET (2 .. n)] /\ \A x \in 1 .. n : U[x] = IF x = continue THEN X3 ELSE T[x]
  <2> HIDE DEF T, X3
  <2> QED BY <1>4, <1>8
<1>10. S2 = U
  <2> HIDE DEF U, T, S1, X1, X2, X3
  <2>1. \A x \in 1 .. n : S2[x] = U[x]
    <3> SUFFICES ASSUME NEW x \in 1 .. n PROVE S2[x] = U[x]
      OBVIOUS
    <3>1. S2[x] = IF x = h THEN X1 ELSE IF x = continue THEN X3 ELSE IF x = cur THEN X2 ELSE S[x]
      BY <1>00
    <3>2. U[x] = IF x = continue THEN X3 ELSE T[x]
      BY <1>9
    <3>3. T[x] = IF x = cur THEN X2 ELSE S1[x]
      BY <1>8
    <3>4. S1[x] = IF x = h THEN X1 ELSE S[x]
      BY <1>6
    <3>5. h # cur /\ h # continue /\ continue # cur
      OBVIOUS
    <3> QED BY <3>1, <3>2, <3>3, <3>4, <3>5
  <2>2. S2 = [x \in 1 .. n |-> S2[x]] /\ U = [x \in 1 .. n |-> U[x]]
    BY <1>00, <1>9
  <2>3. [x \in 1 .. n |-> S2[x]] = [x \in 1 .. n |-> U[x]]
    BY <2>1, Zenon
  <2> QED BY <2>2, <2>3
<1>11. U = IF continue = 0 THEN T ELSE [T EXCEPT ![continue] = X3]
  OBVIOUS
<1>12. T = IF cur = 0 THEN S1 ELSE [S1 EXCEPT ![cur] = X2]
  OBVIOUS
<1>13. X2 = NodeGoesTo(BlockNode(continue)) /\ X3 = NodeGoesTo(list2[L + 2])
  BY <1>0, NodeGoes
<1>14. (\A x \in X2 : x \in R) /\ (\A x \in X3 : x = h \/ x \in R \ {continue})
  OBVIOUS
<1> HIDE DEF X1, X2, X3, S1, T, U
<1>15. PICK list1 : /\ Layout(R, n, S1, Q, list1, cur)
                    /\ Extends(list1, list2) /\ Len(list1) = L
  <2>1. FilledAt(list, list2, k, node)
    BY <1>0
  <2> QED BY <1>5, <1>7, <2>1, LayoutFills
<1>16. PICK list3 : Extends(list3, list2) /\ Len(list3) = L + 1
  <2>1. Numbered(list2) /\ L + 1 \in Nat /\ L + 1 <= Len(list2)
    BY <1>0, <1>2 DEF FilledAt
  <2> QED BY <2>1, PrefixExists
<1>17. Extends(list1, list3)
  <2>1. \A i \in 1 .. L : i \in 1 .. L + 1
    BY <1>2
  <2> QED BY <1>2, <1>15, <1>16, <2>1 DEF Extends
<1>18. list3[L + 1] = BlockNode(continue)
  BY <1>0, <1>2, <1>16 DEF Extends
<1>19. Layout(R1, n, T, Q, list3, continue)
  <2>1. /\ Len(list3) \in {Len(list1) + 1, Len(list1) + 2} /\ Len(list1) # 0
        /\ ~(Len(list3) = Len(list1) + 2)
        /\ list3[Len(list3)] = BlockNode(continue)
    BY <1>2, <1>3, <1>15, <1>16, <1>18
  <2>2. X2 = NodeGoesTo(list3[Len(list1) + 1])
    BY <1>13, <1>15, <1>18
  <2>3. \A x \in X2 : x \in R \/ (Repeats(list3, Len(list1), x) /\ cur \in Q)
    BY <1>14
  <2> QED BY <1>4, <1>12, <1>15, <1>17, <2>1, <2>2, <2>3, LayoutPuts DEF R1
<1>20. Layout(R1 \ {merge}, n, U, Q, list2, merge)
  <2>1. /\ Len(list2) \in {Len(list3) + 1, Len(list3) + 2} /\ ~(Len(list3) = 0)
        /\ list2[Len(list2)] = BlockNode(merge) /\ Len(list3) + 1 = L + 2
        /\ list2[Len(list3) + 1].type # "Block" /\ Len(list3) < Len(list2)
    BY <1>0, <1>2, <1>16
  <2>2. X3 = NodeGoesTo(list2[Len(list3) + 1])
    BY <1>13, <2>1
  <2>3. Repeats(list2, Len(list3), h)
    BY <1>0, <2>1 DEF Repeats
  <2>4. \A x \in X3 : x \in R1 \/ (Repeats(list2, Len(list3), x) /\ continue \in Q)
    BY <1>14, <2>3
  <2>5. merge \in R1
    OBVIOUS
  <2>6. Len(list2) = Len(list3) + 2 => list2[Len(list3) + 1].type # "Block"
    BY <2>1
  <2>7. Len(list3) = 0 => merge = 1 /\ Len(list2) = 1
    BY <2>1
  <2>8. list2[Len(list2)] = BlockNode(merge) /\ Len(list2) \in {Len(list3) + 1, Len(list3) + 2}
    BY <2>1
  <2>9. Extends(list3, list2)
    BY <1>16
  <2> HIDE DEF R1
  <2> QED BY <1>4, <1>11, <1>19, <2>2, <2>4, <2>5, <2>6, <2>7, <2>8, <2>9, LayoutPuts
<1>21. R1 \ {merge} = R \ {continue, merge}
  OBVIOUS
<1> QED BY <1>10, <1>20, <1>21

\* The locals of the Loop that ends, and what its body begins with.
LoopAt(cs, list, k, h, then, continue, merge) ==
    LET c == cs[Len(cs)]
    IN  /\ Len(cs) # 1 /\ IsLoop(c) /\ HeadBlock(cs) = h /\ h # 1
        /\ k = c.locals.node /\ k < Len(list)
        /\ merge = c.locals.merge /\ continue = c.locals.continue
        /\ then = BodyBlock(cs, list)

\* i2 is ir with its edges, and with the condition in its continue block.
LoopClosed(ir, i2, h, cur, then, continue, merge) ==
    /\ Blocks(i2) /\ Len(i2) = Len(ir)
    /\ \A x \in 1 .. Len(ir) : x # continue => i2[x].body = ir[x].body
    /\ \A e \in ToSet(i2[continue].body) : e[1] = "ConditionRef"
    /\ \A x \in 1 .. Len(ir) :
          Succs(i2, x) = IF x = h THEN {then}
                         ELSE IF x = continue THEN {h, merge}
                         ELSE IF x = cur THEN {continue} ELSE Succs(ir, x)

\* The Visit of a Loop returns.
LEMMA BuildReturnsFromLoop ==
    ASSUME NEW cs, NEW ir, NEW list, Build(cs, ir, list),
           NEW k, NEW h, NEW then, NEW continue, NEW merge,
           LoopAt(cs, list, k, h, then, continue, merge),
           NEW i2, LoopClosed(ir, i2, h, cs[Len(cs)].current, then, continue, merge),
           NEW node, NEW list2, LoopNodes(list, list2, k, node, then, h, continue, merge),
           NEW cs2, Returns(cs, cs2), cs2[Len(cs) - 1].current = merge
    PROVE  Build(cs2, i2, list2)
<1> DEFINE n == Len(ir)
           cur == cs[Len(cs)].current
           R == Reserved(cs)
           S == SuccsOf(ir)
           S2 == SuccsOf(i2)
<1>01. /\ Len(cs) # 1 /\ IsLoop(cs[Len(cs)]) /\ HeadBlock(cs) = h /\ h # 1
       /\ k = cs[Len(cs)].locals.node /\ k < Len(list)
       /\ merge = cs[Len(cs)].locals.merge /\ continue = cs[Len(cs)].locals.continue
       /\ then = BodyBlock(cs, list)
  BY DEF LoopAt
<1>02. /\ Blocks(i2) /\ Len(i2) = n
       /\ \A x \in 1 .. n : x # continue => i2[x].body = ir[x].body
       /\ \A e \in ToSet(i2[continue].body) : e[1] = "ConditionRef"
       /\ \A x \in 1 .. n : Succs(i2, x) = IF x = h THEN {then}
                                            ELSE IF x = continue THEN {h, merge}
                                            ELSE IF x = cur THEN {continue} ELSE Succs(ir, x)
  BY DEF LoopClosed
<1>1. /\ Frames(cs, list) /\ n \in Nat /\ R \subseteq 1 .. n /\ Len(list) \in Nat /\ Numbered(list)
      /\ Layout(R, n, S, Quiet(ir), list, cur)
      /\ Blocks(ir) /\ \A x \in R : ir[x].body = <<>>
  BY BuildMeans
<1>2. /\ k \in 2 .. Len(list) /\ list[k] = [type |-> "Pending"]
      /\ h \in 1 .. n /\ At(list, k - 1, h) /\ h # cur /\ Waits(n, list, k, h)
      /\ h \notin R /\ cur \notin R
      /\ At(list, k + 1, then) /\ then \in 2 .. n
      /\ merge \in 2 .. n /\ merge \in R
      /\ continue \in 2 .. n /\ continue \in R /\ continue # merge
      /\ ReservedBy(cs[Len(cs)]) = {continue, merge}
  BY <1>01, TheCall DEF Waits
<1>21. h \in 2 .. n
  <2>1. h # 1
    BY <1>01
  <2> HIDE DEF n
  <2> QED BY <1>1, <1>2, <2>1
<1>3. \A x \in 1 .. n : S[x] = Succs(ir, x) /\ S2[x] = Succs(i2, x)
  BY <1>02 DEF SuccsOf
<1>4. ASSUME NEW x \in 1 .. n
      PROVE  S2[x] = IF x = h THEN {then} ELSE IF x = continue THEN {h, merge}
                     ELSE IF x = cur THEN {continue} ELSE S[x]
  <2>1. S[x] = Succs(ir, x) /\ S2[x] = Succs(i2, x)
    BY <1>3
  <2>2. Succs(i2, x) = IF x = h THEN {then} ELSE IF x = continue THEN {h, merge}
                       ELSE IF x = cur THEN {continue} ELSE Succs(ir, x)
    BY <1>02
  <2> HIDE DEF S, S2, n, cur
  <2> QED BY <2>1, <2>2
<1>5. S2 \in [1 .. n -> SUBSET (2 .. n)]
  <2>1. \A x \in 1 .. n : S[x] \in SUBSET (2 .. n)
    BY <1>1 DEF Layout
  <2>2. ASSUME NEW x \in 1 .. n PROVE S2[x] \in SUBSET (2 .. n)
    <3>1. /\ {h, merge} \in SUBSET (2 .. n) /\ {then} \in SUBSET (2 .. n)
          /\ {continue} \in SUBSET (2 .. n)
      BY <1>2, <1>21
    <3>2. S2[x] = {then} \/ S2[x] = {h, merge} \/ S2[x] = {continue} \/ S2[x] = S[x]
      BY <1>4
    <3> HIDE DEF S, S2, n, cur
    <3> QED BY <3>1, <3>2, <2>1
  <2>3. S2 = [x \in 1 .. n |-> S2[x]]
    BY <1>02 DEF SuccsOf
  <2> HIDE DEF S2
  <2> QED BY <2>2, <2>3
<1>51. LoopEdges(n, S, h, cur, then, continue, merge, S2)
  <2> HIDE DEF n, S, cur, S2
  <2> QED BY <1>4, <1>5 DEF LoopEdges
<1>52. Quiet(i2) = Quiet(ir) /\ continue \in Quiet(ir)
  <2>1. ir[continue].body = <<>>
    BY <1>01, <1>1, <1>2
  <2>2. \A e \in ToSet(ir[continue].body) : e[1] = "ConditionRef"
    BY <2>1 DEF ToSet
  <2>3. \A b \in 1 .. n : b # continue => i2[b].body = ir[b].body
    BY <1>02
  <2>4. continue \in 1 .. n
    BY <1>2
  <2>5. \A b \in 1 .. n : (\A e \in ToSet(i2[b].body) : e[1] = "ConditionRef")
                          <=> \A e \in ToSet(ir[b].body) : e[1] = "ConditionRef"
    BY <1>02, <2>2, <2>3
  <2> QED BY <1>02, <2>2, <2>4, <2>5 DEF Quiet
<1>53. LoopNodes(list, list2, k, node, then, h, continue, merge) /\ continue # cur
  BY <1>2
<1> HIDE DEF S, S2, n, cur, R
<1>6. Layout(R \ {continue, merge}, n, S2, Quiet(ir), list2, merge)
  <2> DEFINE Q == Quiet(ir)
  <2>1. Layout(R, n, S, Q, list, cur) /\ continue \in Q
    BY <1>1, <1>52
  <2>2. /\ h \in 2 .. n /\ Waits(n, list, k, h) /\ h # cur /\ h \notin R
        /\ then \in 2 .. n /\ At(list, k + 1, then) /\ k < Len(list)
        /\ continue \in 2 .. n /\ continue \in R /\ continue # cur
        /\ merge \in 2 .. n /\ merge \in R /\ merge # continue
    BY <1>01, <1>2, <1>21, <1>53
  <2>3. /\ LoopNodes(list, list2, k, node, then, h, continue, merge)
        /\ LoopEdges(n, S, h, cur, then, continue, merge, S2)
    BY <1>51, <1>53
  <2> HIDE DEF Q
  <2>4. Layout(R \ {continue, merge}, n, S2, Q, list2, merge)
    BY ONLY <2>1, <2>2, <2>3, LayoutReturnsFromLoop
  <2> QED BY <2>4 DEF Q
<1>7. Frames(cs2, list2) /\ Reserved(cs2) = R \ {continue, merge}
  <2>1. Len(list) <= Len(list2) /\ Numbered(list2)
    BY DEF FilledAt, LoopNodes
  <2>2. \A i \in 1 .. Len(list) : i # k => list2[i] = list[i]
    BY DEF FilledAt, LoopNodes
  <2>3. Frames(cs2, list2) /\ Reserved(cs2) = Reserved(cs) \ ReservedBy(cs[Len(cs)])
    BY <1>01, <1>1, <2>1, <2>2, FramesReturn
  <2> QED BY <1>2, <2>3 DEF R
<1>8. Len(cs2) = Len(cs) - 1
  BY DEF Returns
<1>10. \A x \in R \ {continue, merge} : i2[x].body = <<>>
  BY <1>02, <1>1 DEF n
<1> QED BY <1>02, <1>6, <1>7, <1>8, <1>52, <1>10 DEF Build, S2, n

\* The Visit of the root returns.
LEMMA BuildFinishes ==
    ASSUME NEW cs, NEW ir, NEW list, Build(cs, ir, list), Len(cs) = 1, Len(list) # 0,
           NEW i2, NEW body, BodySet(ir, i2, 1, body),
           NEW list2,
           IF cs[1].current = 0 THEN list2 = list
           ELSE /\ Extends(list, list2) /\ Len(list2) = Len(list) + 1
                /\ list2[Len(list) + 1] = [type |-> "Unreachable"]
    PROVE  Finished(i2, list2)
<1> DEFINE cur == cs[Len(cs)].current
<1>1. /\ Frames(cs, list) /\ Len(ir) \in Nat /\ Len(list) \in Nat
      /\ Layout(Reserved(cs), Len(ir), SuccsOf(ir), Quiet(ir), list, cur)
      /\ Blocks(ir)
  BY BuildMeans
<1>2. Reserved(cs) = {}
  <2>1. CallOK(cs, 1)
    BY <1>1 DEF Frames
  <2>2. ReservedBy(cs[1]) = {}
    BY <2>1 DEF CallOK, ReservedBy, NoLocals
  <2>3. 1 .. Len(cs) = {1}
    OBVIOUS
  <2> QED BY <2>2, <2>3 DEF Reserved
<1>3. /\ Blocks(i2) /\ Len(i2) = Len(ir)
      /\ \A x \in 1 .. Len(ir) : x # 1 => i2[x].body = ir[x].body
      /\ \A x \in 1 .. Len(ir) : Succs(i2, x) = Succs(ir, x)
  BY DEF BodySet
<1>4. SuccsOf(i2) = SuccsOf(ir)
  BY <1>3 DEF SuccsOf
<1>5. \A b \in Quiet(ir) : b \in Quiet(i2) \/ b = cur \/ b = 1
  BY <1>3 DEF Quiet
<1>6. Layout({}, Len(i2), SuccsOf(i2), Quiet(i2), list, cur)
  <2>1. Layout({}, Len(i2), SuccsOf(i2), Quiet(ir), list, cur)
    BY <1>1, <1>2, <1>3, <1>4
  <2> HIDE DEF cur
  <2> QED BY <2>1, <1>5, LayoutWrites
<1>7. CASE cur = 0
  <2>1. list2 = list
    BY <1>7
  <2> QED BY <1>3, <1>6, <1>7, <2>1 DEF Finished
<1>8. CASE cur # 0
  <2>1. /\ Extends(list, list2) /\ Len(list2) = Len(list) + 1
        /\ list2[Len(list) + 1] = [type |-> "Unreachable"]
    BY <1>8
  <2>2. /\ list2[Len(list) + 1].type # "Block" /\ NodeGoesTo(list2[Len(list) + 1]) = {}
        /\ Len(list2) # 0
    BY <1>1, <2>1, NodeGoes
  <2> HIDE DEF cur
  <2>3. Layout({}, Len(i2), SuccsOf(i2), Quiet(i2), list2, 0)
    BY <1>6, <1>8, <2>1, <2>2, LayoutCloses
  <2> QED BY <1>3, <2>2, <2>3 DEF Finished
<1> QED BY <1>7, <1>8

-----------------------------------------------------------------------------
(* What the pass has made.                                                 *)
\* What can be used of what is finished.
LEMMA FinishedMeans ==
    ASSUME NEW ir, NEW list, Finished(ir, list)
    PROVE  /\ Len(ir) \in Nat /\ DOMAIN ir = 1 .. Len(ir)
           /\ Len(list) \in Nat /\ Len(list) # 0 /\ DOMAIN list = 1 .. Len(list)
           /\ At(list, 1, 1)
           /\ \A b \in 1 .. Len(ir) : Succs(ir, b) \subseteq 2 .. Len(ir)
           /\ \A b \in 1 .. Len(ir) : \E i \in 1 .. Len(list) : At(list, i, b)
           /\ \A b \in 1 .. Len(ir) : \A i, j \in 1 .. Len(list) :
                 At(list, i, b) /\ At(list, j, b) => i = j
           /\ \A i \in 1 .. Len(list) : list[i].type = "Block" =>
                 /\ list[i].block \in 1 .. Len(ir) /\ At(list, i, list[i].block)
                 /\ i < Len(list)
           /\ \A i \in 1 .. Len(list), b \in 1 .. Len(ir) :
                 At(list, i, b) => Succs(ir, b) = NextGoesTo(list, i)
           /\ \A i, j \in 1 .. Len(list), b, c \in 1 .. Len(ir) :
                 At(list, i, b) /\ At(list, j, c) /\ c \in Succs(ir, b) =>
                    i < j \/ (Repeats(list, i, c) /\ b \in Quiet(ir))
<1> DEFINE n == Len(ir)
           S == SuccsOf(ir)
<1>1. Blocks(ir) /\ Len(list) # 0 /\ Layout({}, n, S, Quiet(ir), list, 0)
  BY DEF Finished
<1>2. /\ n \in Nat /\ S \in [1 .. n -> SUBSET (2 .. n)] /\ Numbered(list)
      /\ NodesAreBlocks(n, list) /\ ListedOnce(n, list) /\ AllListed({}, n, list)
      /\ EdgesFollow({}, n, S, list) /\ EdgesGoForward(n, S, Quiet(ir), list)
      /\ EndsWith(list, 0) /\ At(list, 1, 1)
  BY <1>1 DEF Layout
<1>3. DOMAIN ir = 1 .. n /\ Len(list) \in Nat /\ DOMAIN list = 1 .. Len(list)
  BY <1>1, <1>2, NumberedPool DEF Blocks
<1>4. \A b \in 1 .. n : S[b] = Succs(ir, b)
  BY DEF SuccsOf
<1> HIDE DEF S, n
<1>5. \A b \in 1 .. n : Succs(ir, b) \subseteq 2 .. n
  BY <1>2, <1>4
<1>6. \A b \in 1 .. n : \E i \in 1 .. Len(list) : At(list, i, b)
  BY <1>2 DEF AllListed
<1>7. \A b \in 1 .. n : \A i, j \in 1 .. Len(list) : At(list, i, b) /\ At(list, j, b) => i = j
  BY <1>2 DEF ListedOnce
<1>8. ASSUME NEW i \in 1 .. Len(list), list[i].type = "Block"
      PROVE  list[i].block \in 1 .. n /\ At(list, i, list[i].block) /\ i < Len(list)
  <2>1. i # Len(list)
    BY <1>1, <1>2, <1>8 DEF EndsWith
  <2>2. i < Len(list)
    <3>1. Len(list) \in Nat
      BY <1>3
    <3> QED BY <2>1, <3>1
  <2>3. list[i] = BlockNode(list[i].block) /\ list[i].block \in 1 .. n
    BY <1>2, <1>8 DEF NodesAreBlocks
  <2> DEFINE b == list[i].block
  <2>4. list[i] = BlockNode(b)
    BY <2>3
  <2> HIDE DEF b
  <2>5. At(list, i, b)
    BY <2>4 DEF At
  <2> QED BY <2>2, <2>3, <2>5 DEF b
<1>9. \A i \in 1 .. Len(list), b \in 1 .. n : At(list, i, b) => Succs(ir, b) = NextGoesTo(list, i)
  BY <1>2, <1>4 DEF EdgesFollow
<1>10. \A i, j \in 1 .. Len(list), b, c \in 1 .. n :
          At(list, i, b) /\ At(list, j, c) /\ c \in Succs(ir, b) =>
             i < j \/ (Repeats(list, i, c) /\ b \in Quiet(ir))
  BY <1>2, <1>4 DEF EdgesGoForward
<1> QED BY <1>1, <1>2, <1>3, <1>5, <1>6, <1>7, <1>8, <1>9, <1>10 DEF n

\* What Finished says of the list.
LEMMA FinishedListsOnce ==
    ASSUME Finished(irBlocks, syntax_list)
    PROVE  EveryBlockListedOnce
<1> SUFFICES ASSUME NEW b \in DOMAIN irBlocks
             PROVE  Cardinality({i \in BlockNodes : syntax_list[i].block = b}) = 1
  BY DEF EveryBlockListedOnce
<1> DEFINE P == {i \in BlockNodes : syntax_list[i].block = b}
<1>1. b \in 1 .. Len(irBlocks) /\ DOMAIN syntax_list = 1 .. Len(syntax_list)
  BY FinishedMeans
<1>2. PICK i \in 1 .. Len(syntax_list) : At(syntax_list, i, b)
  BY <1>1, FinishedMeans
<1>3. i \in P
  BY <1>1, <1>2, BlockNodeIs DEF At, BlockNodes
<1>4. \A j \in P : j = i
  <2> SUFFICES ASSUME NEW j \in P PROVE j = i
    OBVIOUS
  <2>1. j \in 1 .. Len(syntax_list) /\ syntax_list[j].type = "Block" /\ syntax_list[j].block = b
    BY <1>1 DEF BlockNodes
  <2>2. At(syntax_list, j, b)
    BY <2>1, FinishedMeans
  <2> QED BY <1>1, <1>2, <2>1, <2>2, FinishedMeans
<1>5. P = {i}
  BY <1>3, <1>4
<1> QED BY <1>5, FS_Singleton

\* PlaceOf finds the node of a block.
LEMMA PlaceIs ==
    ASSUME Finished(irBlocks, syntax_list), NEW b \in 1 .. Len(irBlocks)
    PROVE  PlaceOf(b) \in 1 .. Len(syntax_list) /\ At(syntax_list, PlaceOf(b), b)
<1>1. DOMAIN syntax_list = 1 .. Len(syntax_list)
  BY FinishedMeans
<1>2. PICK i \in 1 .. Len(syntax_list) : At(syntax_list, i, b)
  BY FinishedMeans
<1>3. i \in BlockNodes /\ syntax_list[i].block = b
  BY <1>1, <1>2, BlockNodeIs DEF At, BlockNodes
<1>4. PlaceOf(b) \in BlockNodes /\ syntax_list[PlaceOf(b)].block = b
  BY <1>3 DEF PlaceOf
<1> QED BY <1>1, <1>4, FinishedMeans DEF BlockNodes

\* What Finished says of edges that go back.
LEMMA FinishedFitsForSsa ==
    ASSUME Finished(irBlocks, syntax_list)
    PROVE  FitForSsa
<1> DEFINE n == Len(irBlocks)
           list == syntax_list
<1>1. /\ DOMAIN irBlocks = 1 .. n /\ DOMAIN list = 1 .. Len(list) /\ n \in Nat
      /\ Len(list) \in Nat
      /\ \A b \in 1 .. n : Succs(irBlocks, b) \subseteq 2 .. n
      /\ list[1].block = 1
  BY FinishedMeans, BlockNodeIs DEF At
<1>2. FirstBlockIsEntry
  <2>1. list[1].type = "Block"
    BY FinishedMeans, BlockNodeIs DEF At
  <2> QED BY <1>1, <2>1 DEF FirstBlockIsEntry, Succs
<1>3. ASSUME NEW b \in 1 .. n, NEW c \in Succs(irBlocks, b), PlaceOf(c) <= PlaceOf(b)
      PROVE  /\ \E i \in 1 .. Len(list) :
                   list[i].type = "Repeat" /\ list[i].header = c /\ list[i - 1] = BlockNode(b)
             /\ \A e \in ToSet(irBlocks[b].body) : e[1] = "ConditionRef"
  <2>1. c \in 1 .. n
    BY <1>1
  <2>2. /\ PlaceOf(b) \in 1 .. Len(list) /\ At(list, PlaceOf(b), b)
        /\ PlaceOf(c) \in 1 .. Len(list) /\ At(list, PlaceOf(c), c)
    BY <2>1, PlaceIs
  <2>3. ~(PlaceOf(b) < PlaceOf(c))
    BY <1>3, <2>2
  <2>4. Repeats(list, PlaceOf(b), c) /\ b \in Quiet(irBlocks)
    BY <2>1, <2>2, <2>3, FinishedMeans
  <2> DEFINE i == PlaceOf(b) + 1
  <2>5. i \in 1 .. Len(list) /\ i - 1 = PlaceOf(b)
    BY <1>1, <2>2, <2>4 DEF Repeats
  <2>6. list[i].type = "Repeat" /\ list[i].header = c /\ list[i - 1] = BlockNode(b)
    BY <2>2, <2>4, <2>5 DEF Repeats, At
  <2>7. \A e \in ToSet(irBlocks[b].body) : e[1] = "ConditionRef"
    BY <2>4 DEF Quiet
  <2> QED BY <2>5, <2>6, <2>7
<1>4. BackEdgesWriteNothing
  BY <1>1, <1>3, SMTT(60) DEF BackEdgesWriteNothing, Succs
<1> QED BY <1>2, <1>4 DEF FitForSsa

\* What Finished says of the list and the edges.
LEMMA FinishedFollows ==
    ASSUME Finished(irBlocks, syntax_list)
    PROVE  EdgesFollowTheList
<1> SUFFICES ASSUME NEW i \in BlockNodes
             PROVE  /\ i < Len(syntax_list)
                    /\ ToSet(irBlocks[syntax_list[i].block].successors)
                         = NodeGoesTo(syntax_list[i + 1])
  BY DEF EdgesFollowTheList
<1>1. i \in 1 .. Len(syntax_list) /\ syntax_list[i].type = "Block"
  BY FinishedMeans DEF BlockNodes
<1>2. /\ i < Len(syntax_list) /\ syntax_list[i].block \in 1 .. Len(irBlocks)
      /\ At(syntax_list, i, syntax_list[i].block)
  BY <1>1, FinishedMeans
<1>3. Succs(irBlocks, syntax_list[i].block) = NextGoesTo(syntax_list, i)
  BY <1>1, <1>2, FinishedMeans
<1> QED BY <1>2, <1>3 DEF NextGoesTo, Succs

-----------------------------------------------------------------------------
(* MergeBlock, which puts a Code into the tree that is walked.             *)

MergeCode(p) == [type |-> "Code", up |-> p, block |-> Dummy]

\* s2 is st with Code n behind s in the list of p.
CodeBehind(st, s2, p, s, n) ==
    /\ Numbered(s2) /\ DOMAIN s2 = DOMAIN st \cup {n} /\ n \notin DOMAIN st /\ n # 0
    /\ \A x \in DOMAIN st : SameKind(s2[x], st[x]) /\ s2[x].up = st[x].up
    /\ \A x \in DOMAIN st : x # p => Children(s2, x) = Children(st, x)
    /\ s2[n].type = "Code" /\ s2[n].up = p /\ Complete(s2[n])
    /\ Children(s2, p) = (Before(st, s) \o <<s, n>>) \o After(st, s)

\* The Code of MergeBlock is put behind its statement.
LEMMA CodePutBehind ==
    ASSUME NEW st, PoolOK(st), Numbered(st), NEW p \in DOMAIN st, HasChildren(st, p), NEW s
    PROVE  CodeBehind(st, SetChildren(Create(st, MergeCode(p)), p,
                             Before(st, s) \o <<s, Len(Create(st, MergeCode(p)))>> \o After(st, s)),
                      p, s, Len(st) + 1)
<1> DEFINE n == Len(st) + 1
           s1 == Create(st, MergeCode(p))
           body == Before(st, s) \o <<s, n>> \o After(st, s)
           s2 == SetChildren(s1, p, body)
<1>1. Created(st, s1, MergeCode(p))
  BY CreateDoes
<1>2. /\ Numbered(s1) /\ DOMAIN s1 = DOMAIN st \cup {n} /\ n \notin DOMAIN st /\ Len(s1) = n
      /\ Len(st) \in Nat /\ s1[n] = MergeCode(p) /\ \A x \in DOMAIN st : s1[x] = st[x]
  BY <1>1 DEF Created
<1>3. n # 0 /\ n \in Nat
  BY <1>2
<1>4. \A x \in DOMAIN st : Complete(st[x])
  BY DEF PoolOK, Fields
<1>5. Complete(MergeCode(p)) /\ MergeCode(p).type = "Code" /\ MergeCode(p).up = p
  BY DEF Complete, MergeCode
<1> HIDE DEF n, s1, body
<1>6. \A x \in DOMAIN s1 : Complete(s1[x])
  BY <1>2, <1>4, <1>5
<1>7. p \in DOMAIN s1 /\ HasChildren(s1, p)
  BY <1>2 DEF HasChildren
<1>8. ChildrenSet(s1, s2, p, body)
  BY <1>2, <1>6, <1>7, SetChildrenDoes
<1> HIDE DEF s2
<1>9. n # p
  BY <1>2
<1>10. \A x \in DOMAIN st : Children(s1, x) = Children(st, x)
  BY <1>2 DEF Children, HasChildren
<1>11. CodeBehind(st, s2, p, s, n)
  <2>1. Numbered(s2) /\ DOMAIN s2 = DOMAIN s1
    BY <1>8 DEF ChildrenSet
  <2>2. \A x \in DOMAIN st : SameKind(s2[x], st[x]) /\ s2[x].up = st[x].up
    BY <1>2, <1>8 DEF ChildrenSet
  <2>3. \A x \in DOMAIN st : x # p => Children(s2, x) = Children(st, x)
    BY <1>2, <1>8, <1>10 DEF ChildrenSet
  <2>4. s2[n].type = "Code" /\ s2[n].up = p /\ Complete(s2[n])
    BY <1>2, <1>5, <1>8, <1>9 DEF ChildrenSet
  <2>5. Children(s2, p) = (Before(st, s) \o <<s, n>>) \o After(st, s)
    BY <1>8 DEF ChildrenSet, body
  <2> QED BY <1>2, <1>3, <2>1, <2>2, <2>3, <2>4, <2>5 DEF CodeBehind
<1> QED BY <1>2, <1>11 DEF s2, body, s1, n

\* The pool has one more leaf.
LEMMA CodeBehindIsLeaves ==
    ASSUME NEW st, PoolOK(st), NEW p \in DOMAIN st, HasChildren(st, p), NEW s,
           Contains(Children(st, p), s), NEW s2, NEW n, CodeBehind(st, s2, p, s, n)
    PROVE  /\ Leaves(st, s2, {})
           /\ Before(st, s) \in Seq(DOMAIN st) /\ After(st, s) \in Seq(DOMAIN st) /\ s \in DOMAIN st
           /\ Children(st, p) = (Before(st, s) \o <<s>>) \o After(st, s)
<1> DEFINE D == DOMAIN st
           E == DOMAIN s2
           X == Before(st, s)
           Y == After(st, s)
           list == Children(st, p)
           list2 == Children(s2, p)
<1>1. Fields(st) /\ Lists(st)
  BY DEF PoolOK
<1>2. list \in Seq(D) /\ Once(list) /\ list = st[p].children
  BY <1>1 DEF Fields, Lists, Children
<1>3. s \in D /\ st[s].up = p
  <2>1. s \in D
    BY <1>2, ContainedIn
  <2> QED BY <1>1, <2>1 DEF Lists
<1>4. X \in Seq(D) /\ Y \in Seq(D) /\ list = (X \o <<s>>) \o Y
  BY <1>2, <1>3, CutAt
<1>5. /\ E = D \cup {n} /\ n \notin D /\ n # 0
      /\ \A x \in D : SameKind(s2[x], st[x]) /\ s2[x].up = st[x].up
      /\ \A x \in D : x # p => Children(s2, x) = Children(st, x)
      /\ s2[n].type = "Code" /\ s2[n].up = p /\ Complete(s2[n])
      /\ list2 = (X \o <<s, n>>) \o Y
  BY DEF CodeBehind
<1>6. D \subseteq E /\ s \in E /\ n \in E
  BY <1>3, <1>5
<1> HIDE DEF D, E, X, Y, list, list2
<1>7. X \in Seq(E) /\ Y \in Seq(E)
  BY <1>4, <1>6, ListsGrow
<1>8. \A a : Contains(list, a) <=> Contains(X, a) \/ a = s \/ Contains(Y, a)
  BY <1>3, <1>4, ThreeOne
<1>9. \A a, b : Earlier(list, a, b) <=>
                 \/ Earlier(X, a, b) \/ Earlier(Y, a, b)
                 \/ Contains(X, a) /\ b = s
                 \/ (Contains(X, a) \/ a = s) /\ Contains(Y, b)
  BY <1>3, <1>4, ThreeOne
<1>10. list2 \in Seq(E) /\ \A a : Contains(list2, a) <=> Contains(X, a) \/ a = s \/ a = n \/ Contains(Y, a)
  BY <1>5, <1>6, <1>7, ThreeTwo, ZenonT(60)
<1>11. \A a, b : Earlier(list2, a, b) <=>
                 \/ Earlier(X, a, b) \/ (a = s /\ b = n) \/ Earlier(Y, a, b)
                 \/ Contains(X, a) /\ (b = s \/ b = n)
                 \/ (Contains(X, a) \/ a = s \/ a = n) /\ Contains(Y, b)
  <2>1. \A a, b : Earlier((X \o <<s, n>>) \o Y, a, b) <=>
                 \/ Earlier(X, a, b) \/ (a = s /\ b = n) \/ Earlier(Y, a, b)
                 \/ Contains(X, a) /\ (b = s \/ b = n)
                 \/ (Contains(X, a) \/ a = s \/ a = n) /\ Contains(Y, b)
    BY <1>6, <1>7, ThreeTwo
  <2>2. list2 = (X \o <<s, n>>) \o Y
    BY <1>5
  <2> QED BY <2>1, <2>2
<1>12. ~Contains(X, n) /\ ~Contains(Y, n) /\ s # n
  BY <1>3, <1>4, <1>5, ContainedIn
<1>13. Renews(D, {}, list, list2)
  <2>1. Once(list2)
    BY <1>2, <1>9, <1>11, <1>12 DEF Once
  <2>2. \A c \in D : c # n
    BY <1>5
  <2>3. \A c \in D : Contains(list2, c) <=> Contains(list, c)
    BY <1>8, <1>10, <2>2
  <2>4. \A a, b \in D : Earlier(list2, a, b) => Earlier(list, a, b)
    BY <1>9, <1>11, <2>2
  <2> QED BY <2>1, <2>3, <2>4 DEF Renews
<1>14. ASSUME NEW q \in D
       PROVE  /\ Children(s2, q) \in Seq(E)
              /\ Renews(D, {}, Children(st, q), Children(s2, q))
              /\ \A c \in E \ D : Contains(Children(s2, q), c) => s2[c].up = q
  <2>1. CASE q = p
    BY <1>5, <1>10, <1>13, <2>1 DEF list, list2
  <2>2. CASE q # p
    <3>1. Children(s2, q) = Children(st, q) /\ Children(st, q) \in Seq(D) /\ Once(Children(st, q))
      BY <1>1, <1>5, <2>2 DEF Fields, Lists, D
    <3>2. Children(st, q) \in Seq(E)
      BY <1>6, <3>1, ListsGrow
    <3>3. Renews(D, {}, Children(st, q), Children(st, q))
      BY <3>1, RenewsSame
    <3>4. \A c : Contains(Children(st, q), c) => c \in D
      BY <3>1, ContainedIn
    <3> QED BY <3>1, <3>2, <3>3, <3>4
  <2> QED BY <2>1, <2>2
<1>15. /\ 0 \notin E
       /\ \A x \in E \ D : x = n
       /\ Complete(s2[n]) /\ Contains(list2, n)
  <2>1. 0 \notin D
    BY <1>1 DEF Fields, D
  <2> QED BY <1>5, <1>10, <2>1
<1>16. Leaves(st, s2, {})
  <2>1. D \subseteq E /\ 0 \notin E
    BY <1>6, <1>15
  <2>2. \A x \in D : SameKind(s2[x], st[x]) /\ s2[x].up = st[x].up
    BY <1>5
  <2>3. \A x \in E \ D :
          /\ s2[x].type \in {"Goto", "SetVariable", "Break", "Code"}
          /\ s2[x].up \in D /\ HasChildren(st, s2[x].up)
          /\ Complete(s2[x])
          /\ Contains(Children(s2, s2[x].up), x)
          /\ s2[x].type = "Goto" => s2[x].label \in D /\ st[s2[x].label].type = "Label"
          /\ s2[x].type = "Break" => st[s2[x].up].type = "Loop"
    <3>1. p \in D
      BY DEF D
    <3>2. Contains(Children(s2, p), n)
      BY <1>15 DEF list2
    <3> QED BY <1>5, <1>15, <3>1, <3>2
  <2> QED BY <1>14, <2>1, <2>2, <2>3 DEF Leaves, D, E
<1> QED BY <1>3, <1>4, <1>16 DEF D, X, Y, list

\* A Code opens a block: the lists stay as they should be.
LEMMA CodeBehindOpened ==
    ASSUME NEW st, PoolOK(st), Opened(st), NEW p \in DOMAIN st, HasChildren(st, p), NEW s,
           Contains(Children(st, p), s), st[s].type \in {"If", "Loop", "Break"},
           NEW s2, NEW n, CodeBehind(st, s2, p, s, n), n # Root
    PROVE  Opened(s2)
<1> DEFINE D == DOMAIN st
           E == DOMAIN s2
           X == Before(st, s)
           Y == After(st, s)
           M == <<s, n>>
<1>1. /\ E = D \cup {n} /\ n \notin D
      /\ \A x \in D : SameKind(s2[x], st[x])
      /\ \A x \in D : x # p => Children(s2, x) = Children(st, x)
      /\ s2[n].type = "Code"
      /\ Children(s2, p) = (X \o M) \o Y
  BY DEF CodeBehind
<1>2. /\ X \in Seq(D) /\ Y \in Seq(D) /\ s \in D
      /\ Children(st, p) = (X \o <<s>>) \o Y
  BY CodeBehindIsLeaves
<1>3. D \subseteq E /\ M \in Seq(E) /\ s \in E /\ n \in E
  BY <1>1, <1>2
<1>4. \A x \in D : x \in E /\ s2[x].type = st[x].type
  BY <1>1 DEF SameKind
<1>5. WellOpened(st, p) /\ Fields(st)
  BY DEF Opened, PoolOK
<1>6. st[s].type # "SetVariable" /\ s2[s].type \notin {"Label", "Goto"} /\ s2[n].type # "Label"
  BY <1>1, <1>2, <1>4
<1>7. LabelsFollowed(s2, M) /\ Opens(s2, M)
  <2>1. Contains(M, s)
    BY TwoIn
  <2>2. LabelsFollowed(s2, M)
    BY <1>6, FollowedTwo
  <2> HIDE DEF M
  <2> QED BY <1>6, <2>1, <2>2, OpensMeans
<1> HIDE DEF D, E, X, Y, M
<1>8. LabelsFollowed(st, Y)
  <2>1. LabelsFollowed(st, (X \o <<s>>) \o Y)
    BY <1>2, <1>5 DEF WellOpened
  <2> QED BY <1>2, <2>1, FollowedCut
<1>9. WellOpened(s2, p)
  <2>1. p \in D
    BY DEF D
  <2> QED BY <1>1, <1>2, <1>3, <1>4, <1>5, <1>6, <1>7, <1>8, <2>1, Rebuilt
<1>10. WellOpened(s2, n)
  BY <1>1, LeafOpened
<1>11. OtherLists(st, s2, {p})
  BY <1>1 DEF OtherLists, D
<1>12. \A x \in E : x \in {p} \/ x \notin D => WellOpened(s2, x)
  BY <1>1, <1>9, <1>10
<1> QED BY <1>4, <1>5, <1>11, <1>12, OpenedStays DEF D, E

\* The tree after MergeBlock is one that the walk can go on with.
TreeKept(st, s2) ==
    \A x \in DOMAIN st : /\ x \in DOMAIN s2 /\ s2[x].type = st[x].type
                         /\ Chain(s2, x) = Chain(st, x) /\ Chain(st, x) \subseteq DOMAIN st

\* The tree is still one that the goto pass could have left.
LEMMA MergedCodeKeeps ==
    ASSUME IInv, step = "done", Opened(stmt),
           NEW p \in DOMAIN stmt, HasChildren(stmt, p), NEW s,
           Contains(Children(stmt, p), s), stmt[s].type \in {"If", "Loop", "Break"},
           NEW n, n # Root, CodeBehind(stmt, stmt', p, s, n), KeepPass
    PROVE  IInv' /\ Opened(stmt') /\ TreeKept(stmt, stmt')
<1>1. PoolOK(stmt) /\ WaitingOK /\ MovingOK
  BY DEF IInv, TreeOK
<1>2. Leaves(stmt, stmt', {})
  BY <1>1, CodeBehindIsLeaves
<1>3. /\ PoolOK(stmt')
      /\ \A x \in DOMAIN stmt : Chain(stmt', x) = Chain(stmt, x)
  BY <1>1, <1>2, LeavesKeepPool
<1>4. GotosIn(stmt') = (GotosIn(stmt) \ {}) \cup {x \in DOMAIN stmt' \ DOMAIN stmt : stmt'[x].type = "Goto"}
  BY <1>1, <1>2, LeavesGotos
<1>5. Numbered(stmt') /\ \A x \in DOMAIN stmt' \ DOMAIN stmt : stmt'[x].type # "Goto"
  BY DEF CodeBehind
<1>6. GotosIn(stmt') = GotosIn(stmt)
  BY <1>4, <1>5
<1>7. gotos = <<>> /\ goto_stmt = 0
  BY <1>1 DEF MovingOK
<1>8. gotos' = <<>> /\ goto_stmt' = 0 /\ step' = "done" /\ goto_level' = goto_level
      /\ label_level' = label_level
  BY <1>7 DEF KeepPass
<1>9. TreeOK'
  BY <1>3, <1>5 DEF TreeOK
<1>10. WaitingOK'
  <2>1. \A w, v : ~Contains(<<>>, w) /\ ~Earlier(<<>>, w, v)
    BY NothingIn
  <2>2. \A x : x \notin GotosIn(stmt)
    BY <1>1, <1>7, <2>1 DEF WaitingOK
  <2>3. gotos' \in Seq(DOMAIN stmt')
    BY <1>8
  <2> QED BY <1>6, <1>8, <2>1, <2>2, <2>3 DEF WaitingOK
<1>11. MovingOK'
  BY <1>1, <1>8 DEF MovingOK
<1>12. Opened(stmt')
  BY <1>1, CodeBehindOpened
<1>13. TreeKept(stmt, stmt')
  <2>1. \A x \in DOMAIN stmt : x \in DOMAIN stmt' /\ stmt'[x].type = stmt[x].type
    BY <1>2 DEF Leaves, SameKind
  <2>2. \A x \in DOMAIN stmt : Chain(stmt, x) \subseteq DOMAIN stmt
    BY <1>1, ChainInPool DEF PoolOK
  <2> QED BY <1>3, <2>1, <2>2 DEF TreeKept
<1> QED BY <1>9, <1>10, <1>11, <1>12, <1>13 DEF IInv

\* The statement Visit is at is in the list it goes through.
LEMMA VisitedInList ==
    ASSUME IInv, call.parent \in DOMAIN stmt, HasChildren(stmt, call.parent), ~AtEnd,
           call.at \in Nat \ {0}
    PROVE  /\ call.at \in 1 .. Len(Children(stmt, call.parent))
           /\ visited = Children(stmt, call.parent)[call.at]
           /\ Contains(Children(stmt, call.parent), visited)
           /\ visited \in DOMAIN stmt /\ stmt[visited].up = call.parent
<1> DEFINE list == Children(stmt, call.parent)
<1>1. Fields(stmt) /\ Lists(stmt)
  BY DEF IInv, TreeOK, PoolOK
<1>2. list = stmt[call.parent].children /\ list \in Seq(DOMAIN stmt)
  BY <1>1 DEF Children, Fields
<1> HIDE DEF list
<1>3. call.at \in 1 .. Len(list)
  <2>1. ~(call.at > Len(list))
    BY <1>2 DEF AtEnd
  <2>2. Len(list) \in Nat
    BY <1>2, LenProperties
  <2> QED BY <2>1, <2>2
<1>4. visited = list[call.at]
  BY <1>2 DEF visited
<1>5. visited \in DOMAIN stmt
  BY <1>2, <1>3, <1>4, ElementOfSeq
<1>6. Contains(list, visited)
  BY <1>3, <1>4 DEF Contains
<1>7. stmt[visited].up = call.parent
  BY <1>1, <1>5, <1>6 DEF Lists, list
<1> QED BY <1>3, <1>4, <1>5, <1>6, <1>7 DEF list

\* MergeBlock behind the statement that is visited.
LEMMA StmtsMergedKeeps ==
    ASSUME IInv, cfg \in Cfgs, step = "done", Opened(stmt),
           call.parent \in DOMAIN stmt, HasChildren(stmt, call.parent), ~AtEnd,
           call.at \in Nat \ {0}, stmt[visited].type \in {"If", "Loop", "Break"},
           stmt' = StmtsMerged(visited), KeepPass
    PROVE  IInv' /\ Opened(stmt') /\ TreeKept(stmt, stmt')
<1>1. PoolOK(stmt) /\ Numbered(stmt)
  BY DEF IInv, TreeOK
<1>2. Contains(Children(stmt, call.parent), visited)
  BY VisitedInList
<1>3. CASE FindsForwardBlock(visited)
  <2>1. stmt' = stmt
    BY <1>3 DEF StmtsMerged
  <2>2. [Next]_vars
    BY <2>1 DEF KeepPass, vars
  <2>3. \A x \in DOMAIN stmt : Chain(stmt, x) \subseteq DOMAIN stmt
    BY <1>1, ChainInPool DEF PoolOK
  <2>4. TreeKept(stmt, stmt')
    BY <2>1, <2>3 DEF TreeKept
  <2> QED BY <2>2, <2>4, NextKeeps, NextOpened
<1>4. CASE ~FindsForwardBlock(visited)
  <2> DEFINE n == Len(stmt) + 1
             p == call.parent
             s == visited
             s1 == Create(stmt, MergeCode(p))
  <2>1. stmt' = SetChildren(s1, p, Before(stmt, s) \o <<s, Len(s1)>> \o After(stmt, s))
    BY <1>4 DEF StmtsMerged, MergeCode
  <2>2. CodeBehind(stmt, stmt', p, s, n)
    <3> HIDE DEF p, s, n
    <3>1. CodeBehind(stmt, SetChildren(Create(stmt, MergeCode(p)), p,
                             Before(stmt, s) \o <<s, Len(Create(stmt, MergeCode(p)))>> \o After(stmt, s)),
                      p, s, Len(stmt) + 1)
      BY <1>1, CodePutBehind DEF p
    <3> QED BY <2>1, <3>1 DEF n
  <2>3. n # Root
    BY <1>1, <2>2, NumberedPool DEF Root, CodeBehind, PoolOK, Fields
  <2> HIDE DEF n, p, s
  <2>4. p \in DOMAIN stmt /\ HasChildren(stmt, p) /\ Contains(Children(stmt, p), s)
        /\ stmt[s].type \in {"If", "Loop", "Break"}
    BY <1>2 DEF p, s
  <2> QED BY <2>2, <2>3, <2>4, MergedCodeKeeps
<1> QED BY <1>3, <1>4

-----------------------------------------------------------------------------
(* The call stack.                                                         *)

\* The first k of a list.
LEMMA PrefixDoes ==
    ASSUME NEW S, NEW list \in Seq(S), NEW k \in Nat, k <= Len(list)
    PROVE  /\ SubSeq(list, 1, k) \in Seq(S) /\ Len(SubSeq(list, 1, k)) = k
           /\ \A i \in 1 .. k : SubSeq(list, 1, k)[i] = list[i]
<1>1. Len(list) \in Nat /\ \A i \in 1 .. Len(list) : list[i] \in S
  BY LenProperties, ElementOfSeq
<1>2. k \in Int /\ 1 \in Int /\ \A i \in 1 .. k : list[i] \in S
  BY <1>1
<1>3. k - 1 + 1 = k /\ (1 <= k \/ k = 0) /\ \A i \in 1 .. k : 1 + i - 1 = i
  OBVIOUS
<1>4. /\ SubSeq(list, 1, k) \in Seq(S)
      /\ Len(SubSeq(list, 1, k)) = IF 1 <= k THEN k - 1 + 1 ELSE 0
      /\ \A i \in 1 .. k - 1 + 1 : SubSeq(list, 1, k)[i] = list[1 + i - 1]
  BY <1>2, SubSeqProperties
<1> QED BY <1>2, <1>3, <1>4

\* The calls of cs2 are those of cs, but for what they have visited.
Going(cs, cs2) ==
    /\ cs2 \in Seq(CallRecords) /\ Len(cs2) # 0 /\ Len(cs2) <= Len(cs)
    /\ \A i \in 1 .. Len(cs2) : /\ cs2[i].parent = cs[i].parent
                                /\ cs2[i].break = cs[i].break
                                /\ cs2[i].locals = cs[i].locals

\* u is call r, which goes on at statement a in block b.
Updates(r, u, a, b) == u = [r EXCEPT !.at = a, !.current = b]

\* The fields of a call that goes on.
LEMMA CallFields ==
    ASSUME NEW r \in CallRecords, NEW a \in Nat \ {0}, NEW b \in Nat,
           NEW u, Updates(r, u, a, b)
    PROVE  /\ u \in CallRecords /\ u.parent = r.parent /\ u.break = r.break
           /\ u.fallthrough = r.fallthrough /\ u.locals = r.locals
           /\ u.at = a /\ u.current = b
<1>1. r = [parent |-> r.parent, at |-> r.at, current |-> r.current, break |-> r.break,
           fallthrough |-> r.fallthrough, locals |-> r.locals]
  BY DEF CallRecords
<1>2. u = [parent |-> r.parent, at |-> a, current |-> b, break |-> r.break,
           fallthrough |-> r.fallthrough, locals |-> r.locals]
  BY <1>1 DEF Updates
<1>3. u.parent = r.parent /\ u.break = r.break /\ u.fallthrough = r.fallthrough
  BY <1>2
<1>4. u.locals = r.locals /\ u.at = a /\ u.current = b
  BY <1>2
<1>5. r.parent \in Nat /\ r.break \in Nat /\ r.fallthrough \in Nat
      /\ r.locals \in [header : Nat, continue : Nat, merge : Nat, node : Nat]
  BY DEF CallRecords
<1>6. u \in CallRecords
  BY <1>2, <1>5 DEF CallRecords
<1> QED BY <1>3, <1>4, <1>6

\* The innermost call.
LEMMA TheCalls ==
    ASSUME calls \in Seq(CallRecords), Len(calls) # 0
    PROVE  /\ Len(calls) \in Nat /\ Len(calls) \in 1 .. Len(calls) /\ calls # <<>>
           /\ call = calls[Len(calls)] /\ call \in CallRecords
           /\ call.at \in Nat \ {0} /\ call.current \in Nat
           /\ \A i \in 1 .. Len(calls) : calls[i] \in CallRecords
<1>1. Len(calls) \in Nat /\ Len(calls) \in 1 .. Len(calls) /\ calls # <<>>
  BY LenProperties
<1>2. call = calls[Len(calls)]
  BY DEF call, Last
<1>3. \A i \in 1 .. Len(calls) : calls[i] \in CallRecords
  BY ElementOfSeq
<1>4. call \in CallRecords
  BY <1>1, <1>2, <1>3
<1> QED BY <1>1, <1>2, <1>3, <1>4 DEF CallRecords

\* The innermost call goes on.
LEMMA GoOnDoes ==
    ASSUME calls \in Seq(CallRecords), Len(calls) # 0, NEW b \in Nat
    PROVE  LET cs2 == GoOn(b)
               n == Len(calls)
           IN  /\ Resumes(calls, cs2) /\ Going(calls, cs2)
               /\ cs2 \in Seq(CallRecords) /\ Len(cs2) = n
               /\ cs2[n].current = b /\ cs2[n].at = call.at + 1
<1> DEFINE cs2 == GoOn(b)
           n == Len(calls)
           F == SubSeq(calls, 1, n - 1)
           c2 == [call EXCEPT !.at = @ + 1, !.current = b]
<1>1. /\ n \in Nat /\ n \in 1 .. n /\ call = calls[n] /\ call \in CallRecords
      /\ call.at \in Nat \ {0}
  BY TheCalls
<1>2. /\ c2 \in CallRecords /\ c2.parent = call.parent /\ c2.break = call.break
      /\ c2.fallthrough = call.fallthrough /\ c2.locals = call.locals
      /\ c2.at = call.at + 1 /\ c2.current = b
  <2>1. call.at + 1 \in Nat \ {0}
    BY <1>1
  <2>2. Updates(call, c2, call.at + 1, b)
    BY DEF Updates
  <2> HIDE DEF c2
  <2> QED BY <1>1, <2>1, <2>2, CallFields
<1>3. cs2 = Append(F, c2)
  BY DEF GoOn, Front
<1>4. n - 1 \in Nat /\ n - 1 <= n
  BY <1>1
<1>5. F \in Seq(CallRecords) /\ Len(F) = n - 1 /\ \A i \in 1 .. n - 1 : F[i] = calls[i]
  BY <1>4, PrefixDoes
<1> HIDE DEF cs2, F, c2
<1>6. /\ cs2 \in Seq(CallRecords) /\ Len(cs2) = Len(F) + 1
      /\ \A i \in 1 .. Len(F) : cs2[i] = F[i]
      /\ cs2[Len(F) + 1] = c2
  BY <1>2, <1>3, <1>5, AppendProperties
<1>7. /\ Len(cs2) = n /\ cs2[n] = c2 /\ \A i \in 1 .. n - 1 : cs2[i] = calls[i]
  BY <1>1, <1>5, <1>6
<1>8. \A i \in 1 .. n : i \in 1 .. n - 1 \/ i = n
  BY <1>1
<1>9. \A i \in 1 .. n : /\ cs2[i].parent = calls[i].parent /\ cs2[i].break = calls[i].break
                        /\ cs2[i].locals = calls[i].locals
                        /\ cs2[i].fallthrough = calls[i].fallthrough
  BY <1>1, <1>2, <1>7, <1>8
<1>10. Resumes(calls, cs2)
  BY <1>6, <1>7, <1>9 DEF Resumes
<1>11. Going(calls, cs2)
  BY <1>1, <1>6, <1>7, <1>9 DEF Going
<1>12. cs2[n].current = b /\ cs2[n].at = call.at + 1
  BY <1>2, <1>7
<1> QED BY <1>6, <1>7, <1>10, <1>11, <1>12 DEF cs2, n

\* The innermost call returns, and its caller goes on in block b.
LEMMA ReturnDoes ==
    ASSUME calls \in Seq(CallRecords), Len(calls) # 0, Len(calls) # 1, NEW b \in Nat
    PROVE  LET cs2 == ReturnToCaller(b)
               n == Len(calls)
           IN  /\ Returns(calls, cs2) /\ Going(calls, cs2)
               /\ cs2 \in Seq(CallRecords) /\ Len(cs2) = n - 1
               /\ cs2[n - 1].current = b
<1> DEFINE cs2 == ReturnToCaller(b)
           n == Len(calls)
           F == SubSeq(calls, 1, n - 2)
           c2 == [Caller EXCEPT !.current = b]
<1>1. n \in Nat /\ n \in 1 .. n /\ \A i \in 1 .. n : calls[i] \in CallRecords
  BY TheCalls
<1>2. n - 2 \in Nat /\ n - 2 <= n /\ n - 1 \in 1 .. n /\ n - 1 # 0 /\ n - 1 <= n /\ n - 1 \in Nat
      /\ (n - 2) + 1 = n - 1
  <2>1. n # 1
    OBVIOUS
  <2> HIDE DEF n
  <2> QED BY <1>1, <2>1
<1>3. Caller = calls[n - 1] /\ Caller \in CallRecords
  BY <1>1, <1>2 DEF Caller
<1>4. /\ c2 \in CallRecords /\ c2.parent = Caller.parent /\ c2.break = Caller.break
      /\ c2.fallthrough = Caller.fallthrough /\ c2.locals = Caller.locals
      /\ c2.current = b
  <2>1. Caller.at \in Nat \ {0}
    BY <1>3 DEF CallRecords
  <2>2. Caller = [Caller EXCEPT !.at = Caller.at]
    BY <1>3 DEF CallRecords
  <2>3. Updates(Caller, c2, Caller.at, b)
    <3>1. c2 = [Caller EXCEPT !.at = Caller.at, !.current = b]
      BY <2>2
    <3> QED BY <3>1 DEF Updates
  <2> HIDE DEF c2
  <2> QED BY <1>3, <2>1, <2>3, CallFields
<1>5. cs2 = Append(F, c2)
  BY DEF ReturnToCaller
<1>6. F \in Seq(CallRecords) /\ Len(F) = n - 2 /\ \A i \in 1 .. n - 2 : F[i] = calls[i]
  BY <1>2, PrefixDoes
<1> HIDE DEF cs2, F, c2, n
<1>7. /\ cs2 \in Seq(CallRecords) /\ Len(cs2) = Len(F) + 1
      /\ \A i \in 1 .. Len(F) : cs2[i] = F[i]
      /\ cs2[Len(F) + 1] = c2
  BY <1>4, <1>5, <1>6, AppendProperties
<1>8. /\ Len(cs2) = n - 1 /\ cs2[n - 1] = c2 /\ \A i \in 1 .. n - 2 : cs2[i] = calls[i]
  BY <1>2, <1>6, <1>7
<1>9. \A i \in 1 .. n - 1 : i \in 1 .. n - 2 \/ i = n - 1
  BY <1>2
<1>10. \A i \in 1 .. n - 1 :
           /\ cs2[i].parent = calls[i].parent /\ cs2[i].break = calls[i].break
           /\ cs2[i].locals = calls[i].locals /\ cs2[i].fallthrough = calls[i].fallthrough
  BY <1>3, <1>4, <1>8, <1>9
<1>11. \A i \in 1 .. n - 2 : cs2[i].current = calls[i].current
  BY <1>8
<1>12. Returns(calls, cs2)
  BY <1>7, <1>8, <1>10, <1>11 DEF Returns, n
<1>13. Going(calls, cs2)
  BY <1>2, <1>7, <1>8, <1>10 DEF Going, n
<1>14. cs2[n - 1].current = b
  BY <1>4, <1>8
<1> QED BY <1>7, <1>8, <1>12, <1>13, <1>14 DEF cs2, n

\* A call visits the children of a statement of its kind.  No Break is visited that is
\* not in a Loop, and no Loop has the first block as its header.
WalkOK(st, cs, i) ==
    LET c == cs[i]
        p == c.parent
    IN  /\ p \in DOMAIN st /\ HasChildren(st, p)
        /\ i = 1 <=> p = Root
        /\ i # 1 => (IsLoop(c) <=> st[p].type = "Loop")
        /\ c.break = 0 => \A t \in Chain(st, p) : st[t].type # "Loop"
        /\ IsLoop(c) => c.locals.header # 1
Walks(st, cs) == \A i \in 1 .. Len(cs) : WalkOK(st, cs, i)

\* As long as no block follows its node, the last call has seen only labels.
OnlyLabels(st, cs, list) ==
    LET c == cs[Len(cs)]
        body == Children(st, c.parent)
    IN  c.locals.node >= Len(list) =>
            \A j \in 1 .. Len(body) : j < c.at => st[body[j]].type = "Label"

\* A tree that is not changed.
LEMMA TreeStays ==
    ASSUME IInv
    PROVE  TreeKept(stmt, stmt)
<1>1. Rooted(stmt)
  BY DEF IInv, TreeOK, PoolOK
<1>2. \A x \in DOMAIN stmt : Chain(stmt, x) \subseteq DOMAIN stmt
  BY <1>1, ChainInPool
<1> QED BY <1>2 DEF TreeKept

\* Calls that go on or return stay where they were in the tree.
LEMMA WalksKept ==
    ASSUME NEW st, NEW s2, TreeKept(st, s2), NEW cs, Walks(st, cs), NEW cs2, Going(cs, cs2),
           Len(cs) \in Nat
    PROVE  Walks(s2, cs2)
<1> SUFFICES ASSUME NEW i \in 1 .. Len(cs2)
             PROVE  WalkOK(s2, cs2, i)
  BY DEF Walks
<1> DEFINE p == cs[i].parent
<1>1. Len(cs2) \in Nat /\ Len(cs2) <= Len(cs)
  BY LenProperties DEF Going
<1>2. i \in 1 .. Len(cs)
  BY <1>1
<1>3. /\ cs2[i].parent = p /\ cs2[i].break = cs[i].break
      /\ cs2[i].locals = cs[i].locals
  BY DEF Going
<1>4. /\ p \in DOMAIN st /\ HasChildren(st, p)
      /\ i = 1 <=> p = Root
      /\ i # 1 => (IsLoop(cs[i]) <=> st[p].type = "Loop")
      /\ cs[i].break = 0 => \A t \in Chain(st, p) : st[t].type # "Loop"
      /\ IsLoop(cs[i]) => cs[i].locals.header # 1
  BY <1>2 DEF Walks, WalkOK
<1> HIDE DEF p
<1>5. /\ p \in DOMAIN s2 /\ s2[p].type = st[p].type
      /\ Chain(s2, p) = Chain(st, p) /\ Chain(st, p) \subseteq DOMAIN st
      /\ \A t \in DOMAIN st : s2[t].type = st[t].type
  BY <1>4 DEF TreeKept
<1>6. HasChildren(s2, p)
  BY <1>4, <1>5 DEF HasChildren
<1>7. cs2[i].break = 0 => \A t \in Chain(s2, p) : s2[t].type # "Loop"
  <2> SUFFICES ASSUME cs2[i].break = 0, NEW t \in Chain(s2, p) PROVE s2[t].type # "Loop"
    OBVIOUS
  <2>1. t \in Chain(st, p) /\ t \in DOMAIN st
    BY <1>5
  <2> QED BY <2>1, <1>3, <1>4, <1>5
<1>8. IsLoop(cs2[i]) <=> IsLoop(cs[i])
  BY <1>3 DEF IsLoop
<1> QED BY <1>3, <1>4, <1>5, <1>6, <1>7, <1>8 DEF WalkOK

\* One more call, of a statement of its kind.
LEMMA WalksPushed ==
    ASSUME NEW st, NEW cs \in Seq(CallRecords), Walks(st, cs), Len(cs) # 0, NEW c \in CallRecords,
           c.parent \in DOMAIN st, c.parent # Root,
           (st[c.parent].type = "If" /\ ~IsLoop(c)) \/ (st[c.parent].type = "Loop" /\ IsLoop(c)),
           c.break = 0 => \A t \in Chain(st, c.parent) : st[t].type # "Loop",
           c.locals.header # 1
    PROVE  Walks(st, Append(cs, c))
<1> DEFINE cs2 == Append(cs, c)
           n == Len(cs)
<1>1. /\ n \in Nat /\ Len(cs2) = n + 1 /\ cs2[n + 1] = c
      /\ \A i \in 1 .. n : cs2[i] = cs[i]
  BY AppendProperties, LenProperties
<1>2. n + 1 # 1 /\ \A i \in 1 .. n + 1 : i \in 1 .. n \/ i = n + 1
  BY <1>1
<1>3. HasChildren(st, c.parent)
  BY DEF HasChildren
<1>4. IsLoop(c) <=> st[c.parent].type = "Loop"
  OBVIOUS
<1> HIDE DEF cs2, n
<1>5. WalkOK(st, cs2, n + 1)
  BY <1>1, <1>2, <1>3, <1>4 DEF WalkOK
<1>6. \A i \in 1 .. n : WalkOK(st, cs2, i)
  BY <1>1 DEF Walks, WalkOK, n
<1> QED BY <1>1, <1>2, <1>5, <1>6 DEF Walks, cs2

\* When a block is open, a block follows the node.
LEMMA BeyondNode ==
    ASSUME NEW cs, NEW ir, NEW list, Build(cs, ir, list), cs[Len(cs)].current # 0
    PROVE  cs[Len(cs)].locals.node < Len(list)
<1> DEFINE n == Len(cs)
           k == cs[n].locals.node
           L == Len(list)
<1>1. /\ n \in Nat /\ n \in 1 .. n /\ L \in Nat /\ Frames(cs, list)
      /\ cs[n] \in CallRecords
  BY BuildMeans
<1>2. L # 0 /\ list[L] = BlockNode(cs[n].current)
  BY OpenBlock
<1>3. CallOK(cs, n) /\ NodeOK(cs, n, list)
  BY <1>1 DEF Frames
<1>4. CASE n = 1
  <2>1. k = 0
    BY <1>3, <1>4 DEF CallOK, NoLocals
  <2> QED BY <2>1, <1>1, <1>2
<1>5. CASE n # 1
  <2>1. k \in 2 .. L /\ list[k] = [type |-> "Pending"]
    BY <1>3, <1>5 DEF NodeOK
  <2>2. k # L
    BY <2>1, <1>2 DEF BlockNode
  <2>3. L \in Nat
    BY <1>1
  <2> HIDE DEF k, L
  <2>4. k < L
    BY <2>1, <2>2, <2>3
  <2> QED BY <2>4 DEF k, L
<1> QED BY <1>4, <1>5

\* Two ways to go on from the same calls.
LEMMA ResumesBoth ==
    ASSUME NEW cs, NEW cs1, NEW cs2, Resumes(cs, cs1), Resumes(cs, cs2)
    PROVE  Resumes(cs1, cs2)
<1>1. Len(cs1) = Len(cs) /\ Len(cs2) = Len(cs) /\ Len(cs) \in Nat
  BY LenProperties DEF Resumes
<1>2. \A i \in 1 .. Len(cs) - 1 : i \in 1 .. Len(cs) /\ i + 1 \in 1 .. Len(cs)
  BY <1>1
<1>3. \A i \in 1 .. Len(cs) : /\ cs1[i].locals = cs[i].locals /\ cs2[i].locals = cs[i].locals
                              /\ cs1[i].break = cs[i].break /\ cs2[i].break = cs[i].break
                              /\ cs1[i].fallthrough = cs[i].fallthrough
                              /\ cs2[i].fallthrough = cs[i].fallthrough
  BY DEF Resumes
<1>4. ASSUME NEW i \in 1 .. Len(cs) - 1
      PROVE  IsLoop(cs1[i + 1]) \/ cs2[i].current = cs1[i].current
  <2>1. IsLoop(cs[i + 1]) => IsLoop(cs1[i + 1])
    BY <1>2, <1>3 DEF IsLoop
  <2>2. /\ IsLoop(cs[i + 1]) \/ cs1[i].current = cs[i].current
        /\ IsLoop(cs[i + 1]) \/ cs2[i].current = cs[i].current
    BY DEF Resumes
  <2> QED BY <2>1, <2>2
<1> QED BY <1>1, <1>3, <1>4 DEF Resumes

\* The calls cs are those of the state when the last has block b open.
GoneOn(cs, b) ==
    /\ Resumes(calls, cs) /\ Going(calls, cs)
    /\ cs \in Seq(CallRecords) /\ Len(cs) = Len(calls)
    /\ cs[Len(calls)].current = b /\ cs[Len(calls)].at = call.at + 1

\* The innermost call goes on in block b.
LEMMA GoOnIs ==
    ASSUME Build(calls, irBlocks, syntax_list), NEW b \in Nat
    PROVE  GoneOn(GoOn(b), b)
<1>1. calls \in Seq(CallRecords) /\ Len(calls) # 0
  BY BuildMeans
<1> QED BY <1>1, GoOnDoes DEF GoneOn

\* What is built tells what the innermost call can be.
LEMMA TheCallIs ==
    ASSUME Build(calls, irBlocks, syntax_list)
    PROVE  /\ calls \in Seq(CallRecords) /\ Len(calls) # 0 /\ Len(calls) \in Nat
           /\ Len(calls) \in 1 .. Len(calls) /\ calls # <<>>
           /\ call = calls[Len(calls)] /\ call \in CallRecords
           /\ call.at \in Nat \ {0} /\ call.current \in 0 .. Len(irBlocks)
           /\ Len(irBlocks) \in Nat /\ Len(syntax_list) \in Nat
<1>1. /\ calls \in Seq(CallRecords) /\ Len(calls) # 0
      /\ Len(irBlocks) \in Nat /\ Len(syntax_list) \in Nat
      /\ calls[Len(calls)].current \in 0 .. Len(irBlocks)
  BY BuildMeans
<1> QED BY <1>1, TheCalls

\* ensure_block.
LEMMA EnsureDoes ==
    ASSUME Build(calls, irBlocks, syntax_list), NEW cs, GoneOn(cs, Ensured)
    PROVE  /\ Build(cs, EnsuredBlocks, EnsuredList)
           /\ Ensured # 0 /\ Ensured \in 1 .. Len(EnsuredBlocks) /\ Ensured \in Nat
           /\ cs[Len(cs)].current = Ensured /\ Len(EnsuredBlocks) \in Nat
           /\ Blocks(EnsuredBlocks) /\ Numbered(EnsuredList) /\ Len(EnsuredList) \in Nat
           /\ Extends(syntax_list, EnsuredList)
<1>1. /\ call = calls[Len(calls)] /\ call.current \in 0 .. Len(irBlocks)
      /\ Len(irBlocks) \in Nat /\ Len(calls) \in Nat /\ calls \in Seq(CallRecords)
  BY TheCallIs
<1>2. Resumes(calls, cs) /\ Len(cs) = Len(calls) /\ cs[Len(calls)].current = Ensured
  BY DEF GoneOn
<1>3. Numbered(syntax_list) /\ Blocks(irBlocks)
  BY BuildMeans
<1>4. Build(cs, EnsuredBlocks, EnsuredList) /\ Ensured # 0 /\ Extends(syntax_list, EnsuredList)
  <2>1. CASE call.current # 0
    <3>1. Ensured = call.current /\ EnsuredBlocks = irBlocks /\ EnsuredList = syntax_list
      BY <2>1 DEF Ensured, EnsuredBlocks, EnsuredList
    <3>2. Build(cs, irBlocks, syntax_list)
      BY <1>1, <1>2, <3>1, BuildResumes
    <3>3. Extends(syntax_list, syntax_list)
      BY <1>3, NumberedPool DEF Extends
    <3> QED BY <2>1, <3>1, <3>2, <3>3
  <2>2. CASE call.current = 0
    <3> DEFINE i2 == NewBlock(irBlocks)
               b == Len(irBlocks) + 1
               list2 == Append(syntax_list, BlockNode(b))
    <3>1. Ensured = b /\ EnsuredBlocks = i2 /\ EnsuredList = list2
      BY <2>2 DEF Ensured, EnsuredBlocks, EnsuredList
    <3>2. BlockMade(irBlocks, i2)
      BY <1>3, NewBlockDoes
    <3>3. /\ Extends(syntax_list, list2) /\ Len(list2) = Len(syntax_list) + 1
          /\ list2[Len(syntax_list) + 1] = BlockNode(b)
      BY <1>3, OneMore
    <3> HIDE DEF i2, list2
    <3>4. /\ Blocks(i2) /\ Len(i2) = Len(irBlocks) + 1
          /\ \A x \in 1 .. Len(irBlocks) : i2[x].body = irBlocks[x].body
          /\ i2[Len(irBlocks) + 1].body = <<>> /\ Succs(i2, Len(irBlocks) + 1) = {}
      BY <3>2 DEF BlockMade
    <3>5. \A x \in 1 .. Len(irBlocks) :
             Succs(i2, x) = IF x = calls[Len(calls)].current THEN {} ELSE Succs(irBlocks, x)
      <4>1. calls[Len(calls)].current = 0 /\ \A x \in 1 .. Len(irBlocks) : x # 0
        BY <1>1, <2>2
      <4> QED BY <3>2, <4>1 DEF BlockMade
    <3>6. /\ Len(list2) \in {Len(syntax_list) + 1, Len(syntax_list) + 2}
          /\ list2[Len(list2)] = BlockNode(Len(irBlocks) + 1)
          /\ Len(list2) = Len(syntax_list) + 2 =>
                calls[Len(calls)].current # 0 /\ list2[Len(syntax_list) + 1].type # "Block"
          /\ calls[Len(calls)].current = 0
          /\ cs[Len(calls)].current = Len(irBlocks) + 1
      <4>1. Len(syntax_list) \in Nat
        BY BuildMeans
      <4>2. Len(list2) # Len(syntax_list) + 2
        BY <3>3, <4>1
      <4> QED BY <1>1, <1>2, <2>2, <3>1, <3>3, <4>2
    <3>7. {} \in SUBSET (2 .. Len(irBlocks) + 1) /\ \A t \in {} : t \in Reserved(calls) \/ t = Len(irBlocks) + 1
      OBVIOUS
    <3>8. Build(cs, i2, list2)
      BY <1>2, <3>3, <3>4, <3>5, <3>6, <3>7, BuildOpens
    <3>9. b # 0
      BY <1>1
    <3> QED BY <3>1, <3>3, <3>8, <3>9
  <2> QED BY <1>1, <2>1, <2>2
<1>5. /\ cs[Len(cs)].current = Ensured /\ Ensured \in 0 .. Len(EnsuredBlocks)
      /\ Len(EnsuredBlocks) \in Nat /\ Blocks(EnsuredBlocks)
      /\ Numbered(EnsuredList) /\ Len(EnsuredList) \in Nat
  BY <1>2, <1>4, BuildMeans
<1>6. Ensured \in 1 .. Len(EnsuredBlocks) /\ Ensured \in Nat
  BY <1>4, <1>5
<1> QED BY <1>4, <1>5, <1>6

\* The first n edges are e[1] .. e[n]; a, b give where they come from and go.
EdgesAre(edges, n, a, b) ==
    /\ Len(edges) = n /\ DOMAIN edges = 1 .. n
    /\ \A i \in 1 .. n : edges[i][1] = a[i] /\ edges[i][2] = b[i]

TwoEdgesAre(edges, a, b, c, d) == EdgesAre(edges, 2, <<a, c>>, <<b, d>>)
ThreeEdgesAre(edges, a, b, c, d, e, f) == EdgesAre(edges, 3, <<a, c, e>>, <<b, d, f>>)
FourEdgesAre(edges, a, b, c, d, e, f, g, h) ==
    EdgesAre(edges, 4, <<a, c, e, g>>, <<b, d, f, h>>)

\* A list of one edge.
LEMMA OneEdge ==
    ASSUME NEW a, NEW b
    PROVE  EdgesAre(<<<<a, b>>>>, 1, <<a>>, <<b>>)
<1>1. \A i \in 1 .. 1 : i = 1
  OBVIOUS
<1>2. Len(<<<<a, b>>>>) = 1 /\ DOMAIN <<<<a, b>>>> = 1 .. 1
  OBVIOUS
<1> QED BY <1>1, <1>2 DEF EdgesAre

\* A list of two edges.
LEMMA TwoEdges ==
    ASSUME NEW a, NEW b, NEW c, NEW d
    PROVE  TwoEdgesAre(<<<<a, b>>, <<c, d>>>>, a, b, c, d)
<1>1. \A i \in 1 .. 2 : i = 1 \/ i = 2
  OBVIOUS
<1>2. Len(<<<<a, b>>, <<c, d>>>>) = 2 /\ DOMAIN <<<<a, b>>, <<c, d>>>> = 1 .. 2
  OBVIOUS
<1> QED BY <1>1, <1>2 DEF EdgesAre, TwoEdgesAre

\* A list of three edges.
LEMMA ThreeEdges ==
    ASSUME NEW a, NEW b, NEW c, NEW d, NEW e, NEW f
    PROVE  ThreeEdgesAre(<<<<a, b>>, <<c, d>>, <<e, f>>>>, a, b, c, d, e, f)
<1>1. \A i \in 1 .. 3 : i = 1 \/ i = 2 \/ i = 3
  OBVIOUS
<1>2. /\ Len(<<<<a, b>>, <<c, d>>, <<e, f>>>>) = 3
      /\ DOMAIN <<<<a, b>>, <<c, d>>, <<e, f>>>> = 1 .. 3
  OBVIOUS
<1> QED BY <1>1, <1>2 DEF EdgesAre, ThreeEdgesAre

\* Where the edges lead, with the first n of them.
LEMMA TargetsAre ==
    ASSUME NEW edges, NEW n \in Nat, NEW a, NEW b, EdgesAre(edges, n, a, b), NEW x
    PROVE  Targets(edges, x) = {b[i] : i \in {j \in 1 .. n : a[j] = x}}
<1>1. \A j \in 1 .. n : edges[j][1] = a[j] /\ edges[j][2] = b[j]
  BY DEF EdgesAre
<1>2. {j \in 1 .. Len(edges) : edges[j][1] = x} = {j \in 1 .. n : a[j] = x}
  BY <1>1 DEF EdgesAre
<1>3. Targets(edges, x) = {edges[i][2] : i \in {j \in 1 .. n : a[j] = x}}
  BY <1>2 DEF Targets
<1> QED BY <1>1, <1>3

\* Where one edge leads.
LEMMA OneTarget ==
    ASSUME NEW a, NEW b, NEW x,
           NEW edges, EdgesAre(edges, 1, <<a>>, <<b>>)
    PROVE  Targets(edges, x) =
              IF x = a THEN {b} ELSE {}
<1> DEFINE p == <<a>>
           q == <<b>>
<1>1. EdgesAre(edges, 1, p, q) /\ 1 \in Nat
  OBVIOUS
<1>2. /\ p[1] = a
      /\ q[1] = b
      /\ \A i : i \in 1 .. 1 <=> i = 1
  OBVIOUS
<1> HIDE DEF p, q
<1>3. Targets(edges, x) = {q[i] : i \in {j \in 1 .. 1 : p[j] = x}}
  BY ONLY <1>1, TargetsAre
<1>4. \A y : y \in {q[i] : i \in {j \in 1 .. 1 : p[j] = x}} <=>
                (x = a /\ y = b)
  BY <1>2
<1> QED BY <1>3, <1>4

\* Where two edges lead.
LEMMA TwoTargets ==
    ASSUME NEW a, NEW b, NEW c, NEW d, NEW x,
           NEW edges, TwoEdgesAre(edges, a, b, c, d)
    PROVE  Targets(edges, x) =
              (IF x = a THEN {b} ELSE {}) \cup (IF x = c THEN {d} ELSE {})
<1> DEFINE p == <<a, c>>
           q == <<b, d>>
<1>1. EdgesAre(edges, 2, p, q) /\ 2 \in Nat
  BY DEF TwoEdgesAre
<1>2. /\ p[1] = a /\ p[2] = c
      /\ q[1] = b /\ q[2] = d
      /\ \A i : i \in 1 .. 2 <=> i = 1 \/ i = 2
  OBVIOUS
<1> HIDE DEF p, q
<1>3. Targets(edges, x) = {q[i] : i \in {j \in 1 .. 2 : p[j] = x}}
  BY ONLY <1>1, TargetsAre
<1>4. \A y : y \in {q[i] : i \in {j \in 1 .. 2 : p[j] = x}} <=>
                (x = a /\ y = b) \/ (x = c /\ y = d)
  BY <1>2
<1> QED BY <1>3, <1>4

\* Where three edges lead.
LEMMA ThreeTargets ==
    ASSUME NEW a, NEW b, NEW c, NEW d, NEW e, NEW f, NEW x,
           NEW edges, ThreeEdgesAre(edges, a, b, c, d, e, f)
    PROVE  Targets(edges, x) =
              ((IF x = a THEN {b} ELSE {}) \cup (IF x = c THEN {d} ELSE {})) \cup (IF x = e THEN {f} ELSE {})
<1> DEFINE p == <<a, c, e>>
           q == <<b, d, f>>
<1>1. EdgesAre(edges, 3, p, q) /\ 3 \in Nat
  BY DEF ThreeEdgesAre
<1>2. /\ p[1] = a /\ p[2] = c /\ p[3] = e
      /\ q[1] = b /\ q[2] = d /\ q[3] = f
      /\ \A i : i \in 1 .. 3 <=> i = 1 \/ i = 2 \/ i = 3
  OBVIOUS
<1> HIDE DEF p, q
<1>3. Targets(edges, x) = {q[i] : i \in {j \in 1 .. 3 : p[j] = x}}
  BY ONLY <1>1, TargetsAre
<1>4. \A y : y \in {q[i] : i \in {j \in 1 .. 3 : p[j] = x}} <=>
                (x = a /\ y = b) \/ (x = c /\ y = d) \/ (x = e /\ y = f)
  BY <1>2
<1> QED BY <1>3, <1>4

\* Where four edges lead.
LEMMA FourTargets ==
    ASSUME NEW a, NEW b, NEW c, NEW d, NEW e, NEW f, NEW g, NEW h, NEW x,
           NEW edges, FourEdgesAre(edges, a, b, c, d, e, f, g, h)
    PROVE  Targets(edges, x) =
              (((IF x = a THEN {b} ELSE {}) \cup (IF x = c THEN {d} ELSE {})) \cup (IF x = e THEN {f} ELSE {})) \cup (IF x = g THEN {h} ELSE {})
<1> DEFINE p == <<a, c, e, g>>
           q == <<b, d, f, h>>
<1>1. EdgesAre(edges, 4, p, q) /\ 4 \in Nat
  BY DEF FourEdgesAre
<1>2. /\ p[1] = a /\ p[2] = c /\ p[3] = e /\ p[4] = g
      /\ q[1] = b /\ q[2] = d /\ q[3] = f /\ q[4] = h
      /\ \A i : i \in 1 .. 4 <=> i = 1 \/ i = 2 \/ i = 3 \/ i = 4
  OBVIOUS
<1> HIDE DEF p, q
<1>3. Targets(edges, x) = {q[i] : i \in {j \in 1 .. 4 : p[j] = x}}
  BY ONLY <1>1, TargetsAre
<1>4. \A y : y \in {q[i] : i \in {j \in 1 .. 4 : p[j] = x}} <=>
                (x = a /\ y = b) \/ (x = c /\ y = d) \/ (x = e /\ y = f) \/ (x = g /\ y = h)
  BY <1>2
<1> QED BY <1>3, <1>4

\* The edges of EndIf and EndLoop, behind that of the open block if there is one.
LEMMA BehindFallthrough ==
    ASSUME NEW a, NEW b, NEW c, NEW d, NEW e, NEW f, NEW g, NEW h
    PROVE  /\ TwoEdgesAre(<<>> \o <<<<a, b>>, <<c, d>>>>, a, b, c, d)
           /\ ThreeEdgesAre(<<>> \o <<<<a, b>>, <<c, d>>, <<e, f>>>>, a, b, c, d, e, f)
           /\ ThreeEdgesAre(<<<<a, b>>>> \o <<<<c, d>>, <<e, f>>>>, a, b, c, d, e, f)
           /\ FourEdgesAre(<<<<a, b>>>> \o <<<<c, d>>, <<e, f>>, <<g, h>>>>,
                           a, b, c, d, e, f, g, h)
<1>1. TwoEdgesAre(<<>> \o <<<<a, b>>, <<c, d>>>>, a, b, c, d)
  <2>1. <<>> \o <<<<a, b>>, <<c, d>>>> = <<<<a, b>>, <<c, d>>>>
    OBVIOUS
  <2> QED BY <2>1, TwoEdges
<1>2. ThreeEdgesAre(<<>> \o <<<<a, b>>, <<c, d>>, <<e, f>>>>, a, b, c, d, e, f)
  <2>1. <<>> \o <<<<a, b>>, <<c, d>>, <<e, f>>>> = <<<<a, b>>, <<c, d>>, <<e, f>>>>
    OBVIOUS
  <2> QED BY <2>1, ThreeEdges
<1>3. ThreeEdgesAre(<<<<a, b>>>> \o <<<<c, d>>, <<e, f>>>>, a, b, c, d, e, f)
  <2> DEFINE x == <<a, b>>
             y == <<c, d>>
             z == <<e, f>>
             u == <<x>> \o <<y, z>>
  <2>1. x[1] = a /\ x[2] = b /\ y[1] = c /\ y[2] = d /\ z[1] = e /\ z[2] = f
    OBVIOUS
  <2> HIDE DEF x, y, z
  <2>2. Len(u) = 3 /\ DOMAIN u = 1 .. 3 /\ u[1] = x /\ u[2] = y /\ u[3] = z
    OBVIOUS
  <2>3. \A i \in 1 .. 3 : i = 1 \/ i = 2 \/ i = 3
    OBVIOUS
  <2> HIDE DEF u
  <2>4. ThreeEdgesAre(u, a, b, c, d, e, f)
    BY <2>1, <2>2, <2>3 DEF EdgesAre, ThreeEdgesAre
  <2> QED BY <2>4 DEF u, x, y, z
<1>4. FourEdgesAre(<<<<a, b>>>> \o <<<<c, d>>, <<e, f>>, <<g, h>>>>, a, b, c, d, e, f, g, h)
  <2> DEFINE x == <<a, b>>
             y == <<c, d>>
             z == <<e, f>>
             w == <<g, h>>
             u == <<x>> \o <<y, z, w>>
  <2>1. /\ x[1] = a /\ x[2] = b /\ y[1] = c /\ y[2] = d /\ z[1] = e /\ z[2] = f
        /\ w[1] = g /\ w[2] = h
    OBVIOUS
  <2> HIDE DEF x, y, z, w
  <2>2. Len(u) = 4 /\ DOMAIN u = 1 .. 4 /\ u[1] = x /\ u[2] = y /\ u[3] = z /\ u[4] = w
    OBVIOUS
  <2>3. \A i \in 1 .. 4 : i = 1 \/ i = 2 \/ i = 3 \/ i = 4
    OBVIOUS
  <2> HIDE DEF u
  <2>4. FourEdgesAre(u, a, b, c, d, e, f, g, h)
    BY <2>1, <2>2, <2>3 DEF EdgesAre, FourEdgesAre
  <2> QED BY <2>4 DEF u, x, y, z, w
<1> QED BY <1>1, <1>2, <1>3, <1>4

-----------------------------------------------------------------------------
(* The invariant of the pass, and the visits that keep it.                 *)

\* The pass goes on.
Passing ==
    /\ step = "done" /\ ended = "no"
    /\ Build(calls, irBlocks, syntax_list)
    /\ Walks(stmt, calls)
    /\ OnlyLabels(stmt, calls, syntax_list)

\* The list the innermost call goes through.
LEMMA WalkedList ==
    ASSUME Passing
    PROVE  /\ call = calls[Len(calls)] /\ call.at \in Nat \ {0}
           /\ WalkOK(stmt, calls, Len(calls))
           /\ call.parent \in DOMAIN stmt /\ HasChildren(stmt, call.parent)
           /\ Children(stmt, call.parent) = stmt[call.parent].children
<1>1. Build(calls, irBlocks, syntax_list) /\ Walks(stmt, calls)
  BY DEF Passing
<1>2. /\ call = calls[Len(calls)] /\ call.at \in Nat \ {0} /\ Len(calls) \in 1 .. Len(calls)
  BY <1>1, TheCallIs
<1>3. WalkOK(stmt, calls, Len(calls))
  BY <1>1, <1>2 DEF Walks
<1>4. call.parent \in DOMAIN stmt /\ HasChildren(stmt, call.parent)
  BY <1>2, <1>3 DEF WalkOK
<1> QED BY <1>2, <1>3, <1>4 DEF Children

\* With a block open, more than labels may have been visited.
LEMMA OpenMeansLabels ==
    ASSUME NEW cs, NEW ir, NEW list, Build(cs, ir, list), cs[Len(cs)].current # 0, NEW st
    PROVE  OnlyLabels(st, cs, list)
<1>1. cs[Len(cs)].locals.node < Len(list) /\ Len(list) \in Nat /\ cs[Len(cs)] \in CallRecords
  BY BeyondNode, BuildMeans
<1>2. cs[Len(cs)].locals.node \in Nat
  BY <1>1 DEF CallRecords
<1>3. ~(cs[Len(cs)].locals.node >= Len(list))
  BY <1>1, <1>2
<1> QED BY <1>3 DEF OnlyLabels

\* The innermost call goes on in the same tree.
LEMMA GoneOnWalks ==
    ASSUME IInv, Passing, NEW cs, NEW b, GoneOn(cs, b), NEW st, TreeKept(stmt, st)
    PROVE  Walks(st, cs)
<1>1. Len(calls) \in Nat /\ Walks(stmt, calls)
  BY TheCallIs DEF Passing
<1> QED BY <1>1, WalksKept DEF GoneOn

\* The visit goes on in an open block.
LEMMA PassingOpen ==
    ASSUME Passing, NEW cs, NEW ir, NEW list, NEW st,
           Build(cs, ir, list), cs[Len(cs)].current # 0, Walks(st, cs),
           calls' = cs, irBlocks' = ir, syntax_list' = list, stmt' = st,
           step' = step, ended' = ended
    PROVE  Passing'
<1>1. OnlyLabels(st, cs, list)
  BY OpenMeansLabels
<1> QED BY <1>1 DEF Passing

\* A step that leaves the tree alone.
LEMMA PassUnchanged ==
    ASSUME IInv, cfg \in Cfgs, Opened(stmt), UNCHANGED vars
    PROVE  IInv' /\ cfg' \in Cfgs /\ Opened(stmt') /\ step' = step /\ stmt' = stmt
<1>1. IInv' /\ cfg' \in Cfgs
  BY NextKeeps
<1> QED BY <1>1 DEF vars

\* The Label case of Visit.
LEMMA VisitLabelKeeps ==
    ASSUME IInv, Passing, VisitLabel, stmt' = stmt, step' = step
    PROVE  Passing'
<1> DEFINE cs == GoOn(call.current)
<1>1. /\ Build(calls, irBlocks, syntax_list) /\ Walks(stmt, calls)
      /\ OnlyLabels(stmt, calls, syntax_list) /\ step = "done" /\ ended = "no"
  BY DEF Passing
<1>2. /\ call = calls[Len(calls)] /\ call.current \in Nat /\ Len(calls) \in Nat
  BY <1>1, TheCallIs
<1>3. GoneOn(cs, call.current)
  BY <1>1, <1>2, GoOnIs
<1>4. calls' = cs /\ irBlocks' = irBlocks /\ syntax_list' = syntax_list /\ ended' = ended
  BY DEF VisitLabel
<1>5. Visiting("Label")
  BY DEF VisitLabel
<1> HIDE DEF cs
<1>6. /\ Resumes(calls, cs) /\ Going(calls, cs) /\ Len(cs) = Len(calls)
      /\ cs[Len(calls)].current = call.current /\ cs[Len(calls)].at = call.at + 1
  BY <1>3 DEF GoneOn
<1>7. Build(cs, irBlocks, syntax_list)
  BY <1>1, <1>2, <1>6, BuildResumes
<1>8. Walks(stmt, cs)
  BY <1>3, TreeStays, GoneOnWalks
<1>9. OnlyLabels(stmt, cs, syntax_list)
  <2> DEFINE p == call.parent
             body == Children(stmt, p)
  <2>1. call.at \in Nat \ {0} /\ body = stmt[p].children /\ p \in DOMAIN stmt /\ HasChildren(stmt, p)
    BY WalkedList
  <2>2. stmt[visited].type = "Label" /\ visited = body[call.at]
    BY <1>5, <2>1 DEF Visiting, visited
  <2>3. Len(calls) \in 1 .. Len(cs) /\ cs[Len(calls)].parent = p /\ cs[Len(calls)].locals = call.locals
    <3>1. Len(calls) \in 1 .. Len(cs)
      BY <1>1, <1>6, TheCallIs
    <3> QED BY <3>1, <1>2, <1>6 DEF Going
  <2>4. call.locals.node >= Len(syntax_list) =>
            \A j \in 1 .. Len(body) : j < call.at => stmt[body[j]].type = "Label"
    BY <1>1, <1>2 DEF OnlyLabels
  <2>5. \A j \in 1 .. Len(body) : j < call.at + 1 => j < call.at \/ j = call.at
    BY <2>1
  <2> HIDE DEF body, p
  <2>6. call.locals.node >= Len(syntax_list) =>
            \A j \in 1 .. Len(body) : j < call.at + 1 => stmt[body[j]].type = "Label"
    BY <2>2, <2>4, <2>5
  <2> QED BY <1>6, <2>3, <2>6 DEF OnlyLabels, body
<1> QED BY <1>1, <1>4, <1>7, <1>8, <1>9 DEF Passing

\* What Code and SetVariable emit.
LEMMA EmittingKeeps ==
    ASSUME IInv, Passing, NEW effects, irBlocks' = Emit(EnsuredBlocks, Ensured, effects),
           syntax_list' = EnsuredList, calls' = GoOn(Ensured),
           stmt' = stmt, step' = step, ended' = ended
    PROVE  Passing'
<1> DEFINE cs == GoOn(Ensured)
           ir == Emit(EnsuredBlocks, Ensured, effects)
<1>1. Build(calls, irBlocks, syntax_list)
  BY DEF Passing
<1>2. Ensured \in Nat
  BY <1>1, TheCallIs DEF Ensured
<1>3. GoneOn(cs, Ensured)
  BY <1>1, <1>2, GoOnIs
<1>4. calls' = cs /\ irBlocks' = ir
  OBVIOUS
<1> HIDE DEF cs
<1>5. /\ Build(cs, EnsuredBlocks, EnsuredList) /\ Ensured # 0
      /\ Ensured \in 1 .. Len(EnsuredBlocks)
      /\ cs[Len(cs)].current = Ensured /\ Blocks(EnsuredBlocks)
  BY <1>1, <1>3, EnsureDoes
<1>6. BodySet(EnsuredBlocks, ir, Ensured, EnsuredBlocks[Ensured].body \o effects)
  BY <1>5, EmitDoes
<1> HIDE DEF ir
<1>7. Build(cs, ir, EnsuredList)
  BY <1>5, <1>6, BuildWrites
<1>8. Walks(stmt, cs)
  BY <1>3, TreeStays, GoneOnWalks
<1> QED BY <1>4, <1>5, <1>7, <1>8, PassingOpen

\* The Code case of Visit.
LEMMA VisitCodeKeeps ==
    ASSUME IInv, Passing, VisitCode, stmt' = stmt, step' = step
    PROVE  Passing'
BY EmittingKeeps DEF VisitCode

\* The SetVariable case of Visit.
LEMMA VisitSetVariableKeeps ==
    ASSUME IInv, Passing, VisitSetVariable, stmt' = stmt, step' = step
    PROVE  Passing'
BY EmittingKeeps DEF VisitSetVariable

\* Block a goes to the new block r, and then something is emitted into r.
LEMMA ReturnBlock ==
    ASSUME NEW ir, Blocks(ir), NEW a \in 1 .. Len(ir), NEW effects
    PROVE  LET r == Len(ir) + 1
               made == NewBlock(ir)
               i2 == AddBranches(made, <<<<a, r>>>>)
               i3 == AddBranches(Emit(made, r, effects), <<<<a, r>>>>)
           IN  /\ Blocks(i2) /\ Len(i2) = r /\ r \in Nat
               /\ \A x \in 1 .. Len(ir) : /\ i2[x].body = ir[x].body
                                          /\ Succs(i2, x) = IF x = a THEN Succs(ir, x) \cup {r}
                                                            ELSE Succs(ir, x)
               /\ i2[r].body = <<>> /\ Succs(i2, r) = {}
               /\ BodySet(i2, i3, r, <<>> \o effects)
<1> DEFINE r == Len(ir) + 1
           made == NewBlock(ir)
           edges == <<<<a, r>>>>
           em == Emit(made, r, effects)
           i2 == AddBranches(made, edges)
           i3 == AddBranches(em, edges)
           body == <<>> \o effects
<1>1. BlockMade(ir, made)
  BY NewBlockDoes
<1>2. EdgesAre(edges, 1, <<a>>, <<r>>)
  BY OneEdge
<1>3. /\ Len(edges) = 1 /\ edges[1][1] = a /\ edges[1][2] = r
  OBVIOUS
<1>4. \A x : Targets(edges, x) = IF x = a THEN {r} ELSE {}
  <2> HIDE DEF edges, r
  <2> QED BY <1>2, OneTarget
<1> HIDE DEF made, edges
<1>5. /\ Blocks(made) /\ Len(ir) \in Nat /\ Len(made) = r /\ r \in Nat /\ r \in 1 .. r
      /\ \A x \in 1 .. Len(ir) : /\ made[x].body = ir[x].body /\ Succs(made, x) = Succs(ir, x)
                                 /\ x \in 1 .. r
      /\ Succs(made, r) = {} /\ made[r].body = <<>> /\ a \in 1 .. r /\ a # r
  BY <1>1 DEF BlockMade
<1> HIDE DEF r
<1>6. BodySet(made, em, r, body)
  <2>1. BodySet(made, em, r, made[r].body \o effects)
    BY <1>5, EmitDoes
  <2> QED BY <1>5, <2>1
<1> HIDE DEF em, body
<1>7. EdgesAdded(made, i2, edges)
  <2>1. \A i \in 1 .. Len(edges) : edges[i][1] \in 1 .. Len(made) /\ edges[i][2] \in Nat
    BY <1>3, <1>5
  <2>2. Len(edges) \in Nat
    BY <1>3
  <2> QED BY <1>5, <2>1, <2>2, AddBranchesDoes
<1>8. EdgesAdded(em, i3, edges)
  <2>1. Blocks(em) /\ Len(em) = Len(made)
    BY <1>6 DEF BodySet
  <2>2. \A i \in 1 .. Len(edges) : edges[i][1] \in 1 .. Len(em) /\ edges[i][2] \in Nat
    BY <1>3, <1>5, <2>1
  <2>3. Len(edges) \in Nat
    BY <1>3
  <2> QED BY <2>1, <2>2, <2>3, AddBranchesDoes
<1> HIDE DEF i2, i3
<1>9. /\ Blocks(i2) /\ Len(i2) = r
      /\ \A x \in 1 .. r : i2[x].body = made[x].body
      /\ \A x \in 1 .. r : Succs(i2, x) = Succs(made, x) \cup Targets(edges, x)
  BY <1>5, <1>7 DEF EdgesAdded
<1>10. /\ Blocks(i3) /\ Len(i3) = r
       /\ \A x \in 1 .. r : i3[x].body = em[x].body
       /\ \A x \in 1 .. r : Succs(i3, x) = Succs(em, x) \cup Targets(edges, x)
  BY <1>5, <1>6, <1>8 DEF EdgesAdded, BodySet
<1>11. /\ \A x \in 1 .. r : x # r => em[x].body = made[x].body
       /\ em[r].body = body
       /\ \A x \in 1 .. r : Succs(em, x) = Succs(made, x)
  BY <1>5, <1>6 DEF BodySet
<1>12. BodySet(i2, i3, r, body)
  BY <1>5, <1>9, <1>10, <1>11 DEF BodySet
<1>13. \A x \in 1 .. Len(ir) : /\ i2[x].body = ir[x].body
                               /\ Succs(i2, x) = IF x = a THEN Succs(ir, x) \cup {r}
                                                 ELSE Succs(ir, x)
  BY <1>4, <1>5, <1>9
<1>14. i2[r].body = <<>> /\ Succs(i2, r) = {}
  BY <1>4, <1>5, <1>9
<1> QED BY <1>5, <1>9, <1>12, <1>13, <1>14 DEF r, made, edges, em, i2, i3, body

\* The Return case of Visit.
LEMMA VisitReturnKeeps ==
    ASSUME IInv, Passing, VisitReturn, stmt' = stmt, step' = step
    PROVE  Passing'
<1> DEFINE ir == EnsuredBlocks
           list == EnsuredList
           a == Ensured
           r == Len(ir) + 1
           cs1 == GoOn(a)
           cs2 == GoOn(r)
           cs3 == GoOn(0)
           i2 == AddBranches(NewBlock(ir), <<<<a, r>>>>)
           i3 == AddBranches(Emit(NewBlock(ir), r, <<<<"Epilogue">>>>), <<<<a, r>>>>)
           list2 == Append(list, BlockNode(r))
           list3 == list \o <<BlockNode(r), [type |-> "Return"]>>
           body == <<>> \o <<<<"Epilogue">>>>
           n == Len(calls)
<1>1. calls' = cs3 /\ irBlocks' = i3 /\ syntax_list' = list3 /\ ended' = ended
  BY DEF VisitReturn
<1>2. Build(calls, irBlocks, syntax_list)
  BY DEF Passing
<1>3. a \in Nat
  BY <1>2, TheCallIs DEF Ensured
<1>4. GoneOn(cs1, a)
  BY <1>2, <1>3, GoOnIs
<1> HIDE DEF cs1
<1>5. /\ Build(cs1, ir, list) /\ a # 0 /\ a \in 1 .. Len(ir)
      /\ cs1[Len(cs1)].current = a /\ Blocks(ir) /\ Numbered(list) /\ Len(ir) \in Nat
      /\ Len(list) \in Nat
  BY <1>2, <1>4, EnsureDoes
<1> HIDE DEF a, ir, list
<1>6. r \in Nat /\ r # 0 /\ 0 \in Nat
  BY <1>5
<1>7. GoneOn(cs2, r) /\ GoneOn(cs3, 0)
  BY <1>2, <1>6, GoOnIs
<1> HIDE DEF cs2, cs3
<1>8. /\ Blocks(i2) /\ Len(i2) = r
      /\ \A x \in 1 .. Len(ir) : /\ i2[x].body = ir[x].body
                                 /\ Succs(i2, x) = IF x = a THEN Succs(ir, x) \cup {r}
                                                   ELSE Succs(ir, x)
      /\ i2[r].body = <<>> /\ Succs(i2, r) = {}
      /\ BodySet(i2, i3, r, body)
  BY <1>5, ReturnBlock
<1> HIDE DEF i2, i3, body
<1>9. /\ Extends(list, list2) /\ Len(list2) = Len(list) + 1
      /\ list2[Len(list) + 1] = BlockNode(r)
  BY <1>5, OneMore
<1>10. /\ Extends(list, list3) /\ Len(list3) = Len(list) + 2
       /\ list3[Len(list) + 1] = BlockNode(r) /\ list3[Len(list) + 2] = [type |-> "Return"]
  BY <1>5, TwoMore
<1> HIDE DEF list2, list3
<1>11. Extends(list2, list3) /\ Len(list3) = Len(list2) + 1
       /\ list3[Len(list2) + 1] = [type |-> "Return"]
  <2>1. \A i \in 1 .. Len(list) + 1 : i \in 1 .. Len(list) \/ i = Len(list) + 1
    BY <1>5
  <2>2. \A i \in 1 .. Len(list2) : list3[i] = list2[i]
    BY <1>9, <1>10, <2>1 DEF Extends
  <2>3. Len(list3) = Len(list2) + 1 /\ Len(list2) <= Len(list3) /\ Len(list2) + 1 = Len(list) + 2
    BY <1>5, <1>9, <1>10
  <2> QED BY <1>9, <1>10, <2>2, <2>3 DEF Extends
<1>12. /\ Resumes(calls, cs1) /\ Resumes(calls, cs2) /\ Resumes(calls, cs3)
       /\ Len(cs1) = n /\ Len(cs2) = n /\ Len(cs3) = n
       /\ cs2[n].current = r /\ cs3[n].current = 0
  BY <1>4, <1>7 DEF GoneOn
<1>13. Resumes(cs1, cs2) /\ Resumes(cs2, cs3)
  BY <1>12, ResumesBoth
<1> HIDE DEF n
<1>14. Succs(ir, a) = {}
  BY <1>5, OpenBlock
<1>15. Build(cs2, i2, list2)
  <2>1. \A x \in 1 .. Len(ir) :
           Succs(i2, x) = IF x = cs1[Len(cs1)].current THEN {r} ELSE Succs(ir, x)
    BY <1>5, <1>8, <1>14
  <2>2. NodeGoesTo(list2[Len(list) + 1]) = {r}
    BY <1>9, NodeGoes
  <2>3. {r} \in SUBSET (2 .. Len(ir) + 1)
    BY <1>5
  <2>4. Len(list2) \in {Len(list) + 1, Len(list) + 2} /\ Len(list2) # Len(list) + 2
        /\ list2[Len(list2)] = BlockNode(Len(ir) + 1)
    BY <1>5, <1>9
  <2>5. \A t \in {r} : t \in Reserved(cs1) \/ t = Len(ir) + 1
    OBVIOUS
  <2>6. cs2[Len(cs1)].current = Len(ir) + 1
    BY <1>12
  <2>7. /\ \A x \in 1 .. Len(ir) : i2[x].body = ir[x].body
        /\ i2[Len(ir) + 1].body = <<>> /\ Succs(i2, Len(ir) + 1) = {}
        /\ Blocks(i2) /\ Len(i2) = Len(ir) + 1
    BY <1>8
  <2> QED BY <1>5, <1>9, <1>13, <2>1, <2>2, <2>3, <2>4, <2>5, <2>6, <2>7, BuildOpens
<1>16. Build(cs2, i3, list2)
  <2>1. cs2[Len(cs2)].current = r
    BY <1>12
  <2> QED BY <1>6, <1>8, <1>15, <2>1, BuildWrites
<1>17. Build(cs3, i3, list3)
  <2>1. cs2[Len(cs2)].current # 0 /\ cs3[Len(cs2)].current = 0
    BY <1>6, <1>12
  <2>2. list3[Len(list2) + 1].type # "Block" /\ NodeGoesTo(list3[Len(list2) + 1]) = {}
    BY <1>11, NodeGoes
  <2> QED BY <1>11, <1>13, <1>16, <2>1, <2>2, BuildCloses
<1>18. Walks(stmt, cs3)
  BY <1>7, TreeStays, GoneOnWalks
<1>19. OnlyLabels(stmt, cs3, list3)
  <2> DEFINE k == cs3[n].locals.node
             L == Len(list2)
  <2>1. cs2[Len(cs2)].locals.node < L /\ cs2[Len(cs2)] \in CallRecords
    BY <1>6, <1>12, <1>16, BeyondNode, BuildMeans
  <2>2. n \in 1 .. n
    BY <1>2, <1>12, TheCallIs DEF n
  <2>3. cs2[n].locals = cs3[n].locals
    BY <1>12, <1>13, <2>2 DEF Resumes
  <2>4. k < L /\ k \in Nat /\ L \in Nat /\ Len(list3) = L + 1
    <3>1. L \in Nat
      BY <1>5, <1>9
    <3> QED BY <1>11, <1>12, <2>1, <2>3, <3>1 DEF CallRecords
  <2> HIDE DEF k, L
  <2>5. ~(k >= Len(list3))
    BY <2>4
  <2> QED BY <1>12, <2>5 DEF OnlyLabels, k
<1>20. step = "done" /\ ended = "no"
  BY DEF Passing
<1> QED BY <1>1, <1>17, <1>18, <1>19, <1>20 DEF Passing

\* The statement that is visited, in the tree.
LEMMA VisitedWalk ==
    ASSUME IInv, Passing, ~AtEnd
    PROVE  /\ visited \in DOMAIN stmt /\ visited \in Nat /\ visited # Root
           /\ Chain(stmt, visited) = {visited} \cup Chain(stmt, call.parent)
           /\ call.parent \in DOMAIN stmt /\ HasChildren(stmt, call.parent)
           /\ call.at \in Nat \ {0} /\ call.break \in Nat
           /\ call.break = 0 => \A t \in Chain(stmt, call.parent) : stmt[t].type # "Loop"
<1>1. /\ call.parent \in DOMAIN stmt /\ HasChildren(stmt, call.parent) /\ call.at \in Nat \ {0}
      /\ call = calls[Len(calls)] /\ WalkOK(stmt, calls, Len(calls))
  BY WalkedList
<1>2. visited \in DOMAIN stmt /\ stmt[visited].up = call.parent
  BY <1>1, VisitedInList
<1>3. /\ Rooted(stmt) /\ Numbered(stmt) /\ 0 \notin DOMAIN stmt /\ stmt[Root].up = 0
  BY DEF IInv, TreeOK, PoolOK, Fields
<1>4. visited \in Nat
  <2>1. DOMAIN stmt = 1 .. Len(stmt) /\ Len(stmt) \in Nat
    BY <1>3, NumberedPool
  <2> QED BY <1>2, <2>1
<1>5. visited # Root /\ stmt[visited].up # 0
  BY <1>1, <1>2, <1>3
<1>6. Chain(stmt, visited) = {visited} \cup Chain(stmt, stmt[visited].up)
  BY <1>2, <1>3, <1>5, ChainEquation
<1>7. call.break \in Nat
  <2>1. Build(calls, irBlocks, syntax_list)
    BY DEF Passing
  <2> QED BY <2>1, TheCallIs DEF CallRecords
<1>8. call.break = 0 => \A t \in Chain(stmt, call.parent) : stmt[t].type # "Loop"
  BY <1>1 DEF WalkOK
<1> QED BY <1>1, <1>2, <1>4, <1>5, <1>6, <1>7, <1>8

\* Call c of Visit is for the statement Visit is at.
CallsVisit(c) ==
    /\ c \in CallRecords /\ c.parent = visited /\ c.at = 1 /\ c.locals.header # 1
    /\ \/ stmt[visited].type = "If" /\ ~IsLoop(c) /\ c.break = call.break
       \/ stmt[visited].type = "Loop" /\ IsLoop(c) /\ c.break # 0

\* Visit is called for an If or a Loop, and the merge block's Code put behind it.
LEMMA CallingKeeps ==
    ASSUME IInv, cfg \in Cfgs, Opened(stmt), Passing, ~AtEnd,
           stmt' = StmtsMerged(visited), KeepPass,
           NEW cs, NEW b, GoneOn(cs, b), NEW c, CallsVisit(c), calls' = Append(cs, c),
           Build(calls', irBlocks', syntax_list'), ended' = ended
    PROVE  IInv' /\ Opened(stmt') /\ Passing'
<1>1. /\ visited \in DOMAIN stmt /\ visited # Root
      /\ Chain(stmt, visited) = {visited} \cup Chain(stmt, call.parent)
      /\ call.parent \in DOMAIN stmt /\ HasChildren(stmt, call.parent)
      /\ call.at \in Nat \ {0}
      /\ call.break = 0 => \A t \in Chain(stmt, call.parent) : stmt[t].type # "Loop"
  BY VisitedWalk
<1>2. stmt[visited].type \in {"If", "Loop", "Break"} /\ c \in CallRecords
  BY DEF CallsVisit
<1>3. step = "done" /\ ended = "no" /\ step' = "done"
  BY DEF Passing, KeepPass
<1>4. IInv' /\ Opened(stmt') /\ TreeKept(stmt, stmt')
  BY <1>1, <1>2, <1>3, StmtsMergedKeeps
<1>5. Walks(stmt', cs)
  BY <1>4, GoneOnWalks
<1>6. cs \in Seq(CallRecords) /\ Len(cs) # 0 /\ Len(cs) \in Nat
  BY LenProperties DEF GoneOn, Going
<1>7. /\ visited \in DOMAIN stmt' /\ stmt'[visited].type = stmt[visited].type
      /\ Chain(stmt', visited) = Chain(stmt, visited)
      /\ Chain(stmt, visited) \subseteq DOMAIN stmt
      /\ \A t \in DOMAIN stmt : stmt'[t].type = stmt[t].type
  BY <1>1, <1>4 DEF TreeKept
<1>8. c.break = 0 => \A t \in Chain(stmt', visited) : stmt'[t].type # "Loop"
  <2> SUFFICES ASSUME c.break = 0, NEW t \in Chain(stmt', visited)
               PROVE  stmt'[t].type # "Loop"
    OBVIOUS
  <2>1. stmt[visited].type = "If" /\ call.break = 0
    BY DEF CallsVisit
  <2>2. t \in DOMAIN stmt /\ (t = visited \/ t \in Chain(stmt, call.parent))
    BY <1>1, <1>7
  <2>3. stmt[t].type # "Loop"
    BY <1>1, <2>1, <2>2
  <2> QED BY <1>7, <2>2, <2>3
<1>9. /\ c.parent = visited /\ c.locals.header # 1
      /\ \/ stmt'[c.parent].type = "If" /\ ~IsLoop(c)
         \/ stmt'[c.parent].type = "Loop" /\ IsLoop(c)
  BY <1>7 DEF CallsVisit
<1>10. Walks(stmt', Append(cs, c))
  BY <1>1, <1>2, <1>5, <1>6, <1>7, <1>8, <1>9, WalksPushed
<1>11. OnlyLabels(stmt', Append(cs, c), syntax_list')
  <2>1. Len(Append(cs, c)) = Len(cs) + 1 /\ Append(cs, c)[Len(cs) + 1] = c
    BY <1>2, <1>6, AppendProperties
  <2>2. c.at = 1
    BY DEF CallsVisit
  <2>3. \A j \in Nat : j < 1 => j = 0
    OBVIOUS
  <2>4. ASSUME NEW body, NEW j \in 1 .. Len(body) PROVE ~(j < 1)
    OBVIOUS
  <2> QED BY <2>1, <2>2, <2>4 DEF OnlyLabels
<1> QED BY <1>3, <1>4, <1>10, <1>11 DEF Passing

\* The blocks of an If, the new one made before or after the emission.
LEMMA IfBlocks ==
    ASSUME NEW ir, Blocks(ir), NEW a \in 1 .. Len(ir), NEW effects
    PROVE  /\ BodySet(ir, Emit(ir, a, effects), a, ir[a].body \o effects)
           /\ Grown(Emit(ir, a, effects), Emit(NewBlock(ir), a, effects), 1)
<1> DEFINE made == NewBlock(ir)
           i1 == Emit(ir, a, effects)
           i2 == Emit(made, a, effects)
           r == Len(ir) + 1
<1>1. BlockMade(ir, made)
  BY NewBlockDoes
<1> HIDE DEF made
<1>2. /\ Blocks(made) /\ Len(ir) \in Nat /\ Len(made) = r /\ r \in Nat /\ r \in 1 .. r
      /\ \A x \in 1 .. Len(ir) : made[x] = ir[x] /\ Succs(made, x) = Succs(ir, x) /\ x \in 1 .. r
      /\ Succs(made, r) = {} /\ made[r].body = <<>> /\ a \in 1 .. r /\ a # r
  BY <1>1 DEF BlockMade
<1>3. BodySet(ir, i1, a, ir[a].body \o effects)
  BY EmitDoes
<1>4. BodySet(made, i2, a, made[a].body \o effects)
  BY <1>2, EmitDoes
<1> HIDE DEF i1, i2
<1>5. /\ Blocks(i1) /\ Len(i1) = Len(ir) /\ i1[a].body = ir[a].body \o effects
      /\ \A x \in 1 .. Len(ir) : x # a => i1[x].body = ir[x].body
      /\ \A x \in 1 .. Len(ir) : Succs(i1, x) = Succs(ir, x)
  BY <1>3 DEF BodySet
<1>6. /\ Blocks(i2) /\ Len(i2) = r /\ i2[a].body = made[a].body \o effects
      /\ \A x \in 1 .. r : x # a => i2[x].body = made[x].body
      /\ \A x \in 1 .. r : Succs(i2, x) = Succs(made, x)
  BY <1>2, <1>4 DEF BodySet
<1>7. \A x \in 1 .. Len(i1) : i2[x].body = i1[x].body /\ Succs(i2, x) = Succs(i1, x)
  <2>1. \A x \in 1 .. Len(ir) : Succs(i2, x) = Succs(i1, x)
    BY <1>2, <1>5, <1>6
  <2>2. i2[a].body = i1[a].body
    BY <1>2, <1>5, <1>6
  <2>3. \A x \in 1 .. Len(ir) : x # a => i2[x].body = i1[x].body
    BY <1>2, <1>5, <1>6
  <2> QED BY <1>5, <2>1, <2>2, <2>3
<1>8. i2[r].body = <<>> /\ Succs(i2, r) = {}
  BY <1>2, <1>6
<1>9. \A x \in Len(i1) + 1 .. Len(i1) + 1 : x = r
  BY <1>2, <1>5
<1>10. Grown(i1, i2, 1)
  BY <1>2, <1>5, <1>6, <1>7, <1>8, <1>9 DEF Grown
<1> QED BY <1>3, <1>10 DEF made, i1, i2

\* c is a new call of Visit.
CallIs(c, s, break, fall, h, cont, merge, node) ==
    /\ c \in CallRecords /\ c.parent = s /\ c.at = 1 /\ c.current = 0
    /\ c.break = break /\ c.fallthrough = fall
    /\ c.locals.header = h /\ c.locals.continue = cont /\ c.locals.merge = merge
    /\ c.locals.node = node
    /\ IsLoop(c) <=> h # 0
    /\ ReservedBy(c) = {cont, merge} \ {0}

\* The fields of a new call.
LEMMA CallFieldsAre ==
    ASSUME NEW s \in Nat, NEW break \in Nat, NEW fall \in Nat, NEW h \in Nat, NEW cont \in Nat,
           NEW merge \in Nat, NEW node \in Nat
    PROVE  CallIs(Call(s, break, fall, [header |-> h, continue |-> cont, merge |-> merge,
                                        node |-> node]),
                  s, break, fall, h, cont, merge, node)
<1> DEFINE l == [header |-> h, continue |-> cont, merge |-> merge, node |-> node]
           c == Call(s, break, fall, l)
<1>1. c = [parent |-> s, at |-> 1, current |-> 0, break |-> break, fallthrough |-> fall,
           locals |-> l]
  BY DEF Call
<1>2. l \in [header : Nat, continue : Nat, merge : Nat, node : Nat]
  OBVIOUS
<1>3. l.header = h /\ l.continue = cont /\ l.merge = merge /\ l.node = node
  OBVIOUS
<1> HIDE DEF l, c
<1>4. c \in CallRecords
  BY <1>1, <1>2 DEF CallRecords
<1>5. /\ c.parent = s /\ c.at = 1 /\ c.current = 0 /\ c.break = break /\ c.fallthrough = fall
      /\ c.locals = l
  BY <1>1
<1>6. (IsLoop(c) <=> h # 0) /\ ReservedBy(c) = {cont, merge} \ {0}
  BY <1>3, <1>5 DEF IsLoop, ReservedBy
<1>7. CallIs(c, s, break, fall, h, cont, merge, node)
  BY <1>3, <1>4, <1>5, <1>6 DEF CallIs
<1> QED BY <1>7 DEF c, l

\* The locals of an If.
LEMMA IfLocals ==
    ASSUME NEW merge, NEW node
    PROVE  [NoLocals EXCEPT !.merge = merge, !.node = node]
              = [header |-> 0, continue |-> 0, merge |-> merge, node |-> node]
<1>1. NoLocals = [header |-> 0, continue |-> 0, merge |-> 0, node |-> 0]
  BY DEF NoLocals
<1> DEFINE F == {"header", "continue", "merge", "node"}
           u == [NoLocals EXCEPT !.merge = merge, !.node = node]
           v == [header |-> 0, continue |-> 0, merge |-> merge, node |-> node]
<1>2. DOMAIN NoLocals = F
  BY <1>1
<1>3. u = [f \in F |-> IF f = "node" THEN node ELSE IF f = "merge" THEN merge ELSE NoLocals[f]]
  BY <1>2
<1>4. u = [f \in F |-> u[f]]
  BY <1>3
<1>5. v = [f \in F |-> v[f]]
  OBVIOUS
<1>6. \A f \in F : u[f] = v[f]
  BY <1>1, <1>3
<1> QED BY <1>4, <1>5, <1>6

\* The If case of Visit, up to its call of Visit.
LEMMA VisitIfKeeps ==
    ASSUME IInv, cfg \in Cfgs, Opened(stmt), Passing, VisitIf
    PROVE  IInv' /\ Opened(stmt') /\ Passing'
<1> DEFINE a == Ensured
           ir == EnsuredBlocks
           list == EnsuredList
           effects == ConditionRef(stmt[visited].cond)
           i1 == Emit(ir, a, effects)
           i2 == Emit(NewBlock(ir), a, effects)
           list2 == Append(list, [type |-> "Pending"])
           cs == GoOn(a)
           merge == Len(ir) + 1
           node == Len(list) + 1
           l == [header |-> 0, continue |-> 0, merge |-> merge, node |-> node]
           c == Call(visited, call.break, merge, l)
<1>1. Build(calls, irBlocks, syntax_list)
  BY DEF Passing
<1>2. a \in Nat
  BY <1>1, TheCallIs DEF Ensured
<1>3. GoneOn(cs, a)
  BY <1>1, <1>2, GoOnIs
<1>4. /\ stmt' = StmtsMerged(visited) /\ KeepPass /\ ended' = ended
      /\ irBlocks' = i2 /\ syntax_list' = list2 /\ ~AtEnd /\ stmt[visited].type = "If"
      /\ calls' = Append(cs, c)
  <2>1. [NoLocals EXCEPT !.merge = merge, !.node = node] = l
    BY IfLocals
  <2> QED BY <2>1 DEF VisitIf, Visiting
<1> HIDE DEF cs
<1>5. /\ Build(cs, ir, list) /\ a # 0 /\ a \in 1 .. Len(ir)
      /\ cs[Len(cs)].current = a /\ Blocks(ir) /\ Numbered(list) /\ Len(ir) \in Nat
      /\ Len(list) \in Nat
  BY <1>1, <1>3, EnsureDoes
<1> HIDE DEF a, ir, list, effects
<1>6. merge \in Nat /\ merge # 0 /\ node \in Nat /\ 0 \in Nat
  BY <1>5
<1>7. visited \in Nat /\ call.break \in Nat
  BY <1>4, VisitedWalk
<1> HIDE DEF merge, node
<1>8. /\ c \in CallRecords /\ c.parent = visited /\ c.at = 1 /\ c.current = 0
      /\ c.break = call.break /\ c.fallthrough = merge
      /\ c.locals.header = 0 /\ c.locals.continue = 0 /\ c.locals.merge = merge
      /\ c.locals.node = node
      /\ ~IsLoop(c) /\ ReservedBy(c) = {0, merge} \ {0}
  <2>1. CallIs(c, visited, call.break, merge, 0, 0, merge, node)
    BY ONLY <1>6, <1>7, CallFieldsAre
  <2> HIDE DEF c
  <2> QED BY <2>1 DEF CallIs
<1> HIDE DEF c
<1>9. BodySet(ir, i1, a, ir[a].body \o effects) /\ Grown(i1, i2, 1)
  BY <1>5, IfBlocks
<1> HIDE DEF i1, i2
<1>10. Build(cs, i1, list)
  BY <1>5, <1>9, BuildWrites
<1>11. /\ Extends(list, list2) /\ Len(list2) = Len(list) + 1
       /\ list2[Len(list) + 1] = [type |-> "Pending"]
  BY <1>5, OneMore
<1> HIDE DEF list2
<1>12. cs[Len(cs)].break = call.break
  <2>1. /\ Len(cs) = Len(calls) /\ Resumes(calls, cs)
    BY <1>3 DEF GoneOn
  <2>2. Len(calls) \in 1 .. Len(calls) /\ call = calls[Len(calls)]
    BY <1>1, TheCallIs
  <2> QED BY <2>1, <2>2 DEF Resumes
<1>13. ReservedBy(c) = Len(i1) + 1 .. Len(i1) + 1
  <2>1. Len(i1) + 1 = merge
    BY <1>9 DEF BodySet, merge
  <2>2. \A x : x \in merge .. merge <=> x = merge
    BY <1>6
  <2> QED BY <1>6, <1>8, <2>1, <2>2
<1>14. Build(Append(cs, c), i2, list2)
  <2>1. c.locals.node = Len(list) + 1
    BY <1>8 DEF node
  <2>2. 1 \in Nat
    OBVIOUS
  <2> QED BY <1>5, <1>6, <1>8, <1>9, <1>10, <1>11, <1>12, <1>13, <2>1, <2>2, BuildPushes
<1>15. CallsVisit(c)
  BY <1>4, <1>8 DEF CallsVisit
<1> QED BY <1>3, <1>4, <1>14, <1>15, CallingKeeps

\* A block is listed when anything but the first statements of the program is visited.
LEMMA SomeBlock ==
    ASSUME IInv, Opened(stmt), Passing, AtEnd \/ stmt[visited].type # "SetVariable"
    PROVE  Len(syntax_list) # 0 /\ Len(irBlocks) # 0 /\ At(syntax_list, 1, 1)
<1>1. /\ Build(calls, irBlocks, syntax_list)
      /\ Walks(stmt, calls) /\ OnlyLabels(stmt, calls, syntax_list)
  BY DEF Passing
<1>2. Len(syntax_list) # 0
  <2> SUFFICES ASSUME Len(syntax_list) = 0 PROVE FALSE
    OBVIOUS
  <2>1. Len(calls) = 1 /\ call = calls[1] /\ WalkOK(stmt, calls, 1)
    BY <1>1, FirstBlockIsOne, WalkedList
  <2>2. call.parent = Root
    BY <2>1 DEF WalkOK
  <2> DEFINE body == Children(stmt, Root)
  <2>3. StartsWithReset(stmt, body) /\ Len(body) \in Nat /\ DOMAIN body = 1 .. Len(body)
    <3>1. Root \in DOMAIN stmt /\ body \in Seq(DOMAIN stmt)
      BY DEF IInv, TreeOK, PoolOK, Fields
    <3>2. WellOpened(stmt, Root)
      BY <3>1 DEF Opened
    <3> QED BY <3>1, <3>2, LenProperties DEF WellOpened
  <2>4. call.at \in Nat \ {0} /\ body = stmt[call.parent].children
    BY <2>2, WalkedList
  <2>5. call.locals.node = 0
    <3>1. 1 \in 1 .. Len(calls) /\ Frames(calls, syntax_list)
      BY <1>1, <2>1, BuildMeans
    <3>2. CallOK(calls, 1)
      BY <3>1 DEF Frames
    <3> QED BY <2>1, <3>2 DEF CallOK, NoLocals
  <2>6. \A j \in 1 .. Len(body) : j < call.at => stmt[body[j]].type = "Label"
    BY <1>1, <2>1, <2>2, <2>5 DEF OnlyLabels
  <2>7. 1 \in 1 .. Len(body) /\ stmt[body[1]].type = "SetVariable" /\ Len(body) > 0
    BY <2>3 DEF StartsWithReset
  <2>8. AtEnd => call.at > Len(body)
    BY <2>4 DEF AtEnd
  <2>9. visited = body[call.at]
    BY <2>4 DEF visited
  <2> HIDE DEF body
  <2>10. 1 < call.at
    <3>1. call.at # 1
      BY <2>3, <2>7, <2>8, <2>9
    <3> QED BY <2>4, <3>1
  <2> QED BY <2>6, <2>7, <2>10
<1>3. At(syntax_list, 1, 1) /\ Len(irBlocks) # 0
  <2>1. Layout(Reserved(calls), Len(irBlocks), SuccsOf(irBlocks), Quiet(irBlocks), syntax_list,
               calls[Len(calls)].current)
    BY <1>1, BuildMeans
  <2>2. At(syntax_list, 1, 1)
    BY <1>2, <2>1 DEF Layout
  <2>3. 1 \in 1 .. Len(syntax_list) /\ syntax_list[1].type = "Block" /\ syntax_list[1].block = 1
    BY <2>2 DEF At, BlockNode
  <2>4. 1 \in 1 .. Len(irBlocks)
    BY <2>1, <2>3 DEF Layout, NodesAreBlocks
  <2> QED BY <2>2, <2>4
<1> QED BY <1>2, <1>3

\* The edge to the header of a Loop, if a block is open.
HeaderEdges(cur, h) == IF cur = 0 THEN <<>> ELSE <<<<cur, h>>>>

\* Where the edge to the header leads.
LEMMA HeaderEdgesAre ==
    ASSUME NEW cur, NEW h
    PROVE  LET edges == HeaderEdges(cur, h)
           IN  /\ Len(edges) \in Nat /\ DOMAIN edges = 1 .. Len(edges)
               /\ \A i \in 1 .. Len(edges) : /\ cur # 0 /\ i = 1
                                             /\ edges[i][1] = cur /\ edges[i][2] = h
               /\ \A x : Targets(edges, x) = IF cur # 0 /\ x = cur THEN {h} ELSE {}
<1>1. CASE cur = 0
  <2>1. HeaderEdges(cur, h) = <<>>
    BY <1>1 DEF HeaderEdges
  <2>2. Len(<<>>) = 0 /\ DOMAIN <<>> = 1 .. 0 /\ \A i : i \notin 1 .. 0
    OBVIOUS
  <2>3. \A x : Targets(<<>>, x) = {}
    BY <2>2 DEF Targets
  <2> QED BY <1>1, <2>1, <2>2, <2>3
<1>2. CASE cur # 0
  <2> DEFINE edges == <<<<cur, h>>>>
  <2>1. HeaderEdges(cur, h) = edges
    BY <1>2 DEF HeaderEdges
  <2>2. /\ Len(edges) = 1 /\ DOMAIN edges = 1 .. 1 /\ edges[1][1] = cur /\ edges[1][2] = h
        /\ \A i \in 1 .. 1 : i = 1
    OBVIOUS
  <2>3. EdgesAre(edges, 1, <<cur>>, <<h>>)
    BY OneEdge
  <2> HIDE DEF edges
  <2>4. \A x : Targets(edges, x) = IF x = cur THEN {h} ELSE {}
    BY <2>3, OneTarget
  <2> QED BY <1>2, <2>1, <2>2, <2>4
<1> QED BY <1>1, <1>2

\* The blocks of a Loop, made one by one, as if the header were opened first.
LEMMA LoopBlocks ==
    ASSUME NEW ir, Blocks(ir), NEW cur \in 0 .. Len(ir), cur # 0 => Succs(ir, cur) = {}
    PROVE  LET h == Len(ir) + 1
               edges == HeaderEdges(cur, h)
               i1 == AddBranches(NewBlock(ir), edges)
               made == NewBlock(NewBlock(NewBlock(ir)))
           IN  /\ CanBranch(made, edges)
               /\ Blocks(i1) /\ Len(i1) = h /\ h \in Nat
               /\ \A x \in 1 .. Len(ir) : /\ i1[x].body = ir[x].body
                                          /\ Succs(i1, x) = IF x = cur THEN {h} ELSE Succs(ir, x)
               /\ i1[h].body = <<>> /\ Succs(i1, h) = {}
               /\ Grown(i1, AddBranches(made, edges), 2)
<1> DEFINE h == Len(ir) + 1
           edges == HeaderEdges(cur, h)
           m1 == NewBlock(ir)
           m2 == NewBlock(m1)
           made == NewBlock(m2)
           i1 == AddBranches(m1, edges)
           i2 == AddBranches(made, edges)
<1>1. BlockMade(ir, m1)
  BY NewBlockDoes
<1> HIDE DEF m1
<1>2. BlockMade(m1, m2)
  BY <1>1, NewBlockDoes DEF BlockMade
<1> HIDE DEF m2
<1>3. BlockMade(m2, made)
  BY <1>2, NewBlockDoes DEF BlockMade
<1> HIDE DEF made
<1>4. /\ Len(ir) \in Nat /\ h \in Nat /\ Len(m1) = h /\ Len(m2) = h + 1 /\ Len(made) = h + 2
      /\ Blocks(m1) /\ Blocks(made)
  BY <1>1, <1>2, <1>3 DEF BlockMade
<1>5. /\ \A x \in 1 .. Len(ir) : m1[x] = ir[x] /\ Succs(m1, x) = Succs(ir, x)
      /\ m1[h].body = <<>> /\ Succs(m1, h) = {}
  BY <1>1 DEF BlockMade
<1>6. /\ \A x \in 1 .. h : m2[x] = m1[x] /\ Succs(m2, x) = Succs(m1, x)
      /\ m2[h + 1].body = <<>> /\ Succs(m2, h + 1) = {}
  BY <1>2, <1>4 DEF BlockMade
<1>7. /\ \A x \in 1 .. h + 1 : made[x] = m2[x] /\ Succs(made, x) = Succs(m2, x)
      /\ made[h + 2].body = <<>> /\ Succs(made, h + 2) = {}
  BY <1>3, <1>4 DEF BlockMade
<1>8. /\ Len(edges) \in Nat /\ DOMAIN edges = 1 .. Len(edges)
      /\ \A i \in 1 .. Len(edges) : /\ cur # 0 /\ i = 1
                                    /\ edges[i][1] = cur /\ edges[i][2] = h
      /\ \A x : Targets(edges, x) = IF cur # 0 /\ x = cur THEN {h} ELSE {}
  BY HeaderEdgesAre
<1> HIDE DEF edges
<1>9. /\ h \in 1 .. h /\ h \notin 1 .. Len(ir) /\ h + 1 \notin 1 .. Len(ir) /\ h + 2 \notin 1 .. Len(ir)
      /\ \A x \in 1 .. Len(ir) : x \in 1 .. h /\ x \in 1 .. h + 1 /\ x \in 1 .. h + 2 /\ x # 0
      /\ \A x \in 1 .. h : x \in 1 .. h + 1 /\ x \in 1 .. h + 2
      /\ h + 1 \in 1 .. h + 1 /\ h + 1 \in 1 .. h + 2 /\ h + 2 \in 1 .. h + 2
      /\ \A x \in h + 1 .. h + 2 : x = h + 1 \/ x = h + 2
      /\ cur # 0 => cur \in 1 .. Len(ir)
      /\ cur # h /\ cur # h + 1 /\ cur # h + 2
  BY <1>4
<1> HIDE DEF h
<1>10. \A i \in 1 .. Len(edges) : /\ edges[i][1] \in 1 .. Len(m1) /\ edges[i][2] \in Nat
                                  /\ edges[i][1] \in 1 .. Len(made)
  BY <1>4, <1>8, <1>9
<1>11. EdgesAdded(m1, i1, edges)
  BY <1>4, <1>8, <1>10, AddBranchesDoes
<1>12. EdgesAdded(made, i2, edges)
  BY <1>4, <1>8, <1>10, AddBranchesDoes
<1> HIDE DEF i1, i2
<1>13. /\ Blocks(i1) /\ Len(i1) = h
       /\ \A x \in 1 .. h : /\ i1[x].body = m1[x].body
                            /\ Succs(i1, x) = Succs(m1, x) \cup Targets(edges, x)
  BY <1>4, <1>11 DEF EdgesAdded
<1>14. /\ Blocks(i2) /\ Len(i2) = h + 2
       /\ \A x \in 1 .. h + 2 : /\ i2[x].body = made[x].body
                                /\ Succs(i2, x) = Succs(made, x) \cup Targets(edges, x)
  BY <1>4, <1>12 DEF EdgesAdded
<1>15. \A x \in 1 .. Len(ir) : /\ i1[x].body = ir[x].body
                               /\ Succs(i1, x) = IF x = cur THEN {h} ELSE Succs(ir, x)
  <2> SUFFICES ASSUME NEW x \in 1 .. Len(ir)
               PROVE  /\ i1[x].body = ir[x].body
                      /\ Succs(i1, x) = IF x = cur THEN {h} ELSE Succs(ir, x)
    OBVIOUS
  <2>1. x \in 1 .. h /\ x # 0
    BY <1>9
  <2>2. i1[x].body = ir[x].body /\ Succs(i1, x) = Succs(ir, x) \cup Targets(edges, x)
    BY <1>5, <1>13, <2>1
  <2>3. CASE x = cur
    BY <1>8, <2>1, <2>2, <2>3
  <2>4. CASE x # cur
    BY <1>8, <2>1, <2>2, <2>4
  <2> QED BY <2>3, <2>4
<1>16. i1[h].body = <<>> /\ Succs(i1, h) = {}
  BY <1>5, <1>8, <1>9, <1>13
<1>17. \A x \in 1 .. h : i2[x].body = i1[x].body /\ Succs(i2, x) = Succs(i1, x)
  <2> SUFFICES ASSUME NEW x \in 1 .. h
               PROVE  i2[x].body = i1[x].body /\ Succs(i2, x) = Succs(i1, x)
    OBVIOUS
  <2>1. made[x] = m1[x] /\ Succs(made, x) = Succs(m1, x) /\ x \in 1 .. h + 2
    BY <1>6, <1>7, <1>9
  <2> QED BY <1>13, <1>14, <2>1
<1>18. ASSUME NEW x \in h + 1 .. h + 2
       PROVE  i2[x].body = <<>> /\ Succs(i2, x) = {}
  <2>1. made[x].body = <<>> /\ Succs(made, x) = {} /\ x \in 1 .. h + 2 /\ x # cur
    <3>1. CASE x = h + 1
      BY <1>6, <1>7, <1>9, <3>1
    <3>2. CASE x = h + 2
      BY <1>7, <1>9, <3>2
    <3> QED BY <1>9, <3>1, <3>2
  <2> QED BY <1>8, <1>14, <2>1
<1>19. Grown(i1, i2, 2)
  BY <1>13, <1>14, <1>17, <1>18 DEF Grown
<1>20. CanBranch(made, edges)
  <2>1. \A i \in 1 .. Len(edges) : Succs(made, edges[i][1]) = {}
    BY <1>5, <1>6, <1>7, <1>8, <1>9
  <2>2. \A i, j \in 1 .. Len(edges) :
           i # j => edges[i][1] # edges[j][1] \/ edges[i][2] # edges[j][2]
    BY <1>8
  <2> QED BY <1>4, <1>8, <1>10, <2>1, <2>2, CanBranchIf
<1> QED BY <1>4, <1>13, <1>15, <1>16, <1>19, <1>20 DEF h, edges, m1, m2, made, i1, i2

\* While a Loop is visited its caller may have another block open.
LEMMA ResumesBelow ==
    ASSUME calls \in Seq(CallRecords), NEW cs, NEW b, GoneOn(cs, b), NEW cs2, NEW b2,
           GoneOn(cs2, b2), NEW c \in CallRecords, IsLoop(c)
    PROVE  /\ Resumes(Append(cs, c), Append(cs2, c))
           /\ Append(cs2, c)[Len(Append(cs, c))].current = Append(cs, c)[Len(Append(cs, c))].current
<1> DEFINE n == Len(calls)
           d == Append(cs, c)
           d2 == Append(cs2, c)
<1>1. /\ cs \in Seq(CallRecords) /\ cs2 \in Seq(CallRecords) /\ Len(cs) = n /\ Len(cs2) = n
      /\ Resumes(calls, cs) /\ Resumes(calls, cs2) /\ n \in Nat
  BY LenProperties DEF GoneOn
<1>2. /\ d \in Seq(CallRecords) /\ Len(d) = n + 1 /\ d[n + 1] = c
      /\ \A i \in 1 .. n : d[i] = cs[i]
  BY <1>1, AppendProperties
<1>3. /\ d2 \in Seq(CallRecords) /\ Len(d2) = n + 1 /\ d2[n + 1] = c
      /\ \A i \in 1 .. n : d2[i] = cs2[i]
  BY <1>1, AppendProperties
<1> HIDE DEF d, d2
<1>4. Resumes(cs, cs2)
  BY <1>1, ResumesBoth
<1>5. \A i \in 1 .. n : /\ cs2[i].locals = cs[i].locals /\ cs2[i].break = cs[i].break
                        /\ cs2[i].fallthrough = cs[i].fallthrough
  BY <1>1, <1>4 DEF Resumes
<1>6. \A i \in 1 .. n + 1 : i \in 1 .. n \/ i = n + 1
  BY <1>1
<1>7. \A i \in 1 .. n + 1 : /\ d2[i].locals = d[i].locals /\ d2[i].break = d[i].break
                            /\ d2[i].fallthrough = d[i].fallthrough
  BY <1>2, <1>3, <1>5, <1>6
<1>8. ASSUME NEW i \in 1 .. n + 1 - 1 PROVE IsLoop(d[i + 1]) \/ d2[i].current = d[i].current
  <2>1. i \in 1 .. n /\ (i = n \/ (i \in 1 .. n - 1 /\ i + 1 \in 1 .. n))
    BY <1>1
  <2>2. CASE i = n
    BY <1>2, <2>2
  <2>3. CASE i \in 1 .. n - 1 /\ i + 1 \in 1 .. n
    <3>1. IsLoop(cs[i + 1]) \/ cs2[i].current = cs[i].current
      BY <1>1, <1>4, <2>3 DEF Resumes
    <3> QED BY <1>2, <1>3, <2>1, <2>3, <3>1
  <2> QED BY <2>1, <2>2, <2>3
<1>9. Resumes(d, d2)
  BY <1>2, <1>3, <1>7, <1>8 DEF Resumes
<1>10. d2[Len(d)].current = d[Len(d)].current
  BY <1>2, <1>3
<1> QED BY <1>9, <1>10 DEF d, d2

\* The Loop case of Visit, up to its call of Visit.
LEMMA VisitLoopKeeps ==
    ASSUME IInv, cfg \in Cfgs, Opened(stmt), Passing, VisitLoop
    PROVE  IInv' /\ Opened(stmt') /\ Passing'
<1> DEFINE cur == call.current
           h == Len(irBlocks) + 1
           edges == HeaderEdges(cur, h)
           made == NewBlock(NewBlock(NewBlock(irBlocks)))
           i1 == AddBranches(NewBlock(irBlocks), edges)
           i2 == AddBranches(made, edges)
           list1 == Append(syntax_list, BlockNode(h))
           list2 == syntax_list \o <<BlockNode(h), [type |-> "Pending"]>>
           cs1 == GoOn(h)
           cs0 == GoOn(cur)
           cont == h + 1
           merge == h + 2
           node == Len(syntax_list) + 2
           c == Call(visited, merge, cont, [header |-> h, continue |-> cont, merge |-> merge,
                                            node |-> node])
           n == Len(calls)
<1>1. Build(calls, irBlocks, syntax_list)
  BY DEF Passing
<1>2. /\ cur \in 0 .. Len(irBlocks) /\ call = calls[n] /\ Len(irBlocks) \in Nat
      /\ calls \in Seq(CallRecords) /\ n \in 1 .. n /\ Blocks(irBlocks)
      /\ Len(syntax_list) \in Nat /\ Numbered(syntax_list)
  BY <1>1, TheCallIs, BuildMeans
<1>3. cur # 0 => Succs(irBlocks, cur) = {}
  BY <1>1, <1>2, OpenBlock
<1>4. /\ CanBranch(made, edges)
      /\ Blocks(i1) /\ Len(i1) = h /\ h \in Nat
      /\ \A x \in 1 .. Len(irBlocks) :
            /\ i1[x].body = irBlocks[x].body
            /\ Succs(i1, x) = IF x = cur THEN {h} ELSE Succs(irBlocks, x)
      /\ i1[h].body = <<>> /\ Succs(i1, h) = {}
      /\ Grown(i1, i2, 2)
  BY <1>2, <1>3, LoopBlocks
<1>5. ~AtEnd /\ stmt[visited].type = "Loop" /\ KeepPass
  BY DEF VisitLoop, Visiting
<1>6. /\ stmt' = StmtsMerged(visited) /\ irBlocks' = i2 /\ syntax_list' = list2
      /\ calls' = Append(cs0, c) /\ ended' = ended
  BY <1>4 DEF VisitLoop, HeaderEdges, LoopContinue
<1> HIDE DEF i1, i2, made, edges
<1>7. Len(irBlocks) # 0 /\ Len(syntax_list) # 0
  BY <1>5, SomeBlock
<1>8. h \in Nat /\ h # 0 /\ h # 1 /\ cont \in Nat /\ merge \in Nat /\ cont # 0 /\ merge # 0
      /\ cont # merge /\ node \in Nat /\ cur \in Nat
  BY <1>2, <1>7
<1>9. GoneOn(cs1, h) /\ GoneOn(cs0, cur)
  BY <1>1, <1>8, GoOnIs
<1> HIDE DEF cs1, cs0
<1>10. visited \in Nat
  BY <1>5, VisitedWalk
<1>11. CallIs(c, visited, merge, cont, h, cont, merge, node)
  <2> HIDE DEF h, cont, merge, node
  <2> QED BY ONLY <1>8, <1>10, CallFieldsAre
<1> HIDE DEF c
<1>12. /\ c \in CallRecords /\ c.parent = visited /\ c.at = 1 /\ c.current = 0
       /\ c.break = merge /\ c.fallthrough = cont
       /\ c.locals.header = h /\ c.locals.continue = cont /\ c.locals.merge = merge
       /\ c.locals.node = node
       /\ IsLoop(c) /\ ReservedBy(c) = {cont, merge} \ {0}
  BY <1>8, <1>11 DEF CallIs
<1>13. /\ Extends(syntax_list, list1) /\ Len(list1) = Len(syntax_list) + 1
       /\ list1[Len(syntax_list) + 1] = BlockNode(h)
  BY <1>2, OneMore
<1>14. /\ Extends(syntax_list, list2) /\ Len(list2) = Len(syntax_list) + 2
       /\ list2[Len(syntax_list) + 1] = BlockNode(h)
       /\ list2[Len(syntax_list) + 2] = [type |-> "Pending"]
  BY <1>2, TwoMore
<1> HIDE DEF list1, list2
<1>15. /\ Extends(list1, list2) /\ Len(list2) = Len(list1) + 1
       /\ list2[Len(list1) + 1] = [type |-> "Pending"] /\ Len(list1) + 1 = node
  <2>1. \A i \in 1 .. Len(syntax_list) + 1 : i \in 1 .. Len(syntax_list) \/ i = Len(syntax_list) + 1
    BY <1>2
  <2>2. \A i \in 1 .. Len(list1) : list2[i] = list1[i]
    BY <1>13, <1>14, <2>1 DEF Extends
  <2>3. /\ Len(list2) = Len(list1) + 1 /\ Len(list1) <= Len(list2)
        /\ Len(list1) + 1 = Len(syntax_list) + 2
    BY <1>2, <1>13, <1>14
  <2> QED BY <1>13, <1>14, <2>2, <2>3 DEF Extends
<1>16. /\ Resumes(calls, cs1) /\ Len(cs1) = n /\ cs1[n].current = h
  BY <1>9 DEF GoneOn
<1>17. Build(cs1, i1, list1)
  <2>1. \A x \in 1 .. Len(irBlocks) :
           Succs(i1, x) = IF x = calls[Len(calls)].current THEN {h} ELSE Succs(irBlocks, x)
    BY <1>2, <1>4
  <2>2. NodeGoesTo(list1[Len(syntax_list) + 1]) = {h}
    BY <1>13, NodeGoes
  <2>3. {h} \in SUBSET (2 .. Len(irBlocks) + 1)
    BY <1>2, <1>7
  <2>4. Len(list1) \in {Len(syntax_list) + 1, Len(syntax_list) + 2}
        /\ Len(list1) # Len(syntax_list) + 2
        /\ list1[Len(list1)] = BlockNode(Len(irBlocks) + 1)
    BY <1>2, <1>13
  <2>5. \A t \in {h} : t \in Reserved(calls) \/ t = Len(irBlocks) + 1
    OBVIOUS
  <2>6. cs1[Len(calls)].current = Len(irBlocks) + 1
    BY <1>16
  <2>7. /\ \A x \in 1 .. Len(irBlocks) : i1[x].body = irBlocks[x].body
        /\ i1[Len(irBlocks) + 1].body = <<>> /\ Succs(i1, Len(irBlocks) + 1) = {}
        /\ Blocks(i1) /\ Len(i1) = Len(irBlocks) + 1
    BY <1>4
  <2> QED BY <1>1, <1>13, <1>16, <2>1, <2>2, <2>3, <2>4, <2>5, <2>6, <2>7, BuildOpens
<1>18. ReservedBy(c) = Len(i1) + 1 .. Len(i1) + 2
  <2>1. \A x : x \in h + 1 .. h + 2 <=> x = cont \/ x = merge
    BY <1>8
  <2> QED BY <1>4, <1>8, <1>12, <2>1
<1>19. Build(Append(cs1, c), i2, list2)
  <2>1. cs1[Len(cs1)].current = h /\ 2 \in Nat /\ c.locals.node = Len(list1) + 1
    BY <1>12, <1>15, <1>16
  <2>2. /\ c.locals.merge # 0 /\ c.locals.continue # 0 /\ c.locals.continue # c.locals.merge
        /\ c.fallthrough = c.locals.continue /\ cs1[Len(cs1)].current = c.locals.header
        /\ c.break = c.locals.merge /\ IsLoop(c) /\ cs1[Len(cs1)].current # 0
        /\ c \in CallRecords /\ c.current = 0
    BY <1>8, <1>12, <2>1
  <2>3. Grown(i1, i2, 2)
    BY <1>4
  <2> HIDE DEF h, cont, merge, node
  <2> QED BY ONLY <1>15, <1>17, <1>18, <2>1, <2>2, <2>3, BuildPushes
<1>20. /\ Resumes(Append(cs1, c), Append(cs0, c))
       /\ Append(cs0, c)[Len(Append(cs1, c))].current = Append(cs1, c)[Len(Append(cs1, c))].current
  <2>1. calls \in Seq(CallRecords) /\ c \in CallRecords /\ IsLoop(c)
    BY <1>2, <1>12
  <2> HIDE DEF h, cur
  <2> QED BY ONLY <1>9, <2>1, ResumesBelow
<1>21. Build(Append(cs0, c), i2, list2)
  BY <1>19, <1>20, BuildResumes
<1>22. CallsVisit(c)
  BY <1>5, <1>8, <1>12 DEF CallsVisit
<1> QED BY <1>5, <1>6, <1>9, <1>21, <1>22, CallingKeeps

\* A Break leaves to a block that waits to be listed.
LEMMA BreakBlock ==
    ASSUME NEW cs, NEW ir, NEW list, Build(cs, ir, list), Len(list) # 0,
           cs[Len(cs)].break # 0
    PROVE  cs[Len(cs)].break \in Reserved(cs) /\ cs[Len(cs)].break \in 2 .. Len(ir)
<1> DEFINE n == Len(cs)
           b == cs[n].break
<1>1. /\ Frames(cs, list) /\ n \in 1 .. n /\ n \in Nat /\ Len(ir) \in Nat
      /\ Reserved(cs) \subseteq 1 .. Len(ir)
      /\ Layout(Reserved(cs), Len(ir), SuccsOf(ir), Quiet(ir), list, cs[n].current)
  BY BuildMeans
<1>2. \A i \in 1 .. n : CallOK(cs, i)
  BY <1>1 DEF Frames
<1>3. PICK j \in 1 .. n : IsLoop(cs[j]) /\ b = cs[j].locals.merge
  <2>1. \E j \in 1 .. n : IsLoop(cs[j]) /\ b = cs[j].locals.merge
    BY <1>1, <1>2 DEF CallOK
  <2> QED BY <2>1
<1>4. b \in ReservedBy(cs[j])
  BY <1>3 DEF ReservedBy
<1>5. b \in Reserved(cs)
  BY <1>4 DEF Reserved
<1>6. 1 \notin Reserved(cs)
  <2>1. At(list, 1, 1) /\ AllListed(Reserved(cs), Len(ir), list)
    BY <1>1 DEF Layout
  <2>2. 1 \in 1 .. Len(list)
    BY <2>1 DEF At
  <2> QED BY <1>1, <2>1, <2>2 DEF AllListed
<1>7. b \in 1 .. Len(ir) /\ b # 1
  BY <1>1, <1>5, <1>6
<1> HIDE DEF b
<1>8. b \in 2 .. Len(ir)
  BY <1>1, <1>7
<1> QED BY <1>5, <1>8 DEF b, n

\* The blocks and edges of a Break.
LEMMA BreakBlocks ==
    ASSUME NEW ir, Blocks(ir), NEW i1, NEW made, Grown(i1, made, 1), Blocks(i1),
           Len(i1) = Len(ir), NEW a \in 1 .. Len(ir), Succs(i1, a) = {}, NEW b \in 1 .. Len(ir)
    PROVE  LET r == Len(ir) + 1
               edges == <<<<a, b>>, <<a, r>>>>
               i2 == AddBranches(made, edges)
           IN  /\ CanBranch(made, edges)
               /\ Blocks(i2) /\ Len(i2) = r /\ r \in Nat
               /\ \A x \in 1 .. Len(ir) : /\ i2[x].body = i1[x].body
                                          /\ Succs(i2, x) = IF x = a THEN {b, r} ELSE Succs(i1, x)
               /\ i2[r].body = <<>> /\ Succs(i2, r) = {}
<1> DEFINE r == Len(ir) + 1
           edges == <<<<a, b>>, <<a, r>>>>
           i2 == AddBranches(made, edges)
<1>1. /\ Len(ir) \in Nat /\ r \in Nat
  BY NumberedPool DEF Blocks
<1>2. TwoEdgesAre(edges, a, b, a, r)
  BY TwoEdges
<1>3. /\ Len(edges) = 2 /\ DOMAIN edges = 1 .. 2
      /\ edges[1][1] = a /\ edges[2][1] = a /\ edges[1][2] = b /\ edges[2][2] = r
      /\ \A i \in 1 .. 2 : i = 1 \/ i = 2
  OBVIOUS
<1>4. \A x : Targets(edges, x) = (IF x = a THEN {b} ELSE {}) \cup (IF x = a THEN {r} ELSE {})
  <2> HIDE DEF edges, r, i2
  <2> SUFFICES ASSUME NEW x
               PROVE  Targets(edges, x) = (IF x = a THEN {b} ELSE {}) \cup (IF x = a THEN {r} ELSE {})
    OBVIOUS
  <2> QED BY ONLY <1>2, TwoTargets
<1> HIDE DEF edges
<1>5. /\ a \in 1 .. r /\ b \in 1 .. r /\ b # r /\ a # r /\ r \in 1 .. r /\ a \in Nat /\ b \in Nat
      /\ \A x \in 1 .. Len(ir) : x \in 1 .. r
      /\ \A x \in Len(ir) + 1 .. Len(ir) + 1 : x = r
      /\ r \in Len(ir) + 1 .. Len(ir) + 1
  BY <1>1
<1>6. /\ Blocks(made) /\ Len(made) = r
      /\ \A x \in 1 .. Len(ir) : made[x].body = i1[x].body /\ Succs(made, x) = Succs(i1, x)
      /\ made[r].body = <<>> /\ Succs(made, r) = {}
  BY <1>5 DEF Grown
<1> HIDE DEF r
<1>7. \A i \in 1 .. Len(edges) : edges[i][1] = a /\ edges[i][2] \in {b, r}
  BY <1>3
<1>8. EdgesAdded(made, i2, edges)
  <2>1. \A i \in 1 .. Len(edges) : edges[i][1] \in 1 .. Len(made) /\ edges[i][2] \in Nat
    BY <1>1, <1>5, <1>6, <1>7
  <2>2. Len(edges) \in Nat
    BY <1>3
  <2> QED BY <1>6, <2>1, <2>2, AddBranchesDoes
<1> HIDE DEF i2
<1>9. /\ Blocks(i2) /\ Len(i2) = r
      /\ \A x \in 1 .. r : /\ i2[x].body = made[x].body
                           /\ Succs(i2, x) = Succs(made, x) \cup Targets(edges, x)
  BY <1>6, <1>8 DEF EdgesAdded
<1>10. \A x \in 1 .. Len(ir) : /\ i2[x].body = i1[x].body
                               /\ Succs(i2, x) = IF x = a THEN {b, r} ELSE Succs(i1, x)
  BY <1>4, <1>5, <1>6, <1>9
<1>11. i2[r].body = <<>> /\ Succs(i2, r) = {}
  BY <1>4, <1>5, <1>6, <1>9
<1>12. CanBranch(made, edges)
  <2>1. \A i \in 1 .. Len(edges) : Succs(made, edges[i][1]) = {}
    BY <1>6, <1>7
  <2>2. \A i, j \in 1 .. Len(edges) :
           i # j => edges[i][1] # edges[j][1] \/ edges[i][2] # edges[j][2]
    BY <1>3, <1>5
  <2>3. \A i \in 1 .. Len(edges) : edges[i][1] \in 1 .. Len(made) /\ edges[i][2] \in Nat
    BY <1>1, <1>5, <1>6, <1>7
  <2>4. DOMAIN edges = 1 .. Len(edges)
    BY <1>3
  <2>5. Blocks(made)
    BY <1>6
  <2> QED BY ONLY <2>1, <2>2, <2>3, <2>4, <2>5, CanBranchIf
<1> QED BY <1>1, <1>9, <1>10, <1>11, <1>12 DEF r, edges, i2

\* The Break case of Visit.
LEMMA VisitBreakKeeps ==
    ASSUME IInv, cfg \in Cfgs, Opened(stmt), Passing, VisitBreak
    PROVE  IInv' /\ Opened(stmt') /\ Passing'
<1> DEFINE a == Ensured
           ir == EnsuredBlocks
           list == EnsuredList
           effects == ConditionRef(stmt[visited].cond)
           i1 == Emit(ir, a, effects)
           made == Emit(NewBlock(ir), a, effects)
           b == call.break
           r == Len(ir) + 1
           edges == <<<<a, b>>, <<a, r>>>>
           i2 == AddBranches(made, edges)
           node == [type |-> "Break", merge |-> b, skip |-> r]
           list2 == list \o <<node, BlockNode(r)>>
           cs1 == GoOn(a)
           cs2 == GoOn(r)
<1>1. Build(calls, irBlocks, syntax_list) /\ step = "done"
  BY DEF Passing
<1>2. a \in Nat
  BY <1>1, TheCallIs DEF Ensured
<1>3. GoneOn(cs1, a)
  BY <1>1, <1>2, GoOnIs
<1>4. ~AtEnd /\ stmt[visited].type = "Break" /\ KeepPass
  BY DEF VisitBreak, Visiting
<1>5. /\ visited \in DOMAIN stmt /\ Chain(stmt, visited) = {visited} \cup Chain(stmt, call.parent)
      /\ call.parent \in DOMAIN stmt /\ HasChildren(stmt, call.parent) /\ call.at \in Nat \ {0}
      /\ b = 0 => \A t \in Chain(stmt, call.parent) : stmt[t].type # "Loop"
  BY <1>4, VisitedWalk
<1>6. b # 0
  <2>1. BreaksInLoops(stmt)
    BY DEF IInv, TreeOK, PoolOK
  <2>2. PICK t \in Chain(stmt, visited) : stmt[t].type = "Loop"
    BY <1>4, <1>5, <2>1 DEF BreaksInLoops
  <2>3. t \in Chain(stmt, call.parent)
    BY <1>4, <1>5, <2>2
  <2> QED BY <1>5, <2>2, <2>3
<1>7. /\ Build(cs1, ir, list) /\ a # 0 /\ a \in 1 .. Len(ir)
      /\ cs1[Len(cs1)].current = a /\ Blocks(ir) /\ Numbered(list) /\ Len(ir) \in Nat
      /\ Len(list) \in Nat
  BY <1>1, <1>3, EnsureDoes
<1>8. /\ Resumes(calls, cs1) /\ Len(cs1) = Len(calls)
  BY <1>3 DEF GoneOn
<1>9. cs1[Len(cs1)].break = b
  <2>1. Len(calls) \in 1 .. Len(calls) /\ call = calls[Len(calls)]
    BY <1>1, TheCallIs
  <2> QED BY <1>8, <2>1 DEF Resumes
<1>10. b \in Reserved(cs1) /\ b \in 2 .. Len(ir)
  <2>1. Len(list) # 0
    BY <1>7, OpenBlock
  <2> QED BY <1>6, <1>7, <1>9, <2>1, BreakBlock
<1>11. BodySet(ir, i1, a, ir[a].body \o effects) /\ Grown(i1, made, 1)
  BY <1>7, IfBlocks
<1>12. /\ irBlocks' = IF CanBranch(made, edges) THEN i2 ELSE irBlocks'
       /\ CanBranch(made, edges) => /\ stmt' = StmtsMerged(visited) /\ irBlocks' = i2
                                    /\ syntax_list' = list2 /\ calls' = cs2 /\ ended' = ended
  BY <1>6 DEF VisitBreak
<1> HIDE DEF cs1, cs2, a, ir, list, effects, i1, made, b
<1>13. Build(cs1, i1, list)
  BY <1>7, <1>11, BuildWrites
<1>14. Succs(i1, a) = {} /\ Blocks(i1) /\ Len(i1) = Len(ir)
  <2>1. Blocks(i1) /\ Len(i1) = Len(ir)
    BY <1>11 DEF BodySet
  <2> QED BY <1>7, <1>13, <2>1, OpenBlock
<1>15. b \in 1 .. Len(ir)
  BY <1>7, <1>10
<1>16. /\ CanBranch(made, edges)
       /\ Blocks(i2) /\ Len(i2) = r /\ r \in Nat
       /\ \A x \in 1 .. Len(ir) : /\ i2[x].body = i1[x].body
                                  /\ Succs(i2, x) = IF x = a THEN {b, r} ELSE Succs(i1, x)
       /\ i2[r].body = <<>> /\ Succs(i2, r) = {}
  <2>1. /\ Blocks(ir) /\ Grown(i1, made, 1) /\ a \in 1 .. Len(ir)
    BY <1>7, <1>11
  <2> QED BY ONLY <1>14, <1>15, <2>1, BreakBlocks
<1>17. /\ stmt' = StmtsMerged(visited) /\ irBlocks' = i2
       /\ syntax_list' = list2 /\ calls' = cs2 /\ ended' = ended /\ step' = step
  BY <1>4, <1>12, <1>16 DEF KeepPass
<1>18. GoneOn(cs2, r)
  BY <1>1, <1>16, GoOnIs DEF cs2
<1> HIDE DEF edges, i2
<1>19. /\ Extends(list, list2) /\ Len(list2) = Len(list) + 2
       /\ list2[Len(list) + 1] = node /\ list2[Len(list) + 2] = BlockNode(r)
  BY <1>7, TwoMore
<1>20. node.type # "Block" /\ NodeGoesTo(node) = {b, r}
  BY NodeGoes
<1> HIDE DEF list2, node
<1>21. Resumes(calls, cs2) /\ cs2[Len(calls)].current = r /\ Resumes(cs1, cs2)
       /\ Len(cs2) = Len(calls)
  BY <1>8, <1>18, ResumesBoth DEF GoneOn
<1>22. Build(cs2, i2, list2)
  <2>1. \A x \in 1 .. Len(i1) :
           Succs(i2, x) = IF x = cs1[Len(cs1)].current THEN {b, r} ELSE Succs(i1, x)
    BY <1>7, <1>14, <1>16
  <2>2. /\ Blocks(i2) /\ Len(i2) = Len(i1) + 1
        /\ \A x \in 1 .. Len(i1) : i2[x].body = i1[x].body
        /\ i2[Len(i1) + 1].body = <<>> /\ Succs(i2, Len(i1) + 1) = {}
    BY <1>14, <1>16
  <2>3. {b, r} \in SUBSET (2 .. Len(i1) + 1)
    <3>1. Len(ir) >= 1
      BY <1>7
    <3> QED BY <1>7, <1>10, <1>14, <3>1
  <2>4. /\ Len(list2) \in {Len(list) + 1, Len(list) + 2}
        /\ list2[Len(list2)] = BlockNode(Len(i1) + 1)
        /\ Len(list2) = Len(list) + 2 =>
              cs1[Len(cs1)].current # 0 /\ list2[Len(list) + 1].type # "Block"
        /\ cs1[Len(cs1)].current # 0 => {b, r} = NodeGoesTo(list2[Len(list) + 1])
    BY <1>7, <1>14, <1>19, <1>20
  <2>5. \A t \in {b, r} : t \in Reserved(cs1) \/ t = Len(i1) + 1
    BY <1>10, <1>14
  <2>6. cs2[Len(cs1)].current = Len(i1) + 1
    BY <1>8, <1>14, <1>21
  <2> HIDE DEF r
  <2> QED BY <1>13, <1>19, <1>21, <2>1, <2>2, <2>3, <2>4, <2>5, <2>6, BuildOpens
<1>23. stmt[visited].type \in {"If", "Loop", "Break"}
  BY <1>4
<1>24. IInv' /\ Opened(stmt') /\ TreeKept(stmt, stmt')
  BY <1>1, <1>4, <1>5, <1>17, <1>23, StmtsMergedKeeps
<1>25. Walks(stmt', cs2)
  BY <1>18, <1>24, GoneOnWalks
<1>26. cs2[Len(cs2)].current # 0
  BY <1>7, <1>21
<1>27. Passing'
  <2> HIDE DEF r
  <2> QED BY <1>17, <1>22, <1>25, <1>26, PassingOpen
<1> QED BY <1>24, <1>27

\* Two edges, one by one.
LEMMA TwoEdgesMean ==
    ASSUME NEW edges, NEW a, NEW b, NEW c, NEW d, TwoEdgesAre(edges, a, b, c, d)
    PROVE  /\ Len(edges) = 2 /\ DOMAIN edges = 1 .. 2
           /\ edges[1][1] = a /\ edges[1][2] = b /\ edges[2][1] = c /\ edges[2][2] = d
           /\ \A i \in 1 .. 2 : i = 1 \/ i = 2
<1>1. /\ <<a, c>>[1] = a /\ <<a, c>>[2] = c /\ <<b, d>>[1] = b /\ <<b, d>>[2] = d
      /\ 1 \in 1 .. 2 /\ 2 \in 1 .. 2 /\ \A i \in 1 .. 2 : i = 1 \/ i = 2
  OBVIOUS
<1> QED BY <1>1 DEF TwoEdgesAre, EdgesAre

\* Three edges, one by one.
LEMMA ThreeEdgesMean ==
    ASSUME NEW edges, NEW a, NEW b, NEW c, NEW d, NEW e, NEW f,
           ThreeEdgesAre(edges, a, b, c, d, e, f)
    PROVE  /\ Len(edges) = 3 /\ DOMAIN edges = 1 .. 3
           /\ edges[1][1] = a /\ edges[1][2] = b /\ edges[2][1] = c /\ edges[2][2] = d
           /\ edges[3][1] = e /\ edges[3][2] = f
           /\ \A i \in 1 .. 3 : i = 1 \/ i = 2 \/ i = 3
<1> DEFINE p == <<a, c, e>>
           q == <<b, d, f>>
<1>1. /\ p[1] = a /\ p[2] = c /\ p[3] = e /\ q[1] = b /\ q[2] = d /\ q[3] = f
      /\ 1 \in 1 .. 3 /\ 2 \in 1 .. 3 /\ 3 \in 1 .. 3
      /\ \A i \in 1 .. 3 : i = 1 \/ i = 2 \/ i = 3
  OBVIOUS
<1>2. EdgesAre(edges, 3, p, q)
  BY DEF ThreeEdgesAre
<1> HIDE DEF p, q
<1> QED BY <1>1, <1>2 DEF EdgesAre

\* Four edges, one by one.
LEMMA FourEdgesMean ==
    ASSUME NEW edges, NEW a, NEW b, NEW c, NEW d, NEW e, NEW f, NEW g, NEW h,
           FourEdgesAre(edges, a, b, c, d, e, f, g, h)
    PROVE  /\ Len(edges) = 4 /\ DOMAIN edges = 1 .. 4
           /\ edges[1][1] = a /\ edges[1][2] = b /\ edges[2][1] = c /\ edges[2][2] = d
           /\ edges[3][1] = e /\ edges[3][2] = f /\ edges[4][1] = g /\ edges[4][2] = h
           /\ \A i \in 1 .. 4 : i = 1 \/ i = 2 \/ i = 3 \/ i = 4
<1> DEFINE p == <<a, c, e, g>>
           q == <<b, d, f, h>>
<1>1. /\ p[1] = a /\ p[2] = c /\ p[3] = e /\ p[4] = g
      /\ q[1] = b /\ q[2] = d /\ q[3] = f /\ q[4] = h
      /\ 1 \in 1 .. 4 /\ 2 \in 1 .. 4 /\ 3 \in 1 .. 4 /\ 4 \in 1 .. 4
      /\ \A i \in 1 .. 4 : i = 1 \/ i = 2 \/ i = 3 \/ i = 4
  OBVIOUS
<1>2. EdgesAre(edges, 4, p, q)
  BY DEF FourEdgesAre
<1> HIDE DEF p, q
<1> QED BY <1>1, <1>2 DEF EdgesAre

\* The edges that lead from blocks that lead nowhere yet, each another.
NewEdges(ir, edges) ==
    /\ Len(edges) \in Nat /\ DOMAIN edges = 1 .. Len(edges)
    /\ \A i \in 1 .. Len(edges) : /\ edges[i][1] \in 1 .. Len(ir) /\ edges[i][2] \in Nat
                                  /\ Succs(ir, edges[i][1]) = {}
    /\ \A i, j \in 1 .. Len(edges) :
          i # j => edges[i][1] # edges[j][1] \/ edges[i][2] # edges[j][2]

\* AddBranch does not throw on them.
LEMMA NewEdgesDo ==
    ASSUME NEW ir, Blocks(ir), NEW edges, NewEdges(ir, edges)
    PROVE  CanBranch(ir, edges) /\ EdgesAdded(ir, AddBranches(ir, edges), edges)
<1>1. /\ Len(edges) \in Nat /\ DOMAIN edges = 1 .. Len(edges)
      /\ \A i \in 1 .. Len(edges) : edges[i][1] \in 1 .. Len(ir) /\ edges[i][2] \in Nat
      /\ \A i \in 1 .. Len(edges) : Succs(ir, edges[i][1]) = {}
      /\ \A i, j \in 1 .. Len(edges) :
            i # j => edges[i][1] # edges[j][1] \/ edges[i][2] # edges[j][2]
  BY DEF NewEdges
<1>2. CanBranch(ir, edges)
  BY <1>1, CanBranchIf
<1>3. EdgesAdded(ir, AddBranches(ir, edges), edges)
  BY <1>1, AddBranchesDoes
<1> QED BY <1>2, <1>3

\* The edges EndIf adds.
EndIfEdges(cur, h, then, merge) ==
    (IF cur # 0 THEN <<<<cur, merge>>>> ELSE <<>>) \o <<<<h, then>>, <<h, merge>>>>

\* What they lead from and to: the open block and the header, that lead nowhere yet.
EndsIf(ir, h, cur, then, merge) ==
    /\ Blocks(ir) /\ h \in 1 .. Len(ir) /\ cur \in 0 .. Len(ir) /\ h # cur
    /\ Succs(ir, h) = {} /\ (cur # 0 => Succs(ir, cur) = {})
    /\ then \in Nat /\ merge \in Nat /\ then # merge

\* i2 is ir with these edges.
IfEnded(ir, i2, h, cur, then, merge) ==
    /\ Blocks(i2) /\ Len(i2) = Len(ir)
    /\ \A x \in 1 .. Len(ir) :
          /\ i2[x].body = ir[x].body
          /\ Succs(i2, x) = IF x = h THEN {then, merge}
                            ELSE IF x = cur THEN {merge} ELSE Succs(ir, x)

\* EndIf adds its edges, and none of them is there.
LEMMA IfEndBlocks ==
    ASSUME NEW ir, NEW h, NEW cur, NEW then, NEW merge, EndsIf(ir, h, cur, then, merge)
    PROVE  LET edges == EndIfEdges(cur, h, then, merge)
           IN  /\ CanBranch(ir, edges)
               /\ IfEnded(ir, AddBranches(ir, edges), h, cur, then, merge)
<1> DEFINE edges == EndIfEdges(cur, h, then, merge)
           i2 == AddBranches(ir, edges)
<1>0. /\ Blocks(ir) /\ h \in 1 .. Len(ir) /\ cur \in 0 .. Len(ir) /\ h # cur
      /\ Succs(ir, h) = {} /\ (cur # 0 => Succs(ir, cur) = {})
      /\ then \in Nat /\ merge \in Nat /\ then # merge
  BY DEF EndsIf
<1>1. Len(ir) \in Nat
  BY <1>0, NumberedPool DEF Blocks
<1>2. CASE cur = 0
  <2> HIDE DEF i2
  <2>1. TwoEdgesAre(edges, h, then, h, merge)
    <3>1. edges = <<>> \o <<<<h, then>>, <<h, merge>>>>
      BY <1>2 DEF EndIfEdges
    <3> HIDE DEF edges
    <3> QED BY <3>1, BehindFallthrough
  <2> HIDE DEF edges
  <2>2. /\ Len(edges) = 2 /\ DOMAIN edges = 1 .. 2
        /\ edges[1][1] = h /\ edges[1][2] = then /\ edges[2][1] = h /\ edges[2][2] = merge
        /\ \A i \in 1 .. 2 : i = 1 \/ i = 2
    BY ONLY <2>1, TwoEdgesMean
  <2>3. \A x : Targets(edges, x) = (IF x = h THEN {then} ELSE {}) \cup (IF x = h THEN {merge} ELSE {})
    BY ONLY <2>1, TwoTargets
  <2>4. NewEdges(ir, edges)
    BY <1>0, <2>2 DEF NewEdges
  <2>5. CanBranch(ir, edges) /\ EdgesAdded(ir, i2, edges)
    BY <2>4, <1>0, NewEdgesDo DEF i2
  <2>6. \A x \in 1 .. Len(ir) : x # cur
    BY <1>2
  <2>7. \A x \in 1 .. Len(ir) :
           Succs(i2, x) = IF x = h THEN {then, merge}
                          ELSE IF x = cur THEN {merge} ELSE Succs(ir, x)
    BY <1>0, <2>3, <2>5, <2>6 DEF EdgesAdded
  <2>8. IfEnded(ir, i2, h, cur, then, merge)
    BY <2>5, <2>7 DEF EdgesAdded, IfEnded
  <2> QED BY <2>5, <2>8 DEF i2, edges
<1>3. CASE cur # 0
  <2> HIDE DEF i2
  <2>1. ThreeEdgesAre(edges, cur, merge, h, then, h, merge)
    <3>1. edges = <<<<cur, merge>>>> \o <<<<h, then>>, <<h, merge>>>>
      BY <1>3 DEF EndIfEdges
    <3> HIDE DEF edges
    <3> QED BY <3>1, BehindFallthrough
  <2> HIDE DEF edges
  <2>2. /\ Len(edges) = 3 /\ DOMAIN edges = 1 .. 3
        /\ edges[1][1] = cur /\ edges[1][2] = merge /\ edges[2][1] = h /\ edges[2][2] = then
        /\ edges[3][1] = h /\ edges[3][2] = merge
        /\ \A i \in 1 .. 3 : i = 1 \/ i = 2 \/ i = 3
    BY ONLY <2>1, ThreeEdgesMean
  <2>3. \A x : Targets(edges, x) = ((IF x = cur THEN {merge} ELSE {})
                                    \cup (IF x = h THEN {then} ELSE {}))
                                    \cup (IF x = h THEN {merge} ELSE {})
    BY ONLY <2>1, ThreeTargets
  <2>4. cur \in 1 .. Len(ir)
    BY <1>0, <1>1, <1>3
  <2>5. NewEdges(ir, edges)
    <3>1. \A i \in 1 .. Len(edges) : /\ edges[i][1] \in 1 .. Len(ir) /\ edges[i][2] \in Nat
                                     /\ Succs(ir, edges[i][1]) = {}
      BY <1>0, <1>3, <2>2, <2>4
    <3>2. \A i, j \in 1 .. Len(edges) :
             i # j => edges[i][1] # edges[j][1] \/ edges[i][2] # edges[j][2]
      BY <1>0, <2>2
    <3> QED BY <2>2, <3>1, <3>2 DEF NewEdges
  <2>6. CanBranch(ir, edges) /\ EdgesAdded(ir, i2, edges)
    BY <2>5, <1>0, NewEdgesDo DEF i2
  <2>7. ASSUME NEW x \in 1 .. Len(ir)
        PROVE  Succs(i2, x) = IF x = h THEN {then, merge}
                              ELSE IF x = cur THEN {merge} ELSE Succs(ir, x)
    <3>1. Succs(i2, x) = Succs(ir, x) \cup Targets(edges, x)
      BY <2>6 DEF EdgesAdded
    <3>2. CASE x = h
      BY <1>0, <2>3, <3>1, <3>2
    <3>3. CASE x = cur
      BY <1>0, <1>3, <2>3, <3>1, <3>3
    <3>4. CASE x # h /\ x # cur
      BY <2>3, <3>1, <3>4
    <3> QED BY <3>2, <3>3, <3>4
  <2>8. IfEnded(ir, i2, h, cur, then, merge)
    BY <2>6, <2>7 DEF EdgesAdded, IfEnded
  <2> QED BY <2>6, <2>8 DEF i2, edges
<1> QED BY <1>2, <1>3 DEF i2, edges

\* At the end of an If or a Loop a block follows its node.
LEMMA EndOfCall ==
    ASSUME IInv, Opened(stmt), Passing, AtEnd, stmt[call.parent].type \in {"If", "Loop"}
    PROVE  /\ Len(calls) # 1
           /\ call.locals.node < Len(syntax_list)
           /\ IsLoop(call) <=> stmt[call.parent].type = "Loop"
           /\ IsLoop(call) => call.locals.header # 1
<1>1. /\ Build(calls, irBlocks, syntax_list) /\ OnlyLabels(stmt, calls, syntax_list)
  BY DEF Passing
<1>2. /\ call = calls[Len(calls)] /\ call.at \in Nat \ {0} /\ WalkOK(stmt, calls, Len(calls))
      /\ call.parent \in DOMAIN stmt
      /\ Children(stmt, call.parent) = stmt[call.parent].children
  BY WalkedList
<1> DEFINE p == call.parent
           body == Children(stmt, p)
<1>3. p # Root /\ body \in Seq(DOMAIN stmt)
  BY <1>2 DEF IInv, TreeOK, PoolOK, Fields
<1>4. Len(calls) # 1
  BY <1>2, <1>3 DEF WalkOK
<1>5. /\ IsLoop(call) <=> stmt[p].type = "Loop"
      /\ IsLoop(call) => call.locals.header # 1
  BY <1>2, <1>4 DEF WalkOK
<1>6. Opens(stmt, body)
  <2>1. WellOpened(stmt, p)
    BY <1>2 DEF Opened
  <2> QED BY <2>1 DEF WellOpened
<1>7. call.at > Len(body)
  BY <1>2 DEF AtEnd
<1>8. Len(syntax_list) \in Nat /\ call.locals.node \in Nat /\ Len(body) \in Nat
  <2>1. call \in CallRecords /\ Len(syntax_list) \in Nat
    BY <1>1, TheCallIs
  <2>2. call.locals \in [header : Nat, continue : Nat, merge : Nat, node : Nat]
    BY <2>1 DEF CallRecords
  <2> QED BY <1>3, <2>1, <2>2, LenProperties
<1>9. ~(call.locals.node >= Len(syntax_list))
  <2> SUFFICES ASSUME call.locals.node >= Len(syntax_list) PROVE FALSE
    OBVIOUS
  <2>1. \A j \in 1 .. Len(body) : j < call.at => stmt[body[j]].type = "Label"
    BY <1>1, <1>2 DEF OnlyLabels
  <2>2. PICK j \in 1 .. Len(body) : stmt[body[j]].type \notin {"Label", "Goto"}
    BY <1>6 DEF Opens
  <2>3. j < call.at
    <3> HIDE DEF body
    <3> QED BY <1>2, <1>7, <1>8
  <2> QED BY <2>1, <2>2, <2>3
<1>10. call.locals.node < Len(syntax_list)
  BY <1>8, <1>9
<1> QED BY <1>4, <1>5, <1>10

\* Three nodes more.
LEMMA ThreeMore ==
    ASSUME NEW list, Numbered(list), NEW x, NEW y, NEW z
    PROVE  /\ Extends(list, list \o <<x, y, z>>) /\ Len(list \o <<x, y, z>>) = Len(list) + 3
           /\ (list \o <<x, y, z>>)[Len(list) + 1] = x
           /\ (list \o <<x, y, z>>)[Len(list) + 2] = y
           /\ (list \o <<x, y, z>>)[Len(list) + 3] = z
<1>1. PICK A : list \in Seq(A)
  BY DEF Numbered
<1> DEFINE D == A \cup {x, y, z}
<1>2. list \in Seq(D) /\ <<x, y, z>> \in Seq(D) /\ Len(<<x, y, z>>) = 3
  <2>1. A \subseteq D /\ x \in D /\ y \in D /\ z \in D
    OBVIOUS
  <2> HIDE DEF D
  <2>2. <<x, y, z>> \in Seq(D)
    BY <2>1
  <2> QED BY <1>1, <2>1, <2>2, ListsGrow
<1> HIDE DEF D
<1>3. /\ list \o <<x, y, z>> \in Seq(D) /\ Len(list) \in Nat
      /\ Len(list \o <<x, y, z>>) = Len(list) + 3
      /\ \A i \in 1 .. Len(list) : (list \o <<x, y, z>>)[i] = list[i]
      /\ \A i \in 1 .. 3 : (list \o <<x, y, z>>)[Len(list) + i] = <<x, y, z>>[i]
  BY <1>2, JoinedAt
<1>4. /\ (list \o <<x, y, z>>)[Len(list) + 1] = x
      /\ (list \o <<x, y, z>>)[Len(list) + 2] = y
      /\ (list \o <<x, y, z>>)[Len(list) + 3] = z
  BY <1>3
<1> QED BY <1>3, <1>4 DEF Extends, Numbered

\* A node of the list is filled in.
LEMMA NodeFilled ==
    ASSUME NEW list, Numbered(list), NEW k \in 1 .. Len(list), NEW node
    PROVE  LET list1 == [list EXCEPT ![k] = node]
           IN  /\ Numbered(list1) /\ Len(list1) = Len(list) /\ list1[k] = node
               /\ \A i \in 1 .. Len(list) : i # k => list1[i] = list[i]
<1> DEFINE list2 == [list EXCEPT ![k] = node]
<1>1. list2 = [list EXCEPT ![k] = node]
  OBVIOUS
<1>2. Len(list) \in Nat /\ DOMAIN list = 1 .. Len(list)
  BY NumberedPool
<1>3. list2 = [i \in 1 .. Len(list) |-> IF i = k THEN node ELSE list[i]]
  BY <1>1, <1>2
<1> HIDE DEF list2
<1>4. list2[k] = node /\ \A i \in 1 .. Len(list) : i # k => list2[i] = list[i]
  BY <1>3
<1>5. list2 = [i \in 1 .. Len(list) |-> list2[i]]
  BY <1>3
<1>6. Numbered(list2) /\ Len(list2) = Len(list)
  BY <1>2, <1>5, NumberPool, ZenonT(60)
<1> QED BY <1>4, <1>6 DEF list2

\* What EndIf leaves in the list.
LEMMA EndIfNodes ==
    ASSUME NEW list, Numbered(list), NEW k \in 1 .. Len(list), NEW then, NEW merge
    PROVE  LET node == [type |-> "If", body |-> then, merge |-> merge]
           IN  IfNodes(list, [list EXCEPT ![k] = node]
                               \o <<[type |-> "EndIf", merge |-> merge], BlockNode(merge)>>,
                       k, node, then, merge)
<1> DEFINE node == [type |-> "If", body |-> then, merge |-> merge]
           last == [type |-> "EndIf", merge |-> merge]
           list1 == [list EXCEPT ![k] = node]
           list2 == list1 \o <<last, BlockNode(merge)>>
<1>1. node.type # "Block" /\ NodeGoesTo(node) = {then, merge}
  BY NodeGoes
<1>2. last.type # "Block" /\ NodeGoesTo(last) = {merge}
  BY NodeGoes
<1> HIDE DEF node, last
<1>3. /\ Numbered(list1) /\ Len(list1) = Len(list) /\ list1[k] = node
      /\ \A i \in 1 .. Len(list) : i # k => list1[i] = list[i]
  BY NodeFilled
<1> HIDE DEF list1
<1>4. /\ Extends(list1, list2) /\ Len(list2) = Len(list1) + 2
      /\ list2[Len(list1) + 1] = last /\ list2[Len(list1) + 2] = BlockNode(merge)
  BY <1>3, TwoMore
<1> HIDE DEF list2
<1>5. FilledAt(list, list2, k, node)
  BY <1>3, <1>4 DEF FilledAt, Extends
<1>6. IfNodes(list, list2, k, node, then, merge)
  BY <1>1, <1>2, <1>3, <1>4, <1>5 DEF IfNodes
<1> QED BY <1>6 DEF list2, list1, last, node

\* What EndLoop leaves in the list.
LEMMA EndLoopNodes ==
    ASSUME NEW list, Numbered(list), NEW k \in 1 .. Len(list), NEW body, NEW h, NEW cont,
           NEW merge
    PROVE  LET node == [type |-> "Loop", body |-> body, continue |-> cont, merge |-> merge]
           IN  LoopNodes(list, [list EXCEPT ![k] = node]
                                 \o <<BlockNode(cont),
                                      [type |-> "Repeat", header |-> h, merge |-> merge],
                                      BlockNode(merge)>>,
                         k, node, body, h, cont, merge)
<1> DEFINE node == [type |-> "Loop", body |-> body, continue |-> cont, merge |-> merge]
           last == [type |-> "Repeat", header |-> h, merge |-> merge]
           list1 == [list EXCEPT ![k] = node]
           list2 == list1 \o <<BlockNode(cont), last, BlockNode(merge)>>
<1>1. node.type # "Block" /\ NodeGoesTo(node) = {body}
  BY NodeGoes
<1>2. last.type = "Repeat" /\ last.header = h /\ NodeGoesTo(last) = {h, merge}
  BY NodeGoes
<1> HIDE DEF node, last
<1>3. /\ Numbered(list1) /\ Len(list1) = Len(list) /\ list1[k] = node
      /\ \A i \in 1 .. Len(list) : i # k => list1[i] = list[i]
  BY NodeFilled
<1> HIDE DEF list1
<1>4. /\ Extends(list1, list2) /\ Len(list2) = Len(list1) + 3
      /\ list2[Len(list1) + 1] = BlockNode(cont) /\ list2[Len(list1) + 2] = last
      /\ list2[Len(list1) + 3] = BlockNode(merge)
  BY <1>3, ThreeMore
<1> HIDE DEF list2
<1>5. FilledAt(list, list2, k, node)
  BY <1>3, <1>4 DEF FilledAt, Extends
<1>6. LoopNodes(list, list2, k, node, body, h, cont, merge)
  BY <1>1, <1>2, <1>3, <1>4, <1>5 DEF LoopNodes
<1> QED BY <1>6 DEF list2, list1, last, node

\* The rest of the If case, when its call of Visit has returned.
LEMMA EndIfKeeps ==
    ASSUME IInv, cfg \in Cfgs, Opened(stmt), Passing, EndIf
    PROVE  IInv' /\ Opened(stmt') /\ Passing'
<1> DEFINE cs == calls
           ir == irBlocks
           list == syntax_list
           cur == call.current
           k == call.locals.node
           merge == call.locals.merge
           h == Caller.current
           then == BodyBlock(calls, syntax_list)
           edges == EndIfEdges(cur, h, then, merge)
           i2 == AddBranches(ir, edges)
           node == [type |-> "If", body |-> then, merge |-> merge]
           list2 == [list EXCEPT ![k] = node]
                      \o <<[type |-> "EndIf", merge |-> merge], BlockNode(merge)>>
           cs2 == ReturnToCaller(merge)
<1>1. Build(calls, irBlocks, syntax_list) /\ Walks(stmt, calls) /\ step = "done"
  BY DEF Passing
<1>2. AtEnd /\ stmt[call.parent].type = "If" /\ KeepPass
  BY DEF EndIf, Ending
<1>3. Len(calls) # 1 /\ k < Len(list) /\ ~IsLoop(call)
  BY <1>2, EndOfCall
<1>4. /\ calls \in Seq(CallRecords) /\ Len(calls) # 0 /\ Len(calls) \in Nat /\ calls # <<>>
      /\ call = calls[Len(calls)] /\ call \in CallRecords
      /\ cur \in 0 .. Len(ir) /\ Len(ir) \in Nat /\ Len(list) \in Nat
  BY <1>1, TheCallIs
<1>5. /\ k \in 2 .. Len(list) /\ h \in 1 .. Len(ir) /\ Succs(ir, h) = {} /\ h # cur
      /\ k + 1 \in 1 .. Len(list) /\ then \in 2 .. Len(ir) /\ then \notin Reserved(calls)
      /\ merge \in 2 .. Len(ir) /\ merge \in Reserved(calls)
      /\ call.fallthrough = merge /\ HeadBlock(calls) = h
      /\ then = list[k + 1].block
  BY <1>1, <1>3, <1>4, TheCall DEF HeadBlock, Caller, BodyBlock
<1>6. cur # 0 => Succs(ir, cur) = {}
  BY <1>1, <1>4, OpenBlock
<1>7. Blocks(ir) /\ Numbered(list)
  BY <1>1, BuildMeans
<1>8. merge # 0 /\ merge \in Nat /\ then \in Nat /\ then # merge /\ k \in 1 .. Len(list)
  BY <1>4, <1>5, SMTT(60)
<1>9. BodyExists /\ Fallthrough = (IF cur # 0 THEN <<<<cur, merge>>>> ELSE <<>>) /\ list[BodyNode].block = then
  BY <1>3, <1>4, <1>5, <1>8 DEF BodyExists, BodyNode, Fallthrough
<1>10. CanBranch(ir, edges) =>
          /\ irBlocks' = i2 /\ syntax_list' = list2 /\ calls' = cs2
          /\ stmt' = stmt /\ ended' = ended
  BY <1>9 DEF EndIf, EndIfEdges
<1> HIDE DEF then, merge, h, cur, k
<1>11. CanBranch(ir, edges) /\ IfEnded(ir, i2, h, cur, then, merge)
  <2>1. EndsIf(ir, h, cur, then, merge)
    BY <1>4, <1>5, <1>6, <1>7, <1>8 DEF EndsIf
  <2> QED BY <2>1, IfEndBlocks
<1>12. /\ irBlocks' = i2 /\ syntax_list' = list2 /\ calls' = cs2
       /\ stmt' = stmt /\ ended' = ended /\ step' = step
  BY <1>2, <1>10, <1>11 DEF KeepPass
<1> HIDE DEF i2, edges
<1>13. IfNodes(list, list2, k, node, then, merge)
  BY <1>7, <1>8, EndIfNodes
<1> HIDE DEF list2, node
<1>14. /\ Returns(calls, cs2) /\ Going(calls, cs2)
       /\ cs2 \in Seq(CallRecords) /\ Len(cs2) = Len(calls) - 1
       /\ cs2[Len(calls) - 1].current = merge
  BY <1>3, <1>4, <1>8, ReturnDoes
<1> HIDE DEF cs2
<1>15. Build(cs2, i2, list2)
  <2>1. /\ Len(calls) # 1 /\ ~IsLoop(calls[Len(calls)])
        /\ k = calls[Len(calls)].locals.node /\ k < Len(list)
        /\ merge = calls[Len(calls)].locals.merge /\ then = BodyBlock(calls, list)
    BY <1>3, <1>4 DEF k, merge, then
  <2>2. \A x \in 1 .. Len(ir) : i2[x].body = ir[x].body
    BY <1>11 DEF IfEnded
  <2>3. \A x \in 1 .. Len(ir) :
           Succs(i2, x) = IF x = HeadBlock(calls) THEN {then, merge}
                          ELSE IF x = calls[Len(calls)].current THEN {merge} ELSE Succs(ir, x)
    BY <1>4, <1>5, <1>11 DEF cur, IfEnded
  <2>4. Blocks(i2) /\ Len(i2) = Len(ir)
    BY <1>11 DEF IfEnded
  <2> QED BY ONLY <1>1, <1>13, <1>14, <2>1, <2>2, <2>3, <2>4, BuildReturnsFromIf
<1>16. Walks(stmt, cs2)
  BY <1>1, <1>4, <1>14, TreeStays, WalksKept
<1>17. cs2[Len(cs2)].current # 0
  BY <1>8, <1>14
<1>18. Passing'
  BY <1>12, <1>15, <1>16, <1>17, PassingOpen
<1>19. IInv' /\ Opened(stmt')
  <2>1. UNCHANGED vars
    BY <1>2, <1>12 DEF KeepPass, vars
  <2> QED BY <2>1, PassUnchanged
<1> QED BY <1>18, <1>19

\* The edges EndLoop adds.
EndLoopEdges(cur, h, body, cont, merge) ==
    (IF cur # 0 THEN <<<<cur, cont>>>> ELSE <<>>)
        \o <<<<h, body>>, <<cont, h>>, <<cont, merge>>>>

\* What they lead from and to: the open block, the header and the continue block, that
\* lead nowhere yet.
EndsLoop(ir, h, cur, body, cont, merge) ==
    /\ Blocks(ir) /\ h \in 1 .. Len(ir) /\ cont \in 1 .. Len(ir) /\ cur \in 0 .. Len(ir)
    /\ h # cur /\ cont # cur /\ h # cont /\ h # merge
    /\ Succs(ir, h) = {} /\ Succs(ir, cont) = {} /\ (cur # 0 => Succs(ir, cur) = {})
    /\ body \in Nat /\ merge \in Nat

\* i2 is ir with these edges.
LoopEnded(ir, i2, h, cur, body, cont, merge) ==
    /\ Blocks(i2) /\ Len(i2) = Len(ir)
    /\ \A x \in 1 .. Len(ir) :
          /\ i2[x].body = ir[x].body
          /\ Succs(i2, x) = IF x = h THEN {body}
                            ELSE IF x = cont THEN {h, merge}
                            ELSE IF x = cur THEN {cont} ELSE Succs(ir, x)

\* EndLoop adds its edges, and none of them is there.
LEMMA LoopEndBlocks ==
    ASSUME NEW ir, NEW h, NEW cur, NEW body, NEW cont, NEW merge,
           EndsLoop(ir, h, cur, body, cont, merge)
    PROVE  LET edges == EndLoopEdges(cur, h, body, cont, merge)
           IN  /\ CanBranch(ir, edges)
               /\ LoopEnded(ir, AddBranches(ir, edges), h, cur, body, cont, merge)
<1> DEFINE edges == EndLoopEdges(cur, h, body, cont, merge)
           i2 == AddBranches(ir, edges)
<1>0. /\ Blocks(ir) /\ h \in 1 .. Len(ir) /\ cont \in 1 .. Len(ir) /\ cur \in 0 .. Len(ir)
      /\ h # cur /\ cont # cur /\ h # cont /\ h # merge
      /\ Succs(ir, h) = {} /\ Succs(ir, cont) = {} /\ (cur # 0 => Succs(ir, cur) = {})
      /\ body \in Nat /\ merge \in Nat
  BY DEF EndsLoop
<1>1. Len(ir) \in Nat /\ h \in Nat /\ cont \in Nat
  BY <1>0, NumberedPool DEF Blocks
<1>2. CASE cur = 0
  <2> HIDE DEF i2
  <2>1. ThreeEdgesAre(edges, h, body, cont, h, cont, merge)
    <3>1. edges = <<>> \o <<<<h, body>>, <<cont, h>>, <<cont, merge>>>>
      BY <1>2 DEF EndLoopEdges
    <3> HIDE DEF edges
    <3> QED BY <3>1, BehindFallthrough
  <2> HIDE DEF edges
  <2>2. /\ Len(edges) = 3 /\ DOMAIN edges = 1 .. 3
        /\ edges[1][1] = h /\ edges[1][2] = body /\ edges[2][1] = cont /\ edges[2][2] = h
        /\ edges[3][1] = cont /\ edges[3][2] = merge
        /\ \A i \in 1 .. 3 : i = 1 \/ i = 2 \/ i = 3
    BY ONLY <2>1, ThreeEdgesMean
  <2>3. \A x : Targets(edges, x) = ((IF x = h THEN {body} ELSE {})
                                    \cup (IF x = cont THEN {h} ELSE {}))
                                    \cup (IF x = cont THEN {merge} ELSE {})
    BY ONLY <2>1, ThreeTargets
  <2>4. NewEdges(ir, edges)
    <3>1. \A i \in 1 .. Len(edges) : /\ edges[i][1] \in 1 .. Len(ir) /\ edges[i][2] \in Nat
                                     /\ Succs(ir, edges[i][1]) = {}
      BY <1>0, <1>1, <2>2
    <3>2. \A i, j \in 1 .. Len(edges) :
             i # j => edges[i][1] # edges[j][1] \/ edges[i][2] # edges[j][2]
      BY <1>0, <2>2
    <3> QED BY <2>2, <3>1, <3>2 DEF NewEdges
  <2>5. CanBranch(ir, edges) /\ EdgesAdded(ir, i2, edges)
    BY <1>0, <2>4, NewEdgesDo DEF i2
  <2>6. ASSUME NEW x \in 1 .. Len(ir)
        PROVE  Succs(i2, x) = IF x = h THEN {body}
                              ELSE IF x = cont THEN {h, merge}
                              ELSE IF x = cur THEN {cont} ELSE Succs(ir, x)
    <3>1. Succs(i2, x) = Succs(ir, x) \cup Targets(edges, x) /\ x # cur
      BY <1>2, <2>5 DEF EdgesAdded
    <3>2. CASE x = h
      BY <1>0, <2>3, <3>1, <3>2
    <3>3. CASE x = cont
      BY <1>0, <2>3, <3>1, <3>3
    <3>4. CASE x # h /\ x # cont
      BY <2>3, <3>1, <3>4
    <3> QED BY <3>2, <3>3, <3>4
  <2>7. LoopEnded(ir, i2, h, cur, body, cont, merge)
    BY <2>5, <2>6 DEF EdgesAdded, LoopEnded
  <2> QED BY <2>5, <2>7 DEF i2, edges
<1>3. CASE cur # 0
  <2> HIDE DEF i2
  <2>1. FourEdgesAre(edges, cur, cont, h, body, cont, h, cont, merge)
    <3>1. edges = <<<<cur, cont>>>> \o <<<<h, body>>, <<cont, h>>, <<cont, merge>>>>
      BY <1>3 DEF EndLoopEdges
    <3> HIDE DEF edges
    <3> QED BY <3>1, BehindFallthrough
  <2> HIDE DEF edges
  <2>2. /\ Len(edges) = 4 /\ DOMAIN edges = 1 .. 4
        /\ edges[1][1] = cur /\ edges[1][2] = cont /\ edges[2][1] = h /\ edges[2][2] = body
        /\ edges[3][1] = cont /\ edges[3][2] = h /\ edges[4][1] = cont /\ edges[4][2] = merge
        /\ \A i \in 1 .. 4 : i = 1 \/ i = 2 \/ i = 3 \/ i = 4
    BY ONLY <2>1, FourEdgesMean
  <2>3. \A x : Targets(edges, x) = (((IF x = cur THEN {cont} ELSE {})
                                     \cup (IF x = h THEN {body} ELSE {}))
                                     \cup (IF x = cont THEN {h} ELSE {}))
                                     \cup (IF x = cont THEN {merge} ELSE {})
    BY ONLY <2>1, FourTargets
  <2>4. cur \in 1 .. Len(ir)
    BY <1>0, <1>1, <1>3
  <2>5. NewEdges(ir, edges)
    <3>1. \A i \in 1 .. Len(edges) : /\ edges[i][1] \in 1 .. Len(ir) /\ edges[i][2] \in Nat
                                     /\ Succs(ir, edges[i][1]) = {}
      BY <1>0, <1>1, <1>3, <2>2, <2>4
    <3>2. \A i, j \in 1 .. Len(edges) :
             i # j => edges[i][1] # edges[j][1] \/ edges[i][2] # edges[j][2]
      BY <1>0, <2>2
    <3> QED BY <2>2, <3>1, <3>2 DEF NewEdges
  <2>6. CanBranch(ir, edges) /\ EdgesAdded(ir, i2, edges)
    BY <1>0, <2>5, NewEdgesDo DEF i2
  <2>7. ASSUME NEW x \in 1 .. Len(ir)
        PROVE  Succs(i2, x) = IF x = h THEN {body}
                              ELSE IF x = cont THEN {h, merge}
                              ELSE IF x = cur THEN {cont} ELSE Succs(ir, x)
    <3>1. Succs(i2, x) = Succs(ir, x) \cup Targets(edges, x)
      BY <2>6 DEF EdgesAdded
    <3>2. CASE x = h
      BY <1>0, <2>3, <3>1, <3>2
    <3>3. CASE x = cont
      BY <1>0, <2>3, <3>1, <3>3
    <3>4. CASE x = cur
      BY <1>0, <1>3, <2>3, <3>1, <3>4
    <3>5. CASE x # h /\ x # cont /\ x # cur
      BY <2>3, <3>1, <3>5
    <3> QED BY <3>2, <3>3, <3>4, <3>5
  <2>8. LoopEnded(ir, i2, h, cur, body, cont, merge)
    BY <2>6, <2>7 DEF EdgesAdded, LoopEnded
  <2> QED BY <2>6, <2>8 DEF i2, edges
<1> QED BY <1>2, <1>3 DEF i2, edges

\* The rest of the Loop case, when its call of Visit has returned.
LEMMA EndLoopKeeps ==
    ASSUME IInv, cfg \in Cfgs, Opened(stmt), Passing, EndLoop
    PROVE  IInv' /\ Opened(stmt') /\ Passing'
<1> DEFINE ir == irBlocks
           list == syntax_list
           cur == call.current
           k == call.locals.node
           merge == call.locals.merge
           cont == call.locals.continue
           h == call.locals.header
           body == BodyBlock(calls, syntax_list)
           effects == ConditionRef(stmt[call.parent].cond)
           i1 == Emit(ir, cont, effects)
           edges == EndLoopEdges(cur, h, body, cont, merge)
           i2 == AddBranches(i1, edges)
           node == [type |-> "Loop", body |-> body, continue |-> cont, merge |-> merge]
           list2 == [list EXCEPT ![k] = node]
                      \o <<BlockNode(cont),
                           [type |-> "Repeat", header |-> h, merge |-> merge],
                           BlockNode(merge)>>
           cs2 == ReturnToCaller(merge)
<1>1. Build(calls, irBlocks, syntax_list) /\ Walks(stmt, calls) /\ step = "done"
  BY DEF Passing
<1>2. AtEnd /\ stmt[call.parent].type = "Loop" /\ KeepPass
  BY DEF EndLoop, Ending
<1>3. Len(calls) # 1 /\ k < Len(list) /\ IsLoop(call) /\ h # 1
  BY <1>2, EndOfCall
<1>4. /\ calls \in Seq(CallRecords) /\ Len(calls) # 0 /\ Len(calls) \in Nat /\ calls # <<>>
      /\ call = calls[Len(calls)] /\ call \in CallRecords
      /\ cur \in 0 .. Len(ir) /\ Len(ir) \in Nat /\ Len(list) \in Nat
  BY <1>1, TheCallIs
<1>5. /\ k \in 2 .. Len(list) /\ h \in 1 .. Len(ir) /\ Succs(ir, h) = {} /\ h # cur
      /\ h \notin Reserved(calls)
      /\ k + 1 \in 1 .. Len(list) /\ body \in 2 .. Len(ir) /\ body \notin Reserved(calls)
      /\ merge \in 2 .. Len(ir) /\ merge \in Reserved(calls)
      /\ cont \in 2 .. Len(ir) /\ cont \in Reserved(calls) /\ cont # merge
      /\ call.fallthrough = cont /\ HeadBlock(calls) = h
      /\ body = list[k + 1].block /\ cur \notin Reserved(calls)
  BY <1>1, <1>3, <1>4, TheCall DEF HeadBlock, BodyBlock
<1>6. cur # 0 => Succs(ir, cur) = {}
  BY <1>1, <1>4, OpenBlock
<1>7. Blocks(ir) /\ Numbered(list) /\ ir[cont].body = <<>> /\ Succs(ir, cont) = {}
  BY <1>1, <1>5, BuildMeans
<1>8. /\ merge # 0 /\ merge \in Nat /\ body \in Nat /\ k \in 1 .. Len(list)
      /\ cont # 0 /\ cont \in 1 .. Len(ir)
  BY <1>4, <1>5, SMTT(60)
<1>9. /\ BodyExists /\ list[BodyNode].block = body
      /\ Fallthrough = (IF cur # 0 THEN <<<<cur, cont>>>> ELSE <<>>)
  BY <1>3, <1>4, <1>5, <1>8 DEF BodyExists, BodyNode, Fallthrough
<1>10. CanBranch(i1, edges) =>
          /\ irBlocks' = i2 /\ syntax_list' = list2 /\ calls' = cs2
          /\ stmt' = stmt /\ ended' = ended
  BY <1>9 DEF EndLoop, EndLoopEdges
<1>11. BodySet(ir, i1, cont, ir[cont].body \o effects)
  BY <1>7, <1>8, EmitDoes
<1>12. \A e \in ToSet(<<>> \o effects) : e[1] = "ConditionRef"
  <2> DEFINE ref == <<"ConditionRef", stmt[call.parent].cond>>
  <2>1. ref[1] = "ConditionRef"
    OBVIOUS
  <2>2. effects = <<ref>>
    BY DEF ConditionRef
  <2> HIDE DEF ref, effects
  <2>3. <<>> \o <<ref>> = <<ref>>
    OBVIOUS
  <2>4. ToSet(<<ref>>) = {ref}
    BY DEF ToSet
  <2> QED BY <2>1, <2>2, <2>3, <2>4
<1> HIDE DEF body, merge, cont, h, cur, k, effects, i1
<1>13. CanBranch(i1, edges) /\ LoopEnded(i1, i2, h, cur, body, cont, merge)
  <2>1. h # cont /\ h # merge /\ cont # cur
    BY <1>5
  <2>2. /\ Blocks(i1) /\ Len(i1) = Len(ir)
        /\ \A x \in 1 .. Len(ir) : Succs(i1, x) = Succs(ir, x)
    BY <1>11 DEF BodySet
  <2>3. cur # 0 => cur \in 1 .. Len(ir)
    BY <1>4
  <2>4. EndsLoop(i1, h, cur, body, cont, merge)
    BY <1>4, <1>5, <1>6, <1>7, <1>8, <2>1, <2>2, <2>3 DEF EndsLoop
  <2> QED BY <2>4, LoopEndBlocks
<1>14. /\ irBlocks' = i2 /\ syntax_list' = list2 /\ calls' = cs2
       /\ stmt' = stmt /\ ended' = ended /\ step' = step
  BY <1>2, <1>10, <1>13 DEF KeepPass
<1> HIDE DEF i2, edges
<1>15. LoopNodes(list, list2, k, node, body, h, cont, merge)
  BY <1>7, <1>8, EndLoopNodes
<1> HIDE DEF list2, node
<1>16. /\ Returns(calls, cs2) /\ Going(calls, cs2)
       /\ cs2 \in Seq(CallRecords) /\ Len(cs2) = Len(calls) - 1
       /\ cs2[Len(calls) - 1].current = merge
  BY <1>3, <1>4, <1>8, ReturnDoes
<1> HIDE DEF cs2
<1>17. Build(cs2, i2, list2)
  <2>1. LoopAt(calls, list, k, h, body, cont, merge)
    BY <1>3, <1>4, <1>5 DEF LoopAt, k, merge, body, cont
  <2>2. \A x \in 1 .. Len(ir) : x # cont => i2[x].body = ir[x].body
    BY <1>11, <1>13 DEF LoopEnded, BodySet
  <2>3. \A e \in ToSet(i2[cont].body) : e[1] = "ConditionRef"
    <3>1. i2[cont].body = <<>> \o effects
      BY <1>7, <1>8, <1>11, <1>13 DEF LoopEnded, BodySet
    <3> QED BY <1>12, <3>1
  <2>4. LoopClosed(ir, i2, h, cur, body, cont, merge)
    BY <1>11, <1>13, <2>2, <2>3 DEF LoopClosed, LoopEnded, BodySet
  <2>5. cur = calls[Len(calls)].current
    BY <1>4 DEF cur
  <2> QED BY <1>1, <1>15, <1>16, <2>1, <2>4, <2>5, BuildReturnsFromLoop
<1>18. Walks(stmt, cs2)
  BY <1>1, <1>4, <1>16, TreeStays, WalksKept
<1>19. cs2[Len(cs2)].current # 0
  BY <1>8, <1>16
<1>20. Passing'
  BY <1>14, <1>17, <1>18, <1>19, PassingOpen
<1>21. IInv' /\ Opened(stmt')
  <2>1. UNCHANGED vars
    BY <1>2, <1>14 DEF KeepPass, vars
  <2> QED BY <2>1, PassUnchanged
<1> QED BY <1>20, <1>21

\* The Visit of the root ends.
LEMMA EndRootFinishes ==
    ASSUME IInv, Opened(stmt), Passing, EndRoot
    PROVE  /\ Finished(irBlocks', syntax_list') /\ calls' = <<>> /\ ended' = "returned"
           /\ UNCHANGED vars
<1> DEFINE ir == irBlocks
           list == syntax_list
           body == <<<<"Prologue">>>> \o ir[1].body
<1>1. Build(calls, irBlocks, syntax_list)
  BY DEF Passing
<1>2. AtEnd /\ stmt[call.parent].type = "Function"
  BY DEF EndRoot, Ending
<1>3. /\ Len(list) # 0 /\ Len(ir) # 0 /\ list[1].block = 1
  <2>1. Len(list) # 0 /\ Len(ir) # 0 /\ At(list, 1, 1)
    BY <1>2, SomeBlock
  <2> QED BY <2>1 DEF At, BlockNode
<1>4. Len(calls) = 1 /\ call = calls[1]
  <2>1. call = calls[Len(calls)] /\ WalkOK(stmt, calls, Len(calls)) /\ call.parent \in DOMAIN stmt
    BY WalkedList
  <2>2. call.parent = Root
    BY <1>2, <2>1 DEF IInv, TreeOK, PoolOK, Fields
  <2> QED BY <2>1, <2>2 DEF WalkOK
<1>5. Blocks(ir) /\ Numbered(list) /\ Len(ir) \in Nat /\ 1 \in 1 .. Len(ir)
  BY <1>1, <1>3, BuildMeans
<1>6. irBlocks' = [ir EXCEPT ![1].body = body]
  BY <1>3 DEF EndRoot
<1> HIDE DEF body
<1>7. BodySet(ir, irBlocks', 1, body)
  BY <1>5, <1>6, SetBodyDoes
<1>8. IF calls[1].current = 0 THEN syntax_list' = list
      ELSE /\ Extends(list, syntax_list') /\ Len(syntax_list') = Len(list) + 1
           /\ syntax_list'[Len(list) + 1] = [type |-> "Unreachable"]
  <2>1. CASE call.current = 0
    BY <1>4, <2>1 DEF EndRoot
  <2>2. CASE call.current # 0
    <3> DEFINE node == [type |-> "Unreachable"]
    <3>1. syntax_list' = Append(list, node)
      BY <2>2 DEF EndRoot
    <3> HIDE DEF node
    <3>2. /\ Extends(list, syntax_list') /\ Len(syntax_list') = Len(list) + 1
          /\ syntax_list'[Len(list) + 1] = node
      BY <1>5, <3>1, OneMore
    <3> QED BY <1>4, <2>2, <3>2 DEF node
  <2> QED BY <2>1, <2>2
<1>9. Finished(irBlocks', syntax_list')
  BY <1>1, <1>3, <1>4, <1>7, <1>8, BuildFinishes
<1> QED BY <1>9 DEF EndRoot

\* Nothing is built when the root is visited.
LEMMA BuildStarts ==
    ASSUME NEW c \in CallRecords, c.locals = NoLocals, c.break = 0, c.fallthrough = 0,
           c.current = 0
    PROVE  Build(<<c>>, <<>>, <<>>)
<1> DEFINE cs == <<c>>
           none == <<>>
<1>1. cs \in Seq(CallRecords) /\ Len(cs) = 1 /\ cs[1] = c /\ \A i \in 1 .. 1 : i = 1
  OBVIOUS
<1>2. /\ none \in Seq({}) /\ Len(none) = 0 /\ \A i : i \notin 1 .. 0
      /\ \A f : ToSet(none) = {} /\ \A n \in 1 .. 0 : n \in {}
  BY DEF ToSet
<1>3. Numbered(none)
  BY <1>2 DEF Numbered
<1> HIDE DEF cs, none
<1>4. Blocks(none)
  BY <1>2, <1>3 DEF Blocks
<1>5. c.locals.continue = 0 /\ c.locals.merge = 0 /\ c.locals.node = 0 /\ ~IsLoop(c)
  BY DEF NoLocals, IsLoop
<1>6. Frames(cs, none)
  <2>1. CallOK(cs, 1)
    BY <1>1 DEF CallOK
  <2>2. NodeOK(cs, 1, none)
    BY <1>1, <1>2, <1>5 DEF NodeOK
  <2>3. \A i, j \in 1 .. Len(cs) : ~(i < j)
    BY <1>1
  <2> QED BY <1>1, <2>1, <2>2, <2>3 DEF Frames
<1>7. Reserved(cs) = {}
  <2>1. ReservedBy(c) = {}
    BY <1>5 DEF ReservedBy
  <2> QED BY <1>1, <2>1 DEF Reserved
<1>8. /\ 1 .. Len(none) = {} /\ SuccsOf(none) \in [1 .. 0 -> SUBSET (2 .. 0)]
      /\ 1 .. 0 = {}
  BY <1>2 DEF SuccsOf
<1>9. Layout({}, 0, SuccsOf(none), Quiet(none), none, 0)
  <2>1. NodesAreBlocks(0, none) /\ ListedOnce(0, none) /\ AllListed({}, 0, none)
    BY <1>8 DEF NodesAreBlocks, ListedOnce, AllListed
  <2>2. /\ EdgesFollow({}, 0, SuccsOf(none), none)
        /\ EdgesGoForward(0, SuccsOf(none), Quiet(none), none)
    BY <1>8 DEF EdgesFollow, EdgesGoForward
  <2>3. EndsWith(none, 0)
    BY <1>2 DEF EndsWith
  <2> QED BY <1>2, <1>3, <1>8, <2>1, <2>2, <2>3 DEF Layout
<1>10. Build(cs, none, none)
  BY <1>1, <1>2, <1>4, <1>6, <1>7, <1>9 DEF Build
<1> QED BY <1>10 DEF cs, none

\* The constructor calls Visit on the root.
LEMMA VisitRootKeeps ==
    ASSUME IInv, VisitRoot, irBlocks = <<>>, syntax_list = <<>>, stmt' = stmt, step' = step
    PROVE  Passing'
<1> DEFINE c == Call(Root, 0, 0, NoLocals)
           cs == <<c>>
<1>1. CallIs(c, Root, 0, 0, 0, 0, 0, 0)
  <2>1. NoLocals = [header |-> 0, continue |-> 0, merge |-> 0, node |-> 0]
    BY DEF NoLocals
  <2>2. Root \in Nat /\ 0 \in Nat
    BY DEF Root
  <2> QED BY <2>1, <2>2, CallFieldsAre
<1>2. c.locals = NoLocals /\ cs = <<c>>
  BY DEF Call
<1>3. calls' = cs /\ irBlocks' = <<>> /\ syntax_list' = <<>> /\ ended' = "no" /\ step = "done"
  BY DEF VisitRoot
<1> HIDE DEF c
<1>4. /\ c \in CallRecords /\ c.parent = Root /\ c.at = 1 /\ c.current = 0 /\ c.break = 0
      /\ c.fallthrough = 0 /\ c.locals.header = 0 /\ ~IsLoop(c)
  BY <1>1 DEF CallIs
<1>5. Build(cs, <<>>, <<>>)
  BY <1>2, <1>4, BuildStarts
<1>6. Len(cs) = 1 /\ cs[1] = c /\ \A i \in 1 .. 1 : i = 1
  BY <1>2
<1> HIDE DEF cs
<1>7. Walks(stmt, cs)
  <2>1. /\ Root \in DOMAIN stmt /\ stmt[Root].type = "Function" /\ stmt[Root].up = 0
        /\ Rooted(stmt)
    BY DEF IInv, TreeOK, PoolOK, Fields
  <2>2. Chain(stmt, Root) = {Root}
    BY <2>1, ChainEquation
  <2>3. WalkOK(stmt, cs, 1)
    BY <1>4, <1>6, <2>1, <2>2 DEF WalkOK, HasChildren
  <2> QED BY <1>6, <2>3 DEF Walks
<1>8. OnlyLabels(stmt, cs, <<>>)
  <2>1. \A j \in 1 .. Len(Children(stmt, Root)) : ~(j < 1)
    <3>1. Children(stmt, Root) \in Seq(DOMAIN stmt)
      BY DEF IInv, TreeOK, PoolOK, Fields
    <3>2. Len(Children(stmt, Root)) \in Nat
      BY <3>1, LenProperties
    <3> QED BY <3>2
  <2> QED BY <1>4, <1>6, <2>1 DEF OnlyLabels
<1> QED BY <1>3, <1>5, <1>7, <1>8 DEF Passing

\* What is built while the pass goes on, and what is built when it has returned.
TranslateInv ==
    /\ IInv /\ cfg \in Cfgs /\ Opened(stmt)
    /\ ended \in {"no", "returned"}
    /\ calls # <<>> => Passing
    /\ calls = <<>> /\ ended = "no" => irBlocks = <<>> /\ syntax_list = <<>>
    /\ ended = "returned" => calls = <<>> /\ Finished(irBlocks, syntax_list)

\* Nothing is built at first.
LEMMA TranslateStarts ==
    ASSUME TranslateInit
    PROVE  TranslateInv
<1>1. Init /\ cfg \in Cfgs
  BY DEF TranslateInit, Init
<1>2. IInv /\ Opened(stmt)
  BY <1>1, InitOK, InitOpened
<1> QED BY <1>1, <1>2 DEF TranslateInit, TranslateInv

\* Once the goto pass is done it does nothing more.
LEMMA DoneStays ==
    ASSUME IInv, step = "done", Next
    PROVE  UNCHANGED vars
BY DEF Next, NextGoto, OutwardToRelate, Related, CountLevels, OutwardToLevel, GotoLifting,
       InwardToLevel, Eliminate, AtLabelLevel, Finish, Terminated

\* A step of the goto pass, which leaves the lists alone.
LEMMA StructureKeeps ==
    ASSUME TranslateInv, Structure
    PROVE  TranslateInv'
<1>1. IInv /\ cfg \in Cfgs /\ Opened(stmt) /\ Next
  BY DEF TranslateInv, Structure
<1>2. UNCHANGED translateVars
  BY DEF Structure
<1>3. IInv' /\ cfg' \in Cfgs /\ Opened(stmt')
  BY <1>1, NextKeeps, NextOpened
<1>4. calls' # <<>> => Passing'
  <2> SUFFICES ASSUME calls # <<>> PROVE Passing'
    BY <1>2 DEF translateVars
  <2>1. Passing
    BY DEF TranslateInv
  <2>2. UNCHANGED vars
    BY <1>1, <2>1, DoneStays DEF Passing
  <2> QED BY <1>2, <2>1, <2>2 DEF vars, translateVars, Passing
<1> QED BY <1>2, <1>3, <1>4 DEF TranslateInv, translateVars

\* A visit that leaves the tree and the pass going keeps the invariant.
LEMMA PassingOn ==
    ASSUME IInv', cfg' \in Cfgs, Opened(stmt'), Passing'
    PROVE  TranslateInv'
<1>1. ended' = "no" /\ calls' # <<>>
  <2>1. Build(calls', irBlocks', syntax_list') /\ ended' = "no"
    BY DEF Passing
  <2>2. Len(calls') # 0
    BY <2>1, BuildMeans
  <2>3. Len(<<>>) = 0
    OBVIOUS
  <2> QED BY <2>1, <2>2, <2>3
<1> QED BY <1>1 DEF TranslateInv

\* Every step.
LEMMA TranslateKeeps ==
    ASSUME TranslateInv, [TranslateNext]_allVars
    PROVE  TranslateInv'
<1>0. IInv /\ cfg \in Cfgs /\ Opened(stmt)
  BY DEF TranslateInv
<1>1. ASSUME UNCHANGED vars, Passing' PROVE TranslateInv'
  BY <1>0, <1>1, PassUnchanged, PassingOn
<1>2. ASSUME KeepPass, IInv' /\ Opened(stmt') /\ Passing' PROVE TranslateInv'
  BY <1>0, <1>2, PassingOn DEF KeepPass
<1>3. ASSUME UNCHANGED allVars PROVE TranslateInv'
  BY <1>3 DEF allVars, translateVars, vars, TranslateInv, Passing, IInv, TreeOK, WaitingOK,
              MovingOK, OutwardOK, LiftOK, InwardOK, NextToLabel, GotosIn, label_stmt
<1>4. CASE Structure
  BY <1>4, StructureKeeps
<1>5. CASE VisitRoot
  <2>1. irBlocks = <<>> /\ syntax_list = <<>> /\ UNCHANGED vars
    BY <1>5 DEF VisitRoot, TranslateInv
  <2>2. stmt' = stmt /\ step' = step
    BY <2>1 DEF vars
  <2> QED BY <1>0, <1>1, <1>5, <2>1, <2>2, VisitRootKeeps
<1>6. ASSUME calls # <<>> PROVE Passing
  BY <1>6 DEF TranslateInv
<1>7. CASE VisitLabel
  <2>1. Passing /\ UNCHANGED vars /\ stmt' = stmt /\ step' = step
    BY <1>6, <1>7 DEF VisitLabel, Visiting, vars
  <2> QED BY <1>0, <1>1, <1>7, <2>1, VisitLabelKeeps
<1>8. CASE VisitCode
  <2>1. Passing /\ UNCHANGED vars /\ stmt' = stmt /\ step' = step
    BY <1>6, <1>8 DEF VisitCode, Visiting, vars
  <2> QED BY <1>0, <1>1, <1>8, <2>1, VisitCodeKeeps
<1>9. CASE VisitSetVariable
  <2>1. Passing /\ UNCHANGED vars /\ stmt' = stmt /\ step' = step
    BY <1>6, <1>9 DEF VisitSetVariable, Visiting, vars
  <2> QED BY <1>0, <1>1, <1>9, <2>1, VisitSetVariableKeeps
<1>10. CASE VisitIf
  <2>1. Passing /\ KeepPass
    BY <1>6, <1>10 DEF VisitIf, Visiting
  <2> QED BY <1>0, <1>2, <1>10, <2>1, VisitIfKeeps
<1>11. CASE VisitLoop
  <2>1. Passing /\ KeepPass
    BY <1>6, <1>11 DEF VisitLoop, Visiting
  <2> QED BY <1>0, <1>2, <1>11, <2>1, VisitLoopKeeps
<1>12. CASE VisitBreak
  <2>1. Passing /\ KeepPass
    BY <1>6, <1>12 DEF VisitBreak, Visiting
  <2> QED BY <1>0, <1>2, <1>12, <2>1, VisitBreakKeeps
<1>13. CASE VisitReturn
  <2>1. Passing /\ UNCHANGED vars /\ stmt' = stmt /\ step' = step
    BY <1>6, <1>13 DEF VisitReturn, Visiting, vars
  <2> QED BY <1>0, <1>1, <1>13, <2>1, VisitReturnKeeps
<1>14. CASE EndIf
  <2>1. Passing /\ KeepPass
    BY <1>6, <1>14 DEF EndIf, Ending
  <2> QED BY <1>0, <1>2, <1>14, <2>1, EndIfKeeps
<1>15. CASE EndLoop
  <2>1. Passing /\ KeepPass
    BY <1>6, <1>15 DEF EndLoop, Ending
  <2> QED BY <1>0, <1>2, <1>15, <2>1, EndLoopKeeps
<1>16. CASE EndRoot
  <2>1. Passing
    BY <1>6, <1>16 DEF EndRoot, Ending
  <2>2. /\ Finished(irBlocks', syntax_list') /\ calls' = <<>> /\ ended' = "returned"
        /\ UNCHANGED vars
    BY <1>0, <1>16, <2>1, EndRootFinishes
  <2>3. IInv' /\ cfg' \in Cfgs /\ Opened(stmt')
    BY <1>0, <2>2, PassUnchanged
  <2> QED BY <2>2, <2>3 DEF TranslateInv
<1>17. CASE TranslateTerminated
  BY <1>3, <1>17 DEF TranslateTerminated
<1> QED BY <1>3, <1>4, <1>5, <1>7, <1>8, <1>9, <1>10, <1>11, <1>12, <1>13, <1>14, <1>15, <1>16,
           <1>17 DEF TranslateNext, Translate

\* While the pass goes on, the list and the edges made so far agree and the call stack has
\* what is missing; when it has returned nothing is.
THEOREM TranslateInvariant == TranslateSpec => []TranslateInv
<1>1. TranslateInit => TranslateInv
  BY TranslateStarts
<1>2. TranslateInv /\ [TranslateNext]_allVars => TranslateInv'
  BY TranslateKeeps
<1> QED BY <1>1, <1>2, PTL DEF TranslateSpec

\* The pass throws on no program: AddBranch is called with no edge twice, every Break finds
\* its loop's merge block, and syntax_list.at finds the body of every If and Loop.
THEOREM PassNeverThrows == TranslateSpec => []TranslateNeverThrows
<1>1. TranslateInv => TranslateNeverThrows
  BY DEF TranslateInv, TranslateNeverThrows
<1> QED BY <1>1, TranslateInvariant, PTL

\* Every IR block is a node of the syntax list exactly once, so GenerateBlocks, which takes
\* the blocks from the list, gives the later passes all of them and none twice.
THEOREM ListHasEveryBlock == TranslateSpec => []EveryBlockListedOnce
<1>1. TranslateInv => EveryBlockListedOnce
  <2> SUFFICES ASSUME TranslateInv PROVE EveryBlockListedOnce
    OBVIOUS
  <2>1. CASE ended = "returned"
    BY <2>1, FinishedListsOnce DEF TranslateInv
  <2>2. CASE ended # "returned"
    BY <2>2 DEF EveryBlockListedOnce
  <2> QED BY <2>1, <2>2
<1> QED BY <1>1, TranslateInvariant, PTL

\* What the SSA pass needs of the blocks: only the edges of a Repeat go back, from blocks
\* that write no variable, and none enters the first block.
THEOREM BlocksFitForSsa == TranslateSpec => []FitForSsa
<1>1. TranslateInv => FitForSsa
  <2> SUFFICES ASSUME TranslateInv PROVE FitForSsa
    OBVIOUS
  <2>1. CASE ended = "returned"
    BY <2>1, FinishedFitsForSsa DEF TranslateInv
  <2>2. CASE ended # "returned"
    BY <2>2 DEF FitForSsa, BackEdgesWriteNothing, FirstBlockIsEntry
  <2> QED BY <2>1, <2>2
<1> QED BY <1>1, TranslateInvariant, PTL

\* The successors of every block, which AddBranch made, are those the next node of the
\* syntax list names.
THEOREM ListAndEdgesAgree == TranslateSpec => []EdgesFollowTheList
<1>1. TranslateInv => EdgesFollowTheList
  <2> SUFFICES ASSUME TranslateInv PROVE EdgesFollowTheList
    OBVIOUS
  <2>1. CASE ended = "returned"
    BY <2>1, FinishedFollows DEF TranslateInv
  <2>2. CASE ended # "returned"
    BY <2>2 DEF EdgesFollowTheList
  <2> QED BY <2>1, <2>2
<1> QED BY <1>1, TranslateInvariant, PTL

-----------------------------------------------------------------------------
(* The code of the blocks                                                  *)

\* The Code of MergeBlock stands for no block, so the code of the blocks stays in order.
LEMMA StmtsMergedKeepsCode ==
    ASSUME IInv, call.parent \in DOMAIN stmt, HasChildren(stmt, call.parent), ~AtEnd,
           call.at \in Nat \ {0}, stmt' = StmtsMerged(visited), NEW m, CodePlaced(stmt, m)
    PROVE  CodePlaced(stmt', m)
<1>1. PoolOK(stmt) /\ Numbered(stmt)
  BY DEF IInv, TreeOK
<1>2. Contains(Children(stmt, call.parent), visited)
  BY VisitedInList
<1>3. CASE FindsForwardBlock(visited)
  BY <1>3 DEF StmtsMerged
<1>4. CASE ~FindsForwardBlock(visited)
  <2> DEFINE p == call.parent
             s == visited
             s1 == Create(stmt, MergeCode(p))
             body == Before(stmt, s) \o <<s, Len(s1)>> \o After(stmt, s)
             s2 == SetChildren(s1, p, body)
  <2>1. stmt' = s2
    BY <1>4 DEF StmtsMerged, MergeCode
  <2>2. CodeBehind(stmt, s2, p, s, Len(stmt) + 1)
    BY <1>1, CodePutBehind
  <2>3. CodeKept(stmt, s1)
    <3>1. /\ "type" \in DOMAIN MergeCode(p) /\ "block" \in DOMAIN MergeCode(p)
          /\ MergeCode(p).block = Dummy
      BY DEF MergeCode
    <3> QED BY <1>1, <3>1, CreateKeepsCode
  <2> HIDE DEF p, s, s1, body
  <2>4. CodeKept(s1, s2)
    BY SetChildrenKeepsCode
  <2> HIDE DEF s2
  <2>5. CodeKept(stmt, s2)
    BY <2>3, <2>4, CodeKeptTwice
  <2>6. p \in DOMAIN stmt /\ HasChildren(stmt, p) /\ Contains(Children(stmt, p), s)
    BY <1>2 DEF p, s
  <2>7. Leaves(stmt, s2, {})
    BY <1>1, <2>2, <2>6, CodeBehindIsLeaves
  <2>8. Keeps(stmt, s2, {})
    BY <1>1, <2>7, LeavesKeep
  <2> QED BY <2>1, <2>5, <2>8, CodeStaysPlaced
<1> QED BY <1>3, <1>4

\* The cases of Visit that put a MergeBlock's Code behind their statement.
LEMMA MergingKeepsCode ==
    ASSUME TranslateInv, VisitIf \/ VisitLoop \/ VisitBreak, NEW m, CodePlaced(stmt, m)
    PROVE  CodePlaced(stmt', m) /\ cfg' = cfg
<1>1. /\ ~AtEnd /\ calls # <<>> /\ cfg' = cfg
      /\ stmt' = StmtsMerged(visited) \/ stmt' = stmt
  BY DEF VisitIf, VisitLoop, VisitBreak, Visiting, KeepPass, Throw
<1>2. IInv /\ Passing
  BY <1>1 DEF TranslateInv
<1>3. call.parent \in DOMAIN stmt /\ HasChildren(stmt, call.parent) /\ call.at \in Nat \ {0}
  BY <1>1, <1>2, VisitedWalk
<1>4. CASE stmt' = stmt
  BY <1>1, <1>4
<1>5. CASE stmt' = StmtsMerged(visited)
  BY <1>1, <1>2, <1>3, <1>5, StmtsMergedKeepsCode
<1> QED BY <1>1, <1>4, <1>5

\* Every step.
LEMMA TranslateKeepsCode ==
    ASSUME TranslateInv, [TranslateNext]_allVars, NEW m, CodePlaced(stmt, m)
    PROVE  CodePlaced(stmt', m) /\ cfg' = cfg
<1>1. CASE Structure
  <2>1. IInv /\ cfg \in Cfgs /\ [Next]_vars
    BY <1>1 DEF TranslateInv, Structure
  <2> QED BY <2>1, NextKeepsCode
<1>2. CASE VisitIf \/ VisitLoop \/ VisitBreak
  BY <1>2, MergingKeepsCode
<1>3. CASE \/ VisitRoot \/ VisitLabel \/ VisitCode \/ VisitSetVariable \/ VisitReturn
           \/ EndIf \/ EndLoop \/ EndRoot \/ TranslateTerminated \/ UNCHANGED allVars
  <2>1. stmt' = stmt /\ cfg' = cfg
    <3>1. CASE VisitRoot
      BY <3>1 DEF VisitRoot, vars
    <3>2. CASE VisitLabel \/ VisitCode \/ VisitSetVariable \/ VisitReturn
      BY <3>2 DEF VisitLabel, VisitCode, VisitSetVariable, VisitReturn, vars
    <3>3. CASE EndIf \/ EndLoop
      BY <3>3 DEF EndIf, EndLoop, KeepPass, Throw
    <3>4. CASE EndRoot \/ TranslateTerminated \/ UNCHANGED allVars
      BY <3>4 DEF EndRoot, TranslateTerminated, allVars, vars
    <3> QED BY <1>3, <3>1, <3>2, <3>3, <3>4
  <2> QED BY <2>1
<1> QED BY <1>1, <1>2, <1>3 DEF TranslateNext, Translate

\* TranslatePass finds the code of the blocks in address order, and the Codes its merge
\* blocks add to the tree while it goes over it do not disturb that.
THEOREM MergingKeepsTheOrder == TranslateSpec => []CodeInOrder
<1>1. TranslateInit => CodePlaced(stmt, Len(cfg))
  BY InitPlacesCode DEF TranslateInit
<1>2. TranslateInv /\ [TranslateNext]_allVars /\ CodePlaced(stmt, Len(cfg))
         => (CodePlaced(stmt, Len(cfg)))'
  <2> SUFFICES ASSUME TranslateInv, [TranslateNext]_allVars, CodePlaced(stmt, Len(cfg))
               PROVE  CodePlaced(stmt', Len(cfg'))
    OBVIOUS
  <2>1. CodePlaced(stmt', Len(cfg)) /\ cfg' = cfg
    BY TranslateKeepsCode
  <2> QED BY <2>1
<1>3. TranslateInv /\ CodePlaced(stmt, Len(cfg)) => CodeInOrder
  BY CodeStandsInOrder DEF TranslateInv, IInv
<1> QED BY <1>1, <1>2, <1>3, TranslateInvariant, PTL DEF TranslateSpec
=================================================================================
