----------------------------- MODULE GotoPassProofs -----------------------------
(***************************************************************************)
(* What holds of the goto elimination for every set of control flow graphs *)
(* of any size: the tree stays consistent, its code stays in order,        *)
(* RemoveGoto reaches none of its throws, a tree without gotos is left,    *)
(* and the pass comes to an end.                                           *)
(*                                                                         *)
(* The way: lists; levels and ancestors along "up"; what a pool of         *)
(* statements is (PoolOK) and what cutting lists, taking a goto out and    *)
(* wrapping siblings in a Tree keep of it (Leaves, Wrap); each Move and    *)
(* Eliminate as one of these; then the invariant IInv, a lemma for each    *)
(* step of RemoveGoto, and the flat tree it starts with; then the text of  *)
(* the tree, level by level, and where the code of the blocks stands in it *)
(* (CodePlaced), which each step keeps.                                    *)
(***************************************************************************)
EXTENDS GotoPass, CfgShapes, TLAPS, WellFoundedInduction, SequenceTheorems,
        FiniteSetTheorems, FunctionTheorems

-----------------------------------------------------------------------------
(* Lists                                                                   *)

\* A set of numbers that is not empty has a least one.
LEMMA NatMin ==
    ASSUME NEW S, S \subseteq Nat, S # {}
    PROVE  \E m \in S : \A k \in S : m <= k
<1> DEFINE R == OpToRel(<, Nat)
<1>1. IsWellFoundedOn(R, Nat)
  BY NatLessThanWellFounded
<1>2. \A x, y \in Nat : x < y => <<x, y>> \in R
  BY DEF OpToRel
<1>3. PICK m \in S : \A k \in S : ~(<<k, m>> \in R)
  <2> HIDE DEF R
  <2> QED BY <1>1, WFMin
<1>4. \A k \in S : ~(k < m)
  BY <1>2, <1>3
<1>5. \A k \in S : m <= k
  BY <1>4
<1> QED BY <1>5

\* a stands before b in a list.
Earlier(list, a, b) ==
    \E i, j \in 1 .. Len(list) : i < j /\ list[i] = a /\ list[j] = b

\* No statement is in the list twice.
Once(list) == \A a : ~Earlier(list, a, a)

LEMMA EarlierContained ==
    ASSUME NEW list, NEW a, NEW b, Earlier(list, a, b)
    PROVE  Contains(list, a) /\ Contains(list, b)
BY DEF Earlier, Contains

LEMMA ContainedIn ==
    ASSUME NEW S, NEW list \in Seq(S), NEW a, Contains(list, a)
    PROVE  a \in S
BY ElementOfSeq DEF Contains

LEMMA NothingIn ==
    ASSUME NEW a, NEW b
    PROVE  ~Contains(<<>>, a) /\ ~Earlier(<<>>, a, b)
BY EmptySeq DEF Contains, Earlier

LEMMA OneIn ==
    ASSUME NEW x, NEW a, NEW b
    PROVE  (Contains(<<x>>, a) <=> a = x) /\ ~Earlier(<<x>>, a, b)
BY DEF Contains, Earlier

LEMMA TwoIn ==
    ASSUME NEW x, NEW y, NEW a, NEW b
    PROVE  /\ Contains(<<x, y>>, a) <=> a = x \/ a = y
           /\ Earlier(<<x, y>>, a, b) <=> a = x /\ b = y
<1>1. Len(<<x, y>>) = 2 /\ <<x, y>>[1] = x /\ <<x, y>>[2] = y
  OBVIOUS
<1> DEFINE l == <<x, y>>
<1> HIDE DEF l
<1>2. \A i \in 1 .. 2 : i = 1 \/ i = 2
  OBVIOUS
<1>3. Len(l) = 2 /\ l[1] = x /\ l[2] = y
  BY <1>1 DEF l
<1>4. Contains(l, a) <=> a = x \/ a = y
  BY <1>2, <1>3 DEF Contains
<1>5. Earlier(l, a, b) <=> a = x /\ b = y
  <2>1. ASSUME Earlier(l, a, b) PROVE a = x /\ b = y
    <3>1. PICK i, j \in 1 .. 2 : i < j /\ l[i] = a /\ l[j] = b
      BY <1>3, <2>1 DEF Earlier
    <3>2. i = 1 /\ j = 2
      BY <3>1
    <3> QED BY <1>3, <3>1, <3>2
  <2>2. ASSUME a = x /\ b = y PROVE Earlier(l, a, b)
    <3>1. 1 \in 1 .. 2 /\ 2 \in 1 .. 2 /\ 1 < 2
      OBVIOUS
    <3> QED BY <1>3, <2>2, <3>1 DEF Earlier
  <2> QED BY <2>1, <2>2
<1> QED BY <1>4, <1>5 DEF l

\* Two lists put together.
LEMMA Joined ==
    ASSUME NEW S, NEW s \in Seq(S), NEW t \in Seq(S), NEW a, NEW b
    PROVE  /\ s \o t \in Seq(S)
           /\ Contains(s \o t, a) <=> Contains(s, a) \/ Contains(t, a)
           /\ Earlier(s \o t, a, b) <=>
                 \/ Earlier(s, a, b) \/ Earlier(t, a, b)
                 \/ Contains(s, a) /\ Contains(t, b)
<1> DEFINE u == s \o t
           m == Len(s)
           n == Len(t)
<1>1. m \in Nat /\ n \in Nat
  BY LenProperties
<1>2. /\ u \in Seq(S) /\ Len(u) = m + n
      /\ \A i \in 1 .. m + n : u[i] = IF i <= m THEN s[i] ELSE t[i - m]
  BY ConcatProperties
<1> HIDE DEF u, m, n
<1>3. \A i \in 1 .. m : i \in 1 .. m + n /\ u[i] = s[i]
  BY <1>1, <1>2
<1>4. \A i \in 1 .. n : m + i \in 1 .. m + n /\ u[m + i] = t[i] /\ ~(m + i <= m)
  <2> SUFFICES ASSUME NEW i \in 1 .. n PROVE m + i \in 1 .. m + n /\ u[m + i] = t[i] /\ ~(m + i <= m)
    OBVIOUS
  <2>1. m + i \in 1 .. m + n /\ ~(m + i <= m) /\ (m + i) - m = i
    BY <1>1
  <2> QED BY <1>2, <2>1
<1>5. \A k \in 1 .. m + n : k \in 1 .. m \/ (k - m \in 1 .. n /\ u[k] = t[k - m] /\ k > m)
  BY <1>1, <1>2
<1>6. Contains(u, a) <=> Contains(s, a) \/ Contains(t, a)
  <2>1. ASSUME Contains(u, a) PROVE Contains(s, a) \/ Contains(t, a)
    <3>1. PICK k \in 1 .. m + n : u[k] = a
      BY <1>2, <2>1 DEF Contains
    <3> QED BY <1>3, <1>5, <3>1 DEF Contains, m, n
  <2>2. ASSUME Contains(s, a) PROVE Contains(u, a)
    BY <1>2, <1>3, <2>2 DEF Contains, m
  <2>3. ASSUME Contains(t, a) PROVE Contains(u, a)
    BY <1>2, <1>4, <2>3 DEF Contains, n
  <2> QED BY <2>1, <2>2, <2>3
<1>7. ASSUME Earlier(u, a, b)
      PROVE  \/ Earlier(s, a, b) \/ Earlier(t, a, b)
             \/ Contains(s, a) /\ Contains(t, b)
  <2>1. PICK i, j \in 1 .. m + n : i < j /\ u[i] = a /\ u[j] = b
    BY <1>2, <1>7 DEF Earlier
  <2>2. CASE j \in 1 .. m
    <3>1. i \in 1 .. m
      BY <1>1, <2>1, <2>2
    <3> QED BY <1>3, <2>1, <2>2, <3>1 DEF Earlier, m
  <2>3. CASE i \in 1 .. m /\ j \notin 1 .. m
    BY <1>3, <1>5, <2>1, <2>3 DEF Contains, m, n
  <2>4. CASE i \notin 1 .. m /\ j \notin 1 .. m
    <3>1. i - m \in 1 .. n /\ u[i] = t[i - m] /\ j - m \in 1 .. n /\ u[j] = t[j - m]
      BY <1>5, <2>4
    <3>2. i - m < j - m
      BY <1>1, <2>1
    <3> QED BY <2>1, <3>1, <3>2 DEF Earlier, n
  <2> QED BY <2>2, <2>3, <2>4
<1>8. ASSUME Earlier(s, a, b) PROVE Earlier(u, a, b)
  BY <1>2, <1>3, <1>8 DEF Earlier, m
<1>9. ASSUME Earlier(t, a, b) PROVE Earlier(u, a, b)
  <2>1. PICK i, j \in 1 .. n : i < j /\ t[i] = a /\ t[j] = b
    BY <1>9 DEF Earlier, n
  <2>2. m + i < m + j
    BY <1>1, <2>1
  <2> QED BY <1>2, <1>4, <2>1, <2>2 DEF Earlier
<1>10. ASSUME Contains(s, a), Contains(t, b) PROVE Earlier(u, a, b)
  <2>1. PICK i \in 1 .. m : s[i] = a
    BY <1>10 DEF Contains, m
  <2>2. PICK j \in 1 .. n : t[j] = b
    BY <1>10 DEF Contains, n
  <2>3. i < m + j
    BY <1>1
  <2> QED BY <1>2, <1>3, <1>4, <2>1, <2>2, <2>3 DEF Earlier
<1> QED BY <1>2, <1>6, <1>7, <1>8, <1>9, <1>10 DEF u

\* In a list that has nothing twice, standing before is a strict order.
LEMMA EarlierIsAnOrder ==
    ASSUME NEW S, NEW list \in Seq(S), Once(list), NEW a, NEW b, Earlier(list, a, b)
    PROVE  /\ a # b /\ ~Earlier(list, b, a)
           /\ \A c : Earlier(list, b, c) => Earlier(list, a, c)
           /\ \A c : Earlier(list, c, a) => Earlier(list, c, b)
<1>0. Len(list) \in Nat
  BY LenProperties
<1>1. a # b
  BY DEF Once
<1>2. PICK i, j \in 1 .. Len(list) : i < j /\ list[i] = a /\ list[j] = b
  BY DEF Earlier
<1>3. \A k, m \in 1 .. Len(list) : list[k] = list[m] => k = m
  <2> SUFFICES ASSUME NEW k \in 1 .. Len(list), NEW m \in 1 .. Len(list),
                      list[k] = list[m], k # m
               PROVE FALSE
    OBVIOUS
  <2>1. k < m \/ m < k
    BY <1>0
  <2> QED BY <2>1 DEF Once, Earlier
<1>4. ASSUME NEW c, Earlier(list, b, c) PROVE Earlier(list, a, c)
  <2>1. PICK k, m \in 1 .. Len(list) : k < m /\ list[k] = b /\ list[m] = c
    BY <1>4 DEF Earlier
  <2>2. k = j /\ i < m
    BY <1>0, <1>2, <1>3, <2>1
  <2> QED BY <1>2, <2>1, <2>2 DEF Earlier
<1>5. ASSUME NEW c, Earlier(list, c, a) PROVE Earlier(list, c, b)
  <2>1. PICK k, m \in 1 .. Len(list) : k < m /\ list[k] = c /\ list[m] = a
    BY <1>5 DEF Earlier
  <2>2. m = i /\ k < j
    BY <1>0, <1>2, <1>3, <2>1
  <2> QED BY <1>2, <2>1, <2>2 DEF Earlier
<1> QED BY <1>1, <1>4, <1>5 DEF Once

LEMMA EarlierOrLater ==
    ASSUME NEW S, NEW list \in Seq(S), NEW a, NEW b, Contains(list, a), Contains(list, b), a # b
    PROVE  Earlier(list, a, b) \/ Earlier(list, b, a)
<1>1. PICK i \in 1 .. Len(list) : list[i] = a
  BY DEF Contains
<1>2. PICK j \in 1 .. Len(list) : list[j] = b
  BY DEF Contains
<1>3. i < j \/ j < i
  BY <1>1, <1>2, LenProperties
<1> QED BY <1>1, <1>2, <1>3 DEF Earlier

-----------------------------------------------------------------------------
(* Levels and ancestors                                                    *)

\* The parents of a pool lead to its root: a rank falls with every step up.
Ranks(st, r, m) ==
    /\ r \in [DOMAIN st -> 0 .. m]
    /\ \A s \in DOMAIN st :
          st[s].up # 0 => st[s].up \in DOMAIN st /\ r[st[s].up] < r[s]
Rooted(st) == \E m \in Nat : \E r : Ranks(st, r, m)

\* What holds of a statement whenever it holds of its parent holds of all.
LEMMA FromTheRoot ==
    ASSUME NEW st, Rooted(st), NEW S,
           \A s \in DOMAIN st : (st[s].up # 0 => st[s].up \in S) => s \in S
    PROVE  DOMAIN st \subseteq S
<1>0. PICK m \in Nat : \E r : Ranks(st, r, m)
  BY DEF Rooted
<1>1. PICK r : Ranks(st, r, m)
  BY <1>0
<1> DEFINE Bad == {s \in DOMAIN st : s \notin S}
           Rs == {r[s] : s \in Bad}
<1> SUFFICES ASSUME Bad # {} PROVE FALSE
  OBVIOUS
<1>2. Rs \subseteq Nat /\ Rs # {}
  BY <1>1 DEF Ranks
<1>3. PICK k \in Rs : \A j \in Rs : k <= j
  <2> HIDE DEF Rs
  <2> QED BY <1>2, NatMin
<1>4. PICK s \in Bad : r[s] = k
  OBVIOUS
<1>5. st[s].up # 0 /\ st[s].up \notin S
  BY <1>4
<1>6. st[s].up \in DOMAIN st /\ r[st[s].up] < r[s]
  BY <1>1, <1>4, <1>5 DEF Ranks
<1>7. r[st[s].up] \in Rs
  BY <1>5, <1>6
<1>8. r[s] \in Nat /\ r[st[s].up] \in Nat
  BY <1>1, <1>4, <1>6 DEF Ranks
<1> QED BY <1>3, <1>4, <1>6, <1>7, <1>8

\* The equation of Level on the statements of rank below n.
LevelsBelow(st, r, n, f) ==
    /\ f \in [{s \in DOMAIN st : r[s] < n} -> Nat]
    /\ \A s \in DOMAIN st : r[s] < n =>
          f[s] = IF st[s].up = 0 THEN 0 ELSE 1 + f[st[s].up]

LEMMA LevelsExist ==
    ASSUME NEW st, NEW m \in Nat, NEW r, Ranks(st, r, m), NEW n \in Nat
    PROVE  \E f : LevelsBelow(st, r, n, f)
<1> DEFINE Missing == {k \in Nat : ~ \E f : LevelsBelow(st, r, k, f)}
<1> SUFFICES ASSUME Missing # {} PROVE FALSE
  OBVIOUS
<1>1. PICK k \in Missing : \A j \in Missing : k <= j
  <2>1. Missing \subseteq Nat
    OBVIOUS
  <2> HIDE DEF Missing
  <2> QED BY <2>1, NatMin
<1>0. \A s \in DOMAIN st : r[s] \in Nat
  BY DEF Ranks
<1>2. k # 0
  <2>1. LevelsBelow(st, r, 0, [s \in {} |-> 0])
    <3>1. {s \in DOMAIN st : r[s] < 0} = {}
      BY <1>0
    <3>2. [s \in {} |-> 0] \in [{} -> Nat]
      OBVIOUS
    <3> QED BY <3>1, <3>2 DEF LevelsBelow
  <2> QED BY <2>1
<1>3. k - 1 \in Nat /\ ~(k <= k - 1)
  BY <1>2
<1>4. PICK f : LevelsBelow(st, r, k - 1, f)
  BY <1>1, <1>3
<1> DEFINE D == {s \in DOMAIN st : r[s] < k}
           g == [s \in D |-> IF st[s].up = 0 THEN 0 ELSE 1 + f[st[s].up]]
<1>5. \A s \in D : st[s].up # 0 =>
          st[s].up \in DOMAIN st /\ r[st[s].up] < k - 1 /\ f[st[s].up] \in Nat
  <2> SUFFICES ASSUME NEW s \in D, st[s].up # 0
               PROVE  st[s].up \in DOMAIN st /\ r[st[s].up] < k - 1 /\ f[st[s].up] \in Nat
    OBVIOUS
  <2>1. st[s].up \in DOMAIN st /\ r[st[s].up] < r[s] /\ r[s] < k
    BY DEF Ranks
  <2>2. r[st[s].up] < k - 1
    BY <1>0, <1>3, <2>1
  <2> QED BY <1>4, <2>1, <2>2 DEF LevelsBelow
<1>6. g \in [D -> Nat]
  BY <1>5
<1>7. \A s \in D : st[s].up # 0 => st[s].up \in D
  <2> SUFFICES ASSUME NEW s \in D, st[s].up # 0 PROVE st[s].up \in D
    OBVIOUS
  <2>1. st[s].up \in DOMAIN st /\ r[st[s].up] < k - 1
    BY <1>5
  <2> QED BY <1>0, <1>3, <2>1
<1>8. \A s \in D : r[s] < k - 1 => g[s] = f[s]
  BY <1>4 DEF LevelsBelow
<1>9. \A s \in D : g[s] = IF st[s].up = 0 THEN 0 ELSE 1 + g[st[s].up]
  BY <1>5, <1>7, <1>8
<1>10. LevelsBelow(st, r, k, g)
  <2> HIDE DEF g
  <2> QED BY <1>6, <1>9 DEF LevelsBelow
<1> QED BY <1>10

\* Level counts the steps to the root.
LEMMA LevelEquation ==
    ASSUME NEW st, Rooted(st)
    PROVE  \A s \in DOMAIN st :
              /\ Level(st, s) \in Nat
              /\ Level(st, s) = IF st[s].up = 0 THEN 0 ELSE 1 + Level(st, st[s].up)
<1>0. PICK m \in Nat : \E r : Ranks(st, r, m)
  BY DEF Rooted
<1>1. PICK r : Ranks(st, r, m)
  BY <1>0
<1>2. PICK f : LevelsBelow(st, r, m + 1, f)
  BY <1>1, LevelsExist
<1>3. {s \in DOMAIN st : r[s] < m + 1} = DOMAIN st
  <2>1. \A s \in DOMAIN st : r[s] \in 0 .. m
    BY <1>1 DEF Ranks
  <2>2. \A k \in 0 .. m : k < m + 1
    OBVIOUS
  <2> QED BY <2>1, <2>2
<1> DEFINE Solves(h) == h = [x \in DOMAIN st |-> IF st[x].up = 0 THEN 0 ELSE 1 + h[st[x].up]]
<1>4. Solves(f)
  <2>1. f = [x \in DOMAIN st |-> f[x]]
    BY <1>2, <1>3 DEF LevelsBelow
  <2>2. \A x \in DOMAIN st : f[x] = IF st[x].up = 0 THEN 0 ELSE 1 + f[st[x].up]
    BY <1>2, <1>3 DEF LevelsBelow
  <2> QED BY <2>1, <2>2
<1> DEFINE h == CHOOSE h : Solves(h)
<1>5. Solves(h)
  <2> HIDE DEF Solves
  <2> QED BY <1>4
<1>6. \A s : Level(st, s) = h[s]
  BY DEF Level
<1> HIDE DEF h
<1>7. \A x \in DOMAIN st : h[x] = IF st[x].up = 0 THEN 0 ELSE 1 + h[st[x].up]
  BY <1>5
<1> HIDE DEF Solves
<1> DEFINE S == {x \in DOMAIN st : h[x] \in Nat}
<1>8. DOMAIN st \subseteq S
  <2>1. \A s \in DOMAIN st : (st[s].up # 0 => st[s].up \in S) => s \in S
    BY <1>7
  <2> HIDE DEF S
  <2> QED BY <2>1, FromTheRoot
<1> QED BY <1>6, <1>7, <1>8

\* f is the way up from s, n steps of it.
Climb(st, s, n, f) ==
    /\ f = [i \in 0 .. n |-> f[i]]
    /\ f[0] = s
    /\ \A i \in 1 .. n : f[i] = st[f[i - 1]].up

LEMMA ClimbExists ==
    ASSUME NEW st, NEW s, NEW n \in Nat
    PROVE  \E f : Climb(st, s, n, f)
<1> DEFINE Missing == {k \in Nat : ~ \E f : Climb(st, s, k, f)}
<1> SUFFICES ASSUME Missing # {} PROVE FALSE
  OBVIOUS
<1>1. PICK k \in Missing : \A j \in Missing : k <= j
  <2>1. Missing \subseteq Nat
    OBVIOUS
  <2> HIDE DEF Missing
  <2> QED BY <2>1, NatMin
<1>2. k # 0
  <2>1. Climb(st, s, 0, [i \in 0 .. 0 |-> s])
    BY DEF Climb
  <2> QED BY <2>1
<1>3. k - 1 \in Nat /\ k \in 1 .. k /\ ~(k <= k - 1) /\ k \notin 0 .. k - 1
  BY <1>2
<1>4. PICK f : Climb(st, s, k - 1, f)
  BY <1>1, <1>3
<1> DEFINE g == [i \in 0 .. k |-> IF i = k THEN st[f[k - 1]].up ELSE f[i]]
<1>5. g[k] = st[f[k - 1]].up /\ \A i \in 0 .. k - 1 : g[i] = f[i]
  BY <1>3
<1>6. g = [i \in 0 .. k |-> g[i]]
  OBVIOUS
<1> HIDE DEF g
<1>7. g[0] = s
  BY <1>3, <1>4, <1>5 DEF Climb
<1>8. ASSUME NEW i \in 1 .. k PROVE g[i] = st[g[i - 1]].up
  <2>1. CASE i = k
    BY <2>1, <1>3, <1>5
  <2>2. CASE i # k
    <3>1. i \in 1 .. k - 1 /\ i \in 0 .. k - 1 /\ i - 1 \in 0 .. k - 1
      BY <2>2, <1>3
    <3> QED BY <3>1, <1>4, <1>5 DEF Climb
  <2> QED BY <2>1, <2>2
<1>9. Climb(st, s, k, g)
  BY <1>6, <1>7, <1>8 DEF Climb
<1> QED BY <1>9

\* Two ways up are one.
LEMMA ClimbsAgree ==
    ASSUME NEW st, NEW s, NEW n \in Nat, NEW k \in 0 .. n, NEW f, NEW g,
           Climb(st, s, k, f), Climb(st, s, n, g)
    PROVE  \A i \in 0 .. k : f[i] = g[i]
<1> DEFINE Odd == {i \in 0 .. k : f[i] # g[i]}
<1> SUFFICES ASSUME Odd # {} PROVE FALSE
  OBVIOUS
<1>1. PICK i \in Odd : \A j \in Odd : i <= j
  <2>1. Odd \subseteq Nat
    OBVIOUS
  <2> HIDE DEF Odd
  <2> QED BY <2>1, NatMin
<1>2. i \in 1 .. k /\ i \in 1 .. n /\ i - 1 \in 0 .. k /\ ~(i <= i - 1)
  BY DEF Climb
<1>3. f[i - 1] = g[i - 1]
  BY <1>1, <1>2
<1>4. f[i] = st[f[i - 1]].up
  BY <1>2 DEF Climb
<1>5. g[i] = st[g[i - 1]].up
  BY <1>2 DEF Climb
<1> QED BY <1>3, <1>4, <1>5

LEMMA AncestorClimbs ==
    ASSUME NEW st, NEW s, NEW n \in Nat
    PROVE  \E f : Climb(st, s, n, f) /\ Ancestor(st, s, n) = f[n]
<1> DEFINE Solves(h) == h = [i \in 0 .. n |-> IF i = 0 THEN s ELSE st[h[i - 1]].up]
           h == CHOOSE h : Solves(h)
<1>1. PICK f : Climb(st, s, n, f)
  BY ClimbExists
<1>2. Solves(f)
  <2>1. f = [i \in 0 .. n |-> f[i]]
    BY <1>1 DEF Climb
  <2>2. \A i \in 0 .. n : f[i] = IF i = 0 THEN s ELSE st[f[i - 1]].up
    <3>1. \A i \in 0 .. n : i = 0 \/ i \in 1 .. n
      OBVIOUS
    <3>2. f[0] = s /\ \A i \in 1 .. n : f[i] = st[f[i - 1]].up
      BY <1>1 DEF Climb
    <3>3. \A i \in 1 .. n : i # 0
      OBVIOUS
    <3> HIDE DEF h, Solves
    <3> QED BY <3>1, <3>2, <3>3, Zenon
  <2> QED BY <2>1, <2>2
<1>3. Solves(h)
  <2> HIDE DEF Solves
  <2> QED BY <1>2
<1>4. Ancestor(st, s, n) = h[n]
  BY DEF Ancestor
<1> HIDE DEF h
<1>5. Climb(st, s, n, h)
  <2>1. h = [i \in 0 .. n |-> h[i]]
    BY <1>3
  <2>2. h[0] = s
    BY <1>3
  <2>3. \A i \in 1 .. n : h[i] = st[h[i - 1]].up
    BY <1>3
  <2> HIDE DEF Solves
  <2> QED BY <2>1, <2>2, <2>3 DEF Climb
<1> QED BY <1>4, <1>5

\* One step more, at either end.
LEMMA AncestorSteps ==
    ASSUME NEW st, NEW s
    PROVE  /\ Ancestor(st, s, 0) = s
           /\ \A n \in Nat : Ancestor(st, s, n + 1) = st[Ancestor(st, s, n)].up
           /\ \A n \in Nat : Ancestor(st, s, n + 1) = Ancestor(st, st[s].up, n)
<1>1. \A n \in Nat : \E f : Climb(st, s, n, f) /\ Ancestor(st, s, n) = f[n]
  BY AncestorClimbs
<1>2. Ancestor(st, s, 0) = s
  BY <1>1 DEF Climb
<1>3. ASSUME NEW n \in Nat
      PROVE  Ancestor(st, s, n + 1) = st[Ancestor(st, s, n)].up
  <2>1. PICK f : Climb(st, s, n, f) /\ Ancestor(st, s, n) = f[n]
    BY <1>1
  <2>2. PICK g : Climb(st, s, n + 1, g) /\ Ancestor(st, s, n + 1) = g[n + 1]
    BY <1>1
  <2>3. n + 1 \in Nat /\ n \in 0 .. n + 1 /\ n \in 0 .. n /\ n + 1 \in 1 .. n + 1 /\ (n + 1) - 1 = n
    OBVIOUS
  <2>4. f[n] = g[n]
    BY <2>1, <2>2, <2>3, ClimbsAgree
  <2>5. g[n + 1] = st[g[n]].up
    BY <2>2, <2>3 DEF Climb
  <2> QED BY <2>1, <2>2, <2>4, <2>5
<1>4. ASSUME NEW n \in Nat
      PROVE  Ancestor(st, s, n + 1) = Ancestor(st, st[s].up, n)
  <2>1. PICK f : Climb(st, st[s].up, n, f) /\ Ancestor(st, st[s].up, n) = f[n]
    BY AncestorClimbs
  <2>2. PICK g : Climb(st, s, n + 1, g) /\ Ancestor(st, s, n + 1) = g[n + 1]
    BY <1>1
  <2> DEFINE h == [i \in 0 .. n |-> g[i + 1]]
  <2>3. \A i \in 0 .. n : h[i] = g[i + 1] /\ i + 1 \in 1 .. n + 1
    OBVIOUS
  <2>4. h = [i \in 0 .. n |-> h[i]]
    OBVIOUS
  <2> HIDE DEF h
  <2>5. h[0] = st[s].up
    BY <2>2, <2>3 DEF Climb
  <2>6. ASSUME NEW i \in 1 .. n PROVE h[i] = st[h[i - 1]].up
    <3>1. i \in 0 .. n /\ i - 1 \in 0 .. n /\ (i - 1) + 1 = i /\ (i + 1) - 1 = i
      OBVIOUS
    <3>2. h[i] = g[i + 1] /\ h[i - 1] = g[i] /\ i + 1 \in 1 .. n + 1
      BY <2>3, <3>1
    <3> QED BY <2>2, <3>1, <3>2 DEF Climb
  <2>7. Climb(st, st[s].up, n, h)
    BY <2>4, <2>5, <2>6 DEF Climb
  <2>8. f[n] = h[n]
    BY <2>1, <2>7, ClimbsAgree
  <2> QED BY <2>1, <2>2, <2>3, <2>8
<1> QED BY <1>2, <1>3, <1>4

LEMMA ChainEquation ==
    ASSUME NEW st, Rooted(st), NEW s \in DOMAIN st
    PROVE  /\ s \in Chain(st, s)
           /\ Chain(st, s) = IF st[s].up = 0 THEN {s} ELSE {s} \cup Chain(st, st[s].up)
<1>1. /\ Level(st, s) \in Nat
      /\ Level(st, s) = IF st[s].up = 0 THEN 0 ELSE 1 + Level(st, st[s].up)
  BY LevelEquation
<1>2. Ancestor(st, s, 0) = s
  BY AncestorSteps
<1>3. CASE st[s].up = 0
  <2>1. 0 .. Level(st, s) = {0}
    BY <1>1, <1>3
  <2> QED BY <2>1, <1>2, <1>3 DEF Chain
<1>4. CASE st[s].up # 0
  <2> DEFINE q == st[s].up
             n == Level(st, q)
  <2>1. q \in DOMAIN st
    BY <1>4 DEF Rooted, Ranks
  <2>2. n \in Nat /\ Level(st, s) = n + 1
    BY <1>1, <1>4, <2>1, LevelEquation
  <2>3. \A i \in 0 .. n : Ancestor(st, s, i + 1) = Ancestor(st, q, i) /\ i + 1 \in 0 .. n + 1
    BY AncestorSteps, <2>2
  <2>4. \A i \in 0 .. n + 1 : i = 0 \/ (i - 1 \in 0 .. n /\ (i - 1) + 1 = i)
    BY <2>2
  <2> HIDE DEF q, n
  <2>5. Chain(st, s) = {Ancestor(st, s, i) : i \in 0 .. n + 1}
    BY <2>2 DEF Chain
  <2>6. Chain(st, q) = {Ancestor(st, q, i) : i \in 0 .. n}
    BY DEF Chain, n
  <2>7. 0 \in 0 .. n + 1
    BY <2>2
  <2>8. Chain(st, s) \subseteq {s} \cup Chain(st, q)
    <3> SUFFICES ASSUME NEW x \in Chain(st, s) PROVE x = s \/ x \in Chain(st, q)
      OBVIOUS
    <3>1. PICK i \in 0 .. n + 1 : x = Ancestor(st, s, i)
      BY <2>5
    <3> QED BY <1>2, <2>3, <2>4, <2>6, <3>1
  <2>9. {s} \cup Chain(st, q) \subseteq Chain(st, s)
    BY <1>2, <2>3, <2>5, <2>6, <2>7
  <2> QED BY <1>4, <2>8, <2>9 DEF q
<1> QED BY <1>3, <1>4

\* What a chain is made of, and the levels along it.
LEMMA ChainInPool ==
    ASSUME NEW st, Rooted(st), NEW s \in DOMAIN st
    PROVE  Chain(st, s) \subseteq DOMAIN st
<1> DEFINE S == {x \in DOMAIN st : Chain(st, x) \subseteq DOMAIN st}
<1>1. \A x \in DOMAIN st : (st[x].up # 0 => st[x].up \in S) => x \in S
  BY ChainEquation
<1> HIDE DEF S
<1>2. s \in S
  BY <1>1, FromTheRoot
<1> QED BY <1>2 DEF S

LEMMA ChainInChain ==
    ASSUME NEW st, Rooted(st), NEW s \in DOMAIN st
    PROVE  \A x \in Chain(st, s) : Chain(st, x) \subseteq Chain(st, s)
<1> DEFINE S == {x \in DOMAIN st : \A y \in Chain(st, x) : Chain(st, y) \subseteq Chain(st, x)}
<1>1. \A x \in DOMAIN st : (st[x].up # 0 => st[x].up \in S) => x \in S
  <2> SUFFICES ASSUME NEW x \in DOMAIN st, st[x].up # 0 => st[x].up \in S,
                      NEW y \in Chain(st, x)
               PROVE  Chain(st, y) \subseteq Chain(st, x)
    OBVIOUS
  <2>1. Chain(st, x) = IF st[x].up = 0 THEN {x} ELSE {x} \cup Chain(st, st[x].up)
    BY ChainEquation
  <2>2. CASE y = x
    BY <2>2
  <2>3. CASE y # x
    <3>1. st[x].up # 0 /\ y \in Chain(st, st[x].up)
      BY <2>1, <2>3
    <3>2. Chain(st, y) \subseteq Chain(st, st[x].up)
      BY <3>1
    <3> QED BY <2>1, <3>1, <3>2
  <2> QED BY <2>2, <2>3
<1> HIDE DEF S
<1>2. s \in S
  BY <1>1, FromTheRoot
<1> QED BY <1>2 DEF S

\* A chain goes on to the parents of what is in it.
LEMMA ChainGoesUp ==
    ASSUME NEW st, Rooted(st), NEW s \in DOMAIN st, NEW x \in Chain(st, s), st[x].up # 0
    PROVE  st[x].up \in Chain(st, s) /\ st[x].up \in DOMAIN st
<1>1. x \in DOMAIN st
  BY ChainInPool
<1>2. st[x].up \in DOMAIN st
  BY <1>1 DEF Rooted, Ranks
<1>3. st[x].up \in Chain(st, x)
  BY <1>1, <1>2, ChainEquation
<1> QED BY <1>2, <1>3, ChainInChain

LEMMA LevelsFall ==
    ASSUME NEW st, Rooted(st), NEW s \in DOMAIN st
    PROVE  \A x \in Chain(st, s) :
              /\ Level(st, x) \in Nat
              /\ x = s \/ Level(st, x) < Level(st, s)
<1> DEFINE S == {x \in DOMAIN st : \A y \in Chain(st, x) :
                    Level(st, y) \in Nat /\ (y = x \/ Level(st, y) < Level(st, x))}
<1>1. \A x \in DOMAIN st : (st[x].up # 0 => st[x].up \in S) => x \in S
  <2> SUFFICES ASSUME NEW x \in DOMAIN st, st[x].up # 0 => st[x].up \in S,
                      NEW y \in Chain(st, x)
               PROVE  Level(st, y) \in Nat /\ (y = x \/ Level(st, y) < Level(st, x))
    OBVIOUS
  <2>1. Chain(st, x) = IF st[x].up = 0 THEN {x} ELSE {x} \cup Chain(st, st[x].up)
    BY ChainEquation
  <2>2. /\ Level(st, x) \in Nat
        /\ Level(st, x) = IF st[x].up = 0 THEN 0 ELSE 1 + Level(st, st[x].up)
    BY LevelEquation
  <2>3. CASE y = x
    BY <2>2, <2>3
  <2>4. CASE y # x
    <3>1. st[x].up # 0 /\ y \in Chain(st, st[x].up) /\ st[x].up \in S
      BY <2>1, <2>4
    <3>2. /\ Level(st, y) \in Nat
          /\ y = st[x].up \/ Level(st, y) < Level(st, st[x].up)
      BY <3>1
    <3>3. Level(st, st[x].up) \in Nat /\ Level(st, x) = 1 + Level(st, st[x].up)
      BY <2>2, <3>1, LevelEquation
    <3> HIDE DEF S
    <3> QED BY <3>2, <3>3
  <2> QED BY <2>3, <2>4
<1> HIDE DEF S
<1>2. s \in S
  BY <1>1, FromTheRoot
<1> QED BY <1>2 DEF S

\* Of two statements around s one is around the other.
LEMMA ChainIsAChain ==
    ASSUME NEW st, Rooted(st), NEW s \in DOMAIN st
    PROVE  \A x, y \in Chain(st, s) : x \in Chain(st, y) \/ y \in Chain(st, x)
<1> DEFINE S == {z \in DOMAIN st :
                    \A x, y \in Chain(st, z) : x \in Chain(st, y) \/ y \in Chain(st, x)}
<1>1. \A z \in DOMAIN st : (st[z].up # 0 => st[z].up \in S) => z \in S
  <2> SUFFICES ASSUME NEW z \in DOMAIN st, st[z].up # 0 => st[z].up \in S,
                      NEW x \in Chain(st, z), NEW y \in Chain(st, z)
               PROVE  x \in Chain(st, y) \/ y \in Chain(st, x)
    OBVIOUS
  <2>1. Chain(st, z) = IF st[z].up = 0 THEN {z} ELSE {z} \cup Chain(st, st[z].up)
    BY ChainEquation
  <2> QED BY <2>1
<1> HIDE DEF S
<1>2. s \in S
  BY <1>1, FromTheRoot
<1> QED BY <1>2 DEF S

\* Different statements around s have different levels and different parents.
LEMMA OnePerLevel ==
    ASSUME NEW st, Rooted(st), NEW s \in DOMAIN st,
           NEW x \in Chain(st, s), NEW y \in Chain(st, s)
    PROVE  /\ Level(st, x) = Level(st, y) => x = y
           /\ st[x].up = st[y].up => x = y
<1>1. x \in DOMAIN st /\ y \in DOMAIN st
  BY ChainInPool
<1>2. x \in Chain(st, y) \/ y \in Chain(st, x)
  BY ChainIsAChain
<1>3. /\ x \in Chain(st, y) => x = y \/ Level(st, x) < Level(st, y)
      /\ y \in Chain(st, x) => y = x \/ Level(st, y) < Level(st, x)
      /\ Level(st, x) \in Nat /\ Level(st, y) \in Nat
  BY <1>1, LevelsFall, LevelEquation
<1>4. Level(st, x) = Level(st, y) => x = y
  BY <1>2, <1>3
<1>5. st[x].up = st[y].up => Level(st, x) = Level(st, y)
  BY <1>1, LevelEquation
<1> QED BY <1>4, <1>5

\* Nothing is inside what it contains.
LEMMA NotInItself ==
    ASSUME NEW st, Rooted(st), NEW s \in DOMAIN st, st[s].up # 0
    PROVE  s \notin Chain(st, st[s].up)
<1>1. st[s].up \in DOMAIN st
  BY DEF Rooted, Ranks
<1>2. Level(st, s) = 1 + Level(st, st[s].up) /\ Level(st, st[s].up) \in Nat
  BY <1>1, LevelEquation
<1>3. s \in Chain(st, st[s].up) => s = st[s].up \/ Level(st, s) < Level(st, st[s].up)
  BY <1>1, LevelsFall
<1> QED BY <1>2, <1>3

\* The ancestor n levels up.
LEMMA AncestorLevel ==
    ASSUME NEW st, Rooted(st), NEW s \in DOMAIN st, NEW n \in 0 .. Level(st, s)
    PROVE  /\ Ancestor(st, s, n) \in Chain(st, s)
           /\ Ancestor(st, s, n) \in DOMAIN st
           /\ Level(st, Ancestor(st, s, n)) = Level(st, s) - n
<1> DEFINE S == {x \in DOMAIN st : \A k \in 0 .. Level(st, x) :
                    Level(st, Ancestor(st, x, k)) = Level(st, x) - k}
<1>1. \A x \in DOMAIN st : (st[x].up # 0 => st[x].up \in S) => x \in S
  <2> SUFFICES ASSUME NEW x \in DOMAIN st, st[x].up # 0 => st[x].up \in S,
                      NEW k \in 0 .. Level(st, x)
               PROVE  Level(st, Ancestor(st, x, k)) = Level(st, x) - k
    OBVIOUS
  <2>1. /\ Level(st, x) \in Nat
        /\ Level(st, x) = IF st[x].up = 0 THEN 0 ELSE 1 + Level(st, st[x].up)
    BY LevelEquation
  <2>2. CASE k = 0
    BY <2>1, <2>2, AncestorSteps
  <2>3. CASE k # 0
    <3>1. st[x].up # 0 /\ st[x].up \in S /\ st[x].up \in DOMAIN st
      BY <2>1, <2>3
    <3>2. Level(st, st[x].up) \in Nat
      BY <3>1, LevelEquation
    <3>3. k - 1 \in 0 .. Level(st, st[x].up) /\ (k - 1) + 1 = k /\ k - 1 \in Nat
      BY <2>1, <2>3, <3>1, <3>2
    <3>4. Level(st, Ancestor(st, st[x].up, k - 1)) = Level(st, st[x].up) - (k - 1)
      BY <3>1, <3>3
    <3>5. Ancestor(st, x, k) = Ancestor(st, st[x].up, k - 1)
      BY <3>3, AncestorSteps
    <3> HIDE DEF S
    <3> QED BY <2>1, <2>3, <3>1, <3>2, <3>4, <3>5
  <2> QED BY <2>2, <2>3
<1> HIDE DEF S
<1>2. s \in S
  BY <1>1, FromTheRoot
<1>3. Ancestor(st, s, n) \in Chain(st, s)
  BY DEF Chain
<1> QED BY <1>2, <1>3, ChainInPool DEF S

\* The ancestor of b, b included, that is on the level of a: it has the parent a
\* has whenever the parent of a is around b.
LEMMA NephewsAncestor ==
    ASSUME NEW st, Rooted(st), NEW a \in DOMAIN st, NEW b \in DOMAIN st,
           st[a].up # 0, st[b].up # 0, Level(st, a) <= Level(st, b)
    PROVE  LET x == Ancestor(st, b, Level(st, b) - Level(st, a))
           IN  /\ x \in Chain(st, b) /\ x \in DOMAIN st
               /\ Level(st, x) = Level(st, a)
               /\ st[x].up # 0
               /\ st[a].up = st[x].up <=> st[a].up \in Chain(st, st[b].up)
<1> DEFINE n == Level(st, b) - Level(st, a)
           x == Ancestor(st, b, n)
<1>1. /\ Level(st, a) \in Nat /\ Level(st, b) \in Nat
      /\ Level(st, a) = 1 + Level(st, st[a].up) /\ Level(st, st[a].up) \in Nat
      /\ st[a].up \in DOMAIN st /\ st[b].up \in DOMAIN st
  BY LevelEquation DEF Rooted, Ranks
<1>2. n \in 0 .. Level(st, b) /\ Level(st, b) - n = Level(st, a)
  BY <1>1
<1> HIDE DEF n
<1>3. x \in Chain(st, b) /\ x \in DOMAIN st /\ Level(st, x) = Level(st, a)
  BY <1>2, AncestorLevel
<1> HIDE DEF x
<1>4. /\ Level(st, x) = IF st[x].up = 0 THEN 0 ELSE 1 + Level(st, st[x].up)
      /\ st[x].up # 0 => st[x].up \in DOMAIN st
  BY <1>3, LevelEquation DEF Rooted, Ranks
<1>5. st[x].up # 0 /\ st[x].up \in DOMAIN st
  BY <1>1, <1>3, <1>4
<1>6. Level(st, st[x].up) = Level(st, st[a].up) /\ Level(st, st[x].up) < Level(st, b)
  <2>1. Level(st, st[x].up) \in Nat
    BY <1>5, LevelEquation
  <2> QED BY <1>1, <1>3, <1>4, <1>5, <2>1
<1>7. st[x].up \in Chain(st, st[b].up)
  <2>1. st[x].up \in Chain(st, b)
    BY <1>3, <1>5, ChainGoesUp
  <2>2. st[x].up # b
    BY <1>1, <1>6
  <2>3. Chain(st, b) = {b} \cup Chain(st, st[b].up)
    BY ChainEquation
  <2> QED BY <2>1, <2>2, <2>3
<1>8. st[a].up \in Chain(st, st[b].up) => st[a].up = st[x].up
  BY <1>1, <1>6, <1>7, OnePerLevel
<1> QED BY <1>3, <1>5, <1>7, <1>8 DEF x, n

\* Directly related: one of the two lists is around the other, or they are one.
LEMMA RelatedMeans ==
    ASSUME NEW st, Rooted(st), NEW g \in DOMAIN st, NEW l \in DOMAIN st,
           st[g].up # 0, st[l].up # 0
    PROVE  IsDirectlyRelated(st, g, l) <=>
              IF Level(st, l) < Level(st, g) THEN st[l].up \in Chain(st, st[g].up)
                                             ELSE st[g].up \in Chain(st, st[l].up)
<1>1. Level(st, g) \in Nat /\ Level(st, l) \in Nat
  BY LevelEquation
<1>2. CASE Level(st, l) < Level(st, g)
  <2>1. IsDirectlyRelated(st, g, l) <=>
            st[l].up = st[Ancestor(st, g, Level(st, g) - Level(st, l))].up
    BY <1>2 DEF IsDirectlyRelated
  <2>2. Level(st, l) <= Level(st, g)
    BY <1>1, <1>2
  <2>3. st[l].up = st[Ancestor(st, g, Level(st, g) - Level(st, l))].up
            <=> st[l].up \in Chain(st, st[g].up)
    BY <2>2, NephewsAncestor
  <2> QED BY <1>2, <2>1, <2>3
<1>3. CASE ~(Level(st, l) < Level(st, g))
  <2>1. IsDirectlyRelated(st, g, l) <=>
            st[g].up = st[Ancestor(st, l, Level(st, l) - Level(st, g))].up
    BY <1>3 DEF IsDirectlyRelated
  <2>2. Level(st, g) <= Level(st, l)
    BY <1>1, <1>3
  <2>3. st[g].up = st[Ancestor(st, l, Level(st, l) - Level(st, g))].up
            <=> st[g].up \in Chain(st, st[l].up)
    BY <2>2, NephewsAncestor
  <2> QED BY <1>3, <2>1, <2>3
<1> QED BY <1>2, <1>3

\* Statements with their parents, and new ones below them: chains stay.
LEMMA ChainsStay ==
    ASSUME NEW st, Rooted(st), NEW s2, DOMAIN st \subseteq DOMAIN s2,
           \A s \in DOMAIN st : s2[s].up = st[s].up,
           \A n \in DOMAIN s2 \ DOMAIN st : s2[n].up \in DOMAIN st
    PROVE  /\ Rooted(s2)
           /\ \A s \in DOMAIN st : Chain(s2, s) = Chain(st, s) /\ Level(s2, s) = Level(st, s)
<1>0. PICK m \in Nat : \E r : Ranks(st, r, m)
  BY DEF Rooted
<1>1. PICK r : Ranks(st, r, m)
  BY <1>0
<1> DEFINE q == [s \in DOMAIN s2 |-> IF s \in DOMAIN st THEN r[s] ELSE m + 1]
<1>2. Rooted(s2)
  <2>1. q \in [DOMAIN s2 -> 0 .. m + 1]
    BY <1>1 DEF Ranks
  <2>2. ASSUME NEW s \in DOMAIN s2, s2[s].up # 0
        PROVE  s2[s].up \in DOMAIN s2 /\ q[s2[s].up] < q[s]
    <3>1. CASE s \in DOMAIN st
      <4>1. s2[s].up \in DOMAIN st /\ r[s2[s].up] < r[s]
        BY <1>1, <2>2, <3>1 DEF Ranks
      <4> QED BY <3>1, <4>1
    <3>2. CASE s \notin DOMAIN st
      <4>1. s2[s].up \in DOMAIN st
        BY <3>2
      <4>2. r[s2[s].up] \in 0 .. m
        BY <1>1, <4>1 DEF Ranks
      <4> QED BY <3>2, <4>1, <4>2
    <3> QED BY <3>1, <3>2
  <2>3. m + 1 \in Nat
    OBVIOUS
  <2> HIDE DEF q
  <2>4. Ranks(s2, q, m + 1)
    BY <2>1, <2>2 DEF Ranks
  <2> QED BY <2>3, <2>4 DEF Rooted
<1> DEFINE S == {s \in DOMAIN st : Chain(s2, s) = Chain(st, s) /\ Level(s2, s) = Level(st, s)}
<1>3. \A s \in DOMAIN st : (st[s].up # 0 => st[s].up \in S) => s \in S
  <2> SUFFICES ASSUME NEW s \in DOMAIN st, st[s].up # 0 => st[s].up \in S
               PROVE  Chain(s2, s) = Chain(st, s) /\ Level(s2, s) = Level(st, s)
    OBVIOUS
  <2>1. /\ Chain(st, s) = IF st[s].up = 0 THEN {s} ELSE {s} \cup Chain(st, st[s].up)
        /\ Level(st, s) = IF st[s].up = 0 THEN 0 ELSE 1 + Level(st, st[s].up)
    BY ChainEquation, LevelEquation
  <2>2. /\ Chain(s2, s) = IF s2[s].up = 0 THEN {s} ELSE {s} \cup Chain(s2, s2[s].up)
        /\ Level(s2, s) = IF s2[s].up = 0 THEN 0 ELSE 1 + Level(s2, s2[s].up)
    BY <1>2, ChainEquation, LevelEquation
  <2> QED BY <2>1, <2>2
<1> HIDE DEF S
<1>4. DOMAIN st \subseteq S
  BY <1>3, FromTheRoot
<1> QED BY <1>2, <1>4 DEF S

\* In s2 a new Tree t below p has taken over the children C of p.
ChainsGrow(st, s2, t, p, C) ==
    /\ Rooted(s2)
    /\ \A s \in DOMAIN st :
          /\ Chain(st, s) \cap C = {} =>
                Chain(s2, s) = Chain(st, s) /\ Level(s2, s) = Level(st, s)
          /\ Chain(st, s) \cap C # {} => Chain(s2, s) = Chain(st, s) \cup {t}
    /\ Chain(s2, t) = Chain(st, p) \cup {t}
    /\ Level(s2, t) = Level(st, p) + 1


\* A new Tree t below p around some children C of p: it is in the chains of what
\* is inside C and in no others.
LEMMA ChainsWrapped ==
    ASSUME NEW st, Rooted(st), NEW s2, NEW t, t \notin DOMAIN st, t # 0,
           DOMAIN s2 = DOMAIN st \cup {t},
           NEW p \in DOMAIN st, p # 0, s2[t].up = p,
           NEW C \in SUBSET DOMAIN st,
           \A c \in C : st[c].up = p /\ s2[c].up = t,
           \A s \in DOMAIN st \ C : s2[s].up = st[s].up
    PROVE  ChainsGrow(st, s2, t, p, C)
<1>0. PICK m \in Nat : \E r : Ranks(st, r, m)
  BY DEF Rooted
<1>1. PICK r : Ranks(st, r, m)
  BY <1>0
<1>a. \A s \in DOMAIN st : /\ r[s] \in 0 .. m
                           /\ st[s].up # 0 => st[s].up \in DOMAIN st /\ r[st[s].up] < r[s]
  BY <1>1 DEF Ranks
<1> DEFINE q == [s \in DOMAIN s2 |-> IF s = t THEN 2 * r[p] + 1 ELSE 2 * r[s]]
<1>2. Rooted(s2)
  <2>1. q \in [DOMAIN s2 -> 0 .. 2 * m + 1]
    BY <1>a
  <2>2. ASSUME NEW s \in DOMAIN s2, s2[s].up # 0
        PROVE  s2[s].up \in DOMAIN s2 /\ q[s2[s].up] < q[s]
    <3>1. CASE s = t
      <4>1. q[s] = 2 * r[p] + 1 /\ q[p] = 2 * r[p] /\ r[p] \in 0 .. m
        BY <3>1, <1>a
      <4> HIDE DEF q
      <4> QED BY <3>1, <4>1
    <3>2. CASE s \in C
      <4>1. r[p] < r[s] /\ r[p] \in 0 .. m /\ r[s] \in 0 .. m
        BY <3>2, <1>a
      <4>2. q[s] = 2 * r[s] /\ q[t] = 2 * r[p] + 1 /\ s2[s].up = t
        BY <3>2
      <4> HIDE DEF q
      <4> QED BY <4>1, <4>2
    <3>3. CASE s \in DOMAIN st \ C
      <4>1. s2[s].up = st[s].up /\ st[s].up \in DOMAIN st /\ r[st[s].up] < r[s]
        BY <2>2, <3>3, <1>a
      <4>2. r[st[s].up] \in 0 .. m /\ r[s] \in 0 .. m
        BY <3>3, <4>1, <1>a
      <4>3. q[s] = 2 * r[s] /\ q[st[s].up] = 2 * r[st[s].up]
        BY <3>3, <4>1
      <4> HIDE DEF q
      <4> QED BY <4>1, <4>2, <4>3
    <3> QED BY <3>1, <3>2, <3>3
  <2>3. 2 * m + 1 \in Nat
    OBVIOUS
  <2> HIDE DEF q
  <2>4. Ranks(s2, q, 2 * m + 1)
    BY <2>1, <2>2 DEF Ranks
  <2> QED BY <2>3, <2>4 DEF Rooted
<1> HIDE DEF q
\* What is around p is not inside p.
<1>3. Chain(st, p) \cap C = {}
  <2> SUFFICES ASSUME NEW c \in C, c \in Chain(st, p) PROVE FALSE
    OBVIOUS
  <2>1. st[c].up = p /\ st[c].up # 0 /\ c \in DOMAIN st
    OBVIOUS
  <2>2. c \notin Chain(st, st[c].up)
    BY <2>1, NotInItself
  <2> QED BY <2>1, <2>2
<1> DEFINE S == {s \in DOMAIN st : Chain(st, s) \cap C = {} =>
                      Chain(s2, s) = Chain(st, s) /\ Level(s2, s) = Level(st, s)}
<1>4. \A s \in DOMAIN st : (st[s].up # 0 => st[s].up \in S) => s \in S
  <2> SUFFICES ASSUME NEW s \in DOMAIN st, st[s].up # 0 => st[s].up \in S,
                      Chain(st, s) \cap C = {}
               PROVE  Chain(s2, s) = Chain(st, s) /\ Level(s2, s) = Level(st, s)
    OBVIOUS
  <2>1. /\ Chain(st, s) = IF st[s].up = 0 THEN {s} ELSE {s} \cup Chain(st, st[s].up)
        /\ Level(st, s) = IF st[s].up = 0 THEN 0 ELSE 1 + Level(st, st[s].up)
        /\ s \in Chain(st, s)
    BY ChainEquation, LevelEquation
  <2>2. /\ Chain(s2, s) = IF s2[s].up = 0 THEN {s} ELSE {s} \cup Chain(s2, s2[s].up)
        /\ Level(s2, s) = IF s2[s].up = 0 THEN 0 ELSE 1 + Level(s2, s2[s].up)
    BY <1>2, ChainEquation, LevelEquation
  <2>3. s \notin C /\ s2[s].up = st[s].up
    BY <2>1
  <2> QED BY <2>1, <2>2, <2>3
<1> HIDE DEF S
<1>5. DOMAIN st \subseteq S
  BY <1>4, FromTheRoot
<1>6. Chain(s2, p) = Chain(st, p) /\ Level(s2, p) = Level(st, p)
  BY <1>3, <1>5 DEF S
<1>7. /\ Chain(s2, t) = Chain(st, p) \cup {t}
      /\ Level(s2, t) = Level(st, p) + 1
  <2>1. /\ Chain(s2, t) = {t} \cup Chain(s2, s2[t].up)
        /\ Level(s2, t) = 1 + Level(s2, s2[t].up)
    BY <1>2, ChainEquation, LevelEquation
  <2>2. Level(st, p) \in Nat
    BY LevelEquation
  <2> QED BY <1>6, <2>1, <2>2
<1> DEFINE T == {s \in DOMAIN st : Chain(st, s) \cap C # {} => Chain(s2, s) = Chain(st, s) \cup {t}}
<1>8. \A s \in DOMAIN st : (st[s].up # 0 => st[s].up \in T) => s \in T
  <2> SUFFICES ASSUME NEW s \in DOMAIN st, st[s].up # 0 => st[s].up \in T,
                      Chain(st, s) \cap C # {}
               PROVE  Chain(s2, s) = Chain(st, s) \cup {t}
    OBVIOUS
  <2>1. Chain(st, s) = IF st[s].up = 0 THEN {s} ELSE {s} \cup Chain(st, st[s].up)
    BY ChainEquation
  <2>2. Chain(s2, s) = IF s2[s].up = 0 THEN {s} ELSE {s} \cup Chain(s2, s2[s].up)
    BY <1>2, ChainEquation
  <2>3. CASE s \in C
    <3>1. Chain(s2, s) = {s} \cup Chain(s2, t)
      BY <2>2, <2>3
    <3>2. Chain(st, s) = {s} \cup Chain(st, p)
      BY <2>1, <2>3
    <3> QED BY <1>7, <3>1, <3>2
  <2>4. CASE s \notin C
    <3>1. st[s].up # 0 /\ st[s].up \in T /\ Chain(st, st[s].up) \cap C # {}
      BY <2>1, <2>4
    <3>2. Chain(s2, st[s].up) = Chain(st, st[s].up) \cup {t}
      BY <3>1
    <3>3. s2[s].up = st[s].up
      BY <2>4
    <3> QED BY <2>1, <2>2, <3>1, <3>2, <3>3
  <2> QED BY <2>3, <2>4
<1> HIDE DEF T
<1>9. DOMAIN st \subseteq T
  BY <1>8, FromTheRoot
<1> QED BY <1>2, <1>5, <1>7, <1>9 DEF S, T, ChainsGrow

-----------------------------------------------------------------------------
(* The pool                                                                *)

\* The list statement s is in, or was in.
Siblings(st, s) == Children(st, st[s].up)

\* A statement has the fields of its type.
Complete(r) ==
    /\ {"type", "up"} \subseteq DOMAIN r
    /\ r.type = "Goto" => "label" \in DOMAIN r
    /\ r.type \in {"If", "Loop", "Function"} => "children" \in DOMAIN r

Fields(st) ==
    /\ Root \in DOMAIN st /\ 0 \notin DOMAIN st
    /\ st[Root].up = 0
    /\ \A s \in DOMAIN st :
          /\ st[s].type \in Types
          /\ st[s].type = "Function" <=> s = Root
          /\ s # Root => st[s].up \in DOMAIN st /\ HasChildren(st, st[s].up)
          /\ Complete(st[s])
          /\ Children(st, s) \in Seq(DOMAIN st)
          /\ st[s].type = "Goto" => st[s].label \in DOMAIN st /\ st[st[s].label].type = "Label"

\* Lists and up agree, and only a goto is ever taken out of the lists.
Lists(st) ==
    /\ \A p \in DOMAIN st :
          /\ Once(Children(st, p))
          /\ \A c \in DOMAIN st : Contains(Children(st, p), c) => st[c].up = p
    /\ \A s \in DOMAIN st \ {Root} :
          st[s].type # "Goto" => Contains(Siblings(st, s), s)

BreaksInLoops(st) ==
    \A s \in DOMAIN st :
        st[s].type = "Break" => \E t \in Chain(st, s) : st[t].type = "Loop"

PoolOK(st) == Fields(st) /\ Lists(st) /\ Rooted(st) /\ BreaksInLoops(st)

\* Around w there are only Loops, and no Tree or Break stands before any of it.
Spine(st, w) ==
    \A x \in Chain(st, w) \ {Root} :
        /\ x = w \/ st[x].type = "Loop"
        /\ \A e \in DOMAIN st :
              Earlier(Siblings(st, x), e, x) => st[e].type \notin {"If", "Loop", "Break"}

\* w is not in the text behind v.
NotBehind(st, v, w) ==
    \A x \in Chain(st, v) \ {Root} : \A e \in DOMAIN st :
        Earlier(Siblings(st, x), x, e) => e \notin Chain(st, w)

\* The same statement with other children or another parent.
SameKind(r2, r) ==
    Complete(r2) /\ r2.type = r.type /\ (r.type = "Goto" => r2.label = r.label)

\* list2 is list without "gone" and with things that are not in D.
Renews(D, gone, list, list2) ==
    /\ Once(list2)
    /\ \A c \in D : Contains(list2, c) => Contains(list, c) /\ c \notin gone
    /\ \A c \in D \ gone : Contains(list, c) => Contains(list2, c)
    /\ \A a, b \in D : Earlier(list2, a, b) => Earlier(list, a, b)

\* s2 is st with new leaves in its lists; the gotos "gone" are in no list.
Leaves(st, s2, gone) ==
    /\ DOMAIN st \subseteq DOMAIN s2 /\ 0 \notin DOMAIN s2
    /\ \A s \in DOMAIN st : SameKind(s2[s], st[s]) /\ s2[s].up = st[s].up
    /\ \A n \in DOMAIN s2 \ DOMAIN st :
          /\ s2[n].type \in {"Goto", "SetVariable", "Break", "Code"}
          /\ s2[n].up \in DOMAIN st /\ HasChildren(st, s2[n].up)
          /\ Complete(s2[n])
          /\ Contains(Children(s2, s2[n].up), n)
          /\ s2[n].type = "Goto" => s2[n].label \in DOMAIN st /\ st[s2[n].label].type = "Label"
          /\ s2[n].type = "Break" => st[s2[n].up].type = "Loop"
    /\ \A p \in DOMAIN st :
          /\ Children(s2, p) \in Seq(DOMAIN s2)
          /\ Renews(DOMAIN st, gone, Children(st, p), Children(s2, p))
          /\ \A c \in DOMAIN s2 \ DOMAIN st : Contains(Children(s2, p), c) => s2[c].up = p

LEMMA LeavesKeepPool ==
    ASSUME NEW st, PoolOK(st), NEW s2, NEW gone, Leaves(st, s2, gone),
           \A g \in gone : g \in DOMAIN st /\ st[g].type = "Goto"
    PROVE  /\ PoolOK(s2)
           /\ \A s \in DOMAIN st : Chain(s2, s) = Chain(st, s) /\ Level(s2, s) = Level(st, s)
           /\ \A n \in DOMAIN s2 \ DOMAIN st : Chain(s2, n) = {n} \cup Chain(st, s2[n].up)
<1> USE DEF HasChildren
<1>1. Fields(st) /\ Lists(st) /\ Rooted(st) /\ BreaksInLoops(st)
  BY DEF PoolOK
<1>2. /\ Rooted(s2)
      /\ \A s \in DOMAIN st : Chain(s2, s) = Chain(st, s) /\ Level(s2, s) = Level(st, s)
  <2>1. /\ DOMAIN st \subseteq DOMAIN s2
        /\ \A s \in DOMAIN st : s2[s].up = st[s].up
        /\ \A n \in DOMAIN s2 \ DOMAIN st : s2[n].up \in DOMAIN st
    BY DEF Leaves, Renews, SameKind
  <2> QED BY <1>1, <2>1, ChainsStay
<1>3. ASSUME NEW n \in DOMAIN s2 \ DOMAIN st
      PROVE  Chain(s2, n) = {n} \cup Chain(st, s2[n].up)
  <2>1. s2[n].up \in DOMAIN st /\ s2[n].up # 0
    BY <1>1 DEF Leaves, Renews, SameKind, Fields
  <2>2. Chain(s2, n) = {n} \cup Chain(s2, s2[n].up)
    BY <1>2, <2>1, ChainEquation
  <2> QED BY <1>2, <2>1, <2>2
<1>4. Fields(s2)
  <2>1. Root \in DOMAIN s2 /\ 0 \notin DOMAIN s2 /\ s2[Root].up = 0
    BY <1>1 DEF Leaves, Renews, SameKind, Fields
  <2>2. ASSUME NEW s \in DOMAIN st
        PROVE  /\ s2[s].type \in Types
               /\ s2[s].type = "Function" <=> s = Root
               /\ s # Root => s2[s].up \in DOMAIN s2 /\ HasChildren(s2, s2[s].up)
               /\ Complete(s2[s])
               /\ Children(s2, s) \in Seq(DOMAIN s2)
               /\ s2[s].type = "Goto" => s2[s].label \in DOMAIN s2 /\ s2[s2[s].label].type = "Label"
    <3>1. /\ s \in DOMAIN s2 /\ s2[s].type = st[s].type /\ s2[s].up = st[s].up
          /\ Complete(s2[s])
          /\ Children(s2, s) \in Seq(DOMAIN s2)
      BY DEF Leaves, Renews, SameKind
    <3>2. /\ st[s].type \in Types
          /\ st[s].type = "Function" <=> s = Root
      BY <1>1 DEF Fields
    <3>3. s # Root => s2[s].up \in DOMAIN s2 /\ HasChildren(s2, s2[s].up)
      <4>1. s # Root => st[s].up \in DOMAIN st /\ HasChildren(st, st[s].up)
        BY <1>1 DEF Fields
      <4> QED BY <3>1, <4>1 DEF Leaves, Renews, SameKind
    <3>4. s2[s].type = "Goto" => s2[s].label \in DOMAIN s2 /\ s2[s2[s].label].type = "Label"
      <4>1. st[s].type = "Goto" => st[s].label \in DOMAIN st /\ st[st[s].label].type = "Label"
        BY <1>1 DEF Fields
      <4> QED BY <3>1, <4>1 DEF Leaves, Renews, SameKind
    <3> QED BY <3>1, <3>2, <3>3, <3>4
  <2>3. ASSUME NEW s \in DOMAIN s2 \ DOMAIN st
        PROVE  /\ s2[s].type \in Types
               /\ s2[s].type = "Function" <=> s = Root
               /\ s # Root => s2[s].up \in DOMAIN s2 /\ HasChildren(s2, s2[s].up)
               /\ Complete(s2[s])
               /\ Children(s2, s) \in Seq(DOMAIN s2)
               /\ s2[s].type = "Goto" => s2[s].label \in DOMAIN s2 /\ s2[s2[s].label].type = "Label"
    <3>1. s2[s].type \in {"Goto", "SetVariable", "Break", "Code"}
      BY DEF Leaves, Renews, SameKind
    <3>2. /\ s2[s].type \in Types /\ s2[s].type # "Function" /\ s # Root
          /\ ~HasChildren(s2, s)
      BY <1>1, <3>1 DEF Types, Fields
    <3>3. Children(s2, s) \in Seq(DOMAIN s2)
      BY <3>2, EmptySeq DEF Children
    <3>4. s2[s].up \in DOMAIN s2 /\ HasChildren(s2, s2[s].up)
      BY DEF Leaves, Renews, SameKind
    <3>5. s2[s].type = "Goto" => s2[s].label \in DOMAIN s2 /\ s2[s2[s].label].type = "Label"
      BY DEF Leaves, Renews, SameKind
    <3>6. Complete(s2[s])
      BY DEF Leaves, Renews, SameKind
    <3> QED BY <3>2, <3>3, <3>4, <3>5, <3>6
  <2> QED BY <2>1, <2>2, <2>3 DEF Fields
<1>5. \A n \in DOMAIN s2 \ DOMAIN st : Children(s2, n) = <<>>
  <2>1. \A n \in DOMAIN s2 \ DOMAIN st : ~HasChildren(s2, n)
    BY DEF Leaves, Renews, SameKind
  <2> QED BY <2>1 DEF Children
<1>6. Lists(s2)
  <2>1. ASSUME NEW p \in DOMAIN s2
        PROVE  /\ Once(Children(s2, p))
               /\ \A c \in DOMAIN s2 : Contains(Children(s2, p), c) => s2[c].up = p
    <3>1. CASE p \in DOMAIN st
      BY <1>1, <3>1 DEF Leaves, Renews, SameKind, Lists
    <3>2. CASE p \notin DOMAIN st
      BY <1>5, <3>2, NothingIn DEF Once
    <3> QED BY <3>1, <3>2
  <2>2. ASSUME NEW s \in DOMAIN s2 \ {Root}, s2[s].type # "Goto"
        PROVE  Contains(Siblings(s2, s), s)
    <3>1. CASE s \in DOMAIN st
      <4>1. s2[s].up = st[s].up /\ st[s].up \in DOMAIN st /\ st[s].type # "Goto" /\ s \notin gone
        BY <1>1, <2>2, <3>1 DEF Leaves, Renews, SameKind, Fields
      <4>2. Contains(Children(st, st[s].up), s)
        BY <1>1, <3>1, <4>1 DEF Lists, Siblings
      <4> QED BY <3>1, <4>1, <4>2 DEF Leaves, Renews, SameKind, Siblings
    <3>2. CASE s \notin DOMAIN st
      BY <3>2 DEF Leaves, Renews, SameKind, Siblings
    <3> QED BY <3>1, <3>2
  <2> QED BY <2>1, <2>2 DEF Lists
<1>7. BreaksInLoops(s2)
  <2> SUFFICES ASSUME NEW s \in DOMAIN s2, s2[s].type = "Break"
               PROVE  \E t \in Chain(s2, s) : s2[t].type = "Loop"
    BY DEF BreaksInLoops
  <2>1. CASE s \in DOMAIN st
    <3>1. PICK t \in Chain(st, s) : st[t].type = "Loop"
      BY <1>1, <2>1 DEF BreaksInLoops, Leaves, Renews, SameKind
    <3>2. t \in DOMAIN st
      BY <1>1, <2>1, ChainInPool
    <3> QED BY <1>2, <2>1, <3>1, <3>2 DEF Leaves, Renews, SameKind
  <2>2. CASE s \notin DOMAIN st
    <3>1. s2[s].up \in DOMAIN st /\ s2[s2[s].up].type = "Loop"
      BY <2>2 DEF Leaves, Renews, SameKind
    <3>2. s2[s].up \in Chain(st, s2[s].up)
      BY <1>1, <3>1, ChainEquation
    <3> QED BY <1>3, <2>2, <3>1, <3>2
  <2> QED BY <2>1, <2>2
<1> QED BY <1>2, <1>3, <1>4, <1>6, <1>7 DEF PoolOK

\* Leaves disturb no waiting goto, provided no Break is put before it.
LEMMA LeavesKeepWaiting ==
    ASSUME NEW st, PoolOK(st), NEW s2, NEW gone, Leaves(st, s2, gone),
           \A g \in gone : g \in DOMAIN st /\ st[g].type = "Goto",
           NEW w \in DOMAIN st
    PROVE  /\ (Spine(st, w) /\ \A b \in DOMAIN s2 \ DOMAIN st, e \in DOMAIN st :
                  s2[b].type = "Break" /\ Earlier(Siblings(s2, b), b, e) => e \notin Chain(st, w))
              => Spine(s2, w)
           /\ \A v \in DOMAIN st : NotBehind(st, v, w) => NotBehind(s2, v, w)
<1>1. Fields(st) /\ Lists(st) /\ Rooted(st)
  BY DEF PoolOK
<1>2. \A s \in DOMAIN st : Chain(s2, s) = Chain(st, s) /\ Chain(st, s) \subseteq DOMAIN st
  BY <1>1, LeavesKeepPool, ChainInPool
<1>3. \A s \in DOMAIN st \ {Root} : st[s].up \in DOMAIN st /\ s2[s].up = st[s].up /\ s2[s].type = st[s].type
  BY <1>1 DEF Fields, Leaves, Renews, SameKind
<1>4. ASSUME Spine(st, w),
             \A b \in DOMAIN s2 \ DOMAIN st, e \in DOMAIN st :
                  s2[b].type = "Break" /\ Earlier(Siblings(s2, b), b, e) => e \notin Chain(st, w)
      PROVE  Spine(s2, w)
  <2> SUFFICES ASSUME NEW x \in Chain(st, w) \ {Root}
               PROVE  /\ x = w \/ s2[x].type = "Loop"
                      /\ \A e \in DOMAIN s2 : Earlier(Siblings(s2, x), e, x) =>
                            s2[e].type \notin {"If", "Loop", "Break"}
    BY <1>2 DEF Spine
  <2>1. x \in DOMAIN st \ {Root}
    BY <1>2
  <2>2. x = w \/ s2[x].type = "Loop"
    BY <1>3, <1>4, <2>1 DEF Spine
  <2>3. ASSUME NEW e \in DOMAIN s2, Earlier(Siblings(s2, x), e, x)
        PROVE  s2[e].type \notin {"If", "Loop", "Break"}
    <3>1. CASE e \in DOMAIN st
      <4>1. Earlier(Siblings(st, x), e, x)
        BY <1>3, <2>1, <2>3, <3>1 DEF Leaves, Renews, SameKind, Siblings
      <4>2. st[e].type \notin {"If", "Loop", "Break"}
        BY <1>4, <3>1, <4>1 DEF Spine
      <4> QED BY <3>1, <4>2 DEF Leaves, Renews, SameKind
    <3>2. CASE e \notin DOMAIN st
      <4>1. s2[e].type \in {"Goto", "SetVariable", "Break", "Code"}
        BY <3>2 DEF Leaves, Renews, SameKind
      <4>2. Contains(Children(s2, s2[x].up), e)
        BY <2>3, EarlierContained DEF Siblings
      <4>3. s2[e].up = s2[x].up
        BY <1>3, <2>1, <3>2, <4>2 DEF Leaves, Renews, SameKind
      <4>4. s2[e].type # "Break"
        BY <1>4, <2>1, <2>3, <3>2, <4>3 DEF Siblings
      <4> QED BY <4>1, <4>4
    <3> QED BY <3>1, <3>2
  <2> QED BY <2>2, <2>3
<1>5. ASSUME NEW v \in DOMAIN st, NotBehind(st, v, w)
      PROVE  NotBehind(s2, v, w)
  <2> SUFFICES ASSUME NEW x \in Chain(st, v) \ {Root}, NEW e \in DOMAIN s2,
                      Earlier(Siblings(s2, x), x, e), e \in Chain(st, w)
               PROVE  FALSE
    BY <1>2 DEF NotBehind
  <2>1. x \in DOMAIN st \ {Root} /\ e \in DOMAIN st
    BY <1>2
  <2>2. Earlier(Siblings(st, x), x, e)
    BY <1>3, <2>1 DEF Leaves, Renews, SameKind, Siblings
  <2> QED BY <1>5, <2>1, <2>2 DEF NotBehind
<1> QED BY <1>4, <1>5

\* s2 is st with the part C of the list A \o C \o B of p put into a new Tree t.
Wrap(st, s2, t, p, A, C, B) ==
    /\ t \notin DOMAIN st /\ t # 0 /\ DOMAIN s2 = DOMAIN st \cup {t}
    /\ s2[t].type \in {"If", "Loop"} /\ s2[t].up = p
    /\ Complete(s2[t])
    /\ s2[t].children = C
    /\ p \in DOMAIN st /\ HasChildren(st, p)
    /\ A \in Seq(DOMAIN st) /\ C \in Seq(DOMAIN st) /\ B \in Seq(DOMAIN st)
    /\ Children(st, p) = (A \o C) \o B
    /\ Children(s2, p) = (A \o <<t>>) \o B
    /\ \A s \in DOMAIN st :
          /\ SameKind(s2[s], st[s])
          /\ s2[s].up = IF Contains(C, s) THEN t ELSE st[s].up
          /\ s # p => Children(s2, s) = Children(st, s)

\* Which statements the two lists hold, and in which order.
LEMMA WrapLists ==
    ASSUME NEW st, NEW s2, NEW t, NEW p, NEW A, NEW C, NEW B, Wrap(st, s2, t, p, A, C, B)
    PROVE  /\ Children(s2, t) = C
           /\ Children(s2, p) \in Seq(DOMAIN s2)
           /\ \A a : /\ Contains(Children(st, p), a) <=> Contains(A, a) \/ Contains(C, a) \/ Contains(B, a)
                     /\ Contains(Children(s2, p), a) <=> Contains(A, a) \/ a = t \/ Contains(B, a)
           /\ \A a, b : /\ Earlier(Children(st, p), a, b) <=>
                              \/ Earlier(A, a, b) \/ Earlier(C, a, b) \/ Earlier(B, a, b)
                              \/ Contains(A, a) /\ Contains(C, b)
                              \/ (Contains(A, a) \/ Contains(C, a)) /\ Contains(B, b)
                        /\ Earlier(Children(s2, p), a, b) <=>
                              \/ Earlier(A, a, b) \/ Earlier(B, a, b)
                              \/ Contains(A, a) /\ b = t
                              \/ (Contains(A, a) \/ a = t) /\ Contains(B, b)
           /\ \A a : Contains(A, a) \/ Contains(B, a) \/ Contains(C, a) => a \in DOMAIN st
<1> DEFINE D == DOMAIN s2
<1>1. /\ A \in Seq(D) /\ C \in Seq(D) /\ B \in Seq(D) /\ <<t>> \in Seq(D)
  <2>1. DOMAIN st \subseteq D /\ t \in D
    BY DEF Wrap, SameKind
  <2>2. A \in Seq(DOMAIN st) /\ C \in Seq(DOMAIN st) /\ B \in Seq(DOMAIN st)
    BY DEF Wrap, SameKind
  <2> QED BY <2>1, <2>2
<1>2. Children(s2, t) = C
  BY DEF Wrap, SameKind, Children, HasChildren
<1>3. /\ Children(st, p) = (A \o C) \o B
      /\ Children(s2, p) = (A \o <<t>>) \o B
  BY DEF Wrap, SameKind
<1> HIDE DEF D
<1> DEFINE M == A \o C
           N == A \o <<t>>
<1>4. M \in Seq(D) /\ N \in Seq(D)
  BY <1>1, Joined
<1>5. /\ Children(s2, p) \in Seq(D)
      /\ \A a : /\ Contains(Children(st, p), a) <=> Contains(M, a) \/ Contains(B, a)
                /\ Contains(Children(s2, p), a) <=> Contains(N, a) \/ Contains(B, a)
      /\ \A a, b : /\ Earlier(Children(st, p), a, b) <=>
                         \/ Earlier(M, a, b) \/ Earlier(B, a, b)
                         \/ Contains(M, a) /\ Contains(B, b)
                   /\ Earlier(Children(s2, p), a, b) <=>
                         \/ Earlier(N, a, b) \/ Earlier(B, a, b)
                         \/ Contains(N, a) /\ Contains(B, b)
  <2>1. Children(st, p) = M \o B /\ Children(s2, p) = N \o B
    BY <1>3
  <2> HIDE DEF M, N
  <2>2. N \o B \in Seq(D)
    BY <1>1, <1>4, Joined
  <2>3. \A a, b : /\ Contains(M \o B, a) <=> Contains(M, a) \/ Contains(B, a)
                  /\ Earlier(M \o B, a, b) <=>
                         \/ Earlier(M, a, b) \/ Earlier(B, a, b)
                         \/ Contains(M, a) /\ Contains(B, b)
    BY <1>1, <1>4, Joined
  <2>4. \A a, b : /\ Contains(N \o B, a) <=> Contains(N, a) \/ Contains(B, a)
                  /\ Earlier(N \o B, a, b) <=>
                         \/ Earlier(N, a, b) \/ Earlier(B, a, b)
                         \/ Contains(N, a) /\ Contains(B, b)
    BY <1>1, <1>4, Joined
  <2> QED BY <2>1, <2>2, <2>3, <2>4
<1>6. /\ \A a : /\ Contains(A \o C, a) <=> Contains(A, a) \/ Contains(C, a)
                /\ Contains(A \o <<t>>, a) <=> Contains(A, a) \/ Contains(<<t>>, a)
      /\ \A a, b : /\ Earlier(A \o C, a, b) <=>
                         \/ Earlier(A, a, b) \/ Earlier(C, a, b)
                         \/ Contains(A, a) /\ Contains(C, b)
                   /\ Earlier(A \o <<t>>, a, b) <=>
                         \/ Earlier(A, a, b) \/ Earlier(<<t>>, a, b)
                         \/ Contains(A, a) /\ Contains(<<t>>, b)
  BY <1>1, Joined
<1>7. \A a, b : (Contains(<<t>>, a) <=> a = t) /\ ~Earlier(<<t>>, a, b)
  BY OneIn
<1>8. \A a : Contains(A, a) \/ Contains(B, a) \/ Contains(C, a) => a \in DOMAIN st
  <2>2. A \in Seq(DOMAIN st) /\ C \in Seq(DOMAIN st) /\ B \in Seq(DOMAIN st)
    BY DEF Wrap, SameKind
  <2> QED BY <2>2, ContainedIn
<1> QED BY <1>2, <1>5, <1>6, <1>7, <1>8 DEF D

LEMMA WrapChains ==
    ASSUME NEW st, PoolOK(st), NEW s2, NEW t, NEW p, NEW A, NEW C, NEW B,
           Wrap(st, s2, t, p, A, C, B)
    PROVE  /\ Rooted(s2)
           /\ \A s \in DOMAIN st :
                 /\ (\A c \in DOMAIN st : Contains(C, c) => c \notin Chain(st, s)) =>
                       Chain(s2, s) = Chain(st, s) /\ Level(s2, s) = Level(st, s)
                 /\ (\E c \in DOMAIN st : Contains(C, c) /\ c \in Chain(st, s)) =>
                       Chain(s2, s) = Chain(st, s) \cup {t}
                 /\ Chain(st, s) \subseteq Chain(s2, s)
                 /\ Chain(s2, s) \subseteq Chain(st, s) \cup {t}
           /\ Chain(s2, t) = Chain(st, p) \cup {t}
           /\ Level(s2, t) = Level(st, p) + 1
<1>0. PICK K \in SUBSET DOMAIN st : \A c \in DOMAIN st : c \in K <=> Contains(C, c)
  <2>1. {c \in DOMAIN st : Contains(C, c)} \in SUBSET DOMAIN st
    OBVIOUS
  <2> QED BY <2>1
<1>1. Fields(st) /\ Lists(st) /\ Rooted(st)
  BY DEF PoolOK
<1>2. \A c \in K : st[c].up = p
  <2>1. p \in DOMAIN st
    BY DEF Wrap, SameKind
  <2>2. \A c \in K : Contains(Children(st, p), c)
    BY <1>0, WrapLists
  <2> QED BY <1>1, <2>1, <2>2 DEF Lists
<1>3. /\ t \notin DOMAIN st /\ t # 0 /\ DOMAIN s2 = DOMAIN st \cup {t}
      /\ p \in DOMAIN st /\ p # 0 /\ s2[t].up = p
      /\ K \in SUBSET DOMAIN st
      /\ \A c \in K : st[c].up = p /\ s2[c].up = t
      /\ \A s \in DOMAIN st \ K : s2[s].up = st[s].up
  BY <1>0, <1>1, <1>2 DEF Wrap, SameKind, Fields
<1>4. ChainsGrow(st, s2, t, p, K)
  BY <1>1, <1>3, ChainsWrapped
<1>5. ASSUME NEW s \in DOMAIN st
      PROVE  /\ (\A c \in DOMAIN st : Contains(C, c) => c \notin Chain(st, s)) <=> Chain(st, s) \cap K = {}
             /\ (\E c \in DOMAIN st : Contains(C, c) /\ c \in Chain(st, s)) <=> Chain(st, s) \cap K # {}
  BY <1>0
<1> QED BY <1>4, <1>5 DEF ChainsGrow

LEMMA WrapKeepPool ==
    ASSUME NEW st, PoolOK(st), NEW s2, NEW t, NEW p, NEW A, NEW C, NEW B,
           Wrap(st, s2, t, p, A, C, B)
    PROVE  PoolOK(s2)
<1> USE DEF HasChildren
<1>1. Fields(st) /\ Lists(st) /\ Rooted(st) /\ BreaksInLoops(st)
  BY DEF PoolOK
<1>2. p \in DOMAIN st /\ t \notin DOMAIN st /\ t # 0 /\ DOMAIN s2 = DOMAIN st \cup {t}
  BY DEF Wrap, SameKind
<1>3. \A s \in DOMAIN st : /\ s2[s].type = st[s].type
                           /\ s2[s].up = IF Contains(C, s) THEN t ELSE st[s].up
                           /\ s # p => Children(s2, s) = Children(st, s)
  BY DEF Wrap, SameKind
<1>4. Root \in DOMAIN st /\ ~Contains(C, Root)
  <2>1. Contains(C, Root) => Contains(Children(st, p), Root)
    BY WrapLists
  <2>2. Contains(Children(st, p), Root) => st[Root].up = p
    BY <1>1, <1>2 DEF Lists, Fields
  <2> QED BY <1>1, <1>2, <2>1, <2>2 DEF Fields
<1>5. Fields(s2)
  <2>1. Root \in DOMAIN s2 /\ 0 \notin DOMAIN s2 /\ s2[Root].up = 0
    BY <1>1, <1>2, <1>3, <1>4 DEF Fields
  <2>2. ASSUME NEW s \in DOMAIN st
        PROVE  /\ s2[s].type \in Types
               /\ s2[s].type = "Function" <=> s = Root
               /\ s # Root => s2[s].up \in DOMAIN s2 /\ HasChildren(s2, s2[s].up)
               /\ Complete(s2[s])
               /\ Children(s2, s) \in Seq(DOMAIN s2)
               /\ s2[s].type = "Goto" => s2[s].label \in DOMAIN s2 /\ s2[s2[s].label].type = "Label"
    <3>1. /\ Complete(s2[s])
          /\ st[s].type = "Goto" => s2[s].label = st[s].label
          /\ HasChildren(s2, t)
      BY DEF Wrap, SameKind
    <3>2. /\ st[s].type \in Types
          /\ st[s].type = "Function" <=> s = Root
      BY <1>1 DEF Fields
    <3>3. s # Root => s2[s].up \in DOMAIN s2 /\ HasChildren(s2, s2[s].up)
      <4>1. s # Root => st[s].up \in DOMAIN st /\ HasChildren(st, st[s].up)
        BY <1>1 DEF Fields
      <4> QED BY <1>2, <1>3, <3>1, <4>1
    <3>4. s2[s].type = "Goto" => s2[s].label \in DOMAIN s2 /\ s2[s2[s].label].type = "Label"
      <4>1. st[s].type = "Goto" => st[s].label \in DOMAIN st /\ st[st[s].label].type = "Label"
        BY <1>1 DEF Fields
      <4> QED BY <1>2, <1>3, <3>1, <4>1
    <3>5. Children(s2, s) \in Seq(DOMAIN s2)
      <4>1. CASE s = p
        BY <4>1, WrapLists
      <4>2. CASE s # p
        <5>1. Children(s2, s) \in Seq(DOMAIN st)
          BY <1>1, <1>3, <4>2 DEF Fields
        <5> QED BY <1>2, <5>1
      <4> QED BY <4>1, <4>2
    <3> QED BY <1>3, <3>1, <3>2, <3>3, <3>4, <3>5
  <2>3. /\ s2[t].type \in Types
        /\ s2[t].type # "Function" /\ t # Root
        /\ s2[t].up \in DOMAIN s2 /\ HasChildren(s2, s2[t].up)
        /\ Complete(s2[t])
        /\ Children(s2, t) \in Seq(DOMAIN s2)
        /\ s2[t].type # "Goto"
    <3>1. C \in Seq(DOMAIN s2)
      BY <1>2 DEF Wrap, SameKind
    <3>2. Children(s2, t) \in Seq(DOMAIN s2)
      BY <3>1, WrapLists
    <3>3. /\ s2[t].type \in {"If", "Loop"} /\ s2[t].up = p
          /\ Complete(s2[t])
          /\ HasChildren(st, p)
      BY DEF Wrap, SameKind
    <3>4. t # Root /\ p \in DOMAIN s2 /\ s2[p].type = st[p].type
      BY <1>2, <1>3, <1>4
    <3> QED BY <3>2, <3>3, <3>4 DEF Types
  <2> QED BY <1>2, <2>1, <2>2, <2>3 DEF Fields
<1>6. Lists(s2)
  <2>0. /\ Once(Children(st, p))
        /\ \A c \in DOMAIN st : Contains(Children(st, p), c) => st[c].up = p
    BY <1>1, <1>2 DEF Lists
  <2>1. ASSUME NEW q \in DOMAIN s2
        PROVE  /\ Once(Children(s2, q))
               /\ \A c \in DOMAIN s2 : Contains(Children(s2, q), c) => s2[c].up = q
    <3>1. CASE q = p
      <4>1. Once(Children(s2, p))
        BY <1>2, <2>0, WrapLists DEF Once
      <4>2. ASSUME NEW c \in DOMAIN s2, Contains(Children(s2, p), c)
            PROVE  s2[c].up = p
        <5>1. CASE c = t
          BY <5>1 DEF Wrap, SameKind
        <5>2. CASE c # t
          <6>1. c \in DOMAIN st /\ Contains(Children(st, p), c) /\ (Contains(A, c) \/ Contains(B, c))
            BY <1>2, <4>2, <5>2, WrapLists
          <6>2. ~Contains(C, c)
            <7>1. Contains(C, c) => Earlier(Children(st, p), c, c)
              BY <6>1, WrapLists
            <7> QED BY <2>0, <7>1 DEF Once
          <6> QED BY <1>3, <2>0, <6>1, <6>2
        <5> QED BY <5>1, <5>2
      <4> QED BY <3>1, <4>1, <4>2
    <3>2. CASE q = t
      <4>1. Once(C)
        BY <2>0, WrapLists DEF Once
      <4>2. \A c \in DOMAIN s2 : Contains(C, c) => s2[c].up = t
        BY <1>3, WrapLists
      <4> QED BY <3>2, <4>1, <4>2, WrapLists
    <3>3. CASE q # p /\ q # t
      <4>1. q \in DOMAIN st /\ Children(s2, q) = Children(st, q)
        BY <1>2, <1>3, <3>3
      <4>2. ASSUME NEW c \in DOMAIN s2, Contains(Children(s2, q), c)
            PROVE  s2[c].up = q
        <5>1. c \in DOMAIN st
          <6>1. Children(st, q) \in Seq(DOMAIN st)
            BY <1>1, <4>1 DEF Fields
          <6> QED BY <4>1, <4>2, <6>1, ContainedIn
        <5>2. st[c].up = q
          BY <1>1, <4>1, <4>2, <5>1 DEF Lists
        <5>3. ~Contains(C, c)
          <6>1. Contains(C, c) => Contains(Children(st, p), c)
            BY WrapLists
          <6> QED BY <2>0, <3>3, <5>1, <5>2, <6>1
        <5> QED BY <1>3, <5>1, <5>2, <5>3
      <4> QED BY <1>1, <4>1, <4>2 DEF Lists
    <3> QED BY <3>1, <3>2, <3>3
  <2>2. ASSUME NEW s \in DOMAIN s2 \ {Root}, s2[s].type # "Goto"
        PROVE  Contains(Siblings(s2, s), s)
    <3>1. CASE s = t
      <4>1. s2[t].up = p
        BY DEF Wrap, SameKind
      <4> QED BY <3>1, <4>1, WrapLists DEF Siblings
    <3>2. CASE s # t
      <4>1. s \in DOMAIN st /\ st[s].type # "Goto"
        BY <1>2, <1>3, <2>2, <3>2
      <4>2. Contains(Children(st, st[s].up), s) /\ st[s].up \in DOMAIN st
        BY <1>1, <2>2, <4>1 DEF Lists, Siblings, Fields
      <4>3. CASE Contains(C, s)
        BY <1>3, <4>1, <4>3, WrapLists DEF Siblings
      <4>4. CASE ~Contains(C, s) /\ st[s].up = p
        BY <1>3, <4>1, <4>2, <4>4, WrapLists DEF Siblings
      <4>5. CASE ~Contains(C, s) /\ st[s].up # p
        BY <1>3, <4>1, <4>2, <4>5 DEF Siblings
      <4> QED BY <4>3, <4>4, <4>5
    <3> QED BY <3>1, <3>2
  <2> QED BY <2>1, <2>2 DEF Lists
<1>7. BreaksInLoops(s2)
  <2> SUFFICES ASSUME NEW s \in DOMAIN s2, s2[s].type = "Break"
               PROVE  \E u \in Chain(s2, s) : s2[u].type = "Loop"
    BY DEF BreaksInLoops
  <2>1. s \in DOMAIN st /\ st[s].type = "Break"
    <3>1. s2[t].type # "Break"
      BY DEF Wrap, SameKind
    <3> QED BY <1>2, <1>3, <3>1
  <2>2. PICK u \in Chain(st, s) : st[u].type = "Loop"
    BY <1>1, <2>1 DEF BreaksInLoops
  <2>3. u \in DOMAIN st
    BY <1>1, <2>1, ChainInPool
  <2>4. u \in Chain(s2, s)
    BY <2>1, <2>2, WrapChains
  <2> QED BY <1>3, <2>2, <2>3, <2>4
<1>8. Rooted(s2)
  BY WrapChains
<1> QED BY <1>5, <1>6, <1>7, <1>8 DEF PoolOK

\* A Tree around siblings disturbs no waiting goto, provided it is a Loop or
\* takes none in, and none comes after it.
LEMMA WrapKeepWaiting ==
    ASSUME NEW st, PoolOK(st), NEW s2, NEW t, NEW p, NEW A, NEW C, NEW B,
           Wrap(st, s2, t, p, A, C, B), NEW w \in DOMAIN st
    PROVE  /\ /\ Spine(st, w)
              /\ s2[t].type = "Loop" \/ \A c \in DOMAIN st : Contains(C, c) => c \notin Chain(st, w)
              /\ \A b \in DOMAIN st : Contains(B, b) => b \notin Chain(st, w)
              => Spine(s2, w)
           /\ \A v \in DOMAIN st : NotBehind(st, v, w) => NotBehind(s2, v, w)
<1>1. Fields(st) /\ Lists(st) /\ Rooted(st)
  BY DEF PoolOK
<1>2. p \in DOMAIN st /\ t \notin DOMAIN st /\ t # 0 /\ DOMAIN s2 = DOMAIN st \cup {t} /\ s2[t].up = p
  BY DEF Wrap, SameKind
<1>3. \A s \in DOMAIN st : /\ s2[s].type = st[s].type
                           /\ s2[s].up = IF Contains(C, s) THEN t ELSE st[s].up
                           /\ s # p => Children(s2, s) = Children(st, s)
  BY DEF Wrap, SameKind
<1>4. \A v \in DOMAIN st :
         /\ Chain(st, v) \subseteq DOMAIN st
         /\ Chain(s2, v) \subseteq Chain(st, v) \cup {t}
         /\ t \in Chain(s2, v) => \E c \in DOMAIN st : Contains(C, c) /\ c \in Chain(st, v)
  BY <1>1, <1>2, WrapChains, ChainInPool
<1>5. \A c \in DOMAIN st : Contains(C, c) \/ Contains(A, c) \/ Contains(B, c) =>
         st[c].up = p /\ Siblings(st, c) = Children(st, p)
  BY <1>1, <1>2, WrapLists DEF Lists, Siblings
<1>6. ASSUME NEW x \in DOMAIN st, NEW a, NEW b, Earlier(Siblings(s2, x), a, b),
             x # Root, a = x \/ b = x
      PROVE  /\ a # t /\ b # t => Earlier(Siblings(st, x), a, b)
             /\ a = t => b = x /\ Contains(B, x)
             /\ b = t => a = x /\ \A c \in DOMAIN st : Contains(C, c) => Earlier(Siblings(st, x), x, c)
             /\ Contains(C, x) => a # t /\ b # t
  <2>0. st[x].up \in DOMAIN st /\ x # t
    BY <1>1, <1>2, <1>6 DEF Fields
  <2>1. CASE Contains(C, x)
    <3>1. Siblings(s2, x) = C /\ Siblings(st, x) = Children(st, p)
      BY <1>3, <1>5, <2>1, WrapLists DEF Siblings
    <3>2. Earlier(C, a, b) /\ Contains(C, a) /\ Contains(C, b)
      BY <1>6, <3>1, EarlierContained
    <3>3. a # t /\ b # t
      BY <1>2, <3>2, WrapLists
    <3> QED BY <3>1, <3>2, <3>3, WrapLists
  <2>2. CASE ~Contains(C, x) /\ st[x].up = p
    <3>1. Siblings(s2, x) = Children(s2, p) /\ Siblings(st, x) = Children(st, p)
      BY <1>3, <2>2 DEF Siblings
    <3>2. \/ Earlier(A, a, b) \/ Earlier(B, a, b)
          \/ Contains(A, a) /\ b = t
          \/ (Contains(A, a) \/ a = t) /\ Contains(B, b)
      BY <1>6, <3>1, WrapLists
    <3>3. /\ Earlier(A, a, b) => Contains(A, a) /\ Contains(A, b)
          /\ Earlier(B, a, b) => Contains(B, a) /\ Contains(B, b)
      BY EarlierContained
    <3>4. ~Contains(A, t) /\ ~Contains(B, t)
      BY <1>2, WrapLists
    <3>5. a # t /\ b # t => Earlier(Siblings(st, x), a, b)
      BY <3>1, <3>2, WrapLists
    <3>6. a = t => b = x /\ Contains(B, x)
      BY <1>6, <2>0, <3>2, <3>3, <3>4
    <3>7. b = t => a = x /\ Contains(A, x)
      BY <1>6, <2>0, <3>2, <3>3, <3>4
    <3>8. Contains(A, x) => \A c \in DOMAIN st : Contains(C, c) => Earlier(Siblings(st, x), x, c)
      BY <3>1, WrapLists
    <3> QED BY <2>2, <3>5, <3>6, <3>7, <3>8
  <2>3. CASE ~Contains(C, x) /\ st[x].up # p
    <3>1. Siblings(s2, x) = Siblings(st, x) /\ Siblings(st, x) \in Seq(DOMAIN st)
      BY <1>1, <1>3, <2>0, <2>3 DEF Siblings, Fields
    <3>2. a \in DOMAIN st /\ b \in DOMAIN st
      BY <1>6, <3>1, EarlierContained, ContainedIn
    <3> QED BY <1>2, <1>6, <2>3, <3>1, <3>2
  <2> QED BY <2>1, <2>2, <2>3
<1>7. ASSUME Spine(st, w),
             s2[t].type = "Loop" \/ \A c \in DOMAIN st : Contains(C, c) => c \notin Chain(st, w),
             \A b \in DOMAIN st : Contains(B, b) => b \notin Chain(st, w)
      PROVE  Spine(s2, w)
  <2> SUFFICES ASSUME NEW x \in Chain(s2, w) \ {Root}
               PROVE  /\ x = w \/ s2[x].type = "Loop"
                      /\ \A e \in DOMAIN s2 : Earlier(Siblings(s2, x), e, x) =>
                            s2[e].type \notin {"If", "Loop", "Break"}
    BY DEF Spine
  <2>1. CASE x = t
    <3>1. PICK c \in DOMAIN st : Contains(C, c) /\ c \in Chain(st, w)
      BY <1>4, <2>1
    <3>2. s2[x].type = "Loop"
      BY <1>7, <2>1, <3>1
    <3>3. c # Root /\ Siblings(st, c) = Children(st, p)
      <4>1. st[c].up = p /\ p # 0
        BY <1>1, <1>2, <1>5, <3>1 DEF Fields
      <4> QED BY <1>1, <1>5, <3>1, <4>1 DEF Fields
    <3>4. ASSUME NEW e \in DOMAIN s2, Earlier(Siblings(s2, t), e, t)
          PROVE  s2[e].type \notin {"If", "Loop", "Break"}
      <4>1. Earlier(Children(s2, p), e, t)
        BY <1>2, <3>4 DEF Siblings
      <4>2. Contains(A, e)
        <5>1. ~Contains(A, t) /\ ~Contains(B, t)
          BY <1>2, WrapLists
        <5>2. /\ Earlier(A, e, t) => Contains(A, t)
              /\ Earlier(B, e, t) => Contains(B, t)
          BY EarlierContained
        <5> QED BY <4>1, <5>1, <5>2, WrapLists
      <4>3. e \in DOMAIN st /\ Earlier(Siblings(st, c), e, c)
        BY <3>1, <3>3, <4>2, WrapLists
      <4>4. st[e].type \notin {"If", "Loop", "Break"}
        BY <1>7, <3>1, <3>3, <4>3 DEF Spine
      <4> QED BY <1>3, <4>3, <4>4
    <3> QED BY <2>1, <3>2, <3>4
  <2>2. CASE x # t
    <3>1. x \in Chain(st, w) \ {Root} /\ x \in DOMAIN st /\ x # Root
      BY <1>4, <2>2
    <3>2. x = w \/ s2[x].type = "Loop"
      BY <1>3, <1>7, <3>1 DEF Spine
    <3>3. ASSUME NEW e \in DOMAIN s2, Earlier(Siblings(s2, x), e, x)
          PROVE  s2[e].type \notin {"If", "Loop", "Break"}
      <4>1. CASE e = t
        BY <1>6, <1>7, <3>1, <3>3, <4>1
      <4>2. CASE e # t
        <5>1. e \in DOMAIN st /\ Earlier(Siblings(st, x), e, x)
          BY <1>2, <1>6, <2>2, <3>1, <3>3, <4>2
        <5>2. st[e].type \notin {"If", "Loop", "Break"}
          BY <1>7, <3>1, <5>1 DEF Spine
        <5> QED BY <1>3, <5>1, <5>2
      <4> QED BY <4>1, <4>2
    <3> QED BY <3>2, <3>3
  <2> QED BY <2>1, <2>2
<1>8. ASSUME NEW v \in DOMAIN st, NotBehind(st, v, w)
      PROVE  NotBehind(s2, v, w)
  <2> SUFFICES ASSUME NEW x \in Chain(s2, v) \ {Root}, NEW e \in DOMAIN s2,
                      Earlier(Siblings(s2, x), x, e), e \in Chain(s2, w)
               PROVE  FALSE
    BY DEF NotBehind
  <2>1. CASE x = t
    <3>1. PICK c \in DOMAIN st : Contains(C, c) /\ c \in Chain(st, v)
      BY <1>4, <2>1
    <3>2. c # Root /\ Siblings(st, c) = Children(st, p)
      <4>1. st[c].up = p /\ p # 0
        BY <1>1, <1>2, <1>5, <3>1 DEF Fields
      <4> QED BY <1>1, <1>5, <3>1, <4>1 DEF Fields
    <3>3. Earlier(Children(s2, p), t, e)
      BY <1>2, <2>1 DEF Siblings
    <3>4. Contains(B, e)
      <4>1. ~Contains(A, t) /\ ~Contains(B, t)
        BY <1>2, WrapLists
      <4>2. /\ Earlier(A, t, e) => Contains(A, t)
            /\ Earlier(B, t, e) => Contains(B, t)
        BY EarlierContained
      <4> QED BY <3>3, <4>1, <4>2, WrapLists
    <3>5. e \in DOMAIN st /\ Earlier(Siblings(st, c), c, e)
      BY <3>1, <3>2, <3>4, WrapLists
    <3>6. e \in Chain(st, w)
      BY <1>2, <1>4, <3>5
    <3> QED BY <1>8, <3>1, <3>2, <3>5, <3>6 DEF NotBehind
  <2>2. CASE x # t /\ e = t
    <3>1. x \in Chain(st, v) \ {Root} /\ x \in DOMAIN st /\ x # Root
      BY <1>4, <2>2
    <3>2. PICK c \in DOMAIN st : Contains(C, c) /\ c \in Chain(st, w)
      BY <1>4, <2>2
    <3>3. Earlier(Siblings(st, x), x, c)
      BY <1>6, <2>2, <3>1, <3>2
    <3> QED BY <1>8, <3>1, <3>2, <3>3 DEF NotBehind
  <2>3. CASE x # t /\ e # t
    <3>1. x \in Chain(st, v) \ {Root} /\ x \in DOMAIN st /\ x # Root
      BY <1>4, <2>3
    <3>2. e \in DOMAIN st /\ e \in Chain(st, w)
      BY <1>2, <1>4, <2>3
    <3>3. Earlier(Siblings(st, x), x, e)
      BY <1>6, <2>3, <3>1
    <3> QED BY <1>8, <3>1, <3>2, <3>3 DEF NotBehind
  <2> QED BY <2>1, <2>2, <2>3
<1> QED BY <1>7, <1>8

-----------------------------------------------------------------------------
(* Cutting lists                                                           *)

LEMMA PositionFinds ==
    ASSUME NEW st, NEW s, NEW D, st[st[s].up].children \in Seq(D),
           Once(st[st[s].up].children), Contains(st[st[s].up].children, s)
    PROVE  /\ Position(st, s) \in 1 .. Len(st[st[s].up].children)
           /\ st[st[s].up].children[Position(st, s)] = s
           /\ \A i \in 1 .. Len(st[st[s].up].children) :
                 st[st[s].up].children[i] = s => i = Position(st, s)
<1> DEFINE body == st[st[s].up].children
           I == {i \in 1 .. Len(body) : body[i] = s}
<1>1. Len(body) \in Nat
  BY LenProperties
<1>2. PICK i \in 1 .. Len(body) : body[i] = s
  BY DEF Contains
<1>3. \A j \in 1 .. Len(body) : body[j] = s => j = i
  <2> SUFFICES ASSUME NEW j \in 1 .. Len(body), body[j] = s, j # i PROVE FALSE
    OBVIOUS
  <2>1. i < j \/ j < i
    BY <1>1
  <2>2. Earlier(body, s, s)
    BY <1>2, <2>1 DEF Earlier
  <2> QED BY <2>2 DEF Once
<1>4. I = {i} /\ i \in Int
  BY <1>1, <1>2, <1>3
<1>5. Position(st, s) = Min(I)
  <2>1. Position(st, s) = IF I # {} THEN Min(I) ELSE 0
    BY DEF Position, SelectInSeq
  <2> QED BY <1>4, <2>1
<1>6. Min({i}) = i
  BY <1>4 DEF Min
<1> QED BY <1>2, <1>3, <1>4, <1>5, <1>6

LEMMA ConcatThree ==
    ASSUME NEW D, NEW x \in Seq(D), NEW y \in Seq(D), NEW z \in Seq(D)
    PROVE  x \o (y \o z) = (x \o y) \o z
BY ConcatAssociative

LEMMA CutAt ==
    ASSUME NEW st, NEW s, NEW D, st[st[s].up].children \in Seq(D),
           Once(st[st[s].up].children), Contains(st[st[s].up].children, s)
    PROVE  /\ Before(st, s) \in Seq(D) /\ After(st, s) \in Seq(D) /\ From(st, s) \in Seq(D)
           /\ From(st, s) = <<s>> \o After(st, s)
           /\ st[st[s].up].children = Before(st, s) \o From(st, s)
           /\ st[st[s].up].children = (Before(st, s) \o <<s>>) \o After(st, s)
           /\ <<s>> \in Seq(D)
<1> DEFINE body == st[st[s].up].children
           k == Position(st, s)
           n == Len(body)
<1>1. /\ k \in 1 .. n /\ body[k] = s
      /\ Before(st, s) = SubSeq(body, 1, k - 1)
      /\ From(st, s) = SubSeq(body, k, n)
      /\ After(st, s) = Tail(SubSeq(body, k, n))
  BY PositionFinds DEF Before, From, After
<1> HIDE DEF k
<1>2. body \in Seq(D) /\ n \in Nat /\ k \in Nat
  BY <1>1, LenProperties, SMTT(60)
<1> HIDE DEF body, n
<1>3. \A i \in 1 .. n : body[i] \in D
  BY <1>2, ElementOfSeq DEF n
<1>4. /\ SubSeq(body, 1, k - 1) \in Seq(D) /\ SubSeq(body, k, n) \in Seq(D)
      /\ SubSeq(body, k + 1, n) \in Seq(D)
  <2>1. /\ \A i \in 1 .. k - 1 : body[i] \in D
        /\ \A i \in k .. n : body[i] \in D
        /\ \A i \in k + 1 .. n : body[i] \in D
    BY <1>1, <1>2, <1>3
  <2> QED BY <1>2, <2>1, SubSeqProperties
<1>40. k \in 1 .. Len(body) /\ n \in k .. Len(body)
  BY <1>1, <1>2 DEF n
<1>5. SubSeq(body, k, n) = <<body[k]>> \o SubSeq(body, k + 1, n)
  BY <1>2, <1>40, SubSeqRecursiveFirst
<1>6. Tail(SubSeq(body, k, n)) = SubSeq(body, k + 1, n)
  BY <1>2, <1>40, HeadTailOfSubSeq
<1>7. SubSeq(body, 1, k - 1) \o SubSeq(body, k, n) = SubSeq(body, 1, n)
  <2>1. /\ 1 \in 1 .. Len(body) + 1 /\ k - 1 \in 1 - 1 .. Len(body)
        /\ n \in k - 1 .. Len(body) /\ k - 1 + 1 = k
    BY <1>1, <1>2 DEF n
  <2>2. SubSeq(body, 1, k - 1) \o SubSeq(body, k - 1 + 1, n) = SubSeq(body, 1, n)
    BY <1>2, <2>1, ConcatAdjacentSubSeq
  <2> QED BY <2>1, <2>2
<1>8. SubSeq(body, 1, n) = body
  BY <1>2, SubSeqFull DEF n
<1>9. s \in D
  BY <1>1, <1>3
<1>10. <<s>> \in Seq(D)
  BY <1>9
<1>11. Before(st, s) \in Seq(D) /\ After(st, s) \in Seq(D) /\ From(st, s) \in Seq(D)
  BY <1>1, <1>4, <1>6
<1>12. From(st, s) = <<s>> \o After(st, s)
  BY <1>1, <1>5, <1>6
<1>13. st[st[s].up].children = Before(st, s) \o From(st, s)
  BY <1>1, <1>7, <1>8 DEF body
<1>14. Before(st, s) \o (<<s>> \o After(st, s)) = (Before(st, s) \o <<s>>) \o After(st, s)
  BY <1>10, <1>11, ConcatThree
<1>15. st[st[s].up].children = (Before(st, s) \o <<s>>) \o After(st, s)
  BY <1>12, <1>13, <1>14
<1> QED BY <1>10, <1>11, <1>12, <1>13, <1>15

\* s stands before t in the list of both.
LEMMA CutBetween ==
    ASSUME NEW st, NEW s, NEW t, NEW D, st[st[s].up].children \in Seq(D),
           Once(st[st[s].up].children), st[s].up = st[t].up,
           Earlier(st[st[s].up].children, s, t)
    PROVE  /\ Span(st, s, t) \in Seq(D)
           /\ Tail(Span(st, s, t)) \in Seq(D)
           /\ Span(st, s, t) = <<s>> \o Tail(Span(st, s, t))
           /\ From(st, s) = Span(st, s, t) \o From(st, t)
           /\ After(st, s) = Tail(Span(st, s, t)) \o From(st, t)
           /\ Before(st, t) = Before(st, s) \o Span(st, s, t)
<1> DEFINE body == st[st[s].up].children
           k == Position(st, s)
           m == Position(st, t)
           n == Len(body)
<1>0. Contains(body, s) /\ Contains(body, t) /\ st[st[t].up].children = body
  BY EarlierContained
<1>1. k \in 1 .. n /\ body[k] = s /\ m \in 1 .. n /\ body[m] = t
  BY <1>0, PositionFinds, SMTT(60)
<1>13. /\ Span(st, s, t) = SubSeq(body, k, m - 1)
       /\ From(st, s) = SubSeq(body, k, n)
       /\ From(st, t) = SubSeq(body, m, n)
       /\ Before(st, s) = SubSeq(body, 1, k - 1)
       /\ Before(st, t) = SubSeq(body, 1, m - 1)
       /\ After(st, s) = Tail(SubSeq(body, k, n))
  BY <1>0 DEF Span, From, Before, After
<1>2. n \in Nat /\ k \in Nat /\ m \in Nat
  BY <1>1, LenProperties
<1>3. k < m
  <2>1. PICK i, j \in 1 .. n : i < j /\ body[i] = s /\ body[j] = t
    BY DEF Earlier
  <2>2. /\ \A x \in 1 .. Len(st[st[s].up].children) :
              st[st[s].up].children[x] = s => x = Position(st, s)
        /\ \A x \in 1 .. Len(st[st[t].up].children) :
              st[st[t].up].children[x] = t => x = Position(st, t)
    BY <1>0, PositionFinds
  <2>3. i = k /\ j = m
    BY <1>0, <2>1, <2>2
  <2> QED BY <2>1, <2>3
<1> HIDE DEF k, m
<1>4. body \in Seq(D)
  OBVIOUS
<1> HIDE DEF body, n
<1>5. \A i \in 1 .. n : body[i] \in D
  BY <1>4, ElementOfSeq DEF n
<1>6. SubSeq(body, k, m - 1) \in Seq(D) /\ SubSeq(body, k + 1, m - 1) \in Seq(D)
  <2>1. /\ \A i \in k .. m - 1 : body[i] \in D
        /\ \A i \in k + 1 .. m - 1 : body[i] \in D
    BY <1>1, <1>2, <1>5
  <2> QED BY <1>2, <2>1, SubSeqProperties
<1>7. k \in 1 .. Len(body) /\ m - 1 \in k .. Len(body)
  BY <1>1, <1>2, <1>3 DEF n
<1>8. SubSeq(body, k, m - 1) = <<body[k]>> \o SubSeq(body, k + 1, m - 1)
  BY <1>4, <1>7, SubSeqRecursiveFirst
<1>9. Tail(SubSeq(body, k, m - 1)) = SubSeq(body, k + 1, m - 1)
  BY <1>4, <1>7, HeadTailOfSubSeq
<1>10. SubSeq(body, k, m - 1) \o SubSeq(body, m, n) = SubSeq(body, k, n)
  <2>1. /\ k \in 1 .. Len(body) + 1 /\ m - 1 \in k - 1 .. Len(body)
        /\ n \in m - 1 .. Len(body) /\ m - 1 + 1 = m
    BY <1>1, <1>2, <1>3 DEF n
  <2>2. SubSeq(body, k, m - 1) \o SubSeq(body, m - 1 + 1, n) = SubSeq(body, k, n)
    BY <1>4, <2>1, ConcatAdjacentSubSeq
  <2> QED BY <2>1, <2>2
<1>11. Tail(SubSeq(body, k, n)) = SubSeq(body, k + 1, m - 1) \o SubSeq(body, m, n)
  <2>1. /\ k + 1 \in 1 .. Len(body) + 1 /\ m - 1 \in k + 1 - 1 .. Len(body)
        /\ n \in m - 1 .. Len(body) /\ m - 1 + 1 = m
        /\ k \in 1 .. Len(body) /\ n \in k .. Len(body)
    BY <1>1, <1>2, <1>3 DEF n
  <2> DEFINE i == k + 1
             j == m - 1
  <2>4. i \in 1 .. Len(body) + 1 /\ j \in i - 1 .. Len(body) /\ n \in j .. Len(body)
    BY <2>1
  <2>5. SubSeq(body, i, j) \o SubSeq(body, j + 1, n) = SubSeq(body, i, n)
    <3> HIDE DEF i, j
    <3> QED BY <1>4, <2>4, ConcatAdjacentSubSeq
  <2>2. SubSeq(body, k + 1, m - 1) \o SubSeq(body, m - 1 + 1, n) = SubSeq(body, k + 1, n)
    BY <2>5
  <2>3. Tail(SubSeq(body, k, n)) = SubSeq(body, k + 1, n)
    BY <1>4, <2>1, HeadTailOfSubSeq
  <2> QED BY <2>1, <2>2, <2>3
<1>12. SubSeq(body, 1, k - 1) \o SubSeq(body, k, m - 1) = SubSeq(body, 1, m - 1)
  <2>1. /\ 1 \in 1 .. Len(body) + 1 /\ k - 1 \in 1 - 1 .. Len(body)
        /\ m - 1 \in k - 1 .. Len(body) /\ k - 1 + 1 = k
    BY <1>1, <1>2, <1>3 DEF n
  <2>2. SubSeq(body, 1, k - 1) \o SubSeq(body, k - 1 + 1, m - 1) = SubSeq(body, 1, m - 1)
    BY <1>4, <2>1, ConcatAdjacentSubSeq
  <2> QED BY <2>1, <2>2
<1> QED BY <1>1, <1>6, <1>8, <1>9, <1>10, <1>11, <1>12, <1>13

-----------------------------------------------------------------------------
(* What the helpers that change the pool do                                *)

Numbered(st) == \E S : st \in Seq(S)

LEMMA NumberedPool ==
    ASSUME NEW st, Numbered(st)
    PROVE  Len(st) \in Nat /\ DOMAIN st = 1 .. Len(st) /\ st = [x \in DOMAIN st |-> st[x]]
<1>1. PICK S : st \in Seq(S)
  BY DEF Numbered
<1> QED BY <1>1, LenProperties

LEMMA NumberPool ==
    ASSUME NEW n \in Nat, NEW st, st = [x \in 1 .. n |-> st[x]]
    PROVE  Numbered(st) /\ Len(st) = n /\ DOMAIN st = 1 .. n
<1> DEFINE S == {st[x] : x \in 1 .. n}
<1>1. \A x \in 1 .. n : st[x] \in S
  OBVIOUS
<1>2. st \in [1 .. n -> S]
  <2> HIDE DEF S
  <2> QED BY <1>1
<1>3. st \in Seq(S) /\ DOMAIN st = 1 .. n
  <2> HIDE DEF S
  <2> QED BY <1>2, SeqDef
<1> HIDE DEF S
<1> QED BY <1>3, LenProperties DEF Numbered

\* s2 is st with one more statement, the last.
Created(st, s2, fields) ==
    /\ Numbered(s2)
    /\ Len(st) \in Nat /\ Len(s2) = Len(st) + 1
    /\ DOMAIN s2 = DOMAIN st \cup {Len(st) + 1}
    /\ Len(st) + 1 \notin DOMAIN st
    /\ s2[Len(st) + 1] = fields
    /\ \A x \in DOMAIN st : s2[x] = st[x]

LEMMA CreateDoes ==
    ASSUME NEW st, Numbered(st), NEW fields
    PROVE  Created(st, Create(st, fields), fields)
<1>1. PICK S : st \in Seq(S)
  BY DEF Numbered
<1> DEFINE T == S \cup {fields}
<1>2. st \in Seq(T) /\ fields \in T
  BY <1>1
<1> HIDE DEF T
<1>3. /\ Append(st, fields) \in Seq(T)
      /\ Len(Append(st, fields)) = Len(st) + 1
      /\ \A i \in 1 .. Len(st) : Append(st, fields)[i] = st[i]
      /\ Append(st, fields)[Len(st) + 1] = fields
  BY <1>2, AppendProperties
<1>4. /\ Len(st) \in Nat /\ DOMAIN st = 1 .. Len(st)
      /\ DOMAIN Append(st, fields) = 1 .. Len(st) + 1
  BY <1>2, <1>3, LenProperties
<1>5. 1 .. Len(st) + 1 = (1 .. Len(st)) \cup {Len(st) + 1}
  BY <1>4
<1> QED BY <1>3, <1>4, <1>5 DEF Create, Created, Numbered

\* s2 is st with the list "body" for the children of s.
ChildrenSet(st, s2, s, body) ==
    /\ Numbered(s2) /\ Len(s2) = Len(st) /\ DOMAIN s2 = DOMAIN st
    /\ \A x \in DOMAIN st : SameKind(s2[x], st[x]) /\ s2[x].up = st[x].up
    /\ \A x \in DOMAIN st : x # s => s2[x] = st[x] /\ Children(s2, x) = Children(st, x)
    /\ s2[s].children = body
    /\ Children(s2, s) = body

LEMMA SetChildrenDoes ==
    ASSUME NEW st, Numbered(st), \A x \in DOMAIN st : Complete(st[x]),
           NEW s \in DOMAIN st, HasChildren(st, s), NEW body
    PROVE  ChildrenSet(st, SetChildren(st, s, body), s, body)
<1> DEFINE s2 == SetChildren(st, s, body)
<1>1. /\ DOMAIN s2 = DOMAIN st
      /\ s2 = [x \in DOMAIN st |-> IF x = s THEN [st[s] EXCEPT !.children = body] ELSE st[x]]
  BY DEF SetChildren
<1>2. Len(st) \in Nat /\ DOMAIN st = 1 .. Len(st)
  BY NumberedPool
<1>3. Numbered(s2) /\ Len(s2) = Len(st)
  <2>1. s2 = [x \in 1 .. Len(st) |-> s2[x]]
    BY <1>1, <1>2
  <2> HIDE DEF s2
  <2> QED BY <1>2, <2>1, NumberPool
<1>4. \A x \in DOMAIN st : x # s => s2[x] = st[x]
  BY <1>1
<1>5. s2[s] = [st[s] EXCEPT !.children = body] /\ Complete(st[s])
  BY <1>1
<1>6. {"type", "up", "children"} \subseteq DOMAIN st[s] /\ st[s].type # "Goto"
  BY <1>5 DEF Complete, HasChildren
<1> HIDE DEF s2
<1>7. /\ s2[s].children = body /\ s2[s].type = st[s].type /\ s2[s].up = st[s].up
      /\ DOMAIN s2[s] = DOMAIN st[s]
  BY <1>5, <1>6
<1>8. SameKind(s2[s], st[s]) /\ Children(s2, s) = body
  BY <1>5, <1>6, <1>7 DEF SameKind, Complete, Children, HasChildren
<1>9. \A x \in DOMAIN st : x # s => SameKind(s2[x], st[x]) /\ Children(s2, x) = Children(st, x)
  BY <1>4 DEF SameKind, Children, HasChildren
<1> QED BY <1>1, <1>3, <1>4, <1>7, <1>8, <1>9 DEF s2, ChildrenSet

\* s2 is st with the children of s pointing to s.
UpSet(st, s2, s) ==
    /\ Numbered(s2) /\ Len(s2) = Len(st) /\ DOMAIN s2 = DOMAIN st
    /\ \A x \in DOMAIN st :
          /\ SameKind(s2[x], st[x]) /\ Children(s2, x) = Children(st, x)
          /\ s2[x].up = IF Contains(st[s].children, x) THEN s ELSE st[x].up
          /\ HasChildren(st, x) => s2[x].children = st[x].children

LEMMA UpdateTreeUpDoes ==
    ASSUME NEW st, Numbered(st), \A x \in DOMAIN st : Complete(st[x]), NEW s
    PROVE  UpSet(st, UpdateTreeUp(st, s), s)
<1> DEFINE s2 == UpdateTreeUp(st, s)
<1>1. /\ DOMAIN s2 = DOMAIN st
      /\ s2 = [x \in DOMAIN st |-> IF Contains(st[s].children, x) THEN [st[x] EXCEPT !.up = s]
                                                                 ELSE st[x]]
  BY DEF UpdateTreeUp
<1>2. Len(st) \in Nat /\ DOMAIN st = 1 .. Len(st)
  BY NumberedPool
<1>3. Numbered(s2) /\ Len(s2) = Len(st)
  <2>1. s2 = [x \in 1 .. Len(st) |-> s2[x]]
    BY <1>1, <1>2
  <2> HIDE DEF s2
  <2> QED BY <1>2, <2>1, NumberPool
<1>4. ASSUME NEW x \in DOMAIN st
      PROVE  /\ SameKind(s2[x], st[x]) /\ Children(s2, x) = Children(st, x)
             /\ s2[x].up = IF Contains(st[s].children, x) THEN s ELSE st[x].up
             /\ HasChildren(st, x) => s2[x].children = st[x].children
  <2>1. s2[x] = IF Contains(st[s].children, x) THEN [st[x] EXCEPT !.up = s] ELSE st[x]
    BY <1>1
  <2>2. Complete(st[x])
    OBVIOUS
  <2> HIDE DEF s2
  <2>3. CASE ~Contains(st[s].children, x)
    BY <2>1, <2>2, <2>3 DEF SameKind, Children, HasChildren
  <2>4. CASE Contains(st[s].children, x)
    <3>1. /\ s2[x].type = st[x].type /\ s2[x].up = s /\ DOMAIN s2[x] = DOMAIN st[x]
          /\ st[x].type = "Goto" => s2[x].label = st[x].label
          /\ HasChildren(st, x) => s2[x].children = st[x].children
      BY <2>1, <2>2, <2>4 DEF Complete, HasChildren
    <3> QED BY <2>2, <2>4, <3>1 DEF SameKind, Complete, Children, HasChildren
  <2> QED BY <2>3, <2>4
<1> QED BY <1>1, <1>3, <1>4 DEF s2, UpSet

LEMMA Three ==
    ASSUME NEW E, NEW X \in Seq(E), NEW Z \in Seq(E), NEW Y \in Seq(E)
    PROVE  /\ (X \o Z) \o Y \in Seq(E)
           /\ \A a : Contains((X \o Z) \o Y, a) <=> Contains(X, a) \/ Contains(Z, a) \/ Contains(Y, a)
           /\ \A a, b : Earlier((X \o Z) \o Y, a, b) <=>
                 \/ Earlier(X, a, b) \/ Earlier(Z, a, b) \/ Earlier(Y, a, b)
                 \/ Contains(X, a) /\ Contains(Z, b)
                 \/ (Contains(X, a) \/ Contains(Z, a)) /\ Contains(Y, b)
<1> DEFINE M == X \o Z
<1>1. /\ M \in Seq(E)
      /\ \A a : Contains(M, a) <=> Contains(X, a) \/ Contains(Z, a)
      /\ \A a, b : Earlier(M, a, b) <=>
                       \/ Earlier(X, a, b) \/ Earlier(Z, a, b)
                       \/ Contains(X, a) /\ Contains(Z, b)
  BY Joined
<1> HIDE DEF M
<1>2. /\ M \o Y \in Seq(E)
      /\ \A a : Contains(M \o Y, a) <=> Contains(M, a) \/ Contains(Y, a)
      /\ \A a, b : Earlier(M \o Y, a, b) <=>
                       \/ Earlier(M, a, b) \/ Earlier(Y, a, b)
                       \/ Contains(M, a) /\ Contains(Y, b)
  BY <1>1, Joined
<1> QED BY <1>1, <1>2 DEF M

LEMMA ThreeOne ==
    ASSUME NEW E, NEW X \in Seq(E), NEW z \in E, NEW Y \in Seq(E)
    PROVE  /\ (X \o <<z>>) \o Y \in Seq(E)
           /\ \A a : Contains((X \o <<z>>) \o Y, a) <=> Contains(X, a) \/ a = z \/ Contains(Y, a)
           /\ \A a, b : Earlier((X \o <<z>>) \o Y, a, b) <=>
                 \/ Earlier(X, a, b) \/ Earlier(Y, a, b)
                 \/ Contains(X, a) /\ b = z
                 \/ (Contains(X, a) \/ a = z) /\ Contains(Y, b)
<1> DEFINE Z == <<z>>
<1>1. Z \in Seq(E)
  OBVIOUS
<1>2. \A a, b : (Contains(Z, a) <=> a = z) /\ ~Earlier(Z, a, b)
  BY OneIn
<1> HIDE DEF Z
<1>3. /\ (X \o Z) \o Y \in Seq(E)
      /\ \A a : Contains((X \o Z) \o Y, a) <=> Contains(X, a) \/ Contains(Z, a) \/ Contains(Y, a)
      /\ \A a, b : Earlier((X \o Z) \o Y, a, b) <=>
                 \/ Earlier(X, a, b) \/ Earlier(Z, a, b) \/ Earlier(Y, a, b)
                 \/ Contains(X, a) /\ Contains(Z, b)
                 \/ (Contains(X, a) \/ Contains(Z, a)) /\ Contains(Y, b)
  BY <1>1, Three
<1>4. /\ (X \o Z) \o Y \in Seq(E)
      /\ \A a : Contains((X \o Z) \o Y, a) <=> Contains(X, a) \/ a = z \/ Contains(Y, a)
      /\ \A a, b : Earlier((X \o Z) \o Y, a, b) <=>
                 \/ Earlier(X, a, b) \/ Earlier(Y, a, b)
                 \/ Contains(X, a) /\ b = z
                 \/ (Contains(X, a) \/ a = z) /\ Contains(Y, b)
  BY <1>2, <1>3
<1> QED BY <1>4 DEF Z

LEMMA ThreeTwo ==
    ASSUME NEW E, NEW X \in Seq(E), NEW y \in E, NEW z \in E, NEW Y \in Seq(E)
    PROVE  /\ (X \o <<y, z>>) \o Y \in Seq(E)
           /\ \A a : Contains((X \o <<y, z>>) \o Y, a) <=>
                        Contains(X, a) \/ a = y \/ a = z \/ Contains(Y, a)
           /\ \A a, b : Earlier((X \o <<y, z>>) \o Y, a, b) <=>
                 \/ Earlier(X, a, b) \/ (a = y /\ b = z) \/ Earlier(Y, a, b)
                 \/ Contains(X, a) /\ (b = y \/ b = z)
                 \/ (Contains(X, a) \/ a = y \/ a = z) /\ Contains(Y, b)
<1> DEFINE Z == <<y, z>>
<1>1. Z \in Seq(E)
  OBVIOUS
<1>2. \A a, b : /\ Contains(Z, a) <=> a = y \/ a = z
                /\ Earlier(Z, a, b) <=> a = y /\ b = z
  BY TwoIn
<1> HIDE DEF Z
<1>3. /\ (X \o Z) \o Y \in Seq(E)
      /\ \A a : Contains((X \o Z) \o Y, a) <=> Contains(X, a) \/ Contains(Z, a) \/ Contains(Y, a)
      /\ \A a, b : Earlier((X \o Z) \o Y, a, b) <=>
                 \/ Earlier(X, a, b) \/ Earlier(Z, a, b) \/ Earlier(Y, a, b)
                 \/ Contains(X, a) /\ Contains(Z, b)
                 \/ (Contains(X, a) \/ Contains(Z, a)) /\ Contains(Y, b)
  BY <1>1, Three
<1>4. /\ (X \o Z) \o Y \in Seq(E)
      /\ \A a : Contains((X \o Z) \o Y, a) <=>
                  Contains(X, a) \/ a = y \/ a = z \/ Contains(Y, a)
      /\ \A a, b : Earlier((X \o Z) \o Y, a, b) <=>
                 \/ Earlier(X, a, b) \/ (a = y /\ b = z) \/ Earlier(Y, a, b)
                 \/ Contains(X, a) /\ (b = y \/ b = z)
                 \/ (Contains(X, a) \/ a = y \/ a = z) /\ Contains(Y, b)
  BY <1>2, <1>3
<1> QED BY <1>4 DEF Z

\* The middle of a list is replaced.
LEMMA Replaced ==
    ASSUME NEW D, NEW E, D \subseteq E, NEW X \in Seq(D), NEW Z \in Seq(D), NEW Y \in Seq(D),
           NEW Z2 \in Seq(E), NEW gone, Renews(D, gone, Z, Z2), Once((X \o Z) \o Y),
           \A g \in gone : ~Contains(X, g) /\ ~Contains(Y, g)
    PROVE  /\ (X \o Z2) \o Y \in Seq(E)
           /\ Renews(D, gone, (X \o Z) \o Y, (X \o Z2) \o Y)
<1>1. X \in Seq(E) /\ Y \in Seq(E)
  OBVIOUS
<1> DEFINE L == (X \o Z) \o Y
           M == (X \o Z2) \o Y
<1>2. /\ \A a : Contains(L, a) <=> Contains(X, a) \/ Contains(Z, a) \/ Contains(Y, a)
      /\ \A a, b : Earlier(L, a, b) <=>
                 \/ Earlier(X, a, b) \/ Earlier(Z, a, b) \/ Earlier(Y, a, b)
                 \/ Contains(X, a) /\ Contains(Z, b)
                 \/ (Contains(X, a) \/ Contains(Z, a)) /\ Contains(Y, b)
  BY Three
<1>3. /\ M \in Seq(E)
      /\ \A a : Contains(M, a) <=> Contains(X, a) \/ Contains(Z2, a) \/ Contains(Y, a)
      /\ \A a, b : Earlier(M, a, b) <=>
                 \/ Earlier(X, a, b) \/ Earlier(Z2, a, b) \/ Earlier(Y, a, b)
                 \/ Contains(X, a) /\ Contains(Z2, b)
                 \/ (Contains(X, a) \/ Contains(Z2, a)) /\ Contains(Y, b)
  BY <1>1, Three
<1>4. \A a : Contains(X, a) \/ Contains(Y, a) => a \in D
  BY ContainedIn
<1>5. Once(L)
  OBVIOUS
<1> HIDE DEF L, M
<1>6. ASSUME NEW a, Earlier(M, a, a) PROVE FALSE
  <2>1. ~Earlier(L, a, a) /\ ~Earlier(Z2, a, a)
    BY <1>5 DEF Renews, Once
  <2>2. a \in D /\ Contains(Z2, a) => Contains(Z, a)
    BY DEF Renews
  <2> QED BY <1>2, <1>3, <1>4, <1>6, <2>1, <2>2
<1>7. \A c \in D : Contains(M, c) => Contains(L, c) /\ c \notin gone
  BY <1>2, <1>3 DEF Renews
<1>8. \A c \in D \ gone : Contains(L, c) => Contains(M, c)
  BY <1>2, <1>3 DEF Renews
<1>9. \A a, b \in D : Earlier(M, a, b) => Earlier(L, a, b)
  BY <1>2, <1>3 DEF Renews
<1>10. Once(M)
  BY <1>6 DEF Once
<1>11. Renews(D, gone, L, M)
  BY <1>7, <1>8, <1>9, <1>10 DEF Renews
<1> QED BY <1>3, <1>11 DEF L, M

\* s2 without the Tree t: p has the children L and takes back what is in C.
Unwrap(s2, t, p, C, L) ==
    [x \in DOMAIN s2 \ {t} |->
        [s2[x] EXCEPT !.up = IF Contains(C, x) THEN p ELSE s2[x].up,
                      !.children = IF x = p THEN L ELSE s2[x].children]]

\* mid is s2 without t.
Unwrapped(s2, mid, t, p, C, L) ==
    /\ DOMAIN mid = DOMAIN s2 \ {t}
    /\ \A x \in DOMAIN mid :
          /\ SameKind(mid[x], s2[x])
          /\ mid[x].up = IF Contains(C, x) THEN p ELSE s2[x].up
          /\ x # p => Children(mid, x) = Children(s2, x)
    /\ Children(mid, p) = L

LEMMA UnwrapDoes ==
    ASSUME NEW s2, \A x \in DOMAIN s2 : Complete(s2[x]), NEW t, NEW p \in DOMAIN s2,
           HasChildren(s2, p), p # t, NEW C, NEW L
    PROVE  Unwrapped(s2, Unwrap(s2, t, p, C, L), t, p, C, L)
<1> DEFINE mid == Unwrap(s2, t, p, C, L)
<1>1. DOMAIN mid = DOMAIN s2 \ {t}
  BY DEF Unwrap
<1>2. ASSUME NEW x \in DOMAIN mid
      PROVE  /\ SameKind(mid[x], s2[x])
             /\ mid[x].up = IF Contains(C, x) THEN p ELSE s2[x].up
             /\ Children(mid, x) = IF x = p THEN L ELSE Children(s2, x)
  <2>1. x \in DOMAIN s2 /\ Complete(s2[x])
    BY <1>1
  <2>2. mid[x] = [s2[x] EXCEPT !.up = IF Contains(C, x) THEN p ELSE s2[x].up,
                               !.children = IF x = p THEN L ELSE s2[x].children]
    BY <1>1 DEF Unwrap
  <2> HIDE DEF mid
  <2>3. /\ DOMAIN mid[x] = DOMAIN s2[x]
        /\ mid[x].type = s2[x].type
        /\ mid[x].up = IF Contains(C, x) THEN p ELSE s2[x].up
        /\ s2[x].type = "Goto" => mid[x].label = s2[x].label
        /\ HasChildren(s2, x) => mid[x].children = IF x = p THEN L ELSE s2[x].children
    BY <2>1, <2>2 DEF Complete, HasChildren
  <2>4. SameKind(mid[x], s2[x])
    BY <2>1, <2>3 DEF SameKind, Complete
  <2>5. Children(mid, x) = IF x = p THEN L ELSE Children(s2, x)
    BY <2>3 DEF Children, HasChildren
  <2> QED BY <2>3, <2>4, <2>5
<1>3. p \in DOMAIN mid
  BY <1>1
<1> HIDE DEF mid
<1>4. Unwrapped(s2, mid, t, p, C, L)
  BY <1>1, <1>2, <1>3 DEF Unwrapped
<1> QED BY <1>4 DEF mid

-----------------------------------------------------------------------------
(* A move: leaves are put in and taken out, then a Tree is put around some *)
(* siblings.                                                               *)

\* The gotos that are in a list.
GotosIn(st) == {s \in DOMAIN st : st[s].type = "Goto" /\ Contains(Siblings(st, s), s)}

LEMMA LeavesGotos ==
    ASSUME NEW st, PoolOK(st), NEW s2, NEW gone, Leaves(st, s2, gone),
           \A g \in gone : g \in DOMAIN st /\ st[g].type = "Goto"
    PROVE  GotosIn(s2) = (GotosIn(st) \ gone) \cup
                         {n \in DOMAIN s2 \ DOMAIN st : s2[n].type = "Goto"}
<1>1. Fields(st)
  BY DEF PoolOK
<1>2. ASSUME NEW s \in DOMAIN st, st[s].type = "Goto"
      PROVE  s \in GotosIn(s2) <=> s \in GotosIn(st) \ gone
  <2>1. s # Root /\ st[s].up \in DOMAIN st
    BY <1>1, <1>2 DEF Fields
  <2>2. s2[s].up = st[s].up /\ s2[s].type = "Goto" /\ s \in DOMAIN s2
    BY <1>2 DEF Leaves, SameKind
  <2>3. Contains(Children(s2, st[s].up), s) <=> Contains(Children(st, st[s].up), s) /\ s \notin gone
    BY <2>1 DEF Leaves, Renews
  <2> QED BY <1>2, <2>2, <2>3 DEF GotosIn, Siblings
<1>3. \A n \in DOMAIN s2 \ DOMAIN st : s2[n].type = "Goto" => n \in GotosIn(s2)
  BY DEF Leaves, GotosIn, Siblings
<1>4. DOMAIN st \subseteq DOMAIN s2 /\ \A s \in DOMAIN st : s2[s].type = st[s].type
  BY DEF Leaves, SameKind
<1> QED BY <1>2, <1>3, <1>4 DEF GotosIn

LEMMA WrapGotos ==
    ASSUME NEW st, PoolOK(st), NEW s2, NEW t, NEW p, NEW A, NEW C, NEW B,
           Wrap(st, s2, t, p, A, C, B)
    PROVE  GotosIn(s2) = GotosIn(st)
<1>1. Fields(st) /\ Lists(st)
  BY DEF PoolOK
<1>2. /\ p \in DOMAIN st /\ t \notin DOMAIN st /\ DOMAIN s2 = DOMAIN st \cup {t}
      /\ s2[t].type # "Goto"
      /\ \A s \in DOMAIN st : /\ s2[s].type = st[s].type
                              /\ s2[s].up = IF Contains(C, s) THEN t ELSE st[s].up
                              /\ s # p => Children(s2, s) = Children(st, s)
  BY DEF Wrap, SameKind
<1>3. ASSUME NEW s \in DOMAIN st, st[s].type = "Goto"
      PROVE  Contains(Siblings(s2, s), s) <=> Contains(Siblings(st, s), s)
  <2>1. s # Root /\ st[s].up \in DOMAIN st
    BY <1>1, <1>3 DEF Fields
  <2>2. CASE Contains(C, s)
    <3>1. st[s].up = p
      BY <1>1, <1>2, <2>2, WrapLists DEF Lists
    <3> QED BY <1>2, <2>2, <3>1, WrapLists DEF Siblings
  <2>3. CASE ~Contains(C, s) /\ st[s].up = p
    BY <1>2, <2>3, WrapLists DEF Siblings
  <2>4. CASE ~Contains(C, s) /\ st[s].up # p
    BY <1>2, <2>1, <2>4 DEF Siblings
  <2> QED BY <2>2, <2>3, <2>4
<1> QED BY <1>2, <1>3 DEF GotosIn

\* What a move keeps: the pool is still well formed, the statements are the same
\* and waiting gotos stay in the same order of the text.
Keeps(st, s2, gone) ==
    /\ PoolOK(s2)
    /\ \A s \in DOMAIN st : s \in DOMAIN s2 /\ SameKind(s2[s], st[s])
    /\ GotosIn(s2) = (GotosIn(st) \ gone) \cup
                     {n \in DOMAIN s2 \ DOMAIN st : s2[n].type = "Goto"}
    /\ \A v, w \in DOMAIN st : NotBehind(st, v, w) => NotBehind(s2, v, w)

LEMMA LeavesKeep ==
    ASSUME NEW st, PoolOK(st), NEW s2, NEW gone, Leaves(st, s2, gone),
           \A g \in gone : g \in DOMAIN st /\ st[g].type = "Goto"
    PROVE  Keeps(st, s2, gone)
<1>1. PoolOK(s2)
  BY LeavesKeepPool
<1>2. \A s \in DOMAIN st : s \in DOMAIN s2 /\ SameKind(s2[s], st[s])
  BY DEF Leaves
<1>3. GotosIn(s2) = (GotosIn(st) \ gone) \cup
                     {n \in DOMAIN s2 \ DOMAIN st : s2[n].type = "Goto"}
  BY LeavesGotos
<1>4. \A v, w \in DOMAIN st : NotBehind(st, v, w) => NotBehind(s2, v, w)
  BY LeavesKeepWaiting
<1> QED BY <1>1, <1>2, <1>3, <1>4 DEF Keeps

LEMMA MoveKeeps ==
    ASSUME NEW st, PoolOK(st), NEW mid, NEW gone, Leaves(st, mid, gone),
           \A g \in gone : g \in DOMAIN st /\ st[g].type = "Goto",
           NEW s2, NEW t, NEW p, NEW A, NEW C, NEW B, t \notin DOMAIN st,
           Wrap(mid, s2, t, p, A, C, B)
    PROVE  /\ Keeps(st, s2, gone)
           /\ \A s \in DOMAIN st :
                 (\A c \in DOMAIN st : Contains(C, c) => c \notin Chain(st, s)) =>
                       Chain(s2, s) = Chain(st, s) /\ Level(s2, s) = Level(st, s)
           /\ \A w \in DOMAIN st :
                 /\ Spine(st, w)
                 /\ \A n \in DOMAIN s2 \ DOMAIN st : s2[n].type # "Break"
                 /\ \/ s2[t].type = "Loop"
                    \/ \A c \in DOMAIN st : Contains(C, c) => c \notin Chain(st, w)
                 /\ \A b \in DOMAIN st : Contains(B, b) => b \notin Chain(st, w)
                 => Spine(s2, w)
<1>1. /\ PoolOK(mid) /\ PoolOK(s2)
      /\ \A s \in DOMAIN st : Chain(mid, s) = Chain(st, s) /\ Level(mid, s) = Level(st, s)
  BY LeavesKeepPool, WrapKeepPool
<1>2. /\ DOMAIN st \subseteq DOMAIN mid /\ DOMAIN s2 = DOMAIN mid \cup {t}
      /\ \A s \in DOMAIN mid : SameKind(s2[s], mid[s])
      /\ \A s \in DOMAIN st : SameKind(mid[s], st[s])
      /\ s2[t].type \in {"If", "Loop"} /\ t \notin DOMAIN mid
  BY DEF Wrap, Leaves
<1>3. \A s \in DOMAIN st : s \in DOMAIN s2 /\ SameKind(s2[s], st[s])
  BY <1>2 DEF SameKind
<1>4. GotosIn(s2) = (GotosIn(st) \ gone) \cup
                     {n \in DOMAIN s2 \ DOMAIN st : s2[n].type = "Goto"}
  <2>1. GotosIn(mid) = (GotosIn(st) \ gone) \cup
                       {n \in DOMAIN mid \ DOMAIN st : mid[n].type = "Goto"}
    BY LeavesGotos
  <2>2. GotosIn(s2) = GotosIn(mid)
    BY <1>1, WrapGotos
  <2>3. {n \in DOMAIN mid \ DOMAIN st : mid[n].type = "Goto"}
            = {n \in DOMAIN s2 \ DOMAIN st : s2[n].type = "Goto"}
    BY <1>2 DEF SameKind
  <2> QED BY <2>1, <2>2, <2>3
<1>5. \A v, w \in DOMAIN st : NotBehind(st, v, w) => NotBehind(s2, v, w)
  <2>1. \A v, w \in DOMAIN st : NotBehind(st, v, w) => NotBehind(mid, v, w)
    BY LeavesKeepWaiting
  <2>2. \A v, w \in DOMAIN mid : NotBehind(mid, v, w) => NotBehind(s2, v, w)
    BY <1>1, WrapKeepWaiting
  <2> QED BY <1>2, <2>1, <2>2
<1>6. ASSUME NEW s \in DOMAIN st
      PROVE  \A c \in DOMAIN mid : Contains(C, c) /\ c \in Chain(mid, s) => c \in DOMAIN st /\ c \in Chain(st, s)
  <2>1. Chain(st, s) \subseteq DOMAIN st
    BY ChainInPool DEF PoolOK
  <2> QED BY <1>1, <2>1
<1>7. ASSUME NEW s \in DOMAIN st,
             \A c \in DOMAIN st : Contains(C, c) => c \notin Chain(st, s)
      PROVE  Chain(s2, s) = Chain(st, s) /\ Level(s2, s) = Level(st, s)
  <2>1. \A c \in DOMAIN mid : Contains(C, c) => c \notin Chain(mid, s)
    BY <1>6, <1>7
  <2>2. Chain(s2, s) = Chain(mid, s) /\ Level(s2, s) = Level(mid, s)
    BY <1>1, <1>2, <2>1, WrapChains
  <2> QED BY <1>1, <2>2
<1>8. ASSUME NEW w \in DOMAIN st, Spine(st, w),
             \A n \in DOMAIN s2 \ DOMAIN st : s2[n].type # "Break",
             \/ s2[t].type = "Loop"
             \/ \A c \in DOMAIN st : Contains(C, c) => c \notin Chain(st, w),
             \A b \in DOMAIN st : Contains(B, b) => b \notin Chain(st, w)
      PROVE  Spine(s2, w)
  <2>1. \A n \in DOMAIN mid \ DOMAIN st : mid[n].type # "Break"
    BY <1>2, <1>8 DEF SameKind
  <2>2. Spine(mid, w)
    BY <1>8, <2>1, LeavesKeepWaiting
  <2>3. s2[t].type = "Loop" \/ \A c \in DOMAIN mid : Contains(C, c) => c \notin Chain(mid, w)
    BY <1>6, <1>8
  <2>4. \A b \in DOMAIN mid : Contains(B, b) => b \notin Chain(mid, w)
    <3>1. Chain(mid, w) \subseteq DOMAIN st
      BY <1>1, ChainInPool DEF PoolOK
    <3> QED BY <1>1, <1>8, <3>1
  <2> QED BY <1>1, <1>2, <1>8, <2>2, <2>3, <2>4, WrapKeepWaiting
<1> QED BY <1>1, <1>3, <1>4, <1>5, <1>7, <1>8 DEF Keeps

LEMMA ListOf ==
    ASSUME NEW st, PoolOK(st), NEW s \in DOMAIN st, s # Root
    PROVE  /\ st[s].up \in DOMAIN st /\ st[s].up # 0 /\ HasChildren(st, st[s].up)
           /\ Siblings(st, s) = st[st[s].up].children
           /\ Siblings(st, s) \in Seq(DOMAIN st)
           /\ Once(Siblings(st, s))
           /\ \A c \in DOMAIN st : Contains(Siblings(st, s), c) => st[c].up = st[s].up /\ c # Root
<1>1. Fields(st) /\ Lists(st)
  BY DEF PoolOK
<1>2. st[s].up \in DOMAIN st /\ st[s].up # 0 /\ HasChildren(st, st[s].up) /\ st[Root].up = 0
  BY <1>1 DEF Fields
<1>3. Siblings(st, s) = st[st[s].up].children /\ Siblings(st, s) = Children(st, st[s].up)
  BY <1>2 DEF Siblings, Children
<1>4. Children(st, st[s].up) \in Seq(DOMAIN st)
  BY <1>1, <1>2 DEF Fields
<1>5. /\ Once(Children(st, st[s].up))
      /\ \A c \in DOMAIN st : Contains(Children(st, st[s].up), c) => st[c].up = st[s].up
  BY <1>1, <1>2 DEF Lists
<1> QED BY <1>2, <1>3, <1>4, <1>5

LEMMA RenewsSame ==
    ASSUME NEW D, NEW gone, NEW L, Once(L), \A g \in gone : ~Contains(L, g)
    PROVE  Renews(D, gone, L, L)
BY DEF Renews

\* A goto is taken out of its list.
LEMMA EraseIsLeaves ==
    ASSUME NEW st, PoolOK(st), Numbered(st), NEW g \in GotosIn(st),
           NEW X \in Seq(DOMAIN st), NEW Y \in Seq(DOMAIN st),
           Children(st, st[g].up) = (X \o <<g>>) \o Y
    PROVE  Leaves(st, SetChildren(st, st[g].up, X \o Y), {g})
<1> DEFINE p == st[g].up
           mid == SetChildren(st, p, X \o Y)
           D == DOMAIN st
<1>1. Fields(st) /\ Lists(st)
  BY DEF PoolOK
<1>2. g \in D /\ st[g].type = "Goto" /\ g # Root
  BY <1>1 DEF GotosIn, Fields
<1>3. p \in D /\ HasChildren(st, p) /\ Once(Children(st, p))
  BY <1>2, ListOf DEF Siblings
<1>4. \A x \in DOMAIN st : Complete(st[x])
  BY <1>1 DEF Fields
<1>5. /\ DOMAIN mid = D
      /\ \A x \in D : SameKind(mid[x], st[x]) /\ mid[x].up = st[x].up
      /\ \A x \in D : x # p => Children(mid, x) = Children(st, x)
      /\ Children(mid, p) = X \o Y
  <2> DEFINE L == X \o Y
  <2>1. ChildrenSet(st, SetChildren(st, p, L), p, L)
    BY <1>3, <1>4, SetChildrenDoes
  <2> QED BY <2>1 DEF ChildrenSet
<1>6. /\ X \o Y \in Seq(D)
      /\ Renews(D, {g}, Children(st, p), X \o Y)
  <2>1. <<g>> \in Seq(D) /\ <<>> \in Seq(D)
    BY <1>2
  <2>2. Renews(D, {g}, <<g>>, <<>>)
    <3>1. \A a, b : /\ ~Contains(<<>>, a) /\ ~Earlier(<<>>, a, b)
                    /\ Contains(<<g>>, a) <=> a = g
      BY NothingIn, OneIn
    <3> QED BY <3>1 DEF Renews, Once
  <2>3. ~Contains(X, g) /\ ~Contains(Y, g)
    <3>1. Contains(<<g>>, g)
      BY OneIn
    <3>2. ~Earlier((X \o <<g>>) \o Y, g, g)
      BY <1>3 DEF Once
    <3> QED BY <2>1, <3>1, <3>2, Three
  <2>4. (X \o <<>>) \o Y = X \o Y
    BY ConcatEmptySeq
  <2>5. Once((X \o <<g>>) \o Y)
    BY <1>3
  <2>6. /\ (X \o <<>>) \o Y \in Seq(D)
        /\ Renews(D, {g}, (X \o <<g>>) \o Y, (X \o <<>>) \o Y)
    <3> HIDE DEF D
    <3>1. X \in Seq(D) /\ Y \in Seq(D) /\ D \subseteq D
      BY DEF D
    <3> QED BY <2>1, <2>2, <2>3, <2>5, <3>1, Replaced
  <2> QED BY <2>4, <2>6
<1>7. ASSUME NEW q \in D
      PROVE  Children(mid, q) \in Seq(D) /\ Renews(D, {g}, Children(st, q), Children(mid, q))
  <2>1. CASE q = p
    BY <1>5, <1>6, <2>1
  <2>2. CASE q # p
    <3>1. Children(st, q) \in Seq(D) /\ Once(Children(st, q)) /\ ~Contains(Children(st, q), g)
      BY <1>1, <1>2, <2>2 DEF Fields, Lists
    <3> QED BY <1>5, <2>2, <3>1, RenewsSame
  <2> QED BY <2>1, <2>2
<1>8. 0 \notin D
  BY <1>1 DEF Fields
<1> HIDE DEF mid
<1> QED BY <1>5, <1>7, <1>8 DEF Leaves, mid

\* s2 is st with a new Tree t that takes over its children; p has the list "body".
Enclosed(st, s2, t, tree, p, body) ==
    /\ Numbered(s2) /\ Len(s2) = t /\ t \in Nat /\ t # 0 /\ Len(Create(st, tree)) = t
    /\ t \notin DOMAIN st /\ DOMAIN s2 = DOMAIN st \cup {t}
    /\ \A x \in DOMAIN st :
          /\ SameKind(s2[x], st[x])
          /\ s2[x].up = IF Contains(tree.children, x) THEN t ELSE st[x].up
          /\ x # p => Children(s2, x) = Children(st, x)
    /\ Children(s2, p) = body
    /\ Complete(s2[t]) /\ s2[t].type = tree.type /\ s2[t].up = tree.up
    /\ s2[t].children = tree.children

\* A new Tree takes over its children, and p gets the list "body".
LEMMA EncloseDoes ==
    ASSUME NEW st, Numbered(st), \A x \in DOMAIN st : Complete(st[x]),
           NEW tree, Complete(tree), tree.type \in {"If", "Loop"},
           tree.children \in Seq(DOMAIN st),
           NEW p \in DOMAIN st, HasChildren(st, p), NEW body
    PROVE  Enclosed(st, SetChildren(UpdateTreeUp(Create(st, tree), Len(st) + 1), p, body),
                    Len(st) + 1, tree, p, body)
<1> DEFINE t == Len(st) + 1
           s1 == Create(st, tree)
           u == UpdateTreeUp(s1, t)
           s2 == SetChildren(u, p, body)
<1>1. /\ Numbered(s1) /\ Len(st) \in Nat /\ Len(s1) = t
      /\ DOMAIN s1 = DOMAIN st \cup {t}
      /\ t \notin DOMAIN st /\ s1[t] = tree
      /\ \A x \in DOMAIN st : s1[x] = st[x]
  BY CreateDoes DEF Created
<1> HIDE DEF s1
<1>2. /\ \A x \in DOMAIN s1 : Complete(s1[x])
      /\ t # 0 /\ t \in Nat /\ p # t
      /\ HasChildren(s1, t) /\ HasChildren(s1, p)
      /\ \A x \in DOMAIN st : Children(s1, x) = Children(st, x)
      /\ ~Contains(s1[t].children, t)
  <2>1. ~Contains(tree.children, t)
    BY <1>1, ContainedIn
  <2> QED BY <1>1, <2>1 DEF HasChildren, Children
<1>3. /\ Numbered(u) /\ Len(u) = Len(s1) /\ DOMAIN u = DOMAIN s1
      /\ \A x \in DOMAIN s1 :
            /\ SameKind(u[x], s1[x]) /\ Children(u, x) = Children(s1, x)
            /\ u[x].up = IF Contains(s1[t].children, x) THEN t ELSE s1[x].up
            /\ HasChildren(s1, x) => u[x].children = s1[x].children
  BY <1>1, <1>2, UpdateTreeUpDoes DEF UpSet
<1> HIDE DEF u, t
<1>4. /\ \A x \in DOMAIN u : Complete(u[x])
      /\ p \in DOMAIN u /\ HasChildren(u, p)
  BY <1>1, <1>2, <1>3 DEF SameKind, HasChildren
<1>5. /\ Numbered(s2) /\ Len(s2) = Len(u) /\ DOMAIN s2 = DOMAIN u
      /\ \A x \in DOMAIN u : SameKind(s2[x], u[x]) /\ s2[x].up = u[x].up
      /\ \A x \in DOMAIN u : x # p => s2[x] = u[x] /\ Children(s2, x) = Children(u, x)
      /\ Children(s2, p) = body
  BY <1>3, <1>4, SetChildrenDoes DEF ChildrenSet
<1> HIDE DEF s2
<1>6. \A x \in DOMAIN st :
         /\ SameKind(s2[x], st[x])
         /\ s2[x].up = IF Contains(tree.children, x) THEN t ELSE st[x].up
         /\ x # p => Children(s2, x) = Children(st, x)
  BY <1>1, <1>2, <1>3, <1>5 DEF SameKind
<1>7. /\ Complete(s2[t]) /\ s2[t].type = tree.type /\ s2[t].up = tree.up
      /\ s2[t].children = tree.children
  BY <1>1, <1>2, <1>3, <1>5 DEF SameKind
<1> QED BY <1>1, <1>2, <1>3, <1>5, <1>6, <1>7 DEF s2, u, s1, t, Enclosed

-----------------------------------------------------------------------------
(* The transformations                                                     *)

Moved(st, s2, mid, p, tree, A, C, B) ==
    LET t == Len(st) + 1
    IN  /\ Numbered(s2) /\ t \notin DOMAIN st /\ DOMAIN s2 = DOMAIN st \cup {t}
        /\ Len(Create(st, tree)) = t
        /\ Wrap(mid, s2, t, p, A, C, B)
        /\ s2[t].type = tree.type

\* The goto g is taken out and the siblings C are put into a new Tree.
LEMMA EncloseMoves ==
    ASSUME NEW st, PoolOK(st), Numbered(st), NEW g \in GotosIn(st),
           NEW X \in Seq(DOMAIN st), NEW Y \in Seq(DOMAIN st),
           Children(st, st[g].up) = (X \o <<g>>) \o Y,
           NEW A \in Seq(DOMAIN st), NEW C \in Seq(DOMAIN st), NEW B \in Seq(DOMAIN st),
           X \o Y = (A \o C) \o B,
           NEW tree, Complete(tree), tree.type \in {"If", "Loop"},
           tree.up = st[g].up, tree.children = C
    PROVE  Moved(st, SetChildren(UpdateTreeUp(Create(st, tree), Len(st) + 1), st[g].up,
                                 (A \o <<Len(st) + 1>>) \o B),
                 SetChildren(st, st[g].up, X \o Y), st[g].up, tree, A, C, B)
<1> DEFINE t == Len(st) + 1
           p == st[g].up
           body == (A \o <<t>>) \o B
           s2 == SetChildren(UpdateTreeUp(Create(st, tree), t), p, body)
           L == X \o Y
           mid == SetChildren(st, p, L)
<1>1. Fields(st)
  BY DEF PoolOK
<1>2. g \in DOMAIN st /\ st[g].type = "Goto" /\ g # Root
  BY <1>1 DEF GotosIn, Fields
<1>3. p \in DOMAIN st /\ HasChildren(st, p)
  BY <1>2, ListOf
<1>4. \A x \in DOMAIN st : Complete(st[x])
  BY <1>1 DEF Fields
<1>5. /\ DOMAIN mid = DOMAIN st
      /\ \A x \in DOMAIN st : SameKind(mid[x], st[x]) /\ mid[x].up = st[x].up
      /\ \A x \in DOMAIN st : x # p => Children(mid, x) = Children(st, x)
      /\ Children(mid, p) = L
  <2>1. ChildrenSet(st, mid, p, L)
    BY <1>3, <1>4, SetChildrenDoes
  <2> QED BY <2>1 DEF ChildrenSet
<1>6. /\ Numbered(s2) /\ Len(s2) = t /\ t # 0 /\ Len(Create(st, tree)) = t
      /\ t \notin DOMAIN st /\ DOMAIN s2 = DOMAIN st \cup {t}
      /\ \A x \in DOMAIN st :
            /\ SameKind(s2[x], st[x])
            /\ s2[x].up = IF Contains(tree.children, x) THEN t ELSE st[x].up
            /\ x # p => Children(s2, x) = Children(st, x)
      /\ Children(s2, p) = body
      /\ Complete(s2[t]) /\ s2[t].type = tree.type /\ s2[t].up = tree.up
      /\ s2[t].children = tree.children
  <2>1. Enclosed(st, s2, t, tree, p, body)
    BY <1>3, <1>4, EncloseDoes
  <2> QED BY <2>1 DEF Enclosed
<1>7. HasChildren(mid, p)
  BY <1>3, <1>5 DEF SameKind, HasChildren
<1>8. /\ tree.up = p /\ tree.children = C /\ L = (A \o C) \o B
      /\ tree.type \in {"If", "Loop"}
  OBVIOUS
<1>9. Wrap(mid, s2, t, p, A, C, B)
  <2> HIDE DEF mid, s2, t, p, L
  <2>1. /\ t \notin DOMAIN mid /\ DOMAIN s2 = DOMAIN mid \cup {t}
        /\ p \in DOMAIN mid
        /\ A \in Seq(DOMAIN mid) /\ C \in Seq(DOMAIN mid) /\ B \in Seq(DOMAIN mid)
        /\ Children(mid, p) = (A \o C) \o B
        /\ Children(s2, p) = (A \o <<t>>) \o B
    BY <1>3, <1>5, <1>6, <1>8
  <2>2. \A s \in DOMAIN mid :
          /\ SameKind(s2[s], mid[s])
          /\ s2[s].up = IF Contains(C, s) THEN t ELSE mid[s].up
          /\ s # p => Children(s2, s) = Children(mid, s)
    BY <1>5, <1>6, <1>8 DEF SameKind
  <2>3. /\ t # 0 /\ s2[t].type \in {"If", "Loop"} /\ s2[t].up = p
        /\ Complete(s2[t]) /\ s2[t].children = C
    BY <1>6, <1>8
  <2> QED BY <1>7, <2>1, <2>2, <2>3 DEF Wrap
<1> QED BY <1>6, <1>9 DEF Moved

\* The statements that were there have the lists they had, but for "changed".
OtherLists(st, s2, changed) ==
    \A x \in DOMAIN st \ changed : Children(s2, x) = Children(st, x)

LEMMA EraseKeeps ==
    ASSUME NEW st, PoolOK(st), Numbered(st), NEW g \in GotosIn(st)
    PROVE  LET s2 == SetChildren(st, st[g].up, Before(st, g) \o After(st, g))
           IN  /\ Numbered(s2) /\ DOMAIN s2 = DOMAIN st
               /\ Keeps(st, s2, {g})
               /\ \A w \in DOMAIN st : Spine(st, w) => Spine(s2, w)
               /\ Children(s2, st[g].up) = Before(st, g) \o After(st, g)
               /\ OtherLists(st, s2, {st[g].up})
<1> DEFINE L == Before(st, g) \o After(st, g)
           s2 == SetChildren(st, st[g].up, L)
<1>1. Fields(st)
  BY DEF PoolOK
<1>2. g \in DOMAIN st /\ st[g].type = "Goto" /\ g # Root /\ Contains(Siblings(st, g), g)
  BY <1>1 DEF GotosIn, Fields
<1>3. /\ st[g].up \in DOMAIN st /\ HasChildren(st, st[g].up)
      /\ st[st[g].up].children \in Seq(DOMAIN st)
      /\ Once(st[st[g].up].children)
      /\ Contains(st[st[g].up].children, g)
      /\ st[st[g].up].children = Children(st, st[g].up)
  BY <1>2, ListOf DEF Siblings
<1>4. /\ Before(st, g) \in Seq(DOMAIN st) /\ After(st, g) \in Seq(DOMAIN st)
      /\ <<g>> \in Seq(DOMAIN st)
      /\ st[st[g].up].children = (Before(st, g) \o <<g>>) \o After(st, g)
  BY <1>3, CutAt
<1>5. Children(st, st[g].up) = (Before(st, g) \o <<g>>) \o After(st, g)
  BY <1>3, <1>4
<1>6. Leaves(st, s2, {g})
  BY <1>4, <1>5, EraseIsLeaves
<1>7. \A x \in {g} : x \in DOMAIN st /\ st[x].type = "Goto"
  BY <1>2
<1>8. Keeps(st, s2, {g})
  <2> HIDE DEF s2
  <2> QED BY <1>6, <1>7, LeavesKeep
<1>9. \A x \in DOMAIN st : Complete(st[x])
  BY <1>1 DEF Fields
<1>10. /\ Numbered(s2) /\ DOMAIN s2 = DOMAIN st
       /\ Children(s2, st[g].up) = L /\ OtherLists(st, s2, {st[g].up})
  <2>1. ChildrenSet(st, s2, st[g].up, L)
    BY <1>3, <1>9, SetChildrenDoes
  <2> QED BY <2>1 DEF ChildrenSet, OtherLists
<1>11. \A w \in DOMAIN st : Spine(st, w) => Spine(s2, w)
  <2> HIDE DEF s2
  <2> QED BY <1>6, <1>7, <1>10, LeavesKeepWaiting
<1> QED BY <1>8, <1>10, <1>11

\* The If around what a forward goto skips.
LEMMA ConditionalKeeps ==
    ASSUME NEW st, PoolOK(st), Numbered(st), NEW g \in GotosIn(st),
           st[st[g].label].up = st[g].up, Earlier(Siblings(st, g), g, st[g].label)
    PROVE  LET s2 == EliminateAsConditional(st, g)
           IN  /\ Numbered(s2)
               /\ Keeps(st, s2, {g})
               /\ \A n \in DOMAIN s2 \ DOMAIN st : s2[n].type = "If"
               /\ \A w \in DOMAIN st :
                     /\ Spine(st, w)
                     /\ \A e \in DOMAIN st :
                           Earlier(Siblings(st, g), g, e) => e \notin Chain(st, w)
                     => Spine(s2, w)
               /\ DOMAIN s2 = DOMAIN st \cup {Len(st) + 1}
               /\ Children(s2, Len(st) + 1) = Tail(Span(st, g, st[g].label))
               /\ Children(s2, st[g].up) = (Before(st, g) \o <<Len(st) + 1>>) \o From(st, st[g].label)
               /\ OtherLists(st, s2, {st[g].up})
<1> DEFINE l == st[g].label
           p == st[g].up
           t == Len(st) + 1
           A == Before(st, g)
           C == Tail(Span(st, g, l))
           B == From(st, l)
           Y == After(st, g)
           s2 == EliminateAsConditional(st, g)
           mid == SetChildren(st, p, A \o Y)
<1>1. Fields(st)
  BY DEF PoolOK
<1>2. /\ g \in DOMAIN st /\ st[g].type = "Goto" /\ g # Root /\ Contains(Siblings(st, g), g)
      /\ l \in DOMAIN st
  BY <1>1 DEF GotosIn, Fields
<1>3. /\ p \in DOMAIN st /\ Siblings(st, g) = st[p].children
      /\ st[p].children \in Seq(DOMAIN st) /\ Once(st[p].children)
      /\ Contains(st[p].children, g)
      /\ st[p].children = Children(st, p)
      /\ HasChildren(st, p)
  BY <1>2, ListOf DEF Siblings
<1>4. /\ A \in Seq(DOMAIN st) /\ Y \in Seq(DOMAIN st)
      /\ <<g>> \in Seq(DOMAIN st)
      /\ st[p].children = (A \o <<g>>) \o Y
  BY <1>3, CutAt
<1>5. /\ C \in Seq(DOMAIN st)
      /\ Y = C \o B
  <2>1. /\ Earlier(st[st[g].up].children, g, l) /\ st[g].up = st[l].up
        /\ st[st[g].up].children \in Seq(DOMAIN st) /\ Once(st[st[g].up].children)
    BY <1>3
  <2> HIDE DEF l
  <2> QED BY <2>1, CutBetween, ZenonT(60)
<1>6. B \in Seq(DOMAIN st)
  <2>1. st[l].up = p /\ Contains(st[p].children, l)
    BY <1>3, EarlierContained
  <2> QED BY <1>3, <2>1, CutAt
<1>7. t = Len(st) + 1 /\ p = st[g].up
  OBVIOUS
<1>8. s2 = SetChildren(UpdateTreeUp(Create(st, SkipIf(st, g)), Len(Create(st, SkipIf(st, g)))),
                       p, (A \o <<Len(Create(st, SkipIf(st, g)))>>) \o B)
  BY DEF EliminateAsConditional
<1>9. /\ Complete(SkipIf(st, g)) /\ SkipIf(st, g).type = "If"
      /\ SkipIf(st, g).up = p /\ SkipIf(st, g).children = C
  BY DEF SkipIf, Complete
<1> HIDE DEF A, B, C, Y, s2, l
<1>11. A \o Y = (A \o C) \o B
  <2>1. A \o (C \o B) = (A \o C) \o B
    BY <1>4, <1>5, <1>6, ConcatAssociative
  <2> QED BY <1>5, <2>1
<1>12. Children(st, p) = (A \o <<g>>) \o Y
  BY <1>3, <1>4
<1>13. Leaves(st, mid, {g})
  BY <1>4, <1>12, EraseIsLeaves
<1>14. /\ Numbered(s2) /\ t \notin DOMAIN st /\ DOMAIN s2 = DOMAIN st \cup {t}
       /\ Wrap(mid, s2, t, p, A, C, B)
       /\ s2[t].type = "If"
  <2> DEFINE tree == SkipIf(st, g)
             f == SetChildren(UpdateTreeUp(Create(st, tree), t), p, (A \o <<t>>) \o B)
  <2>1. tree.type \in {"If", "Loop"} /\ Complete(tree) /\ tree.up = st[g].up /\ tree.children = C
    BY <1>9
  <2> HIDE DEF tree
  <2>0. Children(st, st[g].up) = (A \o <<g>>) \o Y
    BY <1>12
  <2>2. Moved(st, f, mid, p, tree, A, C, B)
    BY <1>4, <1>5, <1>6, <1>11, <2>0, <2>1, EncloseMoves
  <2>3. s2 = f
    BY <1>8, <2>2 DEF tree, Moved
  <2>4. tree.type = "If"
    BY <1>9 DEF tree
  <2> HIDE DEF f, mid, p
  <2> QED BY <2>2, <2>3, <2>4 DEF Moved
<1>20. /\ Children(s2, t) = C /\ Children(s2, p) = (A \o <<t>>) \o B
       /\ OtherLists(st, s2, {p})
  <2>1. \A x \in DOMAIN st : Complete(st[x])
    BY <1>1 DEF Fields
  <2>2. ChildrenSet(st, mid, p, A \o Y)
    BY <1>3, <2>1, SetChildrenDoes
  <2> HIDE DEF mid, t, p
  <2>3. Children(s2, t) = C
    BY <1>14, WrapLists
  <2>4. DOMAIN mid = DOMAIN st /\ \A x \in DOMAIN st : x # p => Children(mid, x) = Children(st, x)
    BY <2>2 DEF ChildrenSet
  <2> QED BY <1>14, <2>3, <2>4 DEF Wrap, OtherLists
<1> HIDE DEF mid, t, p
<1>15. \A x \in {g} : x \in DOMAIN st /\ st[x].type = "Goto"
  BY <1>2
<1>16. \A c \in DOMAIN st : Contains(C, c) \/ Contains(B, c) => Earlier(Siblings(st, g), g, c)
  <2>1. \A c : Contains(Y, c) <=> Contains(C, c) \/ Contains(B, c)
    BY <1>5, <1>6, Joined
  <2>2. Contains(<<g>>, g)
    BY OneIn
  <2>3. \A c : Contains(Y, c) => Earlier((A \o <<g>>) \o Y, g, c)
    BY <1>4, <2>2, Three
  <2> QED BY <1>3, <1>12, <2>1, <2>3
<1>17. Keeps(st, s2, {g})
  BY <1>13, <1>14, <1>15, MoveKeeps
<1>18. \A n \in DOMAIN s2 \ DOMAIN st : s2[n].type = "If"
  BY <1>14
<1>19. ASSUME NEW w \in DOMAIN st, Spine(st, w),
              \A e \in DOMAIN st : Earlier(Siblings(st, g), g, e) => e \notin Chain(st, w)
       PROVE  Spine(s2, w)
  <2>1. /\ \A n \in DOMAIN s2 \ DOMAIN st : s2[n].type # "Break"
        /\ \A c \in DOMAIN st : Contains(C, c) => c \notin Chain(st, w)
        /\ \A b \in DOMAIN st : Contains(B, b) => b \notin Chain(st, w)
    BY <1>16, <1>18, <1>19
  <2> QED BY <1>13, <1>14, <1>15, <1>19, <2>1, MoveKeeps
<1> QED BY <1>14, <1>17, <1>18, <1>19, <1>20 DEF s2, A, B, C, l, t, p

\* The Loop around what a backward goto repeats.
LEMMA LoopKeeps ==
    ASSUME NEW st, PoolOK(st), Numbered(st), NEW g \in GotosIn(st),
           st[st[g].label].up = st[g].up, Earlier(Siblings(st, g), st[g].label, g)
    PROVE  LET s2 == EliminateAsLoop(st, g)
           IN  /\ Numbered(s2)
               /\ Keeps(st, s2, {g})
               /\ \A n \in DOMAIN s2 \ DOMAIN st : s2[n].type = "Loop"
               /\ \A w \in DOMAIN st :
                     /\ Spine(st, w)
                     /\ \A e \in DOMAIN st :
                           Earlier(Siblings(st, g), g, e) => e \notin Chain(st, w)
                     => Spine(s2, w)
               /\ DOMAIN s2 = DOMAIN st \cup {Len(st) + 1}
               /\ Children(s2, Len(st) + 1) = Span(st, st[g].label, g)
               /\ Children(s2, st[g].up) = (Before(st, st[g].label) \o <<Len(st) + 1>>) \o After(st, g)
               /\ OtherLists(st, s2, {st[g].up})
<1> DEFINE l == st[g].label
           p == st[g].up
           t == Len(st) + 1
           A == Before(st, l)
           C == Span(st, l, g)
           B == After(st, g)
           X == Before(st, g)
           loop == [type |-> "Loop", up |-> p, cond |-> st[g].cond, children |-> C]
           s2 == EliminateAsLoop(st, g)
           mid == SetChildren(st, p, X \o B)
<1>1. Fields(st)
  BY DEF PoolOK
<1>2. /\ g \in DOMAIN st /\ st[g].type = "Goto" /\ g # Root /\ Contains(Siblings(st, g), g)
      /\ l \in DOMAIN st
  BY <1>1 DEF GotosIn, Fields
<1>3. /\ p \in DOMAIN st /\ Siblings(st, g) = st[p].children
      /\ st[p].children \in Seq(DOMAIN st) /\ Once(st[p].children)
      /\ Contains(st[p].children, g)
      /\ st[p].children = Children(st, p)
      /\ HasChildren(st, p)
  BY <1>2, ListOf DEF Siblings
<1>4. /\ X \in Seq(DOMAIN st) /\ B \in Seq(DOMAIN st)
      /\ <<g>> \in Seq(DOMAIN st)
      /\ st[p].children = (X \o <<g>>) \o B
  BY <1>3, CutAt
<1>5. C \in Seq(DOMAIN st) /\ X = A \o C
  <2>1. /\ Earlier(st[st[l].up].children, l, g) /\ st[l].up = st[g].up
        /\ st[st[l].up].children \in Seq(DOMAIN st) /\ Once(st[st[l].up].children)
    BY <1>3
  <2> HIDE DEF l
  <2> QED BY <2>1, CutBetween
<1>6. A \in Seq(DOMAIN st)
  <2>1. st[l].up = p /\ Contains(st[p].children, l)
    BY <1>3, EarlierContained
  <2> QED BY <1>3, <2>1, CutAt
<1>7. t = Len(st) + 1 /\ p = st[g].up
  OBVIOUS
<1>8. s2 = SetChildren(UpdateTreeUp(Create(st, loop), Len(Create(st, loop))),
                       p, (A \o <<Len(Create(st, loop))>>) \o B)
  BY DEF EliminateAsLoop
<1>9. /\ Complete(loop) /\ loop.type = "Loop"
      /\ loop.up = p /\ loop.children = C
  BY DEF Complete
<1> HIDE DEF A, B, C, X, s2, l
<1>12. Children(st, p) = (X \o <<g>>) \o B /\ X \o B = (A \o C) \o B
  BY <1>3, <1>4, <1>5
<1>13. Leaves(st, mid, {g})
  BY <1>4, <1>12, EraseIsLeaves
<1>14. /\ Numbered(s2) /\ t \notin DOMAIN st /\ DOMAIN s2 = DOMAIN st \cup {t}
       /\ Wrap(mid, s2, t, p, A, C, B)
       /\ s2[t].type = "Loop"
  <2> DEFINE tree == loop
             f == SetChildren(UpdateTreeUp(Create(st, tree), t), p, (A \o <<t>>) \o B)
  <2>1. tree.type \in {"If", "Loop"} /\ Complete(tree) /\ tree.up = st[g].up /\ tree.children = C
    BY <1>9
  <2> HIDE DEF tree
  <2>0. Children(st, st[g].up) = (X \o <<g>>) \o B
    BY <1>12
  <2>2. Moved(st, f, mid, p, tree, A, C, B)
    BY <1>4, <1>5, <1>6, <1>12, <2>0, <2>1, EncloseMoves
  <2>3. s2 = f
    BY <1>8, <2>2 DEF tree, Moved
  <2>4. tree.type = "Loop"
    BY <1>9 DEF tree
  <2> HIDE DEF f, mid, p
  <2> QED BY <2>2, <2>3, <2>4 DEF Moved
<1>20. /\ Children(s2, t) = C /\ Children(s2, p) = (A \o <<t>>) \o B
       /\ OtherLists(st, s2, {p})
  <2>1. \A x \in DOMAIN st : Complete(st[x])
    BY <1>1 DEF Fields
  <2>2. ChildrenSet(st, mid, p, X \o B)
    BY <1>3, <2>1, SetChildrenDoes
  <2> HIDE DEF mid, t, p
  <2>3. Children(s2, t) = C
    BY <1>14, WrapLists
  <2>4. DOMAIN mid = DOMAIN st /\ \A x \in DOMAIN st : x # p => Children(mid, x) = Children(st, x)
    BY <2>2 DEF ChildrenSet
  <2> QED BY <1>14, <2>3, <2>4 DEF Wrap, OtherLists
<1> HIDE DEF mid, t, p, loop
<1>15. \A x \in {g} : x \in DOMAIN st /\ st[x].type = "Goto"
  BY <1>2
<1>16. \A c \in DOMAIN st : Contains(B, c) => Earlier(Siblings(st, g), g, c)
  <2>1. Contains(<<g>>, g)
    BY OneIn
  <2>2. \A c : Contains(B, c) => Earlier((X \o <<g>>) \o B, g, c)
    BY <1>4, <2>1, Three
  <2> QED BY <1>3, <1>12, <2>2
<1>17. Keeps(st, s2, {g})
  BY <1>13, <1>14, <1>15, MoveKeeps
<1>18. \A n \in DOMAIN s2 \ DOMAIN st : s2[n].type = "Loop"
  BY <1>14
<1>19. ASSUME NEW w \in DOMAIN st, Spine(st, w),
              \A e \in DOMAIN st : Earlier(Siblings(st, g), g, e) => e \notin Chain(st, w)
       PROVE  Spine(s2, w)
  <2>1. /\ \A n \in DOMAIN s2 \ DOMAIN st : s2[n].type # "Break"
        /\ \A b \in DOMAIN st : Contains(B, b) => b \notin Chain(st, w)
    BY <1>16, <1>18, <1>19
  <2> QED BY <1>13, <1>14, <1>15, <1>19, <2>1, MoveKeeps
<1> QED BY <1>14, <1>17, <1>18, <1>19, <1>20 DEF s2, A, B, C, l, t, p

\* s2 is st with the goto g taken out of its Loop p: there is a Break in its place
\* and the goto n behind the Loop.
MovedOut(st, s2, g, n) ==
    LET p == st[g].up
    IN  /\ Leaves(st, s2, {g}) /\ Numbered(s2) /\ Len(s2) = n
        /\ n \notin DOMAIN st /\ n \in DOMAIN s2
        /\ s2[n].type = "Goto" /\ s2[n].label = st[g].label /\ s2[n].up = st[p].up
        /\ \A x \in DOMAIN s2 \ DOMAIN st :
              /\ s2[x].type = "Goto" => x = n
              /\ s2[x].up = p \/ x = n
              /\ s2[x].type = "Break" => \A e \in DOMAIN st :
                    Earlier(Siblings(s2, x), x, e) => Earlier(Siblings(st, g), g, e)
        /\ \A e \in DOMAIN s2 :
              /\ Earlier(Siblings(s2, n), e, n) =>
                    e \in DOMAIN st /\ (e = p \/ Earlier(Siblings(st, p), e, p))
              /\ Earlier(Siblings(s2, n), n, e) =>
                    e \in DOMAIN st /\ Earlier(Siblings(st, p), p, e)

\* The lists after it.
OutwardLists(st, s2, g, n) ==
    LET p == st[g].up
        q == st[p].up
    IN  /\ DOMAIN s2 = DOMAIN st \cup {n - 2, n - 1, n}
        /\ s2[n - 2].type = "SetVariable" /\ s2[n - 1].type = "Break" /\ s2[n].type = "Goto"
        /\ Children(s2, p) = (Before(st, g) \o <<n - 2, n - 1>>) \o After(st, g)
        /\ Children(s2, q) = (Before(st, p) \o <<p, n>>) \o After(st, p)
        /\ OtherLists(st, s2, {p, q})

LEMMA OutwardMovesOut ==
    ASSUME NEW st, PoolOK(st), Numbered(st), NEW g \in GotosIn(st),
           st[st[g].up].type = "Loop"
    PROVE  /\ MovedOut(st, MoveOutwardLoop(st, g), g, Len(st) + 3)
           /\ OutwardLists(st, MoveOutwardLoop(st, g), g, Len(st) + 3)
<1> DEFINE p == st[g].up
           q == st[p].up
           D == DOMAIN st
           k == Len(st)
           n == k + 3
           set == SetVariable(st, g, p)
           brk == [type |-> "Break", up |-> p, cond |-> Variable(st[st[g].label].id)]
           goto == NewGoto(st, g, q)
           A == Before(st, g)
           B == After(st, g)
           U == Before(st, p)
           V == After(st, p)
           L1 == (A \o <<k + 1, k + 2>>) \o B
           L2 == (U \o <<p, n>>) \o V
           s1 == Create(st, set)
           s2 == Create(s1, brk)
           s3 == SetChildren(s2, p, L1)
           s4 == Create(s3, goto)
           s5 == SetChildren(s4, q, L2)
<1>1. Fields(st) /\ Lists(st)
  BY DEF PoolOK
<1>2. g \in D /\ st[g].type = "Goto" /\ g # Root /\ Contains(Siblings(st, g), g)
  BY <1>1 DEF GotosIn, Fields
<1>3. /\ p \in D /\ HasChildren(st, p) /\ p # Root /\ p # g
      /\ Siblings(st, g) = st[p].children /\ Siblings(st, g) = Children(st, p)
      /\ st[p].children \in Seq(D) /\ Once(st[p].children)
      /\ Contains(st[p].children, g)
  <2>1. p # Root /\ p # g
    BY <1>1, <1>2 DEF Fields
  <2> QED BY <1>2, <2>1, ListOf DEF Siblings
<1>4. /\ q \in D /\ HasChildren(st, q) /\ q # 0
      /\ Siblings(st, p) = st[q].children /\ Siblings(st, p) = Children(st, q)
      /\ st[q].children \in Seq(D) /\ Once(st[q].children)
      /\ Contains(st[q].children, p)
  <2>1. Contains(Siblings(st, p), p)
    BY <1>1, <1>3 DEF Lists
  <2> QED BY <1>3, <2>1, ListOf DEF Siblings
<1>5. p # q
  <2>1. Rooted(st) /\ p \in Chain(st, p)
    BY <1>3, ChainEquation DEF PoolOK
  <2> QED BY <1>3, <1>4, <2>1, NotInItself
<1>6. /\ A \in Seq(D) /\ B \in Seq(D) /\ <<g>> \in Seq(D)
      /\ st[p].children = (A \o <<g>>) \o B
  BY <1>3, CutAt
<1>7. /\ U \in Seq(D) /\ V \in Seq(D) /\ <<p>> \in Seq(D)
      /\ st[q].children = (U \o <<p>>) \o V
  BY <1>4, CutAt
<1>8. \A x \in D : Complete(st[x])
  BY <1>1 DEF Fields
<1>9. /\ Complete(set) /\ set.type = "SetVariable" /\ set.up = p
      /\ Complete(brk) /\ brk.type = "Break" /\ brk.up = p
      /\ Complete(goto) /\ goto.type = "Goto" /\ goto.up = q /\ goto.label = st[g].label
  BY DEF Complete, SetVariable, NewGoto
<1> HIDE DEF A, B, U, V, set, brk, goto
<1>10. /\ Created(st, s1, set) /\ Numbered(s1)
  BY CreateDoes DEF Created
<1>11. Created(s1, s2, brk) /\ Numbered(s2)
  <2> HIDE DEF s1
  <2> QED BY <1>10, CreateDoes DEF Created
<1>12. /\ k \in Nat /\ D = 1 .. k /\ n \in Nat
       /\ Len(s1) = k + 1 /\ Len(s2) = k + 2
       /\ DOMAIN s2 = D \cup {k + 1, k + 2} /\ k + 1 \notin D /\ k + 2 \notin D
       /\ \A x \in D : s2[x] = st[x]
       /\ s2[k + 1] = set /\ s2[k + 2] = brk
  <2>1. k \in Nat /\ D = 1 .. k
    BY NumberedPool
  <2> HIDE DEF s1, s2
  <2> QED BY <1>10, <1>11, <2>1 DEF Created
<1> HIDE DEF s2
<1>13. ChildrenSet(s2, s3, p, L1) /\ Numbered(s3)
  <2>1. (\A x \in DOMAIN s2 : Complete(s2[x])) /\ p \in DOMAIN s2 /\ HasChildren(s2, p)
    BY <1>3, <1>8, <1>9, <1>12 DEF HasChildren
  <2> HIDE DEF L1, p
  <2> QED BY <1>11, <2>1, SetChildrenDoes DEF ChildrenSet
<1> HIDE DEF L1, s3
<1>14. Created(s3, s4, goto) /\ Numbered(s4)
  BY <1>13, CreateDoes DEF Created
<1> HIDE DEF s4
<1>15. /\ DOMAIN s4 = D \cup {k + 1, k + 2, n} /\ n \notin D /\ Len(s4) = n
       /\ \A x \in DOMAIN s2 : s4[x] = s3[x]
       /\ s4[n] = goto
       /\ k + 1 # n /\ k + 2 # n
  BY <1>12, <1>13, <1>14 DEF Created, ChildrenSet
<1>16. /\ \A x \in D : SameKind(s4[x], st[x]) /\ s4[x].up = st[x].up
       /\ \A x \in D : x # p => Children(s4, x) = Children(st, x)
       /\ Children(s4, p) = L1
       /\ SameKind(s4[k + 1], set) /\ s4[k + 1].up = p
       /\ SameKind(s4[k + 2], brk) /\ s4[k + 2].up = p
  <2> HIDE DEF p, q, D, k, n
  <2>1. /\ DOMAIN s3 = DOMAIN s2 /\ p \in D
        /\ \A x \in DOMAIN s2 : SameKind(s3[x], s2[x]) /\ s3[x].up = s2[x].up
        /\ \A x \in DOMAIN s2 : x # p => Children(s3, x) = Children(s2, x)
        /\ Children(s3, p) = L1
    BY <1>3, <1>13 DEF ChildrenSet
  <2>2. /\ D \subseteq DOMAIN s2 /\ k + 1 \in DOMAIN s2 /\ k + 2 \in DOMAIN s2
        /\ \A x \in D : s2[x] = st[x] /\ Children(s2, x) = Children(st, x)
        /\ \A x \in DOMAIN s2 : Children(s4, x) = Children(s3, x)
    BY <1>12, <1>15 DEF Children, HasChildren
  <2> QED BY <1>9, <1>12, <1>15, <2>1, <2>2, ZenonT(60)
<1>17. ChildrenSet(s4, s5, q, L2)
  <2>1. (\A x \in DOMAIN s4 : Complete(s4[x])) /\ q \in DOMAIN s4 /\ HasChildren(s4, q)
    BY <1>4, <1>9, <1>15, <1>16 DEF HasChildren, SameKind
  <2> HIDE DEF L2, q
  <2> QED BY <1>14, <2>1, SetChildrenDoes DEF ChildrenSet
<1> HIDE DEF L2, s5
<1>18. /\ Numbered(s5) /\ Len(s5) = n /\ DOMAIN s5 = D \cup {k + 1, k + 2, n}
       /\ \A x \in D : SameKind(s5[x], st[x]) /\ s5[x].up = st[x].up
       /\ \A x \in D : x # p /\ x # q => Children(s5, x) = Children(st, x)
       /\ Children(s5, p) = L1 /\ Children(s5, q) = L2
       /\ Complete(s5[k + 1]) /\ s5[k + 1].type = "SetVariable" /\ s5[k + 1].up = p
       /\ Complete(s5[k + 2]) /\ s5[k + 2].type = "Break" /\ s5[k + 2].up = p
       /\ Complete(s5[n]) /\ s5[n].type = "Goto" /\ s5[n].up = q /\ s5[n].label = st[g].label
  <2> HIDE DEF p, q, D, k, n
  <2>1. /\ DOMAIN s5 = DOMAIN s4 /\ Numbered(s5) /\ Len(s5) = Len(s4)
        /\ \A x \in DOMAIN s4 : SameKind(s5[x], s4[x]) /\ s5[x].up = s4[x].up
        /\ \A x \in DOMAIN s4 : x # q => Children(s5, x) = Children(s4, x)
        /\ Children(s5, q) = L2
    BY <1>17 DEF ChildrenSet
  <2>2. /\ p # q /\ p \in D /\ q \in D /\ D \subseteq DOMAIN s4
        /\ k + 1 \in DOMAIN s4 /\ k + 2 \in DOMAIN s4 /\ n \in DOMAIN s4
    BY <1>3, <1>4, <1>5, <1>15
  <2>3. \A x \in D : SameKind(s5[x], st[x]) /\ s5[x].up = st[x].up
    BY <1>16, <2>1, <2>2 DEF SameKind
  <2>4. /\ \A x \in D : x # p /\ x # q => Children(s5, x) = Children(st, x)
        /\ Children(s5, p) = L1
    BY <1>16, <2>1, <2>2
  <2>5. /\ Complete(s5[k + 1]) /\ s5[k + 1].type = "SetVariable" /\ s5[k + 1].up = p
        /\ Complete(s5[k + 2]) /\ s5[k + 2].type = "Break" /\ s5[k + 2].up = p
    BY <1>9, <1>16, <2>1, <2>2 DEF SameKind
  <2>6. Complete(s5[n]) /\ s5[n].type = "Goto" /\ s5[n].up = q /\ s5[n].label = st[g].label
    BY <1>9, <1>15, <2>1, <2>2 DEF SameKind
  <2> QED BY <1>15, <2>1, <2>3, <2>4, <2>5, <2>6
<1> DEFINE E == D \cup {k + 1, k + 2, n}
<1> HIDE DEF p, q, k, n, E, D
<1>19. /\ k + 1 \in E /\ k + 2 \in E /\ p \in E /\ n \in E
       /\ A \in Seq(E) /\ B \in Seq(E) /\ U \in Seq(E) /\ V \in Seq(E)
  <2>1. D \subseteq E
    BY DEF E
  <2> QED BY <1>3, <1>6, <1>7, <2>1 DEF E
<1>20. /\ L1 \in Seq(E)
       /\ \A a : Contains(L1, a) <=> Contains(A, a) \/ a = k + 1 \/ a = k + 2 \/ Contains(B, a)
       /\ \A a, b : Earlier(L1, a, b) <=>
             \/ Earlier(A, a, b) \/ (a = k + 1 /\ b = k + 2) \/ Earlier(B, a, b)
             \/ Contains(A, a) /\ (b = k + 1 \/ b = k + 2)
             \/ (Contains(A, a) \/ a = k + 1 \/ a = k + 2) /\ Contains(B, b)
  BY <1>19, ThreeTwo DEF L1
<1>21. /\ L2 \in Seq(E)
       /\ \A a : Contains(L2, a) <=> Contains(U, a) \/ a = p \/ a = n \/ Contains(V, a)
       /\ \A a, b : Earlier(L2, a, b) <=>
             \/ Earlier(U, a, b) \/ (a = p /\ b = n) \/ Earlier(V, a, b)
             \/ Contains(U, a) /\ (b = p \/ b = n)
             \/ (Contains(U, a) \/ a = p \/ a = n) /\ Contains(V, b)
  BY <1>19, ThreeTwo DEF L2
<1>22. /\ \A a, b : Earlier((A \o <<g>>) \o B, a, b) <=>
             \/ Earlier(A, a, b) \/ Earlier(B, a, b)
             \/ Contains(A, a) /\ b = g
             \/ (Contains(A, a) \/ a = g) /\ Contains(B, b)
       /\ \A a : Contains((A \o <<g>>) \o B, a) <=> Contains(A, a) \/ a = g \/ Contains(B, a)
  BY <1>2, <1>6, ThreeOne
<1>23. /\ \A a, b : Earlier((U \o <<p>>) \o V, a, b) <=>
             \/ Earlier(U, a, b) \/ Earlier(V, a, b)
             \/ Contains(U, a) /\ b = p
             \/ (Contains(U, a) \/ a = p) /\ Contains(V, b)
       /\ \A a : Contains((U \o <<p>>) \o V, a) <=> Contains(U, a) \/ a = p \/ Contains(V, a)
  BY <1>3, <1>7, ThreeOne
<1>24. /\ \A a : Contains(A, a) \/ Contains(B, a) \/ Contains(U, a) \/ Contains(V, a) => a \in D
       /\ \A a, b : /\ Earlier(A, a, b) => Contains(A, a) /\ Contains(A, b)
                    /\ Earlier(B, a, b) => Contains(B, a) /\ Contains(B, b)
                    /\ Earlier(U, a, b) => Contains(U, a) /\ Contains(U, b)
                    /\ Earlier(V, a, b) => Contains(V, a) /\ Contains(V, b)
  BY <1>6, <1>7, ContainedIn, EarlierContained
<1>25. k + 1 # k + 2 /\ k + 1 \notin D /\ k + 2 \notin D /\ n \notin D /\ k + 1 # n /\ k + 2 # n
  BY <1>12, <1>15
<1>26. /\ ~Contains(A, g) /\ ~Contains(B, g)
       /\ \A a : ~Earlier(A, a, a) /\ ~Earlier(B, a, a) /\ ~(Contains(A, a) /\ Contains(B, a))
  <2>1. \A a : ~Earlier((A \o <<g>>) \o B, a, a)
    BY <1>3, <1>6 DEF Once
  <2> QED BY <1>22, <2>1
<1>27. \A a : /\ ~Earlier(U, a, a) /\ ~Earlier(V, a, a) /\ ~(Contains(U, a) /\ Contains(V, a))
              /\ Contains(U, a) \/ Contains(V, a) => a # p
  <2>1. \A a : ~Earlier((U \o <<p>>) \o V, a, a)
    BY <1>4, <1>7 DEF Once
  <2> QED BY <1>23, <2>1
<1>28. Renews(D, {g}, st[p].children, L1)
  <2>1. Once(L1)
    BY <1>20, <1>24, <1>25, <1>26 DEF Once
  <2>2. \A c \in D : Contains(L1, c) => Contains(st[p].children, c) /\ c \notin {g}
    BY <1>6, <1>20, <1>22, <1>25, <1>26
  <2>3. \A c \in D \ {g} : Contains(st[p].children, c) => Contains(L1, c)
    BY <1>6, <1>20, <1>22
  <2>4. \A a, b \in D : Earlier(L1, a, b) => Earlier(st[p].children, a, b)
    BY <1>6, <1>20, <1>22, <1>25
  <2> QED BY <2>1, <2>2, <2>3, <2>4 DEF Renews
<1>29. Renews(D, {g}, st[q].children, L2)
  <2>0. ~Contains(st[q].children, g)
    <3>1. Contains(Children(st, q), g) => st[g].up = q
      BY <1>1, <1>2, <1>4 DEF Lists, D
    <3> QED BY <1>4, <1>5, <3>1 DEF p
  <2>1. Once(L2)
    BY <1>3, <1>21, <1>24, <1>25, <1>27 DEF Once
  <2>2. \A c \in D : Contains(L2, c) => Contains(st[q].children, c) /\ c \notin {g}
    BY <1>7, <1>21, <1>23, <1>25, <2>0
  <2>3. \A c \in D \ {g} : Contains(st[q].children, c) => Contains(L2, c)
    BY <1>7, <1>21, <1>23
  <2>4. \A a, b \in D : Earlier(L2, a, b) => Earlier(st[q].children, a, b)
    BY <1>7, <1>21, <1>23, <1>25
  <2> QED BY <2>1, <2>2, <2>3, <2>4 DEF Renews
<1>30. ASSUME NEW r \in D
       PROVE  /\ Children(s5, r) \in Seq(DOMAIN s5)
              /\ Renews(D, {g}, Children(st, r), Children(s5, r))
              /\ \A c \in DOMAIN s5 \ D : Contains(Children(s5, r), c) => s5[c].up = r
  <2>1. CASE r = p
    <3>1. \A c \in DOMAIN s5 \ D : Contains(L1, c) => s5[c].up = p
      BY <1>18, <1>20, <1>24, <1>25
    <3> QED BY <1>3, <1>18, <1>20, <1>28, <2>1, <3>1 DEF E
  <2>2. CASE r = q
    <3>1. \A c \in DOMAIN s5 \ D : Contains(L2, c) => s5[c].up = q
      BY <1>3, <1>18, <1>21, <1>24, <1>25
    <3> QED BY <1>4, <1>18, <1>21, <1>29, <2>2, <3>1 DEF E
  <2>3. CASE r # p /\ r # q
    <3>1. Children(st, r) \in Seq(D) /\ Once(Children(st, r)) /\ ~Contains(Children(st, r), g)
      BY <1>1, <1>2, <2>3 DEF Fields, Lists, D, p
    <3>2. \A x \in {g} : ~Contains(Children(st, r), x)
      BY <3>1
    <3>3. Renews(D, {g}, Children(st, r), Children(st, r))
      BY <3>1, <3>2, RenewsSame
    <3>4. \A c : Contains(Children(st, r), c) => c \in D
      BY <3>1, ContainedIn
    <3> QED BY <1>18, <2>3, <3>1, <3>3, <3>4
  <2> QED BY <2>1, <2>2, <2>3
<1>31. ASSUME NEW x \in DOMAIN s5 \ D
       PROVE  /\ s5[x].type \in {"Goto", "SetVariable", "Break"}
              /\ s5[x].up \in D /\ HasChildren(st, s5[x].up)
              /\ Complete(s5[x])
              /\ Contains(Children(s5, s5[x].up), x)
              /\ s5[x].type = "Goto" => s5[x].label \in D /\ st[s5[x].label].type = "Label"
              /\ s5[x].type = "Break" => st[s5[x].up].type = "Loop"
  <2>1. st[g].label \in D /\ st[st[g].label].type = "Label"
    BY <1>1, <1>2 DEF Fields, D
  <2>2. st[p].type = "Loop"
    BY DEF p
  <2>3. x = k + 1 \/ x = k + 2 \/ x = n
    BY <1>18
  <2>4. Contains(L1, k + 1) /\ Contains(L1, k + 2) /\ Contains(L2, n)
    BY <1>20, <1>21
  <2> QED BY <1>3, <1>4, <1>18, <2>1, <2>2, <2>3, <2>4
<1>32. Leaves(st, s5, {g})
  <2>1. 0 \notin DOMAIN s5 /\ D \subseteq DOMAIN s5
    <3>1. 0 \notin D
      BY <1>1 DEF Fields, D
    <3>2. k + 1 # 0 /\ k + 2 # 0 /\ n # 0
      BY <1>12 DEF n
    <3> QED BY <1>18, <3>1, <3>2
  <2> QED BY <1>18, <1>30, <1>31, <2>1 DEF Leaves, D
<1>33. s5 = MoveOutwardLoop(st, g)
  <2>1. Len(s1) = k + 1 /\ Len(s2) = k + 2 /\ Len(s4) = n
    BY <1>12, <1>15
  <2> QED BY <2>1 DEF MoveOutwardLoop, GotoAfterParent, s5, s4, s3, s2, set, brk, goto,
                      A, B, U, V, L1, L2, p, q
<1>34. ASSUME NEW x \in DOMAIN s5 \ D
       PROVE  /\ s5[x].type = "Goto" => x = n
              /\ s5[x].up = p \/ x = n
              /\ s5[x].type = "Break" => \A e \in D :
                           Earlier(Siblings(s5, x), x, e) => Earlier(Siblings(st, g), g, e)
  <2>1. x = k + 1 \/ x = k + 2 \/ x = n
    BY <1>18
  <2>2. s5[x].type = "Break" => x = k + 2 /\ Siblings(s5, x) = L1
    BY <1>18, <2>1 DEF Siblings
  <2>3. \A e \in D : Earlier(L1, k + 2, e) => Earlier(st[p].children, g, e)
    <3>1. ~Contains(A, k + 2) /\ ~Contains(B, k + 2)
      BY <1>24, <1>25
    <3>2. ASSUME NEW e \in D, Earlier(L1, k + 2, e) PROVE Contains(B, e)
      <4>1. ~Earlier(A, k + 2, e) /\ ~Earlier(B, k + 2, e)
        BY <1>24, <3>1
      <4>2. e # k + 1 /\ e # k + 2
        BY <1>25
      <4> QED BY <1>20, <1>25, <3>1, <3>2, <4>1, <4>2
    <3> QED BY <1>6, <1>22, <3>2
  <2> QED BY <1>3, <1>18, <2>1, <2>2, <2>3
<1>35. ASSUME NEW e \in DOMAIN s5
       PROVE  /\ Earlier(Siblings(s5, n), e, n) =>
                    e \in D /\ (e = p \/ Earlier(Siblings(st, p), e, p))
              /\ Earlier(Siblings(s5, n), n, e) => e \in D /\ Earlier(Siblings(st, p), p, e)
  <2>1. Siblings(s5, n) = L2
    BY <1>18 DEF Siblings
  <2>2. Siblings(st, p) = (U \o <<p>>) \o V /\ n # p
    BY <1>3, <1>4, <1>7, <1>25
  <2>3. ~Contains(U, n) /\ ~Contains(V, n)
    BY <1>24, <1>25
  <2>4. ASSUME Earlier(L2, e, n)
        PROVE  e \in D /\ (e = p \/ Earlier((U \o <<p>>) \o V, e, p))
    <3>1. e = p \/ Contains(U, e)
      BY <1>21, <1>24, <2>2, <2>3, <2>4
    <3> QED BY <1>3, <1>23, <1>24, <3>1
  <2>5. ASSUME Earlier(L2, n, e)
        PROVE  e \in D /\ Earlier((U \o <<p>>) \o V, p, e)
    <3>1. Contains(V, e)
      BY <1>21, <1>24, <2>2, <2>3, <2>5
    <3> QED BY <1>23, <1>24, <3>1
  <2> QED BY <2>1, <2>2, <2>4, <2>5
<1>36. /\ Numbered(s5) /\ Len(s5) = n /\ n \notin D /\ n \in DOMAIN s5
       /\ s5[n].type = "Goto" /\ s5[n].label = st[g].label /\ s5[n].up = q
  BY <1>18, <1>25
<1>37. MovedOut(st, s5, g, n)
  BY <1>32, <1>34, <1>35, <1>36 DEF MovedOut, p, q, D
<1>38. OutwardLists(st, s5, g, n)
  <2>1. n - 2 = k + 1 /\ n - 1 = k + 2
    BY <1>12 DEF n
  <2> QED BY <1>18, <2>1 DEF OutwardLists, OtherLists, p, q, D, L1, L2, A, B, U, V
<1> QED BY <1>33, <1>37, <1>38 DEF n, k

\* g can go out of the Loops around it: no Break stands before it, and no Tree
\* that holds its label l.
OutwardPath(st, g, l) ==
    \A x \in Chain(st, g) \ {Root} :
        /\ x = g \/ st[x].type = "Loop"
        /\ \A e \in DOMAIN st : Earlier(Siblings(st, x), e, x) =>
              st[e].type # "Break" /\ (st[e].type \in {"If", "Loop"} => e \notin Chain(st, l))

\* Nothing stands in a list that is inside it.
LEMMA AroundItself ==
    ASSUME NEW st, PoolOK(st), NEW q \in DOMAIN st, NEW x \in Chain(st, q), st[x].up # 0
    PROVE  st[x].up # q /\ \A p \in DOMAIN st : st[p].up = q => st[x].up # p
<1>1. Rooted(st)
  BY DEF PoolOK
<1>2. x \in DOMAIN st /\ st[x].up \in DOMAIN st
  BY <1>1, ChainInPool, ChainGoesUp
<1>3. /\ Level(st, x) \in Nat /\ Level(st, q) \in Nat /\ Level(st, st[x].up) \in Nat
      /\ x = q \/ Level(st, x) < Level(st, q)
      /\ Level(st, x) = 1 + Level(st, st[x].up)
  BY <1>1, <1>2, LevelEquation, LevelsFall
<1>4. st[x].up # q
  BY <1>3
<1>5. ASSUME NEW p \in DOMAIN st, st[p].up = q, st[x].up = p PROVE FALSE
  <2>1. Level(st, p) \in Nat
    BY <1>1, LevelEquation
  <2>2. q # 0
    BY DEF PoolOK, Fields
  <2>3. Level(st, p) = 1 + Level(st, q)
    BY <1>1, <1>5, <2>2, LevelEquation
  <2> QED BY <1>3, <1>5, <2>1, <2>3
<1> QED BY <1>4, <1>5

LEMMA OutwardKeepsPath ==
    ASSUME NEW st, PoolOK(st), NEW g \in GotosIn(st), NEW s2, NEW n, MovedOut(st, s2, g, n),
           st[st[g].up].type = "Loop",
           NEW l \in DOMAIN st, OutwardPath(st, g, l), st[g].up \notin Chain(st, l)
    PROVE  /\ OutwardPath(s2, n, l)
           /\ Chain(s2, n) = {n} \cup Chain(st, st[st[g].up].up)
           /\ Chain(s2, l) = Chain(st, l)
<1> DEFINE p == st[g].up
           q == st[p].up
<1>0. Fields(st) /\ Rooted(st)
  BY DEF PoolOK
<1>1. /\ g \in DOMAIN st /\ st[g].type = "Goto" /\ g # Root
      /\ p \in DOMAIN st /\ p # Root /\ p # 0
      /\ q \in DOMAIN st /\ q # 0
  BY <1>0 DEF GotosIn, Fields
<1>2. /\ p \in Chain(st, g) /\ q \in Chain(st, p)
      /\ Chain(st, q) \subseteq Chain(st, p) /\ Chain(st, p) \subseteq Chain(st, g)
      /\ Chain(st, q) \subseteq DOMAIN st
  <2>1. g \in Chain(st, g) /\ p \in Chain(st, p)
    BY <1>0, <1>1, ChainEquation
  <2>2. p \in Chain(st, g) /\ q \in Chain(st, p)
    BY <1>0, <1>1, <2>1, ChainGoesUp
  <2> QED BY <1>0, <1>1, <2>2, ChainInChain, ChainInPool
<1>3. Leaves(st, s2, {g})
  BY DEF MovedOut
<1>4. /\ PoolOK(s2)
      /\ \A s \in DOMAIN st : Chain(s2, s) = Chain(st, s)
      /\ \A x \in DOMAIN s2 \ DOMAIN st : Chain(s2, x) = {x} \cup Chain(st, s2[x].up)
  BY <1>1, <1>3, LeavesKeepPool
<1>5. n \in DOMAIN s2 \ DOMAIN st /\ s2[n].up = q
  BY DEF MovedOut
<1>6. Chain(s2, n) = {n} \cup Chain(st, q)
  BY <1>4, <1>5
<1>7. \A x \in DOMAIN st : s2[x].type = st[x].type /\ s2[x].up = st[x].up
  BY <1>3 DEF Leaves, SameKind
<1>8. ASSUME NEW x \in Chain(st, q), x # Root, NEW e \in DOMAIN s2, Earlier(Siblings(s2, x), e, x)
      PROVE  e \in DOMAIN st /\ Earlier(Siblings(st, x), e, x)
  <2>1. /\ x \in DOMAIN st /\ st[x].up \in DOMAIN st /\ st[x].up # 0
        /\ Siblings(s2, x) = Children(s2, st[x].up)
    BY <1>0, <1>2, <1>7, <1>8 DEF Fields, Siblings
  <2>2. st[x].up # q /\ st[x].up # p
    BY <1>1, <2>1, AroundItself
  <2>3. e \in DOMAIN st
    <3>1. SUFFICES ASSUME e \notin DOMAIN st PROVE FALSE
      OBVIOUS
    <3>2. Contains(Children(s2, st[x].up), e)
      BY <1>8, <2>1, EarlierContained
    <3>3. s2[e].up = st[x].up
      BY <1>3, <2>1, <3>1, <3>2 DEF Leaves
    <3>4. s2[e].up = p \/ e = n
      BY <3>1 DEF MovedOut
    <3> QED BY <1>5, <2>2, <3>3, <3>4
  <2>4. Earlier(Children(st, st[x].up), e, x)
    BY <1>3, <1>8, <2>1, <2>3 DEF Leaves, Renews
  <2> QED BY <2>3, <2>4 DEF Siblings
<1>9. ASSUME NEW x \in Chain(s2, n) \ {Root}
      PROVE  /\ x = n \/ s2[x].type = "Loop"
             /\ \A e \in DOMAIN s2 : Earlier(Siblings(s2, x), e, x) =>
                   s2[e].type # "Break" /\ (s2[e].type \in {"If", "Loop"} => e \notin Chain(s2, l))
  <2>1. CASE x = n
    <3>1. ASSUME NEW e \in DOMAIN s2, Earlier(Siblings(s2, n), e, n)
          PROVE  s2[e].type # "Break" /\ (s2[e].type \in {"If", "Loop"} => e \notin Chain(s2, l))
      <4>1. e \in DOMAIN st /\ (e = p \/ Earlier(Siblings(st, p), e, p))
        BY <3>1 DEF MovedOut
      <4>2. CASE e = p
        BY <1>4, <1>7, <4>1, <4>2
      <4>3. CASE Earlier(Siblings(st, p), e, p)
        <5>1. st[e].type # "Break" /\ (st[e].type \in {"If", "Loop"} => e \notin Chain(st, l))
          BY <1>1, <1>2, <4>1, <4>3 DEF OutwardPath
        <5> QED BY <1>4, <1>7, <4>1, <5>1
      <4> QED BY <4>1, <4>2, <4>3
    <3> QED BY <2>1, <3>1
  <2>2. CASE x # n
    <3>1. x \in Chain(st, q) /\ x # Root /\ x \in Chain(st, g) /\ x \in DOMAIN st
      BY <1>2, <1>6, <2>2
    <3>2. x # g
      <4>1. ~HasChildren(st, g)
        BY <1>1 DEF HasChildren
      <4>2. g \notin Chain(st, p)
        BY <1>0, <1>1, NotInItself
      <4> QED BY <1>2, <3>1, <4>2
    <3>3. s2[x].type = "Loop"
      BY <1>7, <3>1, <3>2 DEF OutwardPath
    <3>4. ASSUME NEW e \in DOMAIN s2, Earlier(Siblings(s2, x), e, x)
          PROVE  s2[e].type # "Break" /\ (s2[e].type \in {"If", "Loop"} => e \notin Chain(s2, l))
      <4>1. e \in DOMAIN st /\ Earlier(Siblings(st, x), e, x)
        BY <1>8, <3>1, <3>4
      <4>2. st[e].type # "Break" /\ (st[e].type \in {"If", "Loop"} => e \notin Chain(st, l))
        BY <3>1, <4>1 DEF OutwardPath
      <4> QED BY <1>4, <1>7, <4>1, <4>2
    <3> QED BY <3>3, <3>4
  <2> QED BY <2>1, <2>2
<1> QED BY <1>4, <1>6, <1>9 DEF OutwardPath

LEMMA OutwardKeepsWaiting ==
    ASSUME NEW st, PoolOK(st), NEW g \in GotosIn(st), NEW s2, NEW n, MovedOut(st, s2, g, n),
           st[st[g].up].type = "Loop",
           NEW w \in DOMAIN st, Spine(st, w), NotBehind(st, g, w)
    PROVE  Spine(s2, w) /\ NotBehind(s2, n, w)
<1> DEFINE p == st[g].up
           q == st[p].up
<1>0. Fields(st) /\ Rooted(st)
  BY DEF PoolOK
<1>1. /\ g \in DOMAIN st /\ st[g].type = "Goto" /\ g # Root
      /\ p \in DOMAIN st /\ p # Root /\ p # 0
      /\ q \in DOMAIN st /\ q # 0
  BY <1>0 DEF GotosIn, Fields
<1>2. /\ g \in Chain(st, g) /\ p \in Chain(st, g) /\ Chain(st, q) \subseteq Chain(st, g)
      /\ Chain(st, q) \subseteq DOMAIN st
  <2>1. g \in Chain(st, g) /\ p \in Chain(st, p)
    BY <1>0, <1>1, ChainEquation
  <2>2. p \in Chain(st, g) /\ q \in Chain(st, p)
    BY <1>0, <1>1, <2>1, ChainGoesUp
  <2> QED BY <1>0, <1>1, <2>1, <2>2, ChainInChain, ChainInPool
<1>3. Leaves(st, s2, {g})
  BY DEF MovedOut
<1>4. /\ \A s \in DOMAIN st : Chain(s2, s) = Chain(st, s)
      /\ \A x \in DOMAIN s2 \ DOMAIN st : Chain(s2, x) = {x} \cup Chain(st, s2[x].up)
  BY <1>1, <1>3, LeavesKeepPool
<1>5. n \in DOMAIN s2 \ DOMAIN st /\ s2[n].up = q
  BY DEF MovedOut
<1>6. Chain(s2, n) = {n} \cup Chain(st, q)
  BY <1>4, <1>5
<1>7. Chain(st, w) \subseteq DOMAIN st
  BY <1>0, ChainInPool
<1>8. Spine(s2, w)
  <2>1. ASSUME NEW b \in DOMAIN s2 \ DOMAIN st, NEW e \in DOMAIN st,
               s2[b].type = "Break", Earlier(Siblings(s2, b), b, e)
        PROVE  e \notin Chain(st, w)
    <3>1. Earlier(Siblings(st, g), g, e)
      BY <2>1 DEF MovedOut
    <3> QED BY <1>1, <1>2, <3>1 DEF NotBehind
  <2>2. \A x \in {g} : x \in DOMAIN st /\ st[x].type = "Goto"
    BY <1>1
  <2> QED BY <1>3, <2>1, <2>2, LeavesKeepWaiting
<1>9. ASSUME NEW x \in Chain(s2, n) \ {Root}, NEW e \in DOMAIN s2, Earlier(Siblings(s2, x), x, e),
             e \in Chain(s2, w)
      PROVE  FALSE
  <2>1. e \in Chain(st, w) /\ e \in DOMAIN st
    BY <1>4, <1>7, <1>9
  <2>2. CASE x = n
    <3>1. Earlier(Siblings(st, p), p, e)
      BY <1>9, <2>1, <2>2 DEF MovedOut
    <3> QED BY <1>1, <1>2, <2>1, <3>1 DEF NotBehind
  <2>3. CASE x # n
    <3>1. x \in Chain(st, g) \ {Root} /\ x \in DOMAIN st
      BY <1>2, <1>6, <1>9, <2>3
    <3>2. st[x].up \in DOMAIN st /\ s2[x].up = st[x].up
      BY <1>0, <1>3, <3>1 DEF Fields, Leaves
    <3>3. Earlier(Siblings(st, x), x, e)
      BY <1>3, <1>9, <2>1, <3>1, <3>2 DEF Leaves, Renews, Siblings
    <3> QED BY <2>1, <3>1, <3>3 DEF NotBehind
  <2> QED BY <2>2, <2>3
<1> QED BY <1>8, <1>9 DEF NotBehind

\* s2 is st with new leaves N, without the goto g, and with a new Tree t around
\* the part C of the list of p.
Assembled(st, s2, N, g, t, p, A, C, B) ==
    LET D == DOMAIN st
    IN  /\ t \notin D /\ t \notin N /\ t # 0 /\ 0 \notin N /\ N \cap D = {}
        /\ DOMAIN s2 = (D \cup N) \cup {t}
        /\ Complete(s2[t]) /\ s2[t].type \in {"If", "Loop"} /\ s2[t].up = p
        /\ s2[t].children = C
        /\ p \in D /\ HasChildren(st, p)
        /\ A \in Seq(D \cup N) /\ C \in Seq(D \cup N) /\ B \in Seq(D \cup N)
        /\ Children(s2, p) = (A \o <<t>>) \o B
        /\ Renews(D, {g}, Children(st, p), (A \o C) \o B)
        /\ \A x \in D :
              /\ SameKind(s2[x], st[x])
              /\ s2[x].up = IF Contains(C, x) THEN t ELSE st[x].up
        /\ \A x \in D \ {p} :
              /\ Children(s2, x) \in Seq(D \cup N)
              /\ Renews(D, {g}, Children(st, x), Children(s2, x))
              /\ \A c \in N : Contains(Children(s2, x), c) => s2[c].up = x
        /\ \A x \in N :
              /\ s2[x].type \in {"Goto", "SetVariable"} /\ Complete(s2[x])
              /\ s2[x].type = "Goto" => s2[x].label \in D /\ st[s2[x].label].type = "Label"
              /\ \/ Contains(C, x) /\ s2[x].up = t
                 \/ ~Contains(C, x) /\ s2[x].up = p /\ (Contains(A, x) \/ Contains(B, x))
                 \/ /\ ~Contains(C, x) /\ ~Contains(A, x) /\ ~Contains(B, x)
                    /\ s2[x].up \in D \ {p} /\ HasChildren(st, s2[x].up)
                    /\ Contains(Children(s2, s2[x].up), x)

LEMMA AssembledMoves ==
    ASSUME NEW st, PoolOK(st), NEW g \in GotosIn(st), NEW s2, NEW N, NEW t, NEW p,
           NEW A, NEW C, NEW B, Assembled(st, s2, N, g, t, p, A, C, B)
    PROVE  LET mid == Unwrap(s2, t, p, C, (A \o C) \o B)
           IN  Leaves(st, mid, {g}) /\ Wrap(mid, s2, t, p, A, C, B)
<1> DEFINE D == DOMAIN st
           L == (A \o C) \o B
           mid == Unwrap(s2, t, p, C, L)
<1>1. Fields(st) /\ 0 \notin D
  BY DEF PoolOK, Fields
<1>2. /\ t \notin D /\ t \notin N /\ t # 0 /\ 0 \notin N /\ N \cap D = {}
      /\ DOMAIN s2 = (D \cup N) \cup {t} /\ p \in D /\ p # t
  BY DEF Assembled
<1>3. /\ \A x \in D : SameKind(s2[x], st[x]) /\ s2[x].up = IF Contains(C, x) THEN t ELSE st[x].up
      /\ \A x \in N : s2[x].type \in {"Goto", "SetVariable"} /\ Complete(s2[x])
      /\ Complete(s2[t])
  BY DEF Assembled
<1>4. HasChildren(s2, p) /\ HasChildren(st, p)
  BY <1>2, <1>3 DEF Assembled, SameKind, HasChildren
<1>5. \A x \in DOMAIN s2 : Complete(s2[x])
  BY <1>2, <1>3 DEF SameKind
<1>6. /\ DOMAIN mid = DOMAIN s2 \ {t}
      /\ \A x \in DOMAIN mid :
            /\ SameKind(mid[x], s2[x])
            /\ mid[x].up = IF Contains(C, x) THEN p ELSE s2[x].up
            /\ x # p => Children(mid, x) = Children(s2, x)
      /\ Children(mid, p) = L
  <2> HIDE DEF L
  <2>1. Unwrapped(s2, mid, t, p, C, L)
    BY <1>2, <1>4, <1>5, UnwrapDoes
  <2> HIDE DEF mid
  <2> QED BY <2>1 DEF Unwrapped
<1>7. DOMAIN mid = D \cup N
  BY <1>2, <1>6
<1>8. A \in Seq(D \cup N) /\ C \in Seq(D \cup N) /\ B \in Seq(D \cup N)
  BY DEF Assembled
<1>9. /\ L \in Seq(D \cup N)
      /\ \A a : Contains(L, a) <=> Contains(A, a) \/ Contains(C, a) \/ Contains(B, a)
  BY <1>8, Three
<1> HIDE DEF mid, L, D
<1>10. ASSUME NEW x \in D
       PROVE  SameKind(mid[x], st[x]) /\ mid[x].up = st[x].up
  <2>1. SameKind(mid[x], st[x])
    BY <1>3, <1>6, <1>7 DEF SameKind
  <2>2. Contains(C, x) => st[x].up = p
    <3>1. Contains(C, x) => Contains(Children(st, p), x)
      BY <1>9 DEF Assembled, Renews, L, D
    <3> QED BY <1>2, <3>1 DEF PoolOK, Lists, D
  <2> QED BY <1>3, <1>6, <1>7, <2>1, <2>2
<1>11. ASSUME NEW x \in N
       PROVE  /\ mid[x].type \in {"Goto", "SetVariable"} /\ Complete(mid[x])
              /\ mid[x].type = "Goto" => mid[x].label \in D /\ st[mid[x].label].type = "Label"
              /\ mid[x].up \in D /\ HasChildren(st, mid[x].up)
              /\ Contains(Children(mid, mid[x].up), x)
              /\ Contains(L, x) => mid[x].up = p
  <2>1. SameKind(mid[x], s2[x]) /\ mid[x].up = IF Contains(C, x) THEN p ELSE s2[x].up
    BY <1>6, <1>7
  <2>2. /\ mid[x].type \in {"Goto", "SetVariable"} /\ Complete(mid[x])
        /\ mid[x].type = "Goto" => mid[x].label \in D /\ st[mid[x].label].type = "Label"
    BY <2>1 DEF SameKind, Assembled, D
  <2>3. \/ Contains(C, x)
        \/ ~Contains(C, x) /\ s2[x].up = p /\ (Contains(A, x) \/ Contains(B, x))
        \/ /\ ~Contains(C, x) /\ ~Contains(A, x) /\ ~Contains(B, x)
           /\ s2[x].up \in D \ {p} /\ HasChildren(st, s2[x].up)
           /\ Contains(Children(s2, s2[x].up), x)
    BY DEF Assembled, D
  <2>4. CASE Contains(L, x)
    <3>1. mid[x].up = p
      BY <1>9, <2>1, <2>3, <2>4
    <3> QED BY <1>2, <1>4, <1>6, <2>2, <2>4, <3>1
  <2>5. CASE ~Contains(L, x)
    <3>1. /\ mid[x].up = s2[x].up /\ s2[x].up \in D \ {p} /\ HasChildren(st, s2[x].up)
          /\ Contains(Children(s2, s2[x].up), x)
      BY <1>9, <2>1, <2>3, <2>5
    <3>2. Children(mid, s2[x].up) = Children(s2, s2[x].up)
      BY <1>6, <1>7, <3>1
    <3> QED BY <2>2, <2>5, <3>1, <3>2
  <2> QED BY <2>4, <2>5
<1>12. ASSUME NEW r \in D
       PROVE  /\ Children(mid, r) \in Seq(DOMAIN mid)
              /\ Renews(D, {g}, Children(st, r), Children(mid, r))
              /\ \A c \in N : Contains(Children(mid, r), c) => mid[c].up = r
  <2>1. CASE r = p
    <3>1. Renews(D, {g}, Children(st, p), L)
      BY DEF Assembled, D, L
    <3> QED BY <1>2, <1>6, <1>7, <1>9, <1>11, <2>1, <3>1
  <2>2. CASE r # p
    <3>1. Children(mid, r) = Children(s2, r)
      BY <1>6, <1>7, <2>2
    <3>2. /\ Children(s2, r) \in Seq(D \cup N)
          /\ Renews(D, {g}, Children(st, r), Children(s2, r))
          /\ \A c \in N : Contains(Children(s2, r), c) => s2[c].up = r
      BY <2>2 DEF Assembled, D
    <3>3. ASSUME NEW c \in N, Contains(Children(s2, r), c) PROVE mid[c].up = r
      <4>1. s2[c].up = r
        BY <3>2, <3>3
      <4>2. Contains(C, c) => s2[c].up = t
        BY <1>2 DEF Assembled, D
      <4>3. ~Contains(C, c)
        BY <1>2, <4>1, <4>2
      <4> QED BY <1>6, <1>7, <4>1, <4>3
    <3> QED BY <1>7, <3>1, <3>2, <3>3
  <2> QED BY <2>1, <2>2
<1>13. Leaves(st, mid, {g})
  <2>1. DOMAIN mid \ DOMAIN st = N
    BY <1>2, <1>7 DEF D
  <2>2. D \subseteq DOMAIN mid /\ 0 \notin DOMAIN mid
    BY <1>1, <1>2, <1>7
  <2>3. \A x \in N : mid[x].type # "Break"
    BY <1>11
  <2> QED BY <1>10, <1>11, <1>12, <2>1, <2>2, <2>3 DEF Leaves, D
<1>14. \A s \in DOMAIN mid :
          /\ SameKind(s2[s], mid[s])
          /\ s2[s].up = IF Contains(C, s) THEN t ELSE mid[s].up
          /\ s # p => Children(s2, s) = Children(mid, s)
  <2>1. ASSUME NEW s \in DOMAIN mid, Contains(C, s) PROVE s2[s].up = t
    <3>1. s \in D \/ s \in N
      BY <1>7, <2>1
    <3>2. s \in N => s2[s].up = t
      BY <2>1 DEF Assembled
    <3>3. s \in D => s2[s].up = t
      BY <1>3, <2>1
    <3> QED BY <3>1, <3>2, <3>3
  <2>2. \A s \in DOMAIN mid : SameKind(s2[s], mid[s])
    BY <1>5, <1>6 DEF SameKind
  <2> QED BY <1>6, <2>1, <2>2
<1>15. HasChildren(mid, p)
  BY <1>2, <1>4, <1>10 DEF SameKind, HasChildren
<1>16. Wrap(mid, s2, t, p, A, C, B)
  <2>1. t \notin DOMAIN mid /\ DOMAIN s2 = DOMAIN mid \cup {t} /\ p \in DOMAIN mid
    BY <1>2, <1>6, <1>7
  <2>2. /\ s2[t].type \in {"If", "Loop"} /\ s2[t].up = p /\ Complete(s2[t]) /\ s2[t].children = C
        /\ Children(s2, p) = (A \o <<t>>) \o B
    BY DEF Assembled
  <2> QED BY <1>2, <1>6, <1>7, <1>8, <1>14, <1>15, <2>1, <2>2 DEF Wrap, L
<1> QED BY <1>13, <1>16 DEF mid, L

\* s2 is st with another condition for one statement at most.
Entered(st, s2, s) ==
    /\ Numbered(s2) /\ Len(s2) = Len(st) /\ DOMAIN s2 = DOMAIN st
    /\ \A x \in DOMAIN st :
          /\ SameKind(s2[x], st[x]) /\ s2[x].up = st[x].up
          /\ Children(s2, x) = Children(st, x)
          /\ x # s => s2[x] = st[x]

LEMMA EnterNestedDoes ==
    ASSUME NEW st, Numbered(st), \A x \in DOMAIN st : Complete(st[x]),
           NEW s \in DOMAIN st, NEW variable
    PROVE  Entered(st, EnterNested(st, s, variable), s)
<1>1. CASE st[s].type # "If"
  <2>1. EnterNested(st, s, variable) = st
    <3>1. st = [x \in DOMAIN st |-> st[x]]
      BY NumberedPool
    <3>2. EnterNested(st, s, variable) = [x \in DOMAIN st |-> st[x]]
      BY <1>1 DEF EnterNested
    <3> QED BY <3>1, <3>2
  <2> QED BY <2>1 DEF Entered, SameKind
<1>2. CASE st[s].type = "If"
  <2> DEFINE s2 == EnterNested(st, s, variable)
  <2>2. Len(st) \in Nat /\ DOMAIN st = 1 .. Len(st) /\ st = [x \in DOMAIN st |-> st[x]]
    BY NumberedPool
  <2>3. /\ DOMAIN s2 = DOMAIN st /\ s2 = [x \in 1 .. Len(st) |-> s2[x]]
        /\ \A x \in DOMAIN st : x # s => s2[x] = st[x]
        /\ s2[s] = [st[s] EXCEPT !.cond = Or(variable, @)]
    BY <1>2, <2>2 DEF EnterNested
  <2> HIDE DEF s2
  <2>4. Numbered(s2) /\ Len(s2) = Len(st)
    BY <2>2, <2>3, NumberPool
  <2>5. /\ DOMAIN s2[s] = DOMAIN st[s] /\ s2[s].type = st[s].type /\ s2[s].up = st[s].up
        /\ s2[s].children = st[s].children
    BY <1>2, <2>3 DEF Complete
  <2>6. SameKind(s2[s], st[s]) /\ Children(s2, s) = Children(st, s)
    BY <1>2, <2>5 DEF SameKind, Complete, Children, HasChildren
  <2>7. \A x \in DOMAIN st : x # s => SameKind(s2[x], st[x]) /\ Children(s2, x) = Children(st, x)
                                       /\ s2[x].up = st[x].up
    BY <2>3 DEF SameKind, Children, HasChildren
  <2> QED BY <2>3, <2>4, <2>5, <2>6, <2>7 DEF Entered, s2
<1> QED BY <1>1, <1>2

LEMMA OneAndOne ==
    ASSUME NEW a, NEW t
    PROVE  <<a>> \o <<t>> = <<a, t>>
<1> DEFINE s == <<a>> \o <<t>>
           H == {a, t}
<1>1. /\ s \in Seq(H) /\ Len(s) = 2
      /\ s[1] = a /\ s[2] = t
  <2>1. <<a>> \in Seq(H) /\ <<t>> \in Seq(H) /\ Len(<<a>>) = 1 /\ Len(<<t>>) = 1
        /\ <<a>>[1] = a /\ <<t>>[1] = t
    OBVIOUS
  <2> QED BY <2>1, ConcatProperties
<1>2. <<a, t>> \in Seq(H) /\ Len(<<a, t>>) = 2 /\ <<a, t>>[1] = a /\ <<a, t>>[2] = t
  OBVIOUS
<1> HIDE DEF s
<1>3. \A i \in 1 .. 2 : s[i] = <<a, t>>[i]
  BY <1>1, <1>2
<1>4. s = <<a, t>>
  BY <1>1, <1>2, <1>3, SeqEqual
<1> QED BY <1>4 DEF s

\* g stands before the Tree m: the lists of the two when a statement a takes the
\* place of g and n goes to the front of m.
InwardLists(st, g, m, a, n) ==
    LET D == DOMAIN st
        p == st[g].up
        A == Before(st, g)
        K == Tail(Span(st, g, m))
        F == From(st, m)
        M == st[m].children
    IN  /\ A \in Seq(D) /\ K \in Seq(D) /\ F \in Seq(D) /\ M \in Seq(D)
        /\ After(st, g) = K \o F
        /\ A \o <<a>> \in Seq(D \cup {a, n})
        /\ ((A \o <<a>>) \o K) \o F \in Seq(D \cup {a, n})
        /\ Renews(D, {g}, Children(st, p), ((A \o <<a>>) \o K) \o F)
        /\ <<n>> \o M \in Seq(D \cup {a, n})
        /\ Renews(D, {g}, Children(st, m), <<n>> \o M)
        /\ \A x \in D : x # p => Children(st, x) \in Seq(D)
                                 /\ Renews(D, {g}, Children(st, x), Children(st, x))
        /\ \A t : (A \o <<a, t>>) \o F = ((A \o <<a>>) \o <<t>>) \o F
        /\ \A x : Contains(K, x) \/ Contains(F, x) <=> Contains(After(st, g), x)
        /\ \A x : Contains(K, x) => Earlier(Siblings(st, g), g, x) /\ Earlier(Siblings(st, g), x, m)

LEMMA InwardListsHold ==
    ASSUME NEW st, PoolOK(st), NEW g \in GotosIn(st), NEW m \in DOMAIN st,
           HasChildren(st, m), st[m].up = st[g].up, Earlier(Siblings(st, g), g, m),
           NEW a, NEW n, a \notin DOMAIN st, n \notin DOMAIN st
    PROVE  InwardLists(st, g, m, a, n)
<1> DEFINE D == DOMAIN st
           E == D \cup {a, n}
           p == st[g].up
           A == Before(st, g)
           K == Tail(Span(st, g, m))
           F == From(st, m)
           M == st[m].children
<1>1. g \in D /\ st[g].type = "Goto" /\ g # Root /\ Contains(Siblings(st, g), g)
  BY DEF GotosIn, PoolOK, Fields
<1>2. /\ p \in D /\ HasChildren(st, p) /\ Siblings(st, g) = st[p].children
      /\ st[p].children \in Seq(D) /\ Once(st[p].children) /\ Contains(st[p].children, g)
      /\ Children(st, p) = st[p].children
  <2> HIDE DEF p
  <2>1. p = st[g].up
    BY DEF p
  <2> QED BY <1>1, <2>1, ListOf DEF Siblings, Children
<1>3. st[m].up = p
  OBVIOUS
<1>4. /\ A \in Seq(D) /\ <<g>> \in Seq(D) /\ After(st, g) \in Seq(D)
      /\ st[p].children = (A \o <<g>>) \o After(st, g)
  BY <1>2, CutAt
<1>5. K \in Seq(D) /\ After(st, g) = K \o F
  BY <1>2, CutBetween, ZenonT(60)
<1>6. F \in Seq(D) /\ F = <<m>> \o After(st, m) /\ After(st, m) \in Seq(D)
  <2>1. Contains(st[p].children, m)
    BY <1>2, EarlierContained
  <2> QED BY <1>2, <1>3, <2>1, CutAt
<1>7. /\ \A x : Contains(K \o F, x) <=> Contains(K, x) \/ Contains(F, x)
      /\ \A x, y : Contains(K, x) /\ Contains(F, y) => Earlier(K \o F, x, y)
  BY <1>5, <1>6, Joined
<1>8. M \in Seq(D) /\ Children(st, m) = M
  BY DEF PoolOK, Fields, Children
<1> HIDE DEF A, K, F, M, p, D, E
<1>9. /\ \A x : Contains((A \o <<g>>) \o After(st, g), x) <=>
                Contains(A, x) \/ x = g \/ Contains(After(st, g), x)
      /\ \A x, y : Earlier((A \o <<g>>) \o After(st, g), x, y) <=>
                 \/ Earlier(A, x, y) \/ Earlier(After(st, g), x, y)
                 \/ Contains(A, x) /\ y = g
                 \/ (Contains(A, x) \/ x = g) /\ Contains(After(st, g), y)
  BY <1>1, <1>4, ThreeOne DEF D
<1>10. ~Contains(A, g) /\ ~Contains(After(st, g), g)
  <2>1. ~Earlier((A \o <<g>>) \o After(st, g), g, g)
    BY <1>2, <1>4 DEF Once
  <2> QED BY <1>9, <2>1
<1>11. a \in E /\ n \in E /\ D \subseteq E
  BY DEF E
<1>12. /\ (A \o <<a>>) \o (K \o F) \in Seq(E)
       /\ Renews(D, {g}, st[p].children, (A \o <<a>>) \o (K \o F))
  <2>1. <<a>> \in Seq(E)
    BY <1>11
  <2>2. Renews(D, {g}, <<g>>, <<a>>)
    <3>1. a \notin D
      BY DEF D
    <3> QED BY <3>1, OneIn DEF Renews, Once
  <2>3. K \o F \in Seq(D)
    BY <1>4, <1>5
  <2>4. \A x \in {g} : ~Contains(A, x) /\ ~Contains(K \o F, x)
    BY <1>5, <1>10
  <2>5. Once((A \o <<g>>) \o (K \o F)) /\ st[p].children = (A \o <<g>>) \o (K \o F)
    BY <1>2, <1>4, <1>5
  <2> DEFINE Z == <<g>>
             Z2 == <<a>>
             Y == K \o F
  <2>6. Z \in Seq(D) /\ Z2 \in Seq(E) /\ Y \in Seq(D)
    BY <1>4, <2>1, <2>3
  <2>7. Renews(D, {g}, Z, Z2) /\ Once((A \o Z) \o Y)
    BY <2>2, <2>5
  <2>8. \A x \in {g} : ~Contains(A, x) /\ ~Contains(Y, x)
    BY <2>4
  <2> HIDE DEF Z, Z2, Y
  <2>9. (A \o Z2) \o Y \in Seq(E) /\ Renews(D, {g}, (A \o Z) \o Y, (A \o Z2) \o Y)
    BY <1>4, <1>11, <2>6, <2>7, <2>8, Replaced
  <2> QED BY <2>5, <2>9 DEF Z, Z2, Y
<1>13. A \o <<a>> \in Seq(E) /\ K \in Seq(E) /\ F \in Seq(E) /\ M \in Seq(E)
  <2>1. A \in Seq(E) /\ <<a>> \in Seq(E)
    BY <1>4, <1>11
  <2>2. K \in Seq(E) /\ F \in Seq(E) /\ M \in Seq(E)
    BY <1>5, <1>6, <1>8, <1>11
  <2> QED BY <2>1, <2>2
<1>14. ((A \o <<a>>) \o K) \o F = (A \o <<a>>) \o (K \o F)
  <2> DEFINE A2 == A \o <<a>>
  <2>1. A2 \in Seq(E)
    BY <1>13
  <2> HIDE DEF A2
  <2>2. (A2 \o K) \o F = A2 \o (K \o F)
    BY <1>13, <2>1, ConcatAssociative
  <2> QED BY <2>2 DEF A2
<1>15. <<n>> \o M \in Seq(E) /\ Renews(D, {g}, M, <<n>> \o M)
  <2>0. <<n>> \in Seq(E)
    BY <1>11
  <2> DEFINE Z == <<n>>
  <2>1. Z \in Seq(E)
    BY <2>0
  <2>2. \A x, y : (Contains(Z, x) <=> x = n) /\ ~Earlier(Z, x, y)
    BY OneIn
  <2> HIDE DEF Z
  <2>3. /\ Z \o M \in Seq(E)
        /\ \A x : Contains(Z \o M, x) <=> Contains(Z, x) \/ Contains(M, x)
        /\ \A x, y : Earlier(Z \o M, x, y) <=>
              Earlier(Z, x, y) \/ Earlier(M, x, y) \/ (Contains(Z, x) /\ Contains(M, y))
    BY <1>13, <2>1, Joined
  <2>4. n \notin D /\ ~Contains(M, n)
    BY <1>8, ContainedIn DEF D
  <2>5. ~Contains(M, g)
    <3>1. m # p
      <4>1. st[m].up = p /\ st[m].up # 0 /\ Rooted(st) /\ m \in D
        BY <1>2 DEF p, D, PoolOK, Fields
      <4>2. m \notin Chain(st, p) /\ p \in Chain(st, p)
        BY <1>2, <4>1, NotInItself, ChainEquation DEF D
      <4> QED BY <4>2
    <3> QED BY <1>1, <1>8, <3>1 DEF PoolOK, Lists, D, p
  <2>6. Once(M)
    BY <1>8 DEF PoolOK, Lists
  <2>7. Once(Z \o M)
    BY <2>2, <2>3, <2>4, <2>6 DEF Once
  <2>8. Renews(D, {g}, M, Z \o M)
    BY <2>2, <2>3, <2>4, <2>5, <2>7 DEF Renews
  <2> QED BY <2>3, <2>8 DEF Z
<1>16. ASSUME NEW x \in D, x # p
       PROVE  Children(st, x) \in Seq(D) /\ Renews(D, {g}, Children(st, x), Children(st, x))
  <2>1. Children(st, x) \in Seq(D) /\ Once(Children(st, x)) /\ ~Contains(Children(st, x), g)
    BY <1>1, <1>16 DEF PoolOK, Fields, Lists, D, p
  <2>2. \A y \in {g} : ~Contains(Children(st, x), y)
    BY <2>1
  <2> QED BY <2>1, <2>2, RenewsSame
<1>17. ASSUME NEW t PROVE (A \o <<a, t>>) \o F = ((A \o <<a>>) \o <<t>>) \o F
  <2> DEFINE H == E \cup {t}
  <2>1. A \in Seq(H) /\ <<a>> \in Seq(H) /\ <<t>> \in Seq(H)
    BY <1>4, <1>11
  <2>2. (A \o <<a>>) \o <<t>> = A \o (<<a>> \o <<t>>)
    BY <2>1, ConcatAssociative
  <2>3. <<a>> \o <<t>> = <<a, t>>
    BY OneAndOne
  <2> QED BY <2>2, <2>3
<1>18. ASSUME NEW x, Contains(K, x)
       PROVE  Earlier(Siblings(st, g), g, x) /\ Earlier(Siblings(st, g), x, m)
  <2>1. Contains(After(st, g), x)
    BY <1>5, <1>7, <1>18
  <2>2. Contains(F, m)
    <3>1. m \in D /\ <<m>> \in Seq(D)
      BY <1>6 DEF D
    <3> DEFINE Z == <<m>>
    <3>2. Z \in Seq(D) /\ Contains(Z, m) /\ F = Z \o After(st, m)
      BY <1>6, <3>1, OneIn
    <3> HIDE DEF Z
    <3> QED BY <1>6, <3>2, Joined
  <2>3. Earlier(After(st, g), x, m)
    BY <1>5, <1>7, <1>18, <2>2
  <2> QED BY <1>2, <1>4, <1>9, <2>1, <2>3
<1> QED BY <1>2, <1>4, <1>5, <1>6, <1>7, <1>8, <1>12, <1>13, <1>14, <1>15, <1>16, <1>17, <1>18
        DEF InwardLists, A, K, F, M, p, D, E

\* s2 is st with one more leaf n, the children "body" for the Tree m, and perhaps
\* another condition for m.
GotoAdded(st, s2, m, goto, n, body) ==
    /\ Numbered(s2) /\ Len(s2) = n /\ n \in Nat /\ n # 0 /\ n \notin DOMAIN st
    /\ DOMAIN s2 = DOMAIN st \cup {n}
    /\ \A x \in DOMAIN st :
          /\ SameKind(s2[x], st[x]) /\ s2[x].up = st[x].up
          /\ x # m => Children(s2, x) = Children(st, x) /\ s2[x] = st[x]
    /\ Children(s2, m) = body
    /\ s2[n] = goto

LEMMA AddingAGoto ==
    ASSUME NEW st, Numbered(st), \A x \in DOMAIN st : Complete(st[x]),
           NEW m \in DOMAIN st, HasChildren(st, m), NEW variable,
           NEW goto, Complete(goto), NEW body
    PROVE  /\ Len(Create(EnterNested(st, m, variable), goto)) = Len(st) + 1
           /\ GotoAdded(st, SetChildren(Create(EnterNested(st, m, variable), goto), m, body),
                        m, goto, Len(st) + 1, body)
<1> DEFINE s1 == EnterNested(st, m, variable)
           s2 == Create(s1, goto)
           s3 == SetChildren(s2, m, body)
           n == Len(st) + 1
<1>1. Entered(st, s1, m)
  BY EnterNestedDoes
<1> HIDE DEF s1
<1>2. /\ Numbered(s1) /\ Len(s1) = Len(st) /\ DOMAIN s1 = DOMAIN st
      /\ \A x \in DOMAIN st :
          /\ SameKind(s1[x], st[x]) /\ s1[x].up = st[x].up
          /\ Children(s1, x) = Children(st, x)
          /\ x # m => s1[x] = st[x]
  BY <1>1 DEF Entered
<1>3. Created(s1, s2, goto)
  BY <1>2, CreateDoes
<1>4. Len(st) \in Nat /\ DOMAIN st = 1 .. Len(st)
  BY NumberedPool
<1> HIDE DEF s2
<1>5. /\ Numbered(s2) /\ Len(s2) = n /\ n \in Nat /\ n # 0 /\ n \notin DOMAIN st
      /\ DOMAIN s2 = DOMAIN st \cup {n} /\ s2[n] = goto
      /\ \A x \in DOMAIN st : s2[x] = s1[x]
  BY <1>2, <1>3, <1>4 DEF Created
<1> HIDE DEF n
<1>6. (\A x \in DOMAIN s2 : Complete(s2[x])) /\ m \in DOMAIN s2 /\ HasChildren(s2, m)
  BY <1>2, <1>5 DEF SameKind, HasChildren
<1>7. ChildrenSet(s2, s3, m, body)
  BY <1>5, <1>6, SetChildrenDoes
<1> HIDE DEF s3
<1>8. ASSUME NEW x \in DOMAIN st
      PROVE  /\ SameKind(s3[x], st[x]) /\ s3[x].up = st[x].up
             /\ x # m => Children(s3, x) = Children(st, x) /\ s3[x] = st[x]
  <2>1. SameKind(s3[x], s2[x]) /\ s3[x].up = s2[x].up
        /\ (x # m => s3[x] = s2[x] /\ Children(s3, x) = Children(s2, x))
    BY <1>5, <1>7 DEF ChildrenSet
  <2>2. s2[x] = s1[x] /\ Children(s2, x) = Children(s1, x)
    BY <1>5 DEF Children, HasChildren
  <2> QED BY <1>2, <2>1, <2>2 DEF SameKind
<1>9. Numbered(s3) /\ Len(s3) = n /\ DOMAIN s3 = DOMAIN st \cup {n} /\ Children(s3, m) = body
      /\ s3[n] = goto
  <2>1. n # m
    BY <1>5
  <2> QED BY <1>5, <1>7, <2>1 DEF ChildrenSet
<1>10. GotoAdded(st, s3, m, goto, n, body)
  BY <1>5, <1>8, <1>9 DEF GotoAdded
<1> QED BY <1>5, <1>10 DEF n, s3, s2, s1

\* s2 is st with the goto g moved into the Tree m that follows it, as the goto n.
MovedIn(st, s2, g, m, n) ==
    /\ Keeps(st, s2, {g}) /\ Numbered(s2) /\ Len(s2) = n
    /\ n \in DOMAIN s2 /\ n \notin DOMAIN st
    /\ s2[n].type = "Goto" /\ s2[n].label = st[g].label /\ s2[n].up = m
    /\ \A x \in DOMAIN s2 \ DOMAIN st : s2[x].type = "Goto" => x = n
    /\ Children(s2, m) = <<n>> \o st[m].children
    /\ \A c \in DOMAIN st : st[c].up = m => s2[c].up = m
    /\ \A s \in DOMAIN st :
          (\A e \in DOMAIN st :
              Earlier(Siblings(st, g), g, e) /\ Earlier(Siblings(st, g), e, m) => e \notin Chain(st, s))
          => Chain(s2, s) = Chain(st, s) /\ Level(s2, s) = Level(st, s)
    /\ \A w \in DOMAIN st :
          /\ Spine(st, w)
          /\ \A e \in DOMAIN st : Earlier(Siblings(st, g), g, e) => e \notin Chain(st, w)
          => Spine(s2, w)

\* The lists after it, with the new statements "between" the goto and m.
InwardListed(st, s2, g, m, n, between) ==
    /\ Children(s2, st[g].up) = (Before(st, g) \o between) \o From(st, m)
    /\ Children(s2, m) = <<n>> \o st[m].children
    /\ OtherLists(st, s2, {st[g].up, m})

\* Nothing stands between the goto and the Tree.
LEMMA InwardNext ==
    ASSUME NEW st, PoolOK(st), Numbered(st), NEW g \in GotosIn(st), NEW m \in DOMAIN st,
           HasChildren(st, m), st[m].up = st[g].up, Earlier(Siblings(st, g), g, m),
           m = SiblingFromNephew(st, g, st[g].label),
           Tail(Span(st, g, m)) = <<>>
    PROVE  LET s2 == MoveInward(st, g)
               a == Len(st) + 1
               n == Len(st) + 2
           IN  /\ MovedIn(st, s2, g, m, n)
               /\ InwardListed(st, s2, g, m, n, <<a>>)
               /\ DOMAIN s2 = DOMAIN st \cup {a, n} /\ s2[a].type = "SetVariable"
<1> DEFINE D == DOMAIN st
           p == st[g].up
           k == Len(st)
           a == k + 1
           n == k + 2
           variable == Variable(st[st[g].label].id)
           set == SetVariable(st, g, p)
           goto == NewGoto(st, g, m)
           A == Before(st, g)
           K == Tail(Span(st, g, m))
           F == From(st, m)
           M == st[m].children
           L1 == (A \o <<a>>) \o F
           L2 == <<n>> \o M
           s1 == Create(st, set)
           s2 == SetChildren(s1, p, L1)
           s3 == SetChildren(Create(EnterNested(s2, m, variable), goto), m, L2)
<1>1. g \in D /\ st[g].type = "Goto" /\ g # Root /\ Contains(Siblings(st, g), g)
  BY DEF GotosIn, PoolOK, Fields
<1>2. /\ p \in D /\ HasChildren(st, p) /\ p # 0 /\ p # m
  <2>1. p \in D /\ p # 0 /\ HasChildren(st, p)
    BY <1>1, ListOf
  <2>2. Rooted(st) /\ m \notin Chain(st, p) /\ p \in Chain(st, p)
    BY <2>1, NotInItself, ChainEquation DEF PoolOK
  <2> QED BY <2>1, <2>2
<1>3. \A x \in D : Complete(st[x])
  BY DEF PoolOK, Fields
<1>4. /\ Complete(set) /\ set.type = "SetVariable" /\ set.up = p
      /\ Complete(goto) /\ goto.type = "Goto" /\ goto.up = m /\ goto.label = st[g].label
  BY DEF Complete, SetVariable, NewGoto
<1>5. k \in Nat /\ D = 1 .. k /\ a \notin D /\ n \notin D /\ a # n /\ a # 0 /\ n # 0
  BY NumberedPool
<1>6. InwardLists(st, g, m, a, n)
  <2> HIDE DEF a, n, D
  <2> QED BY <1>5, InwardListsHold DEF D
<1> HIDE DEF set, goto, A, F, M, K, variable
<1>7. K = <<>>
  BY DEF K
<1>8. /\ A \in Seq(D) /\ F \in Seq(D) /\ M \in Seq(D)
      /\ L1 \in Seq(D \cup {a, n}) /\ Renews(D, {g}, Children(st, p), L1)
      /\ L2 \in Seq(D \cup {a, n}) /\ Renews(D, {g}, Children(st, m), L2)
      /\ \A x \in D : x # p => Children(st, x) \in Seq(D)
                               /\ Renews(D, {g}, Children(st, x), Children(st, x))
  <2>1. ((A \o <<a>>) \o K) \o F = L1
    <3>1. A \o <<a>> \in Seq(D \cup {a, n})
      BY <1>6 DEF InwardLists, A
    <3> DEFINE A2 == A \o <<a>>
    <3>2. A2 \in Seq(D \cup {a, n})
      BY <3>1
    <3> HIDE DEF A2
    <3>3. A2 \o <<>> = A2
      BY <3>2
    <3> QED BY <1>7, <3>3 DEF A2
  <2> QED BY <1>6, <2>1 DEF InwardLists, A, F, M, K
<1>9. Created(st, s1, set)
  BY CreateDoes
<1> HIDE DEF s1
<1>10. /\ Numbered(s1) /\ Len(s1) = a /\ DOMAIN s1 = D \cup {a} /\ s1[a] = set
       /\ \A x \in D : s1[x] = st[x]
  BY <1>9 DEF Created
<1>11. (\A x \in DOMAIN s1 : Complete(s1[x])) /\ p \in DOMAIN s1 /\ HasChildren(s1, p)
  BY <1>2, <1>3, <1>4, <1>10 DEF HasChildren
<1> HIDE DEF L1, L2, p, k, D, a, n
<1>12. ChildrenSet(s1, s2, p, L1)
  BY <1>10, <1>11, SetChildrenDoes
<1> HIDE DEF s2
<1>13. /\ Numbered(s2) /\ Len(s2) = a /\ DOMAIN s2 = D \cup {a}
       /\ \A x \in D : /\ SameKind(s2[x], st[x]) /\ s2[x].up = st[x].up
                       /\ x # p => Children(s2, x) = Children(st, x)
       /\ SameKind(s2[a], set) /\ s2[a].up = p
       /\ Children(s2, p) = L1
  <2>1. \A x \in D : Children(s1, x) = Children(st, x)
    BY <1>10 DEF Children, HasChildren
  <2> QED BY <1>4, <1>10, <1>12, <2>1 DEF ChildrenSet
<1>14. (\A x \in DOMAIN s2 : Complete(s2[x])) /\ m \in DOMAIN s2 /\ HasChildren(s2, m)
  BY <1>13 DEF SameKind, HasChildren, D
<1>15. GotoAdded(s2, s3, m, goto, n, L2) /\ Len(Create(EnterNested(s2, m, variable), goto)) = n
  <2>1. Len(s2) + 1 = n
    BY <1>5, <1>13 DEF a, n
  <2> QED BY <1>4, <1>13, <1>14, <2>1, AddingAGoto
<1>16. MoveInward(st, g) = s3
  <2>1. Len(s1) = a
    BY <1>10
  <2>2. s2 = SetChildren(s1, p, Before(st, g) \o <<Len(s1)>> \o From(st, m))
    BY <2>1 DEF s2, L1, A, F
  <2>3. L2 = <<Len(Create(EnterNested(s2, m, variable), goto))>> \o st[m].children
    BY <1>15 DEF L2, M
  <2> QED BY <2>2, <2>3 DEF MoveInward, s3, s1, set, goto, variable, p
<1> HIDE DEF s3
<1>17. /\ Numbered(s3) /\ Len(s3) = n /\ DOMAIN s3 = D \cup {a, n}
       /\ \A x \in D : /\ SameKind(s3[x], st[x]) /\ s3[x].up = st[x].up
                       /\ x # p /\ x # m => Children(s3, x) = Children(st, x)
       /\ Complete(s3[a]) /\ s3[a].type = "SetVariable" /\ s3[a].up = p
       /\ Complete(s3[n]) /\ s3[n].type = "Goto" /\ s3[n].up = m /\ s3[n].label = st[g].label
       /\ Children(s3, p) = L1 /\ Children(s3, m) = L2
  <2>1. /\ Numbered(s3) /\ Len(s3) = n /\ DOMAIN s3 = DOMAIN s2 \cup {n}
        /\ \A x \in DOMAIN s2 :
              /\ SameKind(s3[x], s2[x]) /\ s3[x].up = s2[x].up
              /\ x # m => Children(s3, x) = Children(s2, x)
        /\ Children(s3, m) = L2 /\ s3[n] = goto
    BY <1>15 DEF GotoAdded
  <2>2. /\ Complete(s3[a]) /\ s3[a].type = "SetVariable" /\ s3[a].up = p
    BY <1>4, <1>13, <2>1 DEF SameKind
  <2>3. p \in DOMAIN s2
    BY <1>2, <1>13
  <2>4. \A x \in D : /\ SameKind(s3[x], st[x]) /\ s3[x].up = st[x].up
                     /\ x # p /\ x # m => Children(s3, x) = Children(st, x)
    BY <1>13, <2>1 DEF SameKind
  <2> QED BY <1>2, <1>4, <1>13, <2>1, <2>2, <2>3, <2>4
<1>18. Contains(L1, a) /\ Contains(L2, n) /\ ~Contains(L1, n) /\ ~Contains(L2, a)
  <2> DEFINE E == D \cup {a, n}
  <2>1. A \in Seq(E) /\ F \in Seq(E) /\ M \in Seq(E) /\ a \in E /\ n \in E
    BY <1>8
  <2>2. <<n>> \in Seq(E)
    BY <2>1
  <2> HIDE DEF E
  <2>3. \A x : Contains(L1, x) <=> Contains(A, x) \/ x = a \/ Contains(F, x)
    BY <2>1, ThreeOne DEF L1
  <2>4. \A x : Contains(L2, x) <=> x = n \/ Contains(M, x)
    <3> DEFINE Z == <<n>>
    <3>1. Z \in Seq(E) /\ \A x : Contains(Z, x) <=> x = n
      BY <2>2, OneIn
    <3> HIDE DEF Z
    <3>2. \A x : Contains(Z \o M, x) <=> Contains(Z, x) \/ Contains(M, x)
      BY <2>1, <3>1, Joined
    <3> QED BY <3>1, <3>2 DEF Z, L2
  <2>5. \A x : Contains(A, x) \/ Contains(F, x) \/ Contains(M, x) => x \in D
    BY <1>8, ContainedIn
  <2> QED BY <1>5, <2>3, <2>4, <2>5
<1>19. Leaves(st, s3, {g})
  <2>1. ASSUME NEW x \in DOMAIN s3 \ D
        PROVE  /\ s3[x].type \in {"Goto", "SetVariable", "Break"}
               /\ s3[x].up \in D /\ HasChildren(st, s3[x].up)
               /\ Complete(s3[x])
               /\ Contains(Children(s3, s3[x].up), x)
               /\ s3[x].type = "Goto" => s3[x].label \in D /\ st[s3[x].label].type = "Label"
               /\ s3[x].type # "Break"
    <3>1. x = a \/ x = n
      BY <1>17
    <3>2. st[g].label \in D /\ st[st[g].label].type = "Label"
      BY <1>1 DEF PoolOK, Fields, D
    <3>3. m \in D
      BY DEF D
    <3> QED BY <1>2, <1>17, <1>18, <3>1, <3>2, <3>3
  <2>2. ASSUME NEW r \in D
        PROVE  /\ Children(s3, r) \in Seq(DOMAIN s3)
               /\ Renews(D, {g}, Children(st, r), Children(s3, r))
               /\ \A c \in DOMAIN s3 \ D : Contains(Children(s3, r), c) => s3[c].up = r
    <3>1. \A c \in DOMAIN s3 \ D : c = a \/ c = n
      BY <1>17
    <3>2. CASE r = p
      BY <1>8, <1>17, <1>18, <3>1, <3>2
    <3>3. CASE r = m
      BY <1>8, <1>17, <1>18, <3>1, <3>3
    <3>4. CASE r # p /\ r # m
      <4>1. Children(s3, r) = Children(st, r) /\ Children(st, r) \in Seq(D)
            /\ Renews(D, {g}, Children(st, r), Children(st, r))
        BY <1>8, <1>17, <3>4
      <4>2. \A c : Contains(Children(st, r), c) => c \in D
        BY <4>1, ContainedIn
      <4> QED BY <1>17, <4>1, <4>2
    <3> QED BY <3>2, <3>3, <3>4
  <2>3. 0 \notin DOMAIN s3 /\ D \subseteq DOMAIN s3
    <3>1. 0 \notin D
      BY DEF PoolOK, Fields, D
    <3> QED BY <1>5, <1>17, <3>1
  <2> QED BY <1>17, <2>1, <2>2, <2>3 DEF Leaves, D
<1>20. \A x \in {g} : x \in DOMAIN st /\ st[x].type = "Goto"
  BY <1>1 DEF D
<1>21. Keeps(st, s3, {g})
  BY <1>19, <1>20, LeavesKeep
<1>22. \A s \in DOMAIN st : Chain(s3, s) = Chain(st, s) /\ Level(s3, s) = Level(st, s)
  BY <1>19, <1>20, LeavesKeepPool
<1>23. \A w \in DOMAIN st : Spine(st, w) => Spine(s3, w)
  <2>1. \A b \in DOMAIN s3 \ DOMAIN st : s3[b].type # "Break"
    BY <1>17 DEF D
  <2> QED BY <1>19, <1>20, <2>1, LeavesKeepWaiting
<1>24. \A x \in DOMAIN s3 \ DOMAIN st : s3[x].type = "Goto" => x = n
  BY <1>17 DEF D
<1>25. MovedIn(st, s3, g, m, n)
  BY <1>5, <1>17, <1>21, <1>22, <1>23, <1>24 DEF MovedIn, D, L2, M
<1>26. /\ InwardListed(st, s3, g, m, n, <<a>>)
       /\ DOMAIN s3 = DOMAIN st \cup {a, n} /\ s3[a].type = "SetVariable"
  BY <1>17 DEF InwardListed, OtherLists, p, D, L1, L2, A, F, M
<1> QED BY <1>16, <1>25, <1>26 DEF n, k, a

\* An If takes in what stands between the goto and the Tree.
LEMMA InwardSkips ==
    ASSUME NEW st, PoolOK(st), Numbered(st), NEW g \in GotosIn(st), NEW m \in DOMAIN st,
           HasChildren(st, m), st[m].up = st[g].up, Earlier(Siblings(st, g), g, m),
           m = SiblingFromNephew(st, g, st[g].label),
           Tail(Span(st, g, m)) # <<>>
    PROVE  LET s2 == MoveInward(st, g)
               a == Len(st) + 1
               t == Len(st) + 2
               n == Len(st) + 3
           IN  /\ MovedIn(st, s2, g, m, n)
               /\ InwardListed(st, s2, g, m, n, <<a, t>>)
               /\ DOMAIN s2 = DOMAIN st \cup {a, t, n}
               /\ s2[a].type = "SetVariable" /\ s2[t].type = "If"
               /\ Children(s2, t) = Tail(Span(st, g, m))
<1> DEFINE D == DOMAIN st
           p == st[g].up
           k == Len(st)
           a == k + 1
           t == k + 2
           n == k + 3
           variable == Variable(st[st[g].label].id)
           set == SetVariable(st, g, p)
           goto == NewGoto(st, g, m)
           A == Before(st, g)
           K == Tail(Span(st, g, m))
           F == From(st, m)
           M == st[m].children
           tree == [type |-> "If", up |-> p, cond |-> Not(variable), children |-> K]
           A2 == A \o <<a>>
           L1 == (A2 \o <<t>>) \o F
           L2 == <<n>> \o M
           s1 == Create(st, set)
           s2 == SetChildren(UpdateTreeUp(Create(s1, tree), Len(s1) + 1), p, L1)
           s3 == SetChildren(Create(EnterNested(s2, m, variable), goto), m, L2)
           N == {a, n}
<1>1. g \in D /\ st[g].type = "Goto" /\ g # Root /\ Contains(Siblings(st, g), g)
  BY DEF GotosIn, PoolOK, Fields
<1>2. /\ p \in D /\ HasChildren(st, p) /\ p # 0 /\ p # m
  <2>1. p \in D /\ p # 0 /\ HasChildren(st, p)
    BY <1>1, ListOf
  <2>2. Rooted(st) /\ m \notin Chain(st, p) /\ p \in Chain(st, p)
    BY <2>1, NotInItself, ChainEquation DEF PoolOK
  <2> QED BY <2>1, <2>2
<1>3. \A x \in D : Complete(st[x])
  BY DEF PoolOK, Fields
<1>4. /\ Complete(set) /\ set.type = "SetVariable" /\ set.up = p
      /\ Complete(goto) /\ goto.type = "Goto" /\ goto.up = m /\ goto.label = st[g].label
      /\ Complete(tree) /\ tree.type = "If" /\ tree.up = p /\ tree.children = K
  BY DEF Complete, SetVariable, NewGoto
<1>5. /\ k \in Nat /\ D = 1 .. k /\ a \notin D /\ n \notin D /\ t \notin D
      /\ a # n /\ a # t /\ t # n /\ a # 0 /\ n # 0 /\ t # 0
  BY NumberedPool
<1>6. InwardLists(st, g, m, a, n)
  <2> HIDE DEF a, n, D
  <2> QED BY <1>5, InwardListsHold DEF D
<1> HIDE DEF set, goto, tree, A, F, M, K, variable
<1>7. K # <<>>
  BY DEF K
<1>8. /\ A \in Seq(D) /\ F \in Seq(D) /\ M \in Seq(D) /\ K \in Seq(D)
      /\ A2 \in Seq(D \cup N)
      /\ Renews(D, {g}, Children(st, p), (A2 \o K) \o F)
      /\ L2 \in Seq(D \cup N) /\ Renews(D, {g}, Children(st, m), L2)
      /\ \A x \in D : x # p => Children(st, x) \in Seq(D)
                               /\ Renews(D, {g}, Children(st, x), Children(st, x))
      /\ (A \o <<a, t>>) \o F = L1
      /\ \A x : Contains(K, x) \/ Contains(F, x) <=> Contains(After(st, g), x)
      /\ \A x : Contains(K, x) => Earlier(Siblings(st, g), g, x) /\ Earlier(Siblings(st, g), x, m)
  BY <1>6 DEF InwardLists, A, F, M, K
<1>9. Created(st, s1, set)
  BY CreateDoes
<1> HIDE DEF s1
<1>10. /\ Numbered(s1) /\ Len(s1) = a /\ DOMAIN s1 = D \cup {a} /\ s1[a] = set
       /\ \A x \in D : s1[x] = st[x]
  BY <1>9 DEF Created
<1>11. /\ (\A x \in DOMAIN s1 : Complete(s1[x])) /\ p \in DOMAIN s1 /\ HasChildren(s1, p)
       /\ Len(s1) + 1 = t
  BY <1>2, <1>3, <1>4, <1>5, <1>10 DEF HasChildren
<1>12. tree.children \in Seq(DOMAIN s1)
  BY <1>4, <1>8, <1>10
<1> HIDE DEF L1, L2, A2, p, k, D, a, n, t, N
<1>13. Enclosed(s1, s2, t, tree, p, L1)
  BY <1>4, <1>10, <1>11, <1>12, EncloseDoes
<1>14. s2 = SetChildren(UpdateTreeUp(Create(s1, tree), Len(Create(s1, tree))), p,
                        Before(st, g) \o <<Len(s1), Len(Create(s1, tree))>> \o From(st, m))
  <2>1. Len(Create(s1, tree)) = t
    BY <1>13 DEF Enclosed
  <2> QED BY <1>8, <1>10, <1>11, <2>1 DEF s2, A, F
<1> HIDE DEF s2
<1>15. /\ Numbered(s2) /\ Len(s2) = t /\ DOMAIN s2 = (D \cup {a}) \cup {t}
       /\ \A x \in D : /\ SameKind(s2[x], st[x])
                       /\ s2[x].up = IF Contains(K, x) THEN t ELSE st[x].up
                       /\ x # p => Children(s2, x) = Children(st, x)
       /\ SameKind(s2[a], set) /\ s2[a].up = p
       /\ Children(s2, p) = L1
       /\ Complete(s2[t]) /\ s2[t].type = "If" /\ s2[t].up = p /\ s2[t].children = K
  <2>1. \A x \in D : Children(s1, x) = Children(st, x)
    BY <1>10 DEF Children, HasChildren
  <2>2. ~Contains(K, a)
    BY <1>5, <1>8, ContainedIn
  <2>3. /\ Numbered(s2) /\ Len(s2) = t /\ DOMAIN s2 = DOMAIN s1 \cup {t}
        /\ \A x \in DOMAIN s1 :
              /\ SameKind(s2[x], s1[x])
              /\ s2[x].up = IF Contains(K, x) THEN t ELSE s1[x].up
              /\ x # p => Children(s2, x) = Children(s1, x)
        /\ Children(s2, p) = L1
        /\ Complete(s2[t]) /\ s2[t].type = "If" /\ s2[t].up = p /\ s2[t].children = K
    BY <1>4, <1>13 DEF Enclosed
  <2> QED BY <1>4, <1>10, <2>1, <2>2, <2>3
<1>16. (\A x \in DOMAIN s2 : Complete(s2[x])) /\ m \in DOMAIN s2 /\ HasChildren(s2, m)
  BY <1>15 DEF SameKind, HasChildren, D
<1>17. GotoAdded(s2, s3, m, goto, n, L2) /\ Len(Create(EnterNested(s2, m, variable), goto)) = n
  <2>1. Len(s2) + 1 = n
    BY <1>5, <1>15 DEF t, n
  <2> QED BY <1>4, <1>15, <1>16, <2>1, AddingAGoto
<1>18. MoveInward(st, g) = s3
  <2>1. L2 = <<Len(Create(EnterNested(s2, m, variable), goto))>> \o st[m].children
    BY <1>17 DEF L2, M
  <2>2. K = Tail(Span(st, g, SiblingFromNephew(st, g, st[g].label)))
    BY DEF K
  <2> QED BY <1>7, <1>14, <2>1, <2>2 DEF MoveInward, s3, s1, set, goto, variable, p, tree
<1> HIDE DEF s3
<1>19. /\ Numbered(s3) /\ Len(s3) = n /\ DOMAIN s3 = (D \cup N) \cup {t}
       /\ \A x \in D : /\ SameKind(s3[x], st[x])
                       /\ s3[x].up = IF Contains(K, x) THEN t ELSE st[x].up
                       /\ x # p /\ x # m => Children(s3, x) = Children(st, x)
       /\ Complete(s3[a]) /\ s3[a].type = "SetVariable" /\ s3[a].up = p
       /\ Complete(s3[n]) /\ s3[n].type = "Goto" /\ s3[n].up = m /\ s3[n].label = st[g].label
       /\ Children(s3, p) = L1 /\ Children(s3, m) = L2
       /\ Complete(s3[t]) /\ s3[t].type = "If" /\ s3[t].up = p /\ s3[t].children = K
  <2>1. /\ Numbered(s3) /\ Len(s3) = n /\ DOMAIN s3 = DOMAIN s2 \cup {n}
        /\ \A x \in DOMAIN s2 :
              /\ SameKind(s3[x], s2[x]) /\ s3[x].up = s2[x].up
              /\ x # m => Children(s3, x) = Children(s2, x) /\ s3[x] = s2[x]
        /\ Children(s3, m) = L2 /\ s3[n] = goto
    BY <1>17 DEF GotoAdded
  <2>2. /\ Complete(s3[a]) /\ s3[a].type = "SetVariable" /\ s3[a].up = p
    BY <1>4, <1>15, <2>1 DEF SameKind
  <2>3. p \in DOMAIN s2
    BY <1>2, <1>15
  <2>4. \A x \in D : /\ SameKind(s3[x], st[x])
                     /\ s3[x].up = IF Contains(K, x) THEN t ELSE st[x].up
                     /\ x # p /\ x # m => Children(s3, x) = Children(st, x)
    BY <1>15, <2>1 DEF SameKind
  <2>5. t # m /\ s3[t] = s2[t]
    <3>1. t # m
      BY <1>5 DEF D
    <3> QED BY <1>15, <2>1, <3>1
  <2>6. DOMAIN s3 = (D \cup N) \cup {t}
    BY <1>15, <2>1 DEF N
  <2> QED BY <1>2, <1>4, <1>15, <2>1, <2>2, <2>3, <2>4, <2>5, <2>6
<1>20. /\ Contains(A2, a) /\ ~Contains(K, a) /\ ~Contains(K, n)
       /\ ~Contains(A2, n) /\ ~Contains(F, n)
       /\ Contains(L2, n) /\ ~Contains(L2, a)
  <2> DEFINE E == D \cup N
             Y == <<a>>
             Z == <<n>>
  <2>1. A \in Seq(E) /\ M \in Seq(E) /\ a \in E /\ n \in E
    BY <1>8 DEF N
  <2>2. Y \in Seq(E) /\ Z \in Seq(E) /\ \A x : (Contains(Y, x) <=> x = a) /\ (Contains(Z, x) <=> x = n)
    <3>1. Y \in Seq(E) /\ Z \in Seq(E)
      BY <2>1
    <3>2. \A x : Contains(Y, x) <=> x = a
      BY OneIn
    <3>3. \A x : Contains(Z, x) <=> x = n
      BY OneIn
    <3> QED BY <3>1, <3>2, <3>3
  <2> HIDE DEF E, Y, Z
  <2>3. \A x : /\ Contains(A \o Y, x) <=> Contains(A, x) \/ Contains(Y, x)
               /\ Contains(Z \o M, x) <=> Contains(Z, x) \/ Contains(M, x)
    BY <2>1, <2>2, Joined
  <2>4. \A x : Contains(A, x) \/ Contains(F, x) \/ Contains(M, x) \/ Contains(K, x) => x \in D
    BY <1>8, ContainedIn
  <2> QED BY <1>5, <2>2, <2>3, <2>4 DEF Y, Z, A2, L2
<1>21. Assembled(st, s3, N, g, t, p, A2, K, F)
  <2>1. \A x \in DOMAIN st \ {p} :
              /\ Children(s3, x) \in Seq(D \cup N)
              /\ Renews(D, {g}, Children(st, x), Children(s3, x))
              /\ \A c \in N : Contains(Children(s3, x), c) => s3[c].up = x
    <3> SUFFICES ASSUME NEW x \in D, x # p
                 PROVE  /\ Children(s3, x) \in Seq(D \cup N)
                        /\ Renews(D, {g}, Children(st, x), Children(s3, x))
                        /\ \A c \in N : Contains(Children(s3, x), c) => s3[c].up = x
      BY DEF D
    <3>1. CASE x = m
      BY <1>8, <1>19, <1>20, <3>1 DEF N
    <3>2. CASE x # m
      <4>1. Children(s3, x) = Children(st, x) /\ Children(st, x) \in Seq(D)
            /\ Renews(D, {g}, Children(st, x), Children(st, x))
        BY <1>8, <1>19, <3>2
      <4>2. \A c : Contains(Children(st, x), c) => c \in D
        BY <4>1, ContainedIn
      <4> DEFINE kids == Children(st, x)
      <4>3. D \cap N = {} /\ kids \in Seq(D)
        BY <1>5, <4>1 DEF N
      <4>4. \A c \in N : ~Contains(kids, c)
        BY <4>2, <4>3
      <4> HIDE DEF kids, D, N
      <4>5. kids \in Seq(D \cup N)
        BY ONLY <4>3
      <4> QED BY <4>1, <4>4, <4>5 DEF kids
    <3> QED BY <3>1, <3>2
  <2>2. ASSUME NEW x \in N
        PROVE /\ s3[x].type \in {"Goto", "SetVariable"} /\ Complete(s3[x])
              /\ s3[x].type = "Goto" => s3[x].label \in D /\ st[s3[x].label].type = "Label"
              /\ \/ Contains(K, x) /\ s3[x].up = t
                 \/ ~Contains(K, x) /\ s3[x].up = p /\ (Contains(A2, x) \/ Contains(F, x))
                 \/ /\ ~Contains(K, x) /\ ~Contains(A2, x) /\ ~Contains(F, x)
                    /\ s3[x].up \in D \ {p} /\ HasChildren(st, s3[x].up)
                    /\ Contains(Children(s3, s3[x].up), x)
    <3>1. x = a \/ x = n
      BY DEF N
    <3>2. st[g].label \in D /\ st[st[g].label].type = "Label"
      BY <1>1 DEF PoolOK, Fields, D
    <3>3. m \in D
      BY DEF D
    <3> QED BY <1>2, <1>19, <1>20, <3>1, <3>2, <3>3
  <2>3. t \notin D /\ t \notin N /\ t # 0 /\ 0 \notin N /\ N \cap D = {}
    BY <1>5 DEF N
  <2>4. A2 \in Seq(D \cup N) /\ K \in Seq(D \cup N) /\ F \in Seq(D \cup N)
    BY <1>8
  <2>5. Children(s3, p) = (A2 \o <<t>>) \o F
    BY <1>19 DEF L1
  <2> QED BY <1>2, <1>8, <1>19, <2>1, <2>2, <2>3, <2>4, <2>5 DEF Assembled, D
<1> DEFINE mid == Unwrap(s3, t, p, K, (A2 \o K) \o F)
<1>22. Leaves(st, mid, {g}) /\ Wrap(mid, s3, t, p, A2, K, F)
  BY <1>21, AssembledMoves
<1> HIDE DEF mid
<1>23. \A x \in {g} : x \in DOMAIN st /\ st[x].type = "Goto"
  BY <1>1 DEF D
<1>24. t \notin DOMAIN st
  BY <1>5 DEF D
<1>25. /\ Keeps(st, s3, {g})
       /\ \A s \in DOMAIN st :
             (\A c \in DOMAIN st : Contains(K, c) => c \notin Chain(st, s)) =>
                   Chain(s3, s) = Chain(st, s) /\ Level(s3, s) = Level(st, s)
       /\ \A w \in DOMAIN st :
             /\ Spine(st, w)
             /\ \A c \in DOMAIN s3 \ DOMAIN st : s3[c].type # "Break"
             /\ \/ s3[t].type = "Loop"
                \/ \A c \in DOMAIN st : Contains(K, c) => c \notin Chain(st, w)
             /\ \A b \in DOMAIN st : Contains(F, b) => b \notin Chain(st, w)
             => Spine(s3, w)
  BY <1>22, <1>23, <1>24, MoveKeeps
<1>26. \A x \in DOMAIN s3 \ DOMAIN st : /\ s3[x].type = "Goto" => x = n
                                        /\ s3[x].type # "Break"
  BY <1>19 DEF D, N
<1>27. \A c \in DOMAIN st : st[c].up = m => s3[c].up = m
  <2> SUFFICES ASSUME NEW c \in D, st[c].up = m PROVE s3[c].up = m
    BY DEF D
  <2>1. Contains(K, c) => st[c].up = p
    <3>1. Contains(K, c) => Contains(Siblings(st, g), c)
      BY <1>8, EarlierContained
    <3> QED BY <1>2, <3>1 DEF PoolOK, Lists, Siblings, D, p
  <2> QED BY <1>2, <1>19, <2>1
<1>28. ASSUME NEW s \in DOMAIN st,
              \A e \in DOMAIN st :
                 Earlier(Siblings(st, g), g, e) /\ Earlier(Siblings(st, g), e, m) => e \notin Chain(st, s)
       PROVE  Chain(s3, s) = Chain(st, s) /\ Level(s3, s) = Level(st, s)
  BY <1>8, <1>25, <1>28
<1>29. ASSUME NEW w \in DOMAIN st, Spine(st, w),
              \A e \in DOMAIN st : Earlier(Siblings(st, g), g, e) => e \notin Chain(st, w)
       PROVE  Spine(s3, w)
  <2>1. \A x : Contains(After(st, g), x) => Earlier(Siblings(st, g), g, x)
    <3>1. /\ Siblings(st, g) = st[st[g].up].children /\ Siblings(st, g) \in Seq(DOMAIN st)
          /\ Once(Siblings(st, g)) /\ g \in DOMAIN st
      BY <1>1, ListOf DEF D
    <3>2. /\ Before(st, g) \in Seq(DOMAIN st) /\ After(st, g) \in Seq(DOMAIN st)
          /\ Siblings(st, g) = (Before(st, g) \o <<g>>) \o After(st, g)
      BY <1>1, <3>1, CutAt
    <3> DEFINE X == Before(st, g)
               Y == After(st, g)
    <3> HIDE DEF X, Y
    <3>3. X \in Seq(DOMAIN st) /\ Y \in Seq(DOMAIN st) /\ Siblings(st, g) = (X \o <<g>>) \o Y
      BY <3>2 DEF X, Y
    <3>4. \A x : Contains(Y, x) => Earlier((X \o <<g>>) \o Y, g, x)
      BY <3>1, <3>3, ThreeOne
    <3> QED BY <3>3, <3>4 DEF Y
  <2> QED BY <1>8, <1>25, <1>26, <1>29, <2>1
<1>30. MovedIn(st, s3, g, m, n)
  BY <1>5, <1>19, <1>25, <1>26, <1>27, <1>28, <1>29 DEF MovedIn, D, L2, M, N
<1>31. /\ InwardListed(st, s3, g, m, n, <<a, t>>)
       /\ DOMAIN s3 = DOMAIN st \cup {a, t, n}
       /\ s3[a].type = "SetVariable" /\ s3[t].type = "If"
       /\ Children(s3, t) = Tail(Span(st, g, m))
  <2>1. Children(s3, t) = Tail(Span(st, g, m))
    BY <1>19 DEF Children, HasChildren, K
  <2>2. InwardListed(st, s3, g, m, n, <<a, t>>)
    BY <1>8, <1>19 DEF InwardListed, OtherLists, p, D, L2, A, F, M
  <2>3. DOMAIN s3 = DOMAIN st \cup {a, t, n}
    BY <1>19 DEF D, N
  <2> QED BY <1>19, <2>1, <2>2, <2>3
<1> QED BY <1>18, <1>30, <1>31 DEF n, k, a, t

\* Between a statement and one around it there is a child of the latter.
LEMMA ChildOnTheWay ==
    ASSUME NEW st, PoolOK(st), NEW s \in DOMAIN st, NEW x \in Chain(st, s), x # s
    PROVE  /\ x \in DOMAIN st /\ HasChildren(st, x)
           /\ \E y \in Chain(st, s) : y \in DOMAIN st /\ y # Root /\ st[y].up = x
<1>1. Rooted(st) /\ Fields(st)
  BY DEF PoolOK
<1> DEFINE S == {u \in DOMAIN st : \A z \in Chain(st, u) : z # u =>
                    \E y \in Chain(st, u) : st[y].up = z}
<1>2. ASSUME NEW u \in DOMAIN st, st[u].up # 0 => st[u].up \in S
      PROVE  u \in S
  <2> SUFFICES ASSUME NEW z \in Chain(st, u), z # u
               PROVE  \E y \in Chain(st, u) : st[y].up = z
    OBVIOUS
  <2>1. /\ u \in Chain(st, u)
        /\ Chain(st, u) = IF st[u].up = 0 THEN {u} ELSE {u} \cup Chain(st, st[u].up)
    BY <1>1, ChainEquation
  <2>2. st[u].up # 0 /\ z \in Chain(st, st[u].up) /\ st[u].up \in S
    BY <1>2, <2>1
  <2>3. CASE z = st[u].up
    BY <2>1, <2>3
  <2>4. CASE z # st[u].up
    <3>1. PICK y \in Chain(st, st[u].up) : st[y].up = z
      BY <2>2, <2>4
    <3> QED BY <2>1, <2>2, <3>1
  <2> QED BY <2>3, <2>4
<1> HIDE DEF S
<1>3. s \in S
  BY <1>1, <1>2, FromTheRoot
<1>4. PICK y \in Chain(st, s) : st[y].up = x
  BY <1>3 DEF S
<1>5. y \in DOMAIN st /\ x \in DOMAIN st /\ x # 0
  BY <1>1, ChainInPool DEF Fields
<1>6. y # Root
  BY <1>1, <1>4, <1>5 DEF Fields
<1>7. HasChildren(st, x)
  BY <1>1, <1>4, <1>5, <1>6 DEF Fields
<1> QED BY <1>4, <1>5, <1>6, <1>7

\* What is in the list of a goto is a child of the same Tree.
LEMMA InwardKeeps ==
    ASSUME NEW st, PoolOK(st), NEW g \in GotosIn(st), NEW l \in DOMAIN st,
           NEW m \in Chain(st, l), m # l, st[l].type # "Goto",
           st[m].up = st[g].up, Earlier(Siblings(st, g), g, m),
           NEW s2, NEW n, MovedIn(st, s2, g, m, n)
    PROVE  /\ \E y \in Chain(s2, l) : s2[y].up = s2[n].up /\ Earlier(Siblings(s2, n), n, y)
           /\ Level(s2, l) = Level(st, l) /\ Level(s2, n) = Level(st, g) + 1
<1>1. Rooted(st) /\ Fields(st) /\ Lists(st)
  BY DEF PoolOK
<1>2. /\ g \in DOMAIN st /\ g # Root /\ st[g].up \in DOMAIN st /\ st[g].up # 0
      /\ Siblings(st, g) \in Seq(DOMAIN st) /\ Once(Siblings(st, g))
      /\ \A c \in DOMAIN st : Contains(Siblings(st, g), c) => st[c].up = st[g].up
  <2>1. g \in DOMAIN st /\ g # Root
    BY <1>1 DEF GotosIn, Fields
  <2> QED BY <2>1, ListOf
<1>3. PICK y \in Chain(st, l) : y \in DOMAIN st /\ y # Root /\ st[y].up = m
  BY ChildOnTheWay
<1>4. m \in DOMAIN st
  BY ChildOnTheWay
<1>5. ASSUME NEW s \in DOMAIN st, m \in Chain(st, s)
      PROVE  Chain(s2, s) = Chain(st, s) /\ Level(s2, s) = Level(st, s)
  <2>1. ASSUME NEW e \in DOMAIN st, Earlier(Siblings(st, g), e, m), e \in Chain(st, s)
        PROVE  FALSE
    <3>1. st[e].up = st[m].up
      BY <1>2, <2>1, EarlierContained
    <3>2. e = m
      BY <1>1, <1>5, <2>1, <3>1, OnePerLevel
    <3> QED BY <1>2, <2>1, <3>2 DEF Once
  <2> QED BY <1>5, <2>1 DEF MovedIn
<1>6. Chain(s2, l) = Chain(st, l) /\ Level(s2, l) = Level(st, l)
  BY <1>5
<1>7. m \in Chain(st, m)
  BY <1>1, <1>4, ChainEquation
<1>8. Level(s2, m) = Level(st, m)
  BY <1>4, <1>5, <1>7
<1>9. Rooted(s2) /\ n \in DOMAIN s2 /\ s2[n].up = m /\ m # 0
  BY <1>1, <1>4 DEF MovedIn, Keeps, PoolOK, Fields
<1>10. Level(s2, n) = 1 + Level(s2, m)
  BY <1>9, LevelEquation
<1>11. Level(st, m) = Level(st, g) /\ Level(st, g) \in Nat
  <2>1. /\ Level(st, m) = 1 + Level(st, st[g].up) /\ Level(st, g) = 1 + Level(st, st[g].up)
        /\ Level(st, g) \in Nat
    BY <1>1, <1>2, <1>4, LevelEquation
  <2> QED BY <2>1
<1>12. Contains(st[m].children, y)
  <2>1. st[y].type # "Goto"
    <3>1. CASE y = l
      BY <3>1
    <3>2. CASE y # l
      BY <3>2, ChildOnTheWay DEF HasChildren
    <3> QED BY <3>1, <3>2
  <2>2. Contains(Children(st, m), y)
    BY <1>1, <1>3, <2>1 DEF Lists, Siblings
  <2>3. HasChildren(st, m)
    BY ChildOnTheWay
  <2> QED BY <2>2, <2>3 DEF Children
<1>13. st[m].children \in Seq(DOMAIN st)
  BY <1>1, <1>4, ChildOnTheWay DEF Fields, Children
<1>14. Earlier(Siblings(s2, n), n, y) /\ s2[y].up = m
  <2> DEFINE Z == <<n>>
             M == st[m].children
             E == DOMAIN s2
  <2>1. DOMAIN st \subseteq E
    BY DEF MovedIn, Keeps
  <2>2. Z \in Seq(E) /\ M \in Seq(E) /\ Contains(Z, n) /\ Contains(M, y)
    <3>1. Z \in Seq(E)
      BY <1>9
    <3>2. M \in Seq(E)
      BY <1>13, <2>1
    <3> QED BY <1>12, <3>1, <3>2, OneIn
  <2>3. Siblings(s2, n) = Z \o M
    BY <1>9 DEF MovedIn, Siblings
  <2> HIDE DEF Z, M, E
  <2>4. Earlier(Z \o M, n, y)
    BY <2>2, Joined
  <2> QED BY <1>3, <2>3, <2>4 DEF MovedIn
<1> QED BY <1>3, <1>6, <1>8, <1>9, <1>10, <1>11, <1>14

LEMMA InwardKeepsWaiting ==
    ASSUME NEW st, PoolOK(st), NEW g \in GotosIn(st), NEW m \in DOMAIN st, HasChildren(st, m),
           st[m].up = st[g].up, Earlier(Siblings(st, g), g, m),
           NEW s2, NEW n, MovedIn(st, s2, g, m, n),
           NEW w \in DOMAIN st, Spine(st, w),
           \A e \in DOMAIN st : Earlier(Siblings(st, g), g, e) => e \notin Chain(st, w)
    PROVE  /\ Spine(s2, w)
           /\ \A e \in DOMAIN s2 : Earlier(Siblings(s2, n), n, e) => e \notin Chain(s2, w)
<1>1. Spine(s2, w)
  BY DEF MovedIn
<1>2. Chain(s2, w) = Chain(st, w)
  BY DEF MovedIn
<1>3. Rooted(st) /\ Fields(st) /\ Lists(st)
  BY DEF PoolOK
<1>4. ASSUME NEW e \in DOMAIN s2, Earlier(Siblings(s2, n), n, e), e \in Chain(s2, w)
      PROVE  FALSE
  <2>1. e \in Chain(st, w) /\ e \in DOMAIN st
    BY <1>2, <1>3, <1>4, ChainInPool
  <2>2. s2[e].up = m
    <3>1. PoolOK(s2) /\ n \in DOMAIN s2 /\ s2[n].up = m /\ m \in DOMAIN s2
      BY DEF MovedIn, Keeps
    <3>2. Contains(Children(s2, m), e)
      BY <1>4, <3>1, EarlierContained DEF Siblings
    <3> QED BY <3>1, <3>2 DEF PoolOK, Lists
  <2>3. Contains(st[m].children, e)
    <3> DEFINE Z == <<n>>
               M == st[m].children
               E == DOMAIN s2
    <3>1. DOMAIN st \subseteq E /\ n \in E /\ n \notin DOMAIN st /\ s2[n].up = m
      BY DEF MovedIn, Keeps
    <3>2. Z \in Seq(E) /\ M \in Seq(E)
      <4>1. Z \in Seq(E)
        BY <3>1
      <4>2. M \in Seq(DOMAIN st)
        BY <1>3 DEF Fields, Children
      <4>3. M \in Seq(E)
        BY <3>1, <4>2
      <4> QED BY <4>1, <4>3
    <3>3. \A x : Contains(Z, x) <=> x = n
      BY OneIn
    <3>4. Siblings(s2, n) = Z \o M
      BY <3>1 DEF MovedIn, Siblings
    <3> HIDE DEF Z, M, E
    <3>5. Contains(Z \o M, e)
      BY <1>4, <3>4, EarlierContained
    <3>6. Contains(Z, e) \/ Contains(M, e)
      BY <3>2, <3>5, Joined
    <3>7. e # n
      BY <2>1, <3>1
    <3> QED BY <3>3, <3>6, <3>7 DEF M
  <2>4. st[e].up = m
    BY <1>3, <2>1, <2>3 DEF Lists, Children
  <2>5. m \in Chain(st, w)
    <3>1. m # 0
      BY <1>3 DEF Fields
    <3> QED BY <1>3, <2>1, <2>4, <3>1, ChainGoesUp
  <2> QED BY <2>5
<1> QED BY <1>1, <1>4

\* g stands behind its label l: the lists when l and what follows it up to g go
\* into a Loop, between the statements n and a.
LiftLists(st, g, l, n, a) ==
    LET D == DOMAIN st
        p == st[g].up
        A == Before(st, l)
        S == Span(st, l, g)
        B == After(st, g)
        C == (<<n>> \o S) \o <<a>>
    IN  /\ A \in Seq(D) /\ S \in Seq(D) /\ B \in Seq(D)
        /\ C \in Seq(D \cup {a, n})
        /\ \A x : Contains(C, x) <=> x = n \/ Contains(S, x) \/ x = a
        /\ Renews(D, {g}, Children(st, p), (A \o C) \o B)
        /\ \A x \in D : x # p => Children(st, x) \in Seq(D)
                                 /\ Renews(D, {g}, Children(st, x), Children(st, x))
        /\ \A x : Contains(B, x) => Earlier(Siblings(st, g), g, x)
        /\ S = <<l>> \o Tail(S) /\ Tail(S) \in Seq(D)

LEMMA LiftListsHold ==
    ASSUME NEW st, PoolOK(st), NEW g \in GotosIn(st), NEW l \in DOMAIN st,
           st[l].up = st[g].up, Earlier(Siblings(st, g), l, g),
           NEW a, NEW n, a \notin DOMAIN st, n \notin DOMAIN st, a # n
    PROVE  LiftLists(st, g, l, n, a)
<1> DEFINE D == DOMAIN st
           E == D \cup {a, n}
           p == st[g].up
           A == Before(st, l)
           S == Span(st, l, g)
           B == After(st, g)
           G == <<g>>
           P == <<n>>
           Q == <<a>>
           C == (P \o S) \o Q
           Z == S \o G
<1>1. g \in D /\ st[g].type = "Goto" /\ g # Root /\ Contains(Siblings(st, g), g)
  BY DEF GotosIn, PoolOK, Fields
<1>2. /\ p \in D /\ HasChildren(st, p) /\ Siblings(st, g) = st[p].children
      /\ st[p].children \in Seq(D) /\ Once(st[p].children) /\ Contains(st[p].children, g)
      /\ Children(st, p) = st[p].children
  <2> HIDE DEF p
  <2>1. p = st[g].up
    BY DEF p
  <2> QED BY <1>1, <2>1, ListOf DEF Siblings, Children
<1>3. st[l].up = p /\ Contains(st[p].children, l)
  BY <1>2, EarlierContained
<1>4. B \in Seq(D) /\ From(st, g) = G \o B /\ G \in Seq(D)
  BY <1>2, CutAt
<1>5. A \in Seq(D) /\ st[p].children = A \o From(st, l) /\ <<l>> \in Seq(D)
  BY <1>2, <1>3, CutAt
<1>6. S \in Seq(D) /\ From(st, l) = S \o From(st, g) /\ S = <<l>> \o Tail(S) /\ Tail(S) \in Seq(D)
  BY <1>2, <1>3, CutBetween, ZenonT(60)
<1>7. P \in Seq(E) /\ Q \in Seq(E) /\ D \subseteq E
  <2>1. a \in E /\ n \in E
    OBVIOUS
  <2> QED BY <2>1
<1>8. \A x, y : /\ Contains(P, x) <=> x = n
                /\ ~Earlier(P, x, y)
  BY OneIn
<1>9. \A x, y : /\ Contains(Q, x) <=> x = a
                /\ ~Earlier(Q, x, y)
  BY OneIn
<1>10. \A x, y : /\ Contains(G, x) <=> x = g
                 /\ ~Earlier(G, x, y)
  BY OneIn
<1> HIDE DEF A, S, B, G, P, Q, p, D, E
<1>11. st[p].children = (A \o Z) \o B /\ Z \in Seq(D)
  <2>1. S \o (G \o B) = (S \o G) \o B
    <3>1. S \in Seq(D) /\ G \in Seq(D) /\ B \in Seq(D)
      BY <1>4, <1>6
    <3> QED BY <3>1, ConcatAssociative
  <2>2. Z \in Seq(D)
    BY <1>4, <1>6
  <2> HIDE DEF Z
  <2>3. A \o (Z \o B) = (A \o Z) \o B
    <3>1. A \in Seq(D) /\ Z \in Seq(D) /\ B \in Seq(D)
      BY <1>4, <1>5, <2>2
    <3> QED BY <3>1, ConcatThree
  <2> QED BY <1>4, <1>5, <1>6, <2>1, <2>2, <2>3 DEF Z
<1>12. /\ \A x : Contains(Z, x) <=> Contains(S, x) \/ Contains(G, x)
       /\ \A x, y : Earlier(Z, x, y) <=>
            Earlier(S, x, y) \/ Earlier(G, x, y) \/ (Contains(S, x) /\ Contains(G, y))
  BY <1>4, <1>6, Joined
<1>13. P \in Seq(E) /\ S \in Seq(E) /\ Q \in Seq(E) /\ A \in Seq(E) /\ B \in Seq(E)
  BY <1>4, <1>5, <1>6, <1>7
<1>14. /\ C \in Seq(E)
       /\ \A x : Contains(C, x) <=> Contains(P, x) \/ Contains(S, x) \/ Contains(Q, x)
       /\ \A x, y : Earlier(C, x, y) <=>
                 \/ Earlier(P, x, y) \/ Earlier(S, x, y) \/ Earlier(Q, x, y)
                 \/ Contains(P, x) /\ Contains(S, y)
                 \/ (Contains(P, x) \/ Contains(S, x)) /\ Contains(Q, y)
  BY <1>13, Three
<1>15. /\ \A x : Contains((A \o Z) \o B, x) <=> Contains(A, x) \/ Contains(Z, x) \/ Contains(B, x)
       /\ \A x, y : Earlier((A \o Z) \o B, x, y) <=>
                 \/ Earlier(A, x, y) \/ Earlier(Z, x, y) \/ Earlier(B, x, y)
                 \/ Contains(A, x) /\ Contains(Z, y)
                 \/ (Contains(A, x) \/ Contains(Z, x)) /\ Contains(B, y)
  <2> HIDE DEF Z
  <2> QED BY <1>4, <1>5, <1>11, Three
<1> HIDE DEF C, Z
<1>16. \A x : ~Earlier((A \o Z) \o B, x, x)
  BY <1>2, <1>11 DEF Once
<1>17. ~Contains(A, g) /\ ~Contains(B, g) /\ ~Contains(S, g)
  BY <1>10, <1>12, <1>15, <1>16
<1>18. a \notin D /\ n \notin D /\ \A x : Contains(S, x) => x \in D
  BY <1>6, ContainedIn DEF D
<1>19. Renews(D, {g}, Z, C)
  <2>1. ASSUME NEW x, Earlier(C, x, x) PROVE FALSE
    <3>1. ~Earlier(S, x, x)
      BY <1>12, <1>15, <1>16
    <3> QED BY <1>8, <1>9, <1>14, <1>18, <2>1, <3>1
  <2>2. \A c \in D : Contains(C, c) => Contains(Z, c) /\ c \notin {g}
    BY <1>8, <1>9, <1>12, <1>14, <1>17, <1>18
  <2>3. \A c \in D \ {g} : Contains(Z, c) => Contains(C, c)
    BY <1>10, <1>12, <1>14
  <2>4. \A x, y \in D : Earlier(C, x, y) => Earlier(Z, x, y)
    BY <1>8, <1>9, <1>12, <1>14, <1>18
  <2> QED BY <2>1, <2>2, <2>3, <2>4 DEF Renews, Once
<1>20. Renews(D, {g}, (A \o Z) \o B, (A \o C) \o B)
  <2>1. Once((A \o Z) \o B)
    BY <1>16 DEF Once
  <2>2. \A x \in {g} : ~Contains(A, x) /\ ~Contains(B, x)
    BY <1>17
  <2> QED BY <1>4, <1>5, <1>7, <1>11, <1>14, <1>19, <2>1, <2>2, Replaced
<1>21. ASSUME NEW x \in D, x # p
       PROVE  Children(st, x) \in Seq(D) /\ Renews(D, {g}, Children(st, x), Children(st, x))
  <2>1. Children(st, x) \in Seq(D) /\ Once(Children(st, x)) /\ ~Contains(Children(st, x), g)
    BY <1>1, <1>21 DEF PoolOK, Fields, Lists, D, p
  <2>2. \A y \in {g} : ~Contains(Children(st, x), y)
    BY <2>1
  <2> QED BY <2>1, <2>2, RenewsSame
<1>22. \A x : Contains(B, x) => Earlier(Siblings(st, g), g, x)
  BY <1>2, <1>10, <1>11, <1>12, <1>15
<1>23. \A x : Contains(C, x) <=> x = n \/ Contains(S, x) \/ x = a
  BY <1>8, <1>9, <1>14
<1>24. C = (<<n>> \o S) \o <<a>>
  BY DEF C, P, Q
<1> QED BY <1>2, <1>4, <1>5, <1>6, <1>11, <1>14, <1>20, <1>21, <1>22, <1>23, <1>24
        DEF LiftLists, A, S, B, p, D, E

\* s2 is st with the goto g moved to the front of a Loop that holds its label l.
Lifted(st, s2, g, l, n) ==
    /\ Keeps(st, s2, {g}) /\ Numbered(s2) /\ Len(s2) = n + 1 /\ n \in Nat
    /\ n \in DOMAIN s2 /\ n \notin DOMAIN st
    /\ s2[n].type = "Goto" /\ s2[n].label = st[g].label
    /\ \A x \in DOMAIN s2 \ DOMAIN st : s2[x].type = "Goto" => x = n
    /\ s2[l].up = s2[n].up
    /\ Earlier(Siblings(s2, n), n, l)
    /\ After(s2, n) # <<>> /\ Head(After(s2, n)) = l
    /\ \A w \in DOMAIN st :
          /\ Spine(st, w)
          /\ \A e \in DOMAIN st : Earlier(Siblings(st, g), g, e) => e \notin Chain(st, w)
          => Spine(s2, w)

LEMMA FirstAndNext ==
    ASSUME NEW st, NEW n, NEW l, NEW D, NEW X \in Seq(D), n \in D, l \in D,
           st[st[n].up].children = <<n>> \o (<<l>> \o X), Once(st[st[n].up].children)
    PROVE  /\ Earlier(st[st[n].up].children, n, l)
           /\ After(st, n) # <<>> /\ Head(After(st, n)) = l
<1> DEFINE Y == <<l>> \o X
           L == <<n>> \o Y
<1>1. Y \in Seq(D) /\ Len(Y) \in Nat /\ Len(Y) >= 1 /\ Y[1] = l
  <2>1. <<l>> \in Seq(D) /\ Len(<<l>>) = 1 /\ <<l>>[1] = l /\ Len(X) \in Nat
    OBVIOUS
  <2> QED BY <2>1, ConcatProperties
<1> HIDE DEF Y
<1>2. L \in Seq(D) /\ Len(L) = 1 + Len(Y) /\ L[1] = n /\ L[2] = l
  <2>1. <<n>> \in Seq(D) /\ Len(<<n>>) = 1 /\ <<n>>[1] = n
    OBVIOUS
  <2> QED BY <1>1, <2>1, ConcatProperties
<1>3. st[st[n].up].children = L
  BY DEF Y
<1> HIDE DEF L
<1>4. Earlier(L, n, l) /\ Contains(L, n)
  BY <1>1, <1>2 DEF Earlier, Contains
<1>5. Position(st, n) = 1
  <2>1. 1 \in 1 .. Len(L)
    BY <1>1, <1>2
  <2>2. /\ st[st[n].up].children \in Seq(D) /\ Contains(st[st[n].up].children, n)
        /\ 1 \in 1 .. Len(st[st[n].up].children) /\ st[st[n].up].children[1] = n
    BY <1>2, <1>3, <1>4, <2>1
  <2> DEFINE list == st[st[n].up].children
  <2>3. list \in Seq(D) /\ Once(list) /\ Contains(list, n)
    BY <2>2
  <2>4. \A i \in 1 .. Len(list) : list[i] = n => i = Position(st, n)
    BY <2>3, PositionFinds
  <2> QED BY <2>2, <2>4
<1>6. From(st, n) = L
  <2>1. SubSeq(L, 1, Len(L)) = L
    BY <1>2
  <2> QED BY <1>3, <1>5, <2>1 DEF From
<1>7. After(st, n) = Tail(L)
  BY <1>6 DEF After
<1>8. L # <<>> /\ Tail(L) \in Seq(D) /\ Len(Tail(L)) = Len(Y) /\ Tail(L)[1] = L[2]
  BY <1>1, <1>2
<1>9. Tail(L) # <<>> /\ Head(Tail(L)) = l
  <2> DEFINE T == Tail(L)
  <2>1. T \in Seq(D) /\ Len(T) >= 1 /\ T[1] = l
    BY <1>1, <1>2, <1>8
  <2> HIDE DEF T
  <2>2. T # <<>> /\ Head(T) = l
    BY <2>1
  <2> QED BY <2>2 DEF T
<1> QED BY <1>3, <1>4, <1>7, <1>9

\* The lists after it.
LiftListed(st, s2, g, l, n) ==
    /\ DOMAIN s2 = DOMAIN st \cup {n - 1, n, n + 1}
    /\ s2[n - 1].type = "Loop" /\ s2[n].type = "Goto" /\ s2[n + 1].type = "SetVariable"
    /\ Children(s2, n - 1) = (<<n>> \o Span(st, l, g)) \o <<n + 1>>
    /\ Children(s2, st[g].up) = (Before(st, l) \o <<n - 1>>) \o After(st, g)
    /\ OtherLists(st, s2, {st[g].up})

LEMMA LiftMoves ==
    ASSUME NEW st, PoolOK(st), Numbered(st), NEW g \in GotosIn(st), NEW l \in DOMAIN st,
           st[l].up = st[g].up, Earlier(Siblings(st, g), l, g),
           l = SiblingFromNephew(st, g, st[g].label)
    PROVE  /\ Lifted(st, Lift(st, g), g, l, Len(st) + 2)
           /\ LiftListed(st, Lift(st, g), g, l, Len(st) + 2)
<1> DEFINE D == DOMAIN st
           p == st[g].up
           k == Len(st)
           t == k + 1
           n == k + 2
           a == k + 3
           A == Before(st, l)
           S == Span(st, l, g)
           B == After(st, g)
           C == (<<n>> \o S) \o <<a>>
           tree == [type |-> "Loop", up |-> p,
                    cond |-> Variable(st[st[g].label].id), children |-> S]
           goto == NewGoto(st, g, t)
           set == SetVariable(st, g, t)
           L1 == (A \o <<t>>) \o B
           s1 == Create(st, tree)
           s2 == UpdateTreeUp(s1, t)
           s3 == Create(s2, goto)
           s4 == Create(s3, set)
           s5 == SetChildren(s4, t, C)
           s6 == SetChildren(s5, p, L1)
           N == {a, n}
<1>1. g \in D /\ st[g].type = "Goto" /\ g # Root /\ Contains(Siblings(st, g), g)
  BY DEF GotosIn, PoolOK, Fields
<1>2. p \in D /\ HasChildren(st, p) /\ p # 0
  BY <1>1, ListOf
<1>3. \A x \in D : Complete(st[x])
  BY DEF PoolOK, Fields
<1>4. /\ Complete(set) /\ set.type = "SetVariable" /\ set.up = t
      /\ Complete(goto) /\ goto.type = "Goto" /\ goto.up = t /\ goto.label = st[g].label
      /\ Complete(tree) /\ tree.type = "Loop" /\ tree.up = p /\ tree.children = S
  BY DEF Complete, SetVariable, NewGoto
<1>5. /\ k \in Nat /\ D = 1 .. k /\ a \notin D /\ n \notin D /\ t \notin D
      /\ a # n /\ a # t /\ t # n /\ a # 0 /\ n # 0 /\ t # 0 /\ n \in Nat /\ a = n + 1
  BY NumberedPool
<1>6. LiftLists(st, g, l, n, a)
  <2> HIDE DEF a, n, D
  <2> QED BY <1>5, LiftListsHold DEF D
<1> HIDE DEF set, goto, tree, A, S, B
<1>7. /\ A \in Seq(D) /\ S \in Seq(D) /\ B \in Seq(D)
      /\ C \in Seq(D \cup N)
      /\ \A x : Contains(C, x) <=> x = n \/ Contains(S, x) \/ x = a
      /\ Renews(D, {g}, Children(st, p), (A \o C) \o B)
      /\ \A x \in D : x # p => Children(st, x) \in Seq(D)
                               /\ Renews(D, {g}, Children(st, x), Children(st, x))
      /\ \A x : Contains(B, x) => Earlier(Siblings(st, g), g, x)
      /\ S = <<l>> \o Tail(S) /\ Tail(S) \in Seq(D)
  BY <1>6 DEF LiftLists, A, B, S
<1>8. Created(st, s1, tree)
  BY CreateDoes
<1> HIDE DEF s1
<1>9. /\ Numbered(s1) /\ Len(s1) = t /\ DOMAIN s1 = D \cup {t} /\ s1[t] = tree
      /\ \A x \in D : s1[x] = st[x]
  BY <1>8 DEF Created
<1>10. \A x \in DOMAIN s1 : Complete(s1[x])
  BY <1>3, <1>4, <1>9
<1> HIDE DEF L1, C, p, k, D, a, n, t, N
<1>11. UpSet(s1, s2, t)
  BY <1>9, <1>10, UpdateTreeUpDoes
<1> HIDE DEF s2
<1>12. /\ Numbered(s2) /\ Len(s2) = t /\ DOMAIN s2 = D \cup {t}
       /\ \A x \in D : /\ SameKind(s2[x], st[x]) /\ Children(s2, x) = Children(st, x)
                       /\ s2[x].up = IF Contains(S, x) THEN t ELSE st[x].up
       /\ SameKind(s2[t], tree) /\ s2[t].up = p
  <2>1. /\ Numbered(s2) /\ Len(s2) = Len(s1) /\ DOMAIN s2 = DOMAIN s1
        /\ \A x \in DOMAIN s1 :
              /\ SameKind(s2[x], s1[x]) /\ Children(s2, x) = Children(s1, x)
              /\ s2[x].up = IF Contains(s1[t].children, x) THEN t ELSE s1[x].up
    BY <1>11 DEF UpSet
  <2>2. \A x \in D : Children(s1, x) = Children(st, x)
    BY <1>9 DEF Children, HasChildren
  <2>3. ~Contains(S, t)
    BY <1>5, <1>7, ContainedIn
  <2> QED BY <1>4, <1>9, <2>1, <2>2, <2>3
<1>13. Created(s2, s3, goto)
  BY <1>12, CreateDoes
<1> HIDE DEF s3
<1>14. /\ Numbered(s3) /\ Len(s3) = n /\ DOMAIN s3 = (D \cup {t}) \cup {n} /\ s3[n] = goto
       /\ \A x \in D \cup {t} : s3[x] = s2[x]
  <2>1. t + 1 = n
    BY <1>5 DEF t, n
  <2> QED BY <1>12, <1>13, <2>1 DEF Created
<1>15. Created(s3, s4, set)
  BY <1>14, CreateDoes
<1> HIDE DEF s4
<1>16. /\ Numbered(s4) /\ Len(s4) = a /\ DOMAIN s4 = (D \cup {t}) \cup {n, a} /\ s4[a] = set
       /\ s4[n] = goto
       /\ \A x \in D \cup {t} : s4[x] = s2[x]
  <2>1. n + 1 = a
    BY <1>5
  <2> QED BY <1>5, <1>14, <1>15, <2>1 DEF Created
<1>17. /\ \A x \in DOMAIN s4 : Complete(s4[x])
       /\ t \in DOMAIN s4 /\ HasChildren(s4, t)
  BY <1>4, <1>12, <1>16 DEF SameKind, HasChildren
<1>18. ChildrenSet(s4, s5, t, C)
  BY <1>16, <1>17, SetChildrenDoes
<1> HIDE DEF s5
<1>19. /\ Numbered(s5) /\ DOMAIN s5 = DOMAIN s4 /\ Len(s5) = a
       /\ \A x \in DOMAIN s4 : SameKind(s5[x], s4[x]) /\ s5[x].up = s4[x].up
       /\ \A x \in DOMAIN s4 : x # t => Children(s5, x) = Children(s4, x)
       /\ s5[t].children = C
  BY <1>16, <1>18 DEF ChildrenSet
<1>20. /\ \A x \in DOMAIN s5 : Complete(s5[x])
       /\ p \in DOMAIN s5 /\ HasChildren(s5, p) /\ p # t
  <2>1. \A x \in DOMAIN s5 : Complete(s5[x])
    BY <1>19 DEF SameKind
  <2>2. p \in D /\ p # t /\ p \in DOMAIN s4 /\ p \in DOMAIN s5
    BY <1>2, <1>5, <1>16, <1>19
  <2>3. s5[p].type = st[p].type
    BY <1>12, <1>16, <1>19, <2>2 DEF SameKind
  <2> QED BY <1>2, <2>1, <2>2, <2>3 DEF HasChildren
<1>21. ChildrenSet(s5, s6, p, L1)
  BY <1>19, <1>20, SetChildrenDoes
<1>22. Lift(st, g) = s6
  <2>1. Len(s1) = t /\ Len(s3) = n /\ Len(s4) = a
    BY <1>9, <1>14, <1>16
  <2>2. S = Span(st, SiblingFromNephew(st, g, st[g].label), g) /\ A = Before(st, SiblingFromNephew(st, g, st[g].label))
    BY DEF S, A
  <2> QED BY <2>1, <2>2 DEF Lift, s6, s5, s4, s3, s2, s1, set, goto, p, tree, C, L1, B
<1> HIDE DEF s6
<1>23. /\ Numbered(s6) /\ Len(s6) = a /\ DOMAIN s6 = (D \cup N) \cup {t}
       /\ \A x \in D : /\ SameKind(s6[x], st[x])
                       /\ s6[x].up = IF Contains(S, x) THEN t ELSE st[x].up
                       /\ x # p => Children(s6, x) = Children(st, x)
       /\ Complete(s6[a]) /\ s6[a].type = "SetVariable" /\ s6[a].up = t
       /\ Complete(s6[n]) /\ s6[n].type = "Goto" /\ s6[n].up = t /\ s6[n].label = st[g].label
       /\ Children(s6, p) = L1
       /\ Complete(s6[t]) /\ s6[t].type = "Loop" /\ s6[t].up = p /\ s6[t].children = C
  <2>1. /\ Numbered(s6) /\ DOMAIN s6 = DOMAIN s4 /\ Len(s6) = a
        /\ \A x \in DOMAIN s4 : SameKind(s6[x], s4[x]) /\ s6[x].up = s4[x].up
        /\ \A x \in DOMAIN s4 : x # t /\ x # p => Children(s6, x) = Children(s4, x)
        /\ Children(s6, p) = L1 /\ s6[t] = s5[t]
    <3>1. /\ Numbered(s6) /\ DOMAIN s6 = DOMAIN s5 /\ Len(s6) = Len(s5)
          /\ \A x \in DOMAIN s5 : SameKind(s6[x], s5[x]) /\ s6[x].up = s5[x].up
          /\ \A x \in DOMAIN s5 : x # p => s6[x] = s5[x] /\ Children(s6, x) = Children(s5, x)
          /\ Children(s6, p) = L1
      BY <1>21 DEF ChildrenSet
    <3> QED BY <1>17, <1>19, <1>20, <3>1 DEF SameKind
  <2>2. \A x \in D : Children(s4, x) = Children(st, x)
    <3>1. \A x \in D : Children(s4, x) = Children(s2, x)
      BY <1>16 DEF Children, HasChildren
    <3> QED BY <1>12, <3>1
  <2>3. \A x \in D : /\ SameKind(s6[x], st[x])
                     /\ s6[x].up = IF Contains(S, x) THEN t ELSE st[x].up
    BY <1>12, <1>16, <2>1 DEF SameKind
  <2>4. \A x \in D : x # p => Children(s6, x) = Children(st, x)
    <3>1. t \notin D
      BY <1>5
    <3> QED BY <1>16, <2>1, <2>2, <3>1
  <2>5. /\ Complete(s6[a]) /\ s6[a].type = "SetVariable" /\ s6[a].up = t
        /\ Complete(s6[n]) /\ s6[n].type = "Goto" /\ s6[n].up = t /\ s6[n].label = st[g].label
    BY <1>4, <1>16, <2>1 DEF SameKind
  <2>6. Complete(s6[t]) /\ s6[t].type = "Loop" /\ s6[t].up = p /\ s6[t].children = C
    BY <1>4, <1>12, <1>16, <1>19, <2>1 DEF SameKind
  <2>7. DOMAIN s6 = (D \cup N) \cup {t}
    BY <1>16, <2>1 DEF N
  <2> QED BY <2>1, <2>3, <2>4, <2>5, <2>6, <2>7
<1>24. Assembled(st, s6, N, g, t, p, A, C, B)
  <2>1. \A x \in DOMAIN st \ {p} :
              /\ Children(s6, x) \in Seq(D \cup N)
              /\ Renews(D, {g}, Children(st, x), Children(s6, x))
              /\ \A c \in N : Contains(Children(s6, x), c) => s6[c].up = x
    <3> SUFFICES ASSUME NEW x \in D, x # p
                 PROVE  /\ Children(s6, x) \in Seq(D \cup N)
                        /\ Renews(D, {g}, Children(st, x), Children(s6, x))
                        /\ \A c \in N : Contains(Children(s6, x), c) => s6[c].up = x
      BY DEF D
    <3>1. Children(s6, x) = Children(st, x) /\ Children(st, x) \in Seq(D)
          /\ Renews(D, {g}, Children(st, x), Children(st, x))
      BY <1>7, <1>23
    <3>2. \A c : Contains(Children(st, x), c) => c \in D
      BY <3>1, ContainedIn
    <3>3. \A c \in N : c \notin D
      BY <1>5 DEF N
    <3>4. Children(s6, x) \in Seq(D \cup N)
      <4> DEFINE E == D \cup N
      <4>1. D \subseteq E
        OBVIOUS
      <4> HIDE DEF E
      <4>2. Children(s6, x) \in Seq(E)
        BY <3>1, <4>1
      <4> QED BY <4>2 DEF E
    <3> QED BY <3>1, <3>2, <3>3, <3>4
  <2>2. ASSUME NEW x \in N
        PROVE /\ s6[x].type \in {"Goto", "SetVariable"} /\ Complete(s6[x])
              /\ s6[x].type = "Goto" => s6[x].label \in D /\ st[s6[x].label].type = "Label"
              /\ Contains(C, x) /\ s6[x].up = t
    <3>1. x = a \/ x = n
      BY DEF N
    <3>2. st[g].label \in D /\ st[st[g].label].type = "Label"
      BY <1>1 DEF PoolOK, Fields, D
    <3> QED BY <1>7, <1>23, <3>1, <3>2
  <2>3. t \notin D /\ t \notin N /\ t # 0 /\ 0 \notin N /\ N \cap D = {}
    BY <1>5 DEF N
  <2>4. A \in Seq(D \cup N) /\ B \in Seq(D \cup N)
    BY <1>7
  <2>5. Children(s6, p) = (A \o <<t>>) \o B
    BY <1>23 DEF L1
  <2>6. \A x \in D : Contains(C, x) <=> Contains(S, x)
    BY <1>5, <1>7
  <2> QED BY <1>2, <1>7, <1>23, <2>1, <2>2, <2>3, <2>4, <2>5, <2>6 DEF Assembled, D
<1> DEFINE mid == Unwrap(s6, t, p, C, (A \o C) \o B)
<1>25. Leaves(st, mid, {g}) /\ Wrap(mid, s6, t, p, A, C, B)
  BY <1>24, AssembledMoves
<1> HIDE DEF mid
<1>26. \A x \in {g} : x \in DOMAIN st /\ st[x].type = "Goto"
  BY <1>1 DEF D
<1>27. t \notin DOMAIN st
  BY <1>5 DEF D
<1>28. /\ Keeps(st, s6, {g})
       /\ \A w \in DOMAIN st :
             /\ Spine(st, w)
             /\ \A c \in DOMAIN s6 \ DOMAIN st : s6[c].type # "Break"
             /\ \/ s6[t].type = "Loop"
                \/ \A c \in DOMAIN st : Contains(C, c) => c \notin Chain(st, w)
             /\ \A b \in DOMAIN st : Contains(B, b) => b \notin Chain(st, w)
             => Spine(s6, w)
  BY <1>25, <1>26, <1>27, MoveKeeps
<1>29. \A x \in DOMAIN s6 \ DOMAIN st : /\ s6[x].type = "Goto" => x = n
                                        /\ s6[x].type # "Break"
  BY <1>23 DEF D, N
<1>30. ASSUME NEW w \in DOMAIN st, Spine(st, w),
              \A e \in DOMAIN st : Earlier(Siblings(st, g), g, e) => e \notin Chain(st, w)
       PROVE  Spine(s6, w)
  BY <1>7, <1>23, <1>28, <1>29, <1>30
<1>31. s6[l].up = t /\ s6[n].up = t /\ n \in DOMAIN s6 /\ n \notin DOMAIN st /\ l \in DOMAIN s6
       /\ t \in DOMAIN s6
  <2>1. Contains(S, l)
    <3> DEFINE Z == <<l>>
               T == Tail(S)
    <3>0. l \in D
      BY DEF D
    <3>1. T \in Seq(D) /\ S = Z \o T
      BY <1>7
    <3>2. Z \in Seq(D)
      BY <3>0
    <3>3. Contains(Z, l)
      BY OneIn
    <3> HIDE DEF Z, T
    <3> QED BY <3>1, <3>2, <3>3, Joined
  <2> QED BY <1>5, <1>23, <2>1 DEF D, N
<1>32. s6[s6[n].up].children = <<n>> \o (<<l>> \o (Tail(S) \o <<a>>)) /\ Tail(S) \o <<a>> \in Seq(DOMAIN s6)
  <2> DEFINE E == DOMAIN s6
             P == <<n>>
             Z == <<l>>
             T == Tail(S)
             Q == <<a>>
  <2>1. a \in E
    BY <1>23 DEF N
  <2>2. D \subseteq E
    BY <1>23
  <2>3. P \in Seq(E) /\ Z \in Seq(E) /\ Q \in Seq(E)
    BY <1>31, <2>1
  <2>4. S \in Seq(E) /\ T \in Seq(E)
    BY <1>7, <2>2
  <2>5. C = (P \o S) \o Q /\ S = Z \o T
    BY <1>7 DEF C
  <2> HIDE DEF P, Z, T, Q, E
  <2>6. (P \o S) \o Q = P \o (S \o Q)
    BY <2>3, <2>4, ConcatAssociative
  <2>7. (Z \o T) \o Q = Z \o (T \o Q)
    BY <2>3, <2>4, ConcatAssociative
  <2>8. T \o Q \in Seq(E)
    BY <2>3, <2>4
  <2> QED BY <1>23, <1>31, <2>5, <2>6, <2>7, <2>8 DEF P, Z, T, Q, E
<1>33. Once(s6[t].children) /\ Siblings(s6, n) = s6[s6[n].up].children
  <2>1. PoolOK(s6) /\ Children(s6, t) = s6[t].children
    BY <1>23, <1>28 DEF Keeps, Children, HasChildren
  <2> QED BY <1>31, <2>1 DEF PoolOK, Lists, Siblings
<1>34. /\ Earlier(Siblings(s6, n), n, l)
       /\ After(s6, n) # <<>> /\ Head(After(s6, n)) = l
  <2> DEFINE X == Tail(S) \o <<a>>
             E == DOMAIN s6
  <2>1. /\ X \in Seq(E) /\ n \in E /\ l \in E
        /\ s6[s6[n].up].children = <<n>> \o (<<l>> \o X)
        /\ Once(s6[s6[n].up].children)
    BY <1>31, <1>32, <1>33
  <2> HIDE DEF X, E
  <2>2. /\ Earlier(s6[s6[n].up].children, n, l)
        /\ After(s6, n) # <<>> /\ Head(After(s6, n)) = l
    BY <2>1, FirstAndNext
  <2> QED BY <1>33, <2>2
<1>35. Lifted(st, s6, g, l, n)
  BY <1>5, <1>23, <1>28, <1>29, <1>30, <1>31, <1>34 DEF Lifted, D
<1>36. LiftListed(st, s6, g, l, n)
  <2>1. n - 1 = t /\ n + 1 = a
    BY <1>5 DEF n, t
  <2>2. Children(s6, t) = C
    BY <1>23 DEF Children, HasChildren
  <2>3. DOMAIN s6 = DOMAIN st \cup {t, n, a}
    BY <1>23 DEF D, N
  <2> QED BY <1>23, <2>1, <2>2, <2>3 DEF LiftListed, OtherLists, p, D, C, L1, A, B, S
<1> QED BY <1>22, <1>35, <1>36 DEF n, k

-----------------------------------------------------------------------------
(* The inductive invariant                                                 *)

\* Nothing behind g in its list holds w.
Clear(st, g, w) ==
    \A e \in DOMAIN st : Earlier(Siblings(st, g), g, e) => e \notin Chain(st, w)

\* The gotos in the tree are the one that is moved and those waiting; each of
\* these has only Loops around it and no Tree or Break before it, and they stand in
\* the order in which they wait.
WaitingOK ==
    /\ gotos \in Seq(DOMAIN stmt)
    /\ \A w : Contains(gotos, w) => Spine(stmt, w)
    /\ \A w, v : Earlier(gotos, w, v) => w # v /\ NotBehind(stmt, v, w)
    /\ \A s : s \in GotosIn(stmt) <=> Contains(gotos, s) \/ (goto_stmt # 0 /\ s = goto_stmt)
    /\ goto_stmt # 0 => ~Contains(gotos, goto_stmt)

\* On its way out the goto has every waiting goto before it.
OutwardOK ==
    /\ OutwardPath(stmt, goto_stmt, label_stmt)
    /\ \A w : Contains(gotos, w) => NotBehind(stmt, goto_stmt, w)

\* Before it is lifted it stands behind its label, with no Break before it.
LiftOK ==
    /\ stmt[label_stmt].up = stmt[goto_stmt].up
    /\ Earlier(Siblings(stmt, goto_stmt), label_stmt, goto_stmt)
    /\ \A e \in DOMAIN stmt :
          Earlier(Siblings(stmt, goto_stmt), e, goto_stmt) => stmt[e].type # "Break"
    /\ goto_level = label_level
    /\ \A w : Contains(gotos, w) => Clear(stmt, goto_stmt, w)

\* On its way in it stands before what holds its label.
InwardOK ==
    /\ label_level - goto_level = Level(stmt, label_stmt) - Level(stmt, goto_stmt)
    /\ \E x \in Chain(stmt, label_stmt) :
          /\ stmt[x].up = stmt[goto_stmt].up
          /\ Earlier(Siblings(stmt, goto_stmt), goto_stmt, x)
          /\ (x = label_stmt /\ NextToLabel) \/ \A w : Contains(gotos, w) => Clear(stmt, goto_stmt, w)

MovingOK ==
    /\ step \in {"next", "relate", "level", "outward", "lift", "inward", "done"}
    /\ goto_stmt = 0 <=> step \in {"next", "done"}
    /\ step \in {"relate", "level", "outward"} => OutwardOK
    /\ step = "level" => IsDirectlyRelated(stmt, goto_stmt, label_stmt)
    /\ step = "outward" => /\ stmt[label_stmt].up \in Chain(stmt, stmt[goto_stmt].up)
                           /\ goto_level = Level(stmt, goto_stmt)
                           /\ label_level = Level(stmt, label_stmt)
    /\ step = "lift" => LiftOK
    /\ step = "inward" => InwardOK
    /\ step = "done" => gotos = <<>>
    /\ goto_level \in Nat /\ label_level \in Nat

TreeOK == PoolOK(stmt) /\ Numbered(stmt)

IInv == TreeOK /\ WaitingOK /\ MovingOK

\* The goto that is moved, and its label.
LEMMA TheGoto ==
    ASSUME TreeOK, WaitingOK, goto_stmt # 0
    PROVE  /\ goto_stmt \in GotosIn(stmt)
           /\ goto_stmt \in DOMAIN stmt /\ stmt[goto_stmt].type = "Goto" /\ goto_stmt # Root
           /\ stmt[goto_stmt].up \in DOMAIN stmt /\ stmt[goto_stmt].up # 0
           /\ label_stmt \in DOMAIN stmt /\ stmt[label_stmt].type = "Label" /\ label_stmt # Root
           /\ stmt[label_stmt].up \in DOMAIN stmt /\ stmt[label_stmt].up # 0
           /\ stmt[goto_stmt].label = label_stmt
           /\ Level(stmt, goto_stmt) \in Nat /\ Level(stmt, label_stmt) \in Nat
           /\ Level(stmt, goto_stmt) = 1 + Level(stmt, stmt[goto_stmt].up)
           /\ Level(stmt, label_stmt) = 1 + Level(stmt, stmt[label_stmt].up)
           /\ Rooted(stmt)
<1>1. Fields(stmt) /\ Rooted(stmt)
  BY DEF TreeOK, PoolOK
<1>2. goto_stmt \in GotosIn(stmt)
  BY DEF WaitingOK
<1>3. goto_stmt \in DOMAIN stmt /\ stmt[goto_stmt].type = "Goto" /\ goto_stmt # Root
  BY <1>1, <1>2 DEF GotosIn, Fields
<1>4. label_stmt \in DOMAIN stmt /\ stmt[label_stmt].type = "Label" /\ label_stmt # Root
  BY <1>1, <1>3 DEF Fields, label_stmt
<1>5. /\ stmt[goto_stmt].up \in DOMAIN stmt /\ stmt[goto_stmt].up # 0
      /\ stmt[label_stmt].up \in DOMAIN stmt /\ stmt[label_stmt].up # 0
  BY <1>1, <1>3, <1>4 DEF Fields
<1>6. /\ Level(stmt, goto_stmt) \in Nat /\ Level(stmt, label_stmt) \in Nat
      /\ Level(stmt, goto_stmt) = 1 + Level(stmt, stmt[goto_stmt].up)
      /\ Level(stmt, label_stmt) = 1 + Level(stmt, stmt[label_stmt].up)
  BY <1>1, <1>3, <1>4, <1>5, LevelEquation
<1> QED BY <1>1, <1>2, <1>3, <1>4, <1>5, <1>6 DEF label_stmt

\* A step that keeps the waiting gotos.
LEMMA WaitingKept ==
    ASSUME TreeOK, WaitingOK, gotos' = gotos, goto_stmt # 0,
           Keeps(stmt, stmt', {goto_stmt}),
           \A w : Contains(gotos, w) => Spine(stmt', w),
           \A x \in DOMAIN stmt' \ DOMAIN stmt :
              stmt'[x].type = "Goto" <=> (goto_stmt' # 0 /\ x = goto_stmt'),
           goto_stmt' # 0 => goto_stmt' \in DOMAIN stmt' /\ goto_stmt' \notin DOMAIN stmt
    PROVE  WaitingOK'
<1>1. DOMAIN stmt \subseteq DOMAIN stmt'
  BY DEF Keeps
<1>2. gotos' \in Seq(DOMAIN stmt')
  BY <1>1 DEF WaitingOK
<1>3. \A w : Contains(gotos, w) => w \in DOMAIN stmt
  BY ContainedIn DEF WaitingOK
<1>4. \A w, v : Earlier(gotos, w, v) => w # v /\ NotBehind(stmt', v, w)
  <2>1. \A w, v : Earlier(gotos, w, v) => w \in DOMAIN stmt /\ v \in DOMAIN stmt
    BY <1>3, EarlierContained
  <2> QED BY <2>1 DEF WaitingOK, Keeps
<1>5. ASSUME NEW s
      PROVE  s \in GotosIn(stmt') <=> Contains(gotos, s) \/ (goto_stmt' # 0 /\ s = goto_stmt')
  <2>1. s \in GotosIn(stmt) <=> Contains(gotos, s) \/ s = goto_stmt
    BY DEF WaitingOK
  <2>2. ~Contains(gotos, goto_stmt)
    BY DEF WaitingOK
  <2>3. s \in GotosIn(stmt') <=> \/ s \in GotosIn(stmt) /\ s # goto_stmt
                                 \/ s \in DOMAIN stmt' \ DOMAIN stmt /\ stmt'[s].type = "Goto"
    BY DEF Keeps
  <2> QED BY <2>1, <2>2, <2>3
<1>6. goto_stmt' # 0 => ~Contains(gotos, goto_stmt')
  BY <1>3
<1> QED BY <1>2, <1>4, <1>5, <1>6 DEF WaitingOK

\* The goto leaves a Loop that its label is not in.
LEMMA MoveOutwardKeeps ==
    ASSUME TreeOK, WaitingOK, goto_stmt # 0, OutwardOK, MoveOutward, gotos' = gotos,
           stmt[goto_stmt].up # Root,
           stmt[goto_stmt].up \notin Chain(stmt, label_stmt)
    PROVE  /\ step' = step /\ goto_stmt' # 0 /\ label_stmt' = label_stmt
           /\ TreeOK' /\ WaitingOK' /\ OutwardOK'
           /\ stmt'[goto_stmt'].up = stmt[stmt[goto_stmt].up].up
           /\ stmt'[label_stmt].up = stmt[label_stmt].up
           /\ \A s \in DOMAIN stmt : Chain(stmt', s) = Chain(stmt, s)
           /\ Level(stmt', goto_stmt') = Level(stmt, goto_stmt) - 1
           /\ Level(stmt', label_stmt) = Level(stmt, label_stmt)
<1> DEFINE g == goto_stmt
           l == label_stmt
           p == stmt[g].up
           q == stmt[p].up
           n == Len(stmt) + 3
<1>1. /\ g \in GotosIn(stmt) /\ g \in DOMAIN stmt /\ g # Root /\ p \in DOMAIN stmt /\ p # 0
      /\ stmt[g].type = "Goto"
      /\ l \in DOMAIN stmt /\ stmt[g].label = l /\ Rooted(stmt) /\ stmt[l].type = "Label"
      /\ Level(stmt, g) = 1 + Level(stmt, p)
  BY TheGoto
<1>2. p \in Chain(stmt, g) /\ p # g
  <2>1. p \in Chain(stmt, g)
    BY <1>1, ChainEquation, ChainGoesUp
  <2>2. g \notin Chain(stmt, p) /\ p \in Chain(stmt, p)
    BY <1>1, NotInItself, ChainEquation
  <2> QED BY <2>1, <2>2
<1>3. stmt[p].type = "Loop"
  BY <1>2 DEF OutwardOK, OutwardPath
<1>4. MovedOut(stmt, MoveOutwardLoop(stmt, g), g, n)
  BY <1>1, <1>3, OutwardMovesOut DEF TreeOK
<1>5. stmt' = MoveOutwardLoop(stmt, g) /\ goto_stmt' = Len(stmt') /\ step' = step
  BY <1>3 DEF MoveOutward
<1>6. MovedOut(stmt, stmt', g, n)
  BY <1>4, <1>5
<1>7. goto_stmt' = n
  BY <1>5, <1>6 DEF MovedOut
<1> HIDE DEF n
<1>8. /\ Leaves(stmt, stmt', {g}) /\ Numbered(stmt')
      /\ n \in DOMAIN stmt' /\ n \notin DOMAIN stmt
      /\ stmt'[n].type = "Goto" /\ stmt'[n].label = l /\ stmt'[n].up = q
      /\ \A x \in DOMAIN stmt' \ DOMAIN stmt : stmt'[x].type = "Goto" => x = n
  BY <1>1, <1>6 DEF MovedOut
<1>9. \A x \in {g} : x \in DOMAIN stmt /\ stmt[x].type = "Goto"
  BY <1>1
<1>10. /\ PoolOK(stmt')
       /\ \A s \in DOMAIN stmt : Chain(stmt', s) = Chain(stmt, s) /\ Level(stmt', s) = Level(stmt, s)
  BY <1>8, <1>9, LeavesKeepPool DEF TreeOK
<1>11. Keeps(stmt, stmt', {g})
  BY <1>8, <1>9, LeavesKeep DEF TreeOK
<1>12. n # 0
  BY <1>8, <1>10 DEF PoolOK, Fields
<1>13. \A w : Contains(gotos, w) => w \in DOMAIN stmt /\ Spine(stmt, w) /\ NotBehind(stmt, g, w)
  BY ContainedIn DEF WaitingOK, OutwardOK
<1>14. \A w : Contains(gotos, w) => Spine(stmt', w) /\ NotBehind(stmt', n, w)
  BY <1>1, <1>3, <1>6, <1>13, OutwardKeepsWaiting DEF TreeOK
<1>15. OutwardPath(stmt', n, l)
  BY <1>1, <1>3, <1>6, OutwardKeepsPath DEF TreeOK, OutwardOK
<1>16. WaitingOK'
  BY <1>7, <1>8, <1>11, <1>12, <1>14, WaitingKept
<1>17. label_stmt' = l
  BY <1>7, <1>8 DEF label_stmt
<1>18. OutwardOK'
  BY <1>7, <1>14, <1>15, <1>17 DEF OutwardOK
<1>19. Level(stmt', n) = Level(stmt, g) - 1
  <2>1. q \in DOMAIN stmt /\ q # 0
    BY <1>1 DEF TreeOK, PoolOK, Fields
  <2>2. Level(stmt', n) = 1 + Level(stmt', q) /\ Rooted(stmt')
    BY <1>8, <1>10, <2>1, LevelEquation DEF PoolOK
  <2>3. Level(stmt, p) = 1 + Level(stmt, q) /\ Level(stmt, q) \in Nat
    BY <1>1, <2>1, LevelEquation
  <2> QED BY <1>1, <1>10, <2>1, <2>2, <2>3
<1>20. stmt'[l].up = stmt[l].up
  BY <1>1, <1>8 DEF Leaves
<1> QED BY <1>1, <1>5, <1>7, <1>8, <1>10, <1>12, <1>16, <1>17, <1>18, <1>19, <1>20 DEF TreeOK

LEMMA FrontAndLast ==
    ASSUME NEW S, NEW list \in Seq(S), list # <<>>
    PROVE  /\ Front(list) \in Seq(S) /\ Last(list) \in S /\ Contains(list, Last(list))
           /\ \A a : Contains(Front(list), a) => Contains(list, a) /\ Earlier(list, a, Last(list))
           /\ \A a : Contains(list, a) => Contains(Front(list), a) \/ a = Last(list)
           /\ \A a, b : Earlier(Front(list), a, b) => Earlier(list, a, b)
           /\ Len(Front(list)) = Len(list) - 1 /\ Len(list) \in Nat
<1> DEFINE F == Front(list)
           n == Len(list)
<1>1. n \in Nat /\ n >= 1 /\ \A i \in 1 .. n : list[i] \in S
  BY EmptySeq
<1>2. F \in Seq(S) /\ Len(F) = n - 1 /\ \A i \in 1 .. n - 1 : F[i] = list[i]
  <2>1. Front(list) = SubSeq(list, 1, n - 1)
    BY DEF Front
  <2>2. 1 \in Int /\ n - 1 \in Int /\ n - 1 <= n /\ n - 1 >= 0
    BY <1>1
  <2>3. \A i \in 1 .. n - 1 : i \in 1 .. n
    BY <1>1
  <2> DEFINE k == n - 1
  <2>4. k \in Int /\ 1 \in Int /\ \A i \in 1 .. k : list[i] \in S
    BY <1>1, <2>2, <2>3
  <2>5. k - 1 + 1 = k /\ (1 <= k \/ k = 0) /\ \A i \in 1 .. k : 1 + i - 1 = i
    <3>1. k \in Nat
      <4> HIDE DEF n
      <4> QED BY <1>1
    <3> HIDE DEF k
    <3> QED BY <3>1
  <2> HIDE DEF k
  <2>6. /\ SubSeq(list, 1, k) \in Seq(S)
        /\ Len(SubSeq(list, 1, k)) = IF 1 <= k THEN k - 1 + 1 ELSE 0
        /\ \A i \in 1 .. k - 1 + 1 : SubSeq(list, 1, k)[i] = list[1 + i - 1]
    BY <2>4, SubSeqProperties
  <2>7. F = SubSeq(list, 1, k)
    BY <2>1 DEF k
  <2>8. F \in Seq(S) /\ Len(F) = k /\ \A i \in 1 .. k : F[i] = list[i]
    BY <2>4, <2>5, <2>6, <2>7
  <2> QED BY <2>8 DEF k
<1>3. Last(list) = list[n]
  BY DEF Last
<1> HIDE DEF F, n
<1>4. Len(list) = n
  BY DEF n
<1>5. Contains(list, Last(list)) /\ Last(list) \in S
  BY <1>1, <1>3, <1>4 DEF Contains
<1>6. ASSUME NEW a, Contains(F, a) PROVE Contains(list, a) /\ Earlier(list, a, Last(list))
  <2>1. PICK i \in 1 .. n - 1 : F[i] = a
    BY <1>2, <1>6 DEF Contains
  <2>2. i \in 1 .. n /\ n \in 1 .. n /\ i < n /\ list[i] = a
    BY <1>1, <1>2, <2>1
  <2> QED BY <1>3, <1>4, <2>2 DEF Contains, Earlier
<1>7. ASSUME NEW a, Contains(list, a), a # Last(list) PROVE Contains(F, a)
  <2>1. PICK i \in 1 .. n : list[i] = a
    BY <1>4, <1>7 DEF Contains
  <2>2. i \in 1 .. n - 1
    BY <1>1, <1>3, <1>7, <2>1
  <2> QED BY <1>2, <2>1, <2>2 DEF Contains
<1>8. ASSUME NEW a, NEW b, Earlier(F, a, b) PROVE Earlier(list, a, b)
  <2>1. PICK i, j \in 1 .. n - 1 : i < j /\ F[i] = a /\ F[j] = b
    BY <1>2, <1>8 DEF Earlier
  <2>2. i \in 1 .. n /\ j \in 1 .. n /\ list[i] = a /\ list[j] = b
    BY <1>1, <1>2, <2>1
  <2> QED BY <1>4, <2>1, <2>2 DEF Earlier
<1> QED BY <1>1, <1>2, <1>4, <1>5, <1>6, <1>7, <1>8 DEF F

LEMMA NextGotoKeeps ==
    ASSUME IInv, NextGoto
    PROVE  IInv' /\ Len(gotos') = Len(gotos) - 1 /\ step' \in {"relate", "level"}
<1> USE DEF NextGoto
<1> DEFINE g == goto_stmt'
           l == stmt[g].label
<1>1. TreeOK /\ WaitingOK /\ MovingOK /\ goto_stmt = 0 /\ TreeOK'
  BY DEF IInv, MovingOK, TreeOK
<1>2. /\ gotos' \in Seq(DOMAIN stmt) /\ g \in DOMAIN stmt /\ Contains(gotos, g)
      /\ \A a : Contains(gotos', a) => Contains(gotos, a) /\ Earlier(gotos, a, g)
      /\ \A a : Contains(gotos, a) => Contains(gotos', a) \/ a = g
      /\ \A a, b : Earlier(gotos', a, b) => Earlier(gotos, a, b)
      /\ Len(gotos') = Len(gotos) - 1
  BY <1>1, FrontAndLast DEF WaitingOK
<1>3. g # 0
  BY <1>1, <1>2 DEF TreeOK, PoolOK, Fields
<1>4. WaitingOK'
  <2>1. gotos' \in Seq(DOMAIN stmt')
    BY <1>2
  <2>2. \A w : Contains(gotos', w) => Spine(stmt', w)
    BY <1>1, <1>2 DEF WaitingOK
  <2>3. \A w, v : Earlier(gotos', w, v) => w # v /\ NotBehind(stmt', v, w)
    BY <1>1, <1>2 DEF WaitingOK
  <2>4. ~Contains(gotos', g)
    BY <1>1, <1>2 DEF WaitingOK
  <2>5. \A s : s \in GotosIn(stmt') <=> Contains(gotos', s) \/ (g # 0 /\ s = g)
    BY <1>1, <1>2, <1>3 DEF WaitingOK
  <2> QED BY <2>1, <2>2, <2>3, <2>4, <2>5 DEF WaitingOK
<1>5. OutwardOK'
  <2>1. Spine(stmt, g) /\ \A w : Contains(gotos', w) => NotBehind(stmt, g, w)
    BY <1>1, <1>2 DEF WaitingOK
  <2>2. OutwardPath(stmt, g, l)
    BY <2>1 DEF Spine, OutwardPath
  <2> QED BY <2>1, <2>2 DEF OutwardOK, label_stmt
<1>6. ~IsIndirectlyRelated(stmt, g, l) => IsDirectlyRelated(stmt, g, l)
  <2>1. SUFFICES ASSUME stmt[g].up = stmt[l].up PROVE IsDirectlyRelated(stmt, g, l)
    BY DEF IsIndirectlyRelated
  <2>2. /\ g \in DOMAIN stmt /\ stmt[g].up # 0 /\ stmt[g].up \in DOMAIN stmt
        /\ l \in DOMAIN stmt /\ stmt[l].up # 0 /\ stmt[l].up \in DOMAIN stmt
        /\ Rooted(stmt)
    <3>1. Fields(stmt) /\ Rooted(stmt) /\ g \in GotosIn(stmt)
      BY <1>1, <1>2 DEF TreeOK, PoolOK, WaitingOK
    <3>2. g \in DOMAIN stmt /\ stmt[g].type = "Goto" /\ g # Root
      BY <3>1 DEF GotosIn, Fields
    <3>3. l \in DOMAIN stmt /\ stmt[l].type = "Label" /\ l # Root
      BY <3>1, <3>2 DEF Fields
    <3> QED BY <3>1, <3>2, <3>3 DEF Fields
  <2>3. stmt[l].up \in Chain(stmt, stmt[g].up)
    BY <2>1, <2>2, ChainEquation
  <2> QED BY <2>1, <2>2, <2>3, RelatedMeans
<1>7. step' \in {"relate", "level"} /\ (step' = "level" => IsDirectlyRelated(stmt, g, l))
  BY <1>6
<1>8. MovingOK'
  BY <1>1, <1>3, <1>5, <1>7 DEF MovingOK, label_stmt
<1> QED BY <1>1, <1>2, <1>4, <1>7, <1>8 DEF IInv

\* The root is around everything.
LEMMA RootInChain ==
    ASSUME NEW st, Fields(st), Rooted(st), NEW s \in DOMAIN st
    PROVE  Root \in Chain(st, s)
<1> DEFINE S == {u \in DOMAIN st : Root \in Chain(st, u)}
<1>1. ASSUME NEW u \in DOMAIN st, st[u].up # 0 => st[u].up \in S
      PROVE  u \in S
  <2>1. Chain(st, u) = IF st[u].up = 0 THEN {u} ELSE {u} \cup Chain(st, st[u].up)
    BY ChainEquation
  <2>2. st[u].up = 0 => u = Root
    BY DEF Fields
  <2> QED BY <1>1, <2>1, <2>2
<1> HIDE DEF S
<1>2. s \in S
  BY <1>1, FromTheRoot
<1> QED BY <1>2 DEF S

\* A Loop around the goto that is not around its label's list is not around its label.
LEMMA NotAroundTheLabel ==
    ASSUME TreeOK, WaitingOK, goto_stmt # 0, OutwardOK,
           stmt[goto_stmt].up \notin Chain(stmt, stmt[label_stmt].up)
    PROVE  /\ stmt[goto_stmt].up # Root
           /\ stmt[goto_stmt].up \notin Chain(stmt, label_stmt)
<1> DEFINE p == stmt[goto_stmt].up
           q == stmt[label_stmt].up
<1>1. /\ p \in DOMAIN stmt /\ q \in DOMAIN stmt /\ q # 0 /\ p # 0 /\ Rooted(stmt) /\ Fields(stmt)
      /\ label_stmt \in DOMAIN stmt /\ stmt[label_stmt].type = "Label"
      /\ goto_stmt \in DOMAIN stmt /\ HasChildren(stmt, p) /\ goto_stmt # Root
  <2>1. Fields(stmt)
    BY DEF TreeOK, PoolOK
  <2> QED BY <2>1, TheGoto DEF Fields
<1>2. Root \in Chain(stmt, q)
  BY <1>1, RootInChain
<1>3. p # Root
  BY <1>2
<1>4. Chain(stmt, label_stmt) = {label_stmt} \cup Chain(stmt, q)
  BY <1>1, ChainEquation
<1>5. p # label_stmt
  BY <1>1 DEF HasChildren
<1> QED BY <1>3, <1>4, <1>5

LEMMA OutwardToRelateKeeps ==
    ASSUME IInv, OutwardToRelate
    PROVE  /\ IInv' /\ gotos' = gotos /\ step = "relate" /\ step' = "relate"
           /\ Level(stmt, goto_stmt) \in Nat
           /\ Level(stmt', goto_stmt') \in Nat /\ Level(stmt', goto_stmt') < Level(stmt, goto_stmt)
<1> USE DEF OutwardToRelate
<1>1. TreeOK /\ WaitingOK /\ MovingOK /\ goto_stmt # 0 /\ OutwardOK
  BY DEF IInv, MovingOK
<1>2. /\ goto_stmt \in DOMAIN stmt /\ label_stmt \in DOMAIN stmt /\ Rooted(stmt)
      /\ stmt[goto_stmt].up # 0 /\ stmt[label_stmt].up # 0
      /\ stmt[goto_stmt].up \in DOMAIN stmt /\ stmt[label_stmt].up \in DOMAIN stmt
      /\ Level(stmt, goto_stmt) \in Nat /\ Level(stmt, label_stmt) \in Nat
      /\ Level(stmt, goto_stmt) = 1 + Level(stmt, stmt[goto_stmt].up)
      /\ Level(stmt, label_stmt) = 1 + Level(stmt, stmt[label_stmt].up)
  BY <1>1, TheGoto
<1>3. stmt[goto_stmt].up \notin Chain(stmt, stmt[label_stmt].up)
  <2> DEFINE p == stmt[goto_stmt].up
             q == stmt[label_stmt].up
  <2>1. CASE Level(stmt, label_stmt) < Level(stmt, goto_stmt)
    <3>1. SUFFICES ASSUME p \in Chain(stmt, q) PROVE FALSE
      OBVIOUS
    <3>2. /\ Level(stmt, p) \in Nat /\ Level(stmt, q) \in Nat
          /\ p = q \/ Level(stmt, p) < Level(stmt, q)
      BY <1>2, <3>1, LevelsFall, LevelEquation
    <3>3. q \notin Chain(stmt, p)
      BY <1>2, <2>1, RelatedMeans
    <3>4. p # q
      BY <1>2, <3>3, ChainEquation
    <3> QED BY <1>2, <2>1, <3>2, <3>4
  <2>2. CASE ~(Level(stmt, label_stmt) < Level(stmt, goto_stmt))
    BY <1>2, <2>2, RelatedMeans
  <2> QED BY <2>1, <2>2
<1>4. /\ step' = step /\ goto_stmt' # 0 /\ TreeOK' /\ WaitingOK' /\ OutwardOK'
      /\ Level(stmt', goto_stmt') = Level(stmt, goto_stmt) - 1
  BY <1>1, <1>3, NotAroundTheLabel, MoveOutwardKeeps
<1>5. Level(stmt', goto_stmt') \in Nat
  <2>1. Level(stmt, stmt[goto_stmt].up) \in Nat
    BY <1>2, LevelEquation
  <2> QED BY <1>2, <1>4, <2>1
<1>6. MovingOK'
  BY <1>1, <1>4 DEF MovingOK
<1> QED BY <1>2, <1>4, <1>5, <1>6 DEF IInv

LEMMA RelatedKeeps ==
    ASSUME IInv, Related
    PROVE  IInv' /\ gotos' = gotos /\ step = "relate" /\ step' = "level"
BY DEF IInv, Related, TreeOK, WaitingOK, MovingOK, OutwardOK, label_stmt, NextToLabel

\* A label that is on no lower level than the goto is in something that stands in
\* the goto's list.
LEMMA NextToTheGoto ==
    ASSUME TreeOK, WaitingOK, goto_stmt # 0, IsDirectlyRelated(stmt, goto_stmt, label_stmt),
           ~(Level(stmt, goto_stmt) > Level(stmt, label_stmt))
    PROVE  LET x == SiblingFromNephew(stmt, goto_stmt, label_stmt)
           IN  /\ x \in Chain(stmt, label_stmt) /\ x \in DOMAIN stmt
               /\ stmt[x].up = stmt[goto_stmt].up /\ x # goto_stmt /\ x # Root
               /\ x # label_stmt => HasChildren(stmt, x)
               /\ Level(stmt, x) = Level(stmt, goto_stmt)
               /\ Contains(Siblings(stmt, goto_stmt), x)
<1> DEFINE x == SiblingFromNephew(stmt, goto_stmt, label_stmt)
<1>1. /\ goto_stmt \in DOMAIN stmt /\ label_stmt \in DOMAIN stmt /\ Rooted(stmt)
      /\ stmt[goto_stmt].up # 0 /\ stmt[label_stmt].up # 0 /\ stmt[goto_stmt].up \in DOMAIN stmt
      /\ stmt[goto_stmt].type = "Goto" /\ stmt[label_stmt].type = "Label"
      /\ Level(stmt, goto_stmt) \in Nat /\ Level(stmt, label_stmt) \in Nat
  BY TheGoto
<1>2. Level(stmt, goto_stmt) <= Level(stmt, label_stmt)
  BY <1>1
<1>3. stmt[goto_stmt].up \in Chain(stmt, stmt[label_stmt].up)
  BY <1>1, RelatedMeans
<1>4. /\ x \in Chain(stmt, label_stmt) /\ x \in DOMAIN stmt
      /\ Level(stmt, x) = Level(stmt, goto_stmt) /\ stmt[x].up # 0
      /\ stmt[goto_stmt].up = stmt[x].up
  BY <1>1, <1>2, <1>3, NephewsAncestor DEF SiblingFromNephew
<1> HIDE DEF x
<1>5. x # label_stmt => HasChildren(stmt, x)
  BY <1>1, <1>4, ChildOnTheWay DEF TreeOK
<1>6. x # goto_stmt /\ stmt[x].type # "Goto"
  BY <1>1, <1>5 DEF HasChildren
<1>7. x # Root
  BY <1>4 DEF TreeOK, PoolOK, Fields
<1>8. Contains(Siblings(stmt, goto_stmt), x)
  <2>1. Contains(Siblings(stmt, x), x)
    BY <1>4, <1>6, <1>7 DEF TreeOK, PoolOK, Lists
  <2> QED BY <1>4, <2>1 DEF Siblings
<1> QED BY <1>4, <1>5, <1>6, <1>7, <1>8 DEF x

\* Of two statements in a list, AreOrdered tells which stands first.
LEMMA OrderedMeans ==
    ASSUME NEW st, PoolOK(st), NEW g \in DOMAIN st, g # Root, Contains(Siblings(st, g), g),
           NEW x \in DOMAIN st, x # g, Contains(Siblings(st, g), x)
    PROVE  AreOrdered(st, x, g) <=> Earlier(Siblings(st, g), x, g)
<1>1. /\ Siblings(st, g) = st[st[g].up].children
      /\ st[st[g].up].children \in Seq(DOMAIN st) /\ Once(st[st[g].up].children)
  BY ListOf
<1> DEFINE X == Before(st, g)
           Y == After(st, g)
           Z == <<g>>
<1>2. X \in Seq(DOMAIN st) /\ Y \in Seq(DOMAIN st) /\ Z \in Seq(DOMAIN st)
      /\ From(st, g) = Z \o Y /\ Siblings(st, g) = (X \o Z) \o Y
  BY <1>1, CutAt
<1>3. \A a : Contains(Z, a) <=> a = g
  BY OneIn
<1> HIDE DEF X, Y, Z
<1>4. \A a : Contains(Z \o Y, a) <=> Contains(Z, a) \/ Contains(Y, a)
  BY <1>2, Joined
<1>5. /\ \A a : Contains((X \o Z) \o Y, a) <=> Contains(X, a) \/ Contains(Z, a) \/ Contains(Y, a)
      /\ \A a, b : Earlier((X \o Z) \o Y, a, b) <=>
                 \/ Earlier(X, a, b) \/ Earlier(Z, a, b) \/ Earlier(Y, a, b)
                 \/ Contains(X, a) /\ Contains(Z, b)
                 \/ (Contains(X, a) \/ Contains(Z, a)) /\ Contains(Y, b)
  BY <1>2, Three
<1>6. Contains(X, x) \/ Contains(Y, x)
  BY <1>2, <1>3, <1>5
<1>7. Contains(X, x) => Earlier(Siblings(st, g), x, g)
  BY <1>2, <1>3, <1>5
<1>8. Contains(Y, x) => Earlier(Siblings(st, g), g, x)
  BY <1>2, <1>3, <1>5
<1>9. ~(Earlier(Siblings(st, g), x, g) /\ Earlier(Siblings(st, g), g, x))
  BY <1>1, EarlierIsAnOrder
<1>10. AreOrdered(st, x, g) <=> ~Contains(Y, x)
  BY <1>2, <1>3, <1>4 DEF AreOrdered
<1> QED BY <1>6, <1>7, <1>8, <1>9, <1>10

LEMMA CountLevelsKeeps ==
    ASSUME IInv, CountLevels
    PROVE  /\ IInv' /\ gotos' = gotos /\ step = "level" /\ step' \in {"outward", "lift", "inward"}
           /\ step' = "outward" => goto_level' > label_level'
           /\ step' = "inward" => label_level' >= goto_level'
<1> USE DEF CountLevels
<1> DEFINE x == SiblingFromNephew(stmt, goto_stmt, label_stmt)
           gl == Level(stmt, goto_stmt)
           ll == Level(stmt, label_stmt)
<1>1. /\ TreeOK /\ WaitingOK /\ MovingOK /\ goto_stmt # 0 /\ OutwardOK
      /\ IsDirectlyRelated(stmt, goto_stmt, label_stmt)
  BY DEF IInv, MovingOK
<1>2. /\ goto_stmt \in GotosIn(stmt)
      /\ goto_stmt \in DOMAIN stmt /\ label_stmt \in DOMAIN stmt /\ Rooted(stmt) /\ goto_stmt # Root
      /\ stmt[goto_stmt].up # 0 /\ stmt[label_stmt].up # 0
      /\ gl \in Nat /\ ll \in Nat /\ stmt[goto_stmt].type = "Goto"
  BY <1>1, TheGoto
<1>3. goto_level' = gl /\ label_level' = ll /\ label_stmt' = label_stmt /\ goto_stmt' = goto_stmt
      /\ stmt' = stmt /\ gotos' = gotos
  BY DEF label_stmt
<1>4. TreeOK' /\ WaitingOK'
  BY <1>1, <1>3 DEF TreeOK, WaitingOK
<1>5. goto_stmt \in Chain(stmt, goto_stmt)
  BY <1>2, ChainEquation
<1>6. \A w : Contains(gotos, w) => Clear(stmt, goto_stmt, w)
  BY <1>1, <1>2, <1>5 DEF OutwardOK, NotBehind, Clear
<1>7. CASE gl > ll
  <2>1. step' = "outward"
    <3>1. goto_level' > label_level'
      BY <1>3, <1>7
    <3> QED BY <3>1
  <2>2. stmt[label_stmt].up \in Chain(stmt, stmt[goto_stmt].up)
    BY <1>1, <1>2, <1>7, RelatedMeans
  <2>3. OutwardOK'
    BY <1>1, <1>3 DEF OutwardOK
  <2>4. MovingOK'
    BY <1>2, <1>3, <1>1, <2>1, <2>2, <2>3 DEF MovingOK
  <2> QED BY <1>3, <1>4, <1>7, <2>1, <2>4 DEF IInv
<1>8. CASE ~(gl > ll)
  <2>1. /\ x \in Chain(stmt, label_stmt) /\ x \in DOMAIN stmt
        /\ stmt[x].up = stmt[goto_stmt].up /\ x # goto_stmt
        /\ x # label_stmt => HasChildren(stmt, x)
        /\ Level(stmt, x) = gl /\ x # Root
        /\ Contains(Siblings(stmt, goto_stmt), x)
    BY <1>1, <1>8, NextToTheGoto
  <2>2. Contains(Siblings(stmt, goto_stmt), goto_stmt)
    BY <1>2 DEF GotosIn
  <2>3. NeedsLift(stmt, goto_stmt, label_stmt) <=> Earlier(Siblings(stmt, goto_stmt), x, goto_stmt)
    <3> HIDE DEF x
    <3>1. AreOrdered(stmt, x, goto_stmt) <=> Earlier(Siblings(stmt, goto_stmt), x, goto_stmt)
      BY <1>1, <1>2, <2>1, <2>2, OrderedMeans DEF TreeOK
    <3> QED BY <3>1 DEF NeedsLift, x
  <2>4. CASE NeedsLift(stmt, goto_stmt, label_stmt)
    <3>1. step' = "lift"
      BY <1>3, <1>8, <2>4
    <3>2. Earlier(Siblings(stmt, goto_stmt), x, goto_stmt)
      BY <2>3, <2>4
    <3>3. \A e \in DOMAIN stmt : Earlier(Siblings(stmt, goto_stmt), e, goto_stmt) =>
             stmt[e].type # "Break" /\ (stmt[e].type \in {"If", "Loop"} => e \notin Chain(stmt, label_stmt))
      BY <1>1, <1>2, <1>5 DEF OutwardOK, OutwardPath
    <3>4. x = label_stmt
      <4>1. stmt[x].type \notin {"If", "Loop"}
        BY <2>1, <3>2, <3>3
      <4>2. stmt[x].type # "Function"
        BY <1>1, <2>1 DEF TreeOK, PoolOK, Fields
      <4> QED BY <2>1, <4>1, <4>2 DEF HasChildren
    <3>5. LiftOK'
      <4> HIDE DEF x
      <4>1. stmt[label_stmt].up = stmt[goto_stmt].up
        BY <2>1, <3>4
      <4>2. Earlier(Siblings(stmt, goto_stmt), label_stmt, goto_stmt)
        BY <3>2, <3>4
      <4>3. gl = ll
        BY <2>1, <3>4
      <4> QED BY <1>3, <1>6, <3>3, <4>1, <4>2, <4>3 DEF LiftOK
    <3>6. MovingOK'
      BY <1>1, <1>2, <1>3, <3>1, <3>5 DEF MovingOK
    <3> QED BY <1>3, <1>4, <3>1, <3>6 DEF IInv
  <2>5. CASE ~NeedsLift(stmt, goto_stmt, label_stmt)
    <3>1. step' = "inward"
      BY <1>3, <1>8, <2>5
    <3>2. Earlier(Siblings(stmt, goto_stmt), goto_stmt, x)
      <4>1. Siblings(stmt, goto_stmt) \in Seq(DOMAIN stmt)
        BY <1>1, <1>2, ListOf DEF TreeOK
      <4> HIDE DEF x
      <4> QED BY <2>1, <2>2, <2>3, <2>5, <4>1, EarlierOrLater
    <3>3. InwardOK'
      BY <1>3, <1>6, <2>1, <3>2 DEF InwardOK
    <3>4. MovingOK'
      BY <1>1, <1>2, <1>3, <3>1, <3>3 DEF MovingOK
    <3>5. label_level' >= goto_level'
      BY <1>2, <1>3, <1>8
    <3> QED BY <1>3, <1>4, <3>1, <3>4, <3>5 DEF IInv
  <2> QED BY <2>4, <2>5
<1> QED BY <1>7, <1>8

LEMMA OutwardToLevelKeeps ==
    ASSUME IInv, OutwardToLevel
    PROVE  /\ IInv' /\ gotos' = gotos /\ step = "outward" /\ step' = "outward"
           /\ goto_level' = goto_level - 1 /\ label_level' = label_level
           /\ goto_level \in Nat /\ label_level \in Nat /\ goto_level > label_level
<1> USE DEF OutwardToLevel
<1> DEFINE p == stmt[goto_stmt].up
           q == stmt[p].up
           r == stmt[label_stmt].up
<1>1. /\ TreeOK /\ WaitingOK /\ MovingOK /\ goto_stmt # 0 /\ OutwardOK
      /\ r \in Chain(stmt, p)
      /\ goto_level = Level(stmt, goto_stmt) /\ label_level = Level(stmt, label_stmt)
  BY DEF IInv, MovingOK
<1>2. /\ goto_stmt \in DOMAIN stmt /\ label_stmt \in DOMAIN stmt /\ Rooted(stmt)
      /\ p # 0 /\ r # 0 /\ p \in DOMAIN stmt /\ r \in DOMAIN stmt
      /\ Level(stmt, goto_stmt) \in Nat /\ Level(stmt, label_stmt) \in Nat
      /\ Level(stmt, goto_stmt) = 1 + Level(stmt, p)
      /\ Level(stmt, label_stmt) = 1 + Level(stmt, r)
  BY <1>1, TheGoto
<1>3. Level(stmt, p) \in Nat /\ Level(stmt, r) \in Nat
  BY <1>2, LevelEquation
<1> HIDE DEF p, q, r
<1>4. Level(stmt, r) < Level(stmt, p)
  BY <1>1, <1>2, <1>3
<1>5. p \notin Chain(stmt, r)
  <2>1. SUFFICES ASSUME p \in Chain(stmt, r) PROVE FALSE
    OBVIOUS
  <2>2. p = r \/ Level(stmt, p) < Level(stmt, r)
    BY <1>2, <2>1, LevelsFall
  <2> QED BY <1>3, <1>4, <2>2
<1>6. p # Root /\ p \notin Chain(stmt, label_stmt)
  BY <1>1, <1>5, NotAroundTheLabel DEF p, r
<1>7. /\ step' = step /\ goto_stmt' # 0 /\ label_stmt' = label_stmt
      /\ TreeOK' /\ WaitingOK' /\ OutwardOK'
      /\ stmt'[goto_stmt'].up = q
      /\ stmt'[label_stmt].up = r
      /\ \A s \in DOMAIN stmt : Chain(stmt', s) = Chain(stmt, s)
      /\ Level(stmt', goto_stmt') = Level(stmt, goto_stmt) - 1
      /\ Level(stmt', label_stmt) = Level(stmt, label_stmt)
  BY <1>1, <1>6, MoveOutwardKeeps DEF p, q, r
<1>8. q # 0 /\ q \in DOMAIN stmt
  BY <1>1, <1>2, <1>6 DEF TreeOK, PoolOK, Fields, q
<1>9. r \in Chain(stmt', q)
  <2>1. Chain(stmt, p) = {p} \cup Chain(stmt, q)
    BY <1>2, <1>8, ChainEquation DEF q
  <2>2. r # p
    BY <1>3, <1>4
  <2> QED BY <1>1, <1>7, <1>8, <2>1, <2>2
<1>10. goto_level' \in Nat /\ goto_level \in Nat /\ label_level \in Nat
  BY <1>1, <1>2, <1>3
<1>11. MovingOK'
  <2>1. goto_level' = Level(stmt', goto_stmt') /\ label_level' = Level(stmt', label_stmt')
    BY <1>1, <1>7
  <2>2. stmt'[label_stmt'].up \in Chain(stmt', stmt'[goto_stmt'].up)
    BY <1>7, <1>9
  <2> QED BY <1>7, <1>10, <2>1, <2>2 DEF MovingOK
<1> QED BY <1>7, <1>10, <1>11 DEF IInv

LEMMA GotoLiftingKeeps ==
    ASSUME IInv, GotoLifting
    PROVE  /\ IInv' /\ gotos' = gotos /\ step = "lift" /\ step' = "inward"
           /\ goto_level' = goto_level /\ label_level' = label_level
           /\ goto_level \in Nat /\ goto_level = label_level
<1> USE DEF GotoLifting
<1> DEFINE g == goto_stmt
           l == label_stmt
           x == SiblingFromNephew(stmt, g, l)
           n == Len(stmt) + 2
<1>1. /\ TreeOK /\ WaitingOK /\ MovingOK /\ g # 0 /\ LiftOK /\ goto_level \in Nat
  BY DEF IInv, MovingOK
<1>2. /\ g \in GotosIn(stmt) /\ g \in DOMAIN stmt /\ g # Root
      /\ l \in DOMAIN stmt /\ stmt[g].label = l /\ Rooted(stmt)
      /\ stmt[g].up # 0 /\ stmt[g].up \in DOMAIN stmt
      /\ Level(stmt, g) \in Nat /\ Level(stmt, l) \in Nat
      /\ Level(stmt, g) = 1 + Level(stmt, stmt[g].up)
      /\ Level(stmt, l) = 1 + Level(stmt, stmt[l].up)
      /\ stmt[g].type = "Goto" /\ stmt[l].type = "Label"
  BY <1>1, TheGoto
<1>3. stmt[l].up = stmt[g].up /\ Earlier(Siblings(stmt, g), l, g)
  BY <1>1 DEF LiftOK
<1> HIDE DEF g, l
<1>4. x = l
  <2>1. Level(stmt, l) - Level(stmt, g) = 0
    BY <1>2, <1>3
  <2>2. Ancestor(stmt, l, 0) = l
    BY AncestorSteps
  <2> QED BY <2>1, <2>2 DEF SiblingFromNephew
<1> HIDE DEF x
<1>5. NoBreaks(stmt, Span(stmt, x, g))
  <2>1. SUFFICES ASSUME NEW i \in DOMAIN Span(stmt, l, g)
                 PROVE  stmt[Span(stmt, l, g)[i]].type # "Break"
    BY <1>4 DEF NoBreaks
  <2> DEFINE S == Span(stmt, l, g)
  <2>2. /\ Siblings(stmt, g) = stmt[stmt[g].up].children
        /\ stmt[stmt[g].up].children \in Seq(DOMAIN stmt) /\ Once(stmt[stmt[g].up].children)
    BY <1>1, <1>2, ListOf DEF TreeOK
  <2>3. Contains(stmt[stmt[g].up].children, g)
    BY <1>2, <2>2 DEF GotosIn
  <2>4. /\ S \in Seq(DOMAIN stmt) /\ Before(stmt, g) = Before(stmt, l) \o S
    <3>1. /\ stmt[stmt[l].up].children \in Seq(DOMAIN stmt) /\ Once(stmt[stmt[l].up].children)
          /\ stmt[l].up = stmt[g].up
          /\ Earlier(stmt[stmt[l].up].children, l, g)
      BY <1>3, <2>2
    <3>2. /\ Span(stmt, l, g) \in Seq(DOMAIN stmt)
          /\ Before(stmt, g) = Before(stmt, l) \o Span(stmt, l, g)
      <4> HIDE DEF S
      <4> QED BY <3>1, CutBetween
    <3> QED BY <3>2
  <2>5. /\ Before(stmt, g) \in Seq(DOMAIN stmt) /\ From(stmt, g) \in Seq(DOMAIN stmt)
        /\ stmt[stmt[g].up].children = Before(stmt, g) \o From(stmt, g)
        /\ From(stmt, g) = <<g>> \o After(stmt, g) /\ After(stmt, g) \in Seq(DOMAIN stmt)
        /\ <<g>> \in Seq(DOMAIN stmt)
    BY <2>2, <2>3, CutAt
  <2>6. Before(stmt, l) \in Seq(DOMAIN stmt)
    <3>1. Contains(stmt[stmt[l].up].children, l)
      BY <1>3, <2>2, EarlierContained
    <3> QED BY <1>3, <2>2, <3>1, CutAt
  <2> HIDE DEF S
  <2>7. Contains(S, S[i]) /\ S[i] \in DOMAIN stmt
    <3>1. i \in 1 .. Len(S) /\ S[i] \in DOMAIN stmt
      BY <2>1, <2>4, ElementOfSeq, LenProperties DEF S
    <3> QED BY <3>1 DEF Contains
  <2>8. Contains(Before(stmt, g), S[i])
    BY <2>4, <2>6, <2>7, Joined, ZenonT(60)
  <2>9. Contains(<<g>>, g)
    BY OneIn
  <2>10. Contains(From(stmt, g), g)
    BY <2>5, <2>9, Joined
  <2>11. Earlier(Siblings(stmt, g), S[i], g)
    <3> DEFINE X == Before(stmt, g)
               Y == From(stmt, g)
    <3>1. X \in Seq(DOMAIN stmt) /\ Y \in Seq(DOMAIN stmt) /\ Contains(X, S[i]) /\ Contains(Y, g)
          /\ Siblings(stmt, g) = X \o Y
      BY <2>2, <2>5, <2>8, <2>10
    <3> HIDE DEF X, Y
    <3>2. Earlier(X \o Y, S[i], g)
      BY <3>1, Joined
    <3> QED BY <3>1, <3>2
  <2> QED BY <1>1, <2>7, <2>11 DEF LiftOK, S, g
<1>6. stmt' = Lift(stmt, g) /\ goto_stmt' = Len(stmt') - 1 /\ step' = "inward" /\ step = "lift"
  BY <1>5 DEF x, g, l
<1>7. Lifted(stmt, Lift(stmt, g), g, l, n)
  BY <1>1, <1>2, <1>3, <1>4, LiftMoves DEF TreeOK, x
<1>8. Lifted(stmt, stmt', g, l, n)
  BY <1>6, <1>7
<1> HIDE DEF n
<1>9. goto_stmt' = n
  <2>1. Len(stmt') = n + 1 /\ n \in Nat
    BY <1>8 DEF Lifted
  <2> QED BY <1>6, <2>1
<1>10. /\ Keeps(stmt, stmt', {g}) /\ Numbered(stmt')
       /\ n \in DOMAIN stmt' /\ n \notin DOMAIN stmt
       /\ stmt'[n].type = "Goto" /\ stmt'[n].label = l
       /\ \A y \in DOMAIN stmt' \ DOMAIN stmt : stmt'[y].type = "Goto" => y = n
       /\ stmt'[l].up = stmt'[n].up
       /\ Earlier(Siblings(stmt', n), n, l)
       /\ After(stmt', n) # <<>> /\ Head(After(stmt', n)) = l
  BY <1>2, <1>8 DEF Lifted
<1>11. TreeOK' /\ n # 0
  BY <1>10 DEF TreeOK, Keeps, PoolOK, Fields
<1>12. \A w : Contains(gotos, w) => Spine(stmt', w)
  <2>1. SUFFICES ASSUME NEW w, Contains(gotos, w) PROVE Spine(stmt', w)
    OBVIOUS
  <2>2. w \in DOMAIN stmt /\ Spine(stmt, w)
    BY <1>1, <2>1, ContainedIn DEF WaitingOK
  <2>3. \A e \in DOMAIN stmt : Earlier(Siblings(stmt, g), g, e) => e \notin Chain(stmt, w)
    BY <1>1, <2>1 DEF LiftOK, Clear, g
  <2> QED BY <1>8, <2>2, <2>3 DEF Lifted
<1>13. WaitingOK'
  BY <1>1, <1>9, <1>10, <1>11, <1>12, WaitingKept DEF g
<1>14. label_stmt' = l
  BY <1>9, <1>10 DEF label_stmt
<1>15. InwardOK'
  <2>1. /\ l \in DOMAIN stmt' /\ Rooted(stmt')
        /\ stmt'[n].up # 0 /\ stmt'[n].up \in DOMAIN stmt' /\ n # Root
    <3>1. Fields(stmt') /\ Rooted(stmt')
      BY <1>11 DEF TreeOK, PoolOK
    <3>2. l \in DOMAIN stmt'
      BY <1>2, <1>10 DEF Keeps
    <3>3. n # Root
      BY <1>2, <1>10, <3>1 DEF Fields
    <3> QED BY <1>10, <3>1, <3>2, <3>3 DEF Fields
  <2>2. l \in Chain(stmt', l)
    BY <2>1, ChainEquation
  <2>3. Level(stmt', l) = Level(stmt', n) /\ Level(stmt', n) \in Nat
    BY <1>10, <2>1, LevelEquation
  <2>4. goto_level' = label_level' /\ goto_level' \in Nat
    BY <1>1 DEF LiftOK
  <2>5. label_level' - goto_level' = Level(stmt', label_stmt') - Level(stmt', goto_stmt')
    BY <1>9, <1>14, <2>3, <2>4
  <2>6. NextToLabel'
    BY <1>9, <1>10, <1>14 DEF NextToLabel
  <2> QED BY <1>9, <1>10, <1>14, <2>2, <2>5, <2>6 DEF InwardOK
<1>16. MovingOK'
  BY <1>1, <1>6, <1>9, <1>11, <1>15 DEF MovingOK, LiftOK
<1> QED BY <1>1, <1>6, <1>11, <1>13, <1>16 DEF IInv, LiftOK

\* What the goto on its way in stands before, when it has not reached its label.
LEMMA TowardsTheLabel ==
    ASSUME TreeOK, WaitingOK, goto_stmt # 0, InwardOK, goto_level < label_level,
           goto_level \in Nat, label_level \in Nat
    PROVE  LET x == SiblingFromNephew(stmt, goto_stmt, label_stmt)
           IN  /\ x \in Chain(stmt, label_stmt) /\ x # label_stmt /\ x \in DOMAIN stmt
               /\ HasChildren(stmt, x) /\ stmt[x].up = stmt[goto_stmt].up
               /\ Earlier(Siblings(stmt, goto_stmt), goto_stmt, x)
               /\ \A w : Contains(gotos, w) => Clear(stmt, goto_stmt, w)
<1> DEFINE g == goto_stmt
           l == label_stmt
           y == SiblingFromNephew(stmt, g, l)
<1>1. /\ g \in GotosIn(stmt) /\ g \in DOMAIN stmt /\ g # Root
      /\ l \in DOMAIN stmt /\ stmt[g].label = l /\ Rooted(stmt)
      /\ stmt[g].up # 0 /\ stmt[g].up \in DOMAIN stmt /\ stmt[l].up # 0
      /\ Level(stmt, g) \in Nat /\ Level(stmt, l) \in Nat
      /\ Level(stmt, g) = 1 + Level(stmt, stmt[g].up)
  BY TheGoto
<1>2. PICK x \in Chain(stmt, l) :
          /\ stmt[x].up = stmt[g].up
          /\ Earlier(Siblings(stmt, g), g, x)
          /\ (x = l /\ NextToLabel) \/ \A w : Contains(gotos, w) => Clear(stmt, g, w)
  BY DEF InwardOK
<1>3. Level(stmt, g) < Level(stmt, l)
  <2>1. label_level - goto_level = Level(stmt, l) - Level(stmt, g)
    BY DEF InwardOK
  <2> QED BY <1>1, <2>1
<1> HIDE DEF g, l
<1>4. x \in DOMAIN stmt /\ Level(stmt, x) = Level(stmt, g)
  <2>1. x \in DOMAIN stmt
    BY <1>1, ChainInPool
  <2> QED BY <1>1, <1>2, <2>1, LevelEquation
<1>5. x # l
  BY <1>1, <1>3, <1>4
<1>6. y \in Chain(stmt, l) /\ Level(stmt, y) = Level(stmt, g)
  <2>1. Level(stmt, g) <= Level(stmt, l)
    BY <1>1, <1>3
  <2> QED BY <1>1, <2>1, NephewsAncestor DEF SiblingFromNephew
<1> HIDE DEF y
<1>7. y = x
  BY <1>1, <1>4, <1>6, OnePerLevel
<1>8. HasChildren(stmt, x)
  BY <1>1, <1>5, ChildOnTheWay DEF TreeOK
<1> QED BY <1>2, <1>4, <1>5, <1>7, <1>8 DEF y, g, l

LEMMA InwardToLevelKeeps ==
    ASSUME IInv, InwardToLevel
    PROVE  /\ IInv' /\ gotos' = gotos /\ step = "inward" /\ step' = "inward"
           /\ goto_level' = goto_level + 1 /\ label_level' = label_level
           /\ goto_level \in Nat /\ label_level \in Nat /\ goto_level < label_level
<1> USE DEF InwardToLevel
<1> DEFINE g == goto_stmt
           l == label_stmt
           x == SiblingFromNephew(stmt, g, l)
<1>1. /\ TreeOK /\ WaitingOK /\ MovingOK /\ g # 0 /\ InwardOK
      /\ goto_level \in Nat /\ label_level \in Nat /\ goto_level < label_level
  BY DEF IInv, MovingOK
<1>2. /\ g \in GotosIn(stmt) /\ g \in DOMAIN stmt /\ g # Root
      /\ l \in DOMAIN stmt /\ stmt[g].label = l /\ Rooted(stmt)
      /\ Level(stmt, g) \in Nat /\ Level(stmt, l) \in Nat
      /\ stmt[g].type = "Goto" /\ stmt[l].type = "Label"
  BY <1>1, TheGoto
<1>3. /\ x \in Chain(stmt, l) /\ x # l /\ x \in DOMAIN stmt
      /\ HasChildren(stmt, x) /\ stmt[x].up = stmt[g].up
      /\ Earlier(Siblings(stmt, g), g, x)
      /\ \A w : Contains(gotos, w) => Clear(stmt, g, w)
  BY <1>1, TowardsTheLabel
<1>4. stmt' = MoveInward(stmt, g) /\ goto_stmt' = Len(stmt') /\ step' = step /\ step = "inward"
  BY <1>3
<1> HIDE DEF g, l
<1>5. x = SiblingFromNephew(stmt, g, stmt[g].label)
  BY <1>2
<1> HIDE DEF x
<1>6. PICK n : MovedIn(stmt, MoveInward(stmt, g), g, x, n)
  <2>1. PoolOK(stmt) /\ Numbered(stmt)
    BY <1>1 DEF TreeOK
  <2>2. CASE Tail(Span(stmt, g, x)) = <<>>
    <3>1. MovedIn(stmt, MoveInward(stmt, g), g, x, Len(stmt) + 2)
      BY <1>2, <1>3, <1>5, <2>1, <2>2, InwardNext
    <3> QED BY <3>1
  <2>3. CASE Tail(Span(stmt, g, x)) # <<>>
    <3>1. MovedIn(stmt, MoveInward(stmt, g), g, x, Len(stmt) + 3)
      BY <1>2, <1>3, <1>5, <2>1, <2>3, InwardSkips
    <3> QED BY <3>1
  <2> QED BY <2>2, <2>3
<1>7. MovedIn(stmt, stmt', g, x, n)
  BY <1>4, <1>6
<1>8. /\ Keeps(stmt, stmt', {g}) /\ Numbered(stmt') /\ Len(stmt') = n
      /\ n \in DOMAIN stmt' /\ n \notin DOMAIN stmt
      /\ stmt'[n].type = "Goto" /\ stmt'[n].label = l
      /\ \A e \in DOMAIN stmt' \ DOMAIN stmt : stmt'[e].type = "Goto" => e = n
  BY <1>2, <1>7 DEF MovedIn
<1>9. goto_stmt' = n /\ TreeOK' /\ n # 0
  BY <1>4, <1>8 DEF TreeOK, Keeps, PoolOK, Fields
<1>10. \A w : Contains(gotos, w) =>
          Spine(stmt', w) /\ \A e \in DOMAIN stmt' : Earlier(Siblings(stmt', n), n, e) =>
                                e \notin Chain(stmt', w)
  <2> SUFFICES ASSUME NEW w, Contains(gotos, w)
               PROVE  /\ Spine(stmt', w)
                      /\ \A e \in DOMAIN stmt' : Earlier(Siblings(stmt', n), n, e) =>
                            e \notin Chain(stmt', w)
    OBVIOUS
  <2>1. w \in DOMAIN stmt /\ Spine(stmt, w)
    BY <1>1, ContainedIn DEF WaitingOK
  <2>2. \A e \in DOMAIN stmt : Earlier(Siblings(stmt, g), g, e) => e \notin Chain(stmt, w)
    BY <1>3 DEF Clear
  <2> QED BY <1>1, <1>2, <1>3, <1>7, <2>1, <2>2, InwardKeepsWaiting DEF TreeOK
<1>11. WaitingOK'
  BY <1>1, <1>8, <1>9, <1>10, WaitingKept DEF g
<1>12. label_stmt' = l
  BY <1>8, <1>9 DEF label_stmt
<1>13. /\ \E y \in Chain(stmt', l) : stmt'[y].up = stmt'[n].up /\ Earlier(Siblings(stmt', n), n, y)
       /\ Level(stmt', l) = Level(stmt, l) /\ Level(stmt', n) = Level(stmt, g) + 1
  BY <1>1, <1>2, <1>3, <1>7, InwardKeeps DEF TreeOK
<1>14. label_level' - goto_level' = Level(stmt', label_stmt') - Level(stmt', goto_stmt')
  <2>1. label_level - goto_level = Level(stmt, l) - Level(stmt, g)
    BY <1>1 DEF InwardOK, g, l
  <2>2. label_level' = label_level /\ goto_level' = goto_level + 1
    OBVIOUS
  <2>3. /\ Level(stmt', label_stmt') = Level(stmt, l)
        /\ Level(stmt', goto_stmt') = Level(stmt, g) + 1
    BY <1>9, <1>12, <1>13
  <2> QED BY <1>1, <1>2, <2>1, <2>2, <2>3
<1>15. InwardOK'
  <2>1. \A w : Contains(gotos, w) => Clear(stmt', n, w)
    BY <1>10 DEF Clear
  <2> QED BY <1>9, <1>12, <1>13, <1>14, <2>1 DEF InwardOK
<1>16. MovingOK'
  <2>1. goto_level' \in Nat /\ label_level' \in Nat
    BY <1>1
  <2> QED BY <1>4, <1>9, <1>15, <2>1 DEF MovingOK
<1> QED BY <1>1, <1>4, <1>9, <1>11, <1>16 DEF IInv

\* At the level of its label the goto is in its label's list.
LEMMA AtTheLabel ==
    ASSUME IInv, AtLabelLevel
    PROVE  /\ goto_stmt # 0 /\ step \in {"outward", "inward"}
           /\ stmt[label_stmt].up = stmt[goto_stmt].up
           /\ step = "inward" => Earlier(Siblings(stmt, goto_stmt), goto_stmt, label_stmt)
           /\ \/ NextToLabel
              \/ \A w : Contains(gotos, w) => Clear(stmt, goto_stmt, w)
<1> DEFINE g == goto_stmt
           l == label_stmt
<1>1. TreeOK /\ WaitingOK /\ MovingOK /\ g # 0 /\ step \in {"outward", "inward"}
  BY DEF IInv, MovingOK, AtLabelLevel
<1>2. /\ g \in GotosIn(stmt) /\ g \in DOMAIN stmt /\ g # Root /\ l \in DOMAIN stmt /\ Rooted(stmt)
      /\ stmt[g].up # 0 /\ stmt[g].up \in DOMAIN stmt /\ stmt[l].up # 0 /\ stmt[l].up \in DOMAIN stmt
      /\ Level(stmt, g) \in Nat /\ Level(stmt, l) \in Nat
      /\ Level(stmt, g) = 1 + Level(stmt, stmt[g].up)
      /\ Level(stmt, l) = 1 + Level(stmt, stmt[l].up)
  BY <1>1, TheGoto
<1>3. Level(stmt, stmt[g].up) \in Nat /\ Level(stmt, stmt[l].up) \in Nat
  BY <1>2, LevelEquation
<1>4. CASE step = "outward"
  <2>1. /\ stmt[l].up \in Chain(stmt, stmt[g].up) /\ OutwardOK
        /\ Level(stmt, g) <= Level(stmt, l)
    BY <1>1, <1>4 DEF MovingOK, AtLabelLevel
  <2> HIDE DEF g, l
  <2>2. stmt[l].up = stmt[g].up \/ Level(stmt, stmt[l].up) < Level(stmt, stmt[g].up)
    BY <1>2, <2>1, LevelsFall
  <2>3. stmt[l].up = stmt[g].up
    BY <1>2, <1>3, <2>1, <2>2
  <2>4. g \in Chain(stmt, g)
    BY <1>2, ChainEquation
  <2>5. \A w : Contains(gotos, w) => Clear(stmt, g, w)
    BY <1>2, <2>1, <2>4 DEF OutwardOK, NotBehind, Clear, g
  <2> QED BY <1>1, <1>4, <2>3, <2>5 DEF g, l
<1>5. CASE step = "inward"
  <2>1. PICK x \in Chain(stmt, l) :
          /\ stmt[x].up = stmt[g].up
          /\ Earlier(Siblings(stmt, g), g, x)
          /\ (x = l /\ NextToLabel) \/ \A w : Contains(gotos, w) => Clear(stmt, g, w)
    BY <1>1, <1>5 DEF MovingOK, InwardOK
  <2>2. /\ label_level - goto_level = Level(stmt, l) - Level(stmt, g)
        /\ goto_level >= label_level /\ goto_level \in Nat /\ label_level \in Nat
    BY <1>1, <1>5 DEF MovingOK, InwardOK, AtLabelLevel
  <2> HIDE DEF g, l
  <2>3. x \in DOMAIN stmt /\ Level(stmt, x) = Level(stmt, g)
    <3>1. x \in DOMAIN stmt
      BY <1>2, ChainInPool
    <3> QED BY <1>2, <2>1, <3>1, LevelEquation
  <2>4. x = l \/ Level(stmt, x) < Level(stmt, l)
    BY <1>2, LevelsFall
  <2>5. x = l
    BY <1>2, <2>2, <2>3, <2>4
  <2> QED BY <1>1, <2>1, <2>5 DEF g, l
<1> QED BY <1>1, <1>4, <1>5

LEMMA EliminateKeeps ==
    ASSUME IInv, Eliminate
    PROVE  /\ IInv' /\ gotos' = gotos /\ step \in {"outward", "inward"} /\ step' = "next"
<1> DEFINE g == goto_stmt
           l == label_stmt
<1>0. /\ AtLabelLevel
      /\ EraseGoto \/ EliminateForward \/ EliminateBackward
      /\ goto_stmt' = 0 /\ gotos' = gotos /\ goto_level' = goto_level /\ label_level' = label_level
  BY DEF Eliminate
<1>1. TreeOK /\ WaitingOK /\ MovingOK /\ g # 0 /\ step \in {"outward", "inward"}
  BY <1>0, AtTheLabel DEF IInv
<1>2. /\ g \in GotosIn(stmt) /\ g \in DOMAIN stmt /\ g # Root /\ l \in DOMAIN stmt
      /\ stmt[g].label = l /\ l # Root
      /\ stmt[g].type = "Goto" /\ stmt[l].type = "Label"
  BY <1>1, TheGoto
<1>3. /\ stmt[l].up = stmt[g].up
      /\ NextToLabel \/ \A w : Contains(gotos, w) => Clear(stmt, g, w)
  BY <1>0, AtTheLabel
<1>4. /\ Siblings(stmt, g) = stmt[stmt[g].up].children /\ Siblings(stmt, l) = Siblings(stmt, g)
      /\ Siblings(stmt, g) \in Seq(DOMAIN stmt) /\ Once(Siblings(stmt, g))
      /\ Contains(Siblings(stmt, g), g) /\ Contains(Siblings(stmt, g), l) /\ g # l
  <2>1. /\ Siblings(stmt, g) = stmt[stmt[g].up].children
        /\ stmt[stmt[g].up].children \in Seq(DOMAIN stmt) /\ Once(stmt[stmt[g].up].children)
    BY <1>1, <1>2, ListOf DEF TreeOK
  <2>2. Contains(Siblings(stmt, l), l)
    BY <1>1, <1>2 DEF TreeOK, PoolOK, Lists
  <2>3. Siblings(stmt, l) = Siblings(stmt, g)
    BY <1>3 DEF Siblings
  <2> QED BY <1>2, <2>1, <2>2, <2>3 DEF GotosIn
<1>5. AreSiblings(stmt, g, l)
  BY <1>4 DEF AreSiblings
<1>6. AreOrdered(stmt, g, l) <=> Earlier(Siblings(stmt, g), g, l)
  <2> HIDE DEF g, l
  <2>1. AreOrdered(stmt, g, l) <=> Earlier(Siblings(stmt, l), g, l)
    BY <1>1, <1>2, <1>4, OrderedMeans DEF TreeOK
  <2> QED BY <1>4, <2>1
<1>7. \A w : Contains(gotos, w) => w \in DOMAIN stmt /\ Spine(stmt, w)
  BY <1>1, ContainedIn DEF WaitingOK
<1>8. PoolOK(stmt) /\ Numbered(stmt)
  BY <1>1 DEF TreeOK
<1>9. /\ step' = "next" /\ Numbered(stmt') /\ Keeps(stmt, stmt', {g})
      /\ \A n \in DOMAIN stmt' \ DOMAIN stmt : stmt'[n].type # "Goto"
      /\ \A w : Contains(gotos, w) => Spine(stmt', w)
  <2>1. CASE EraseGoto
    <3> DEFINE s2 == SetChildren(stmt, stmt[g].up, Before(stmt, g) \o After(stmt, g))
    <3>1. stmt' = s2 /\ step' = "next"
      BY <2>1 DEF EraseGoto
    <3>2. /\ Numbered(s2) /\ DOMAIN s2 = DOMAIN stmt /\ Keeps(stmt, s2, {g})
          /\ \A w \in DOMAIN stmt : Spine(stmt, w) => Spine(s2, w)
      BY <1>2, <1>8, EraseKeeps
    <3> HIDE DEF s2, g
    <3> QED BY <1>7, <3>1, <3>2
  <2>2. CASE EliminateForward
    <3> DEFINE s2 == EliminateAsConditional(stmt, g)
    <3>1. stmt' = s2 /\ step' = "next" /\ ~NextToLabel /\ AreOrdered(stmt, g, l)
      BY <2>2 DEF EliminateForward
    <3>2. stmt[stmt[g].label].up = stmt[g].up /\ Earlier(Siblings(stmt, g), g, stmt[g].label)
      BY <1>2, <1>3, <1>6, <3>1
    <3>3. /\ Numbered(s2) /\ Keeps(stmt, s2, {g})
          /\ \A n \in DOMAIN s2 \ DOMAIN stmt : s2[n].type = "If"
          /\ \A w \in DOMAIN stmt :
                /\ Spine(stmt, w)
                /\ \A e \in DOMAIN stmt :
                      Earlier(Siblings(stmt, g), g, e) => e \notin Chain(stmt, w)
                => Spine(s2, w)
      BY <1>2, <1>8, <3>2, ConditionalKeeps
    <3>4. \A w : Contains(gotos, w) => Clear(stmt, g, w)
      BY <1>3, <3>1
    <3> HIDE DEF s2, g, l
    <3> QED BY <1>7, <3>1, <3>3, <3>4 DEF Clear
  <2>3. CASE EliminateBackward
    <3> DEFINE s2 == EliminateAsLoop(stmt, g)
    <3>1. stmt' = s2 /\ step' = "next" /\ ~NextToLabel /\ ~AreOrdered(stmt, g, l)
      BY <1>5, <2>3 DEF EliminateBackward
    <3>2. Earlier(Siblings(stmt, g), l, g)
      <4> HIDE DEF g, l
      <4> QED BY <1>4, <1>6, <3>1, EarlierOrLater
    <3>3. stmt[stmt[g].label].up = stmt[g].up /\ Earlier(Siblings(stmt, g), stmt[g].label, g)
      BY <1>2, <1>3, <3>2
    <3>4. /\ Numbered(s2) /\ Keeps(stmt, s2, {g})
          /\ \A n \in DOMAIN s2 \ DOMAIN stmt : s2[n].type = "Loop"
          /\ \A w \in DOMAIN stmt :
                /\ Spine(stmt, w)
                /\ \A e \in DOMAIN stmt :
                      Earlier(Siblings(stmt, g), g, e) => e \notin Chain(stmt, w)
                => Spine(s2, w)
      BY <1>2, <1>8, <3>3, LoopKeeps
    <3>5. \A w : Contains(gotos, w) => Clear(stmt, g, w)
      BY <1>3, <3>1
    <3> HIDE DEF s2, g, l
    <3> QED BY <1>7, <3>1, <3>4, <3>5 DEF Clear
  <2> QED BY <1>0, <2>1, <2>2, <2>3
<1>10. TreeOK'
  BY <1>9 DEF TreeOK, Keeps
<1>11. WaitingOK'
  <2>1. \A x \in DOMAIN stmt' \ DOMAIN stmt :
            stmt'[x].type = "Goto" <=> (goto_stmt' # 0 /\ x = goto_stmt')
    BY <1>0, <1>9
  <2> QED BY <1>0, <1>1, <1>9, <2>1, WaitingKept
<1>12. MovingOK'
  <2>1. goto_level' \in Nat /\ label_level' \in Nat
    BY <1>0, <1>1 DEF MovingOK
  <2> QED BY <1>0, <1>9, <2>1 DEF MovingOK
<1> QED BY <1>0, <1>1, <1>9, <1>10, <1>11, <1>12 DEF IInv

-----------------------------------------------------------------------------
(* The flat tree                                                           *)

\* The number of statements of block b.
SizeOf(g, b) == IF TwoWay(g, b) THEN 5 ELSE 4

\* Where the statements of the blocks begin.
Follow(g, at) ==
    /\ Len(g) \in Nat
    /\ \A b \in 1 .. Len(g) + 1 : at[b] \in Nat
    /\ at[1] = Root + Len(g) + 1
    /\ \A b \in 1 .. Len(g) : b + 1 \in 1 .. Len(g) + 1 /\ at[b + 1] = at[b] + SizeOf(g, b)
    /\ \A b, c \in 1 .. Len(g) + 1 : b <= c => at[b] <= at[c]

LEMMA BlocksFollow ==
    ASSUME NEW g, Len(g) \in Nat
    PROVE  Follow(g, LabelStmts(g))
<1> DEFINE n == Len(g)
           at == LabelStmts(g)
           Two(b) == {c \in 1 .. b - 1 : TwoWay(g, c)}
           two(b) == Cardinality(Two(b))
<1>1. \A b \in 1 .. n + 1 : at[b] = Root + n + 1 + 4 * (b - 1) + two(b)
  BY DEF LabelStmts
<1>2. \A b \in 1 .. n + 1 : IsFiniteSet(Two(b)) /\ two(b) \in Nat
  <2> SUFFICES ASSUME NEW b \in 1 .. n + 1 PROVE IsFiniteSet(Two(b)) /\ two(b) \in Nat
    OBVIOUS
  <2>1. IsFiniteSet(1 .. b - 1)
    BY FS_Interval
  <2>2. Two(b) \in SUBSET (1 .. b - 1)
    OBVIOUS
  <2> HIDE DEF Two
  <2> QED BY <2>1, <2>2, FS_Subset, FS_CardinalityType
<1>3. \A b, c \in 1 .. n + 1 : b <= c => two(b) <= two(c)
  <2> SUFFICES ASSUME NEW b \in 1 .. n + 1, NEW c \in 1 .. n + 1, b <= c PROVE two(b) <= two(c)
    OBVIOUS
  <2>1. Two(b) \in SUBSET Two(c)
    OBVIOUS
  <2> HIDE DEF Two
  <2> QED BY <1>2, <2>1, FS_Subset
<1>4. two(1) = 0
  <2>1. Two(1) = {}
    OBVIOUS
  <2> QED BY <2>1, FS_EmptySet
<1>5. \A b \in 1 .. n : two(b + 1) = two(b) + (IF TwoWay(g, b) THEN 1 ELSE 0)
  <2> SUFFICES ASSUME NEW b \in 1 .. n
               PROVE  two(b + 1) = two(b) + (IF TwoWay(g, b) THEN 1 ELSE 0)
    OBVIOUS
  <2>1. Two(b + 1) = IF TwoWay(g, b) THEN Two(b) \cup {b} ELSE Two(b)
    OBVIOUS
  <2>2. b \notin Two(b) /\ b \in 1 .. n + 1
    OBVIOUS
  <2> HIDE DEF Two
  <2> QED BY <1>2, <2>1, <2>2, FS_AddElement
<1> HIDE DEF at, Two
<1>6. \A b \in 1 .. n + 1 : at[b] \in Nat
  BY <1>1, <1>2 DEF Root
<1>7. at[1] = Root + n + 1
  BY <1>1, <1>4 DEF Root
<1>8. ASSUME NEW b \in 1 .. n
      PROVE  b + 1 \in 1 .. n + 1 /\ at[b + 1] = at[b] + SizeOf(g, b)
  <2>1. b + 1 \in 1 .. n + 1 /\ b \in 1 .. n + 1
    OBVIOUS
  <2>2. /\ at[b + 1] = Root + n + 1 + 4 * b + two(b + 1)
        /\ at[b] = Root + n + 1 + 4 * (b - 1) + two(b)
        /\ two(b) \in Nat /\ two(b + 1) \in Nat
    BY <1>1, <1>2, <2>1
  <2>3. two(b + 1) = two(b) + (IF TwoWay(g, b) THEN 1 ELSE 0)
    BY <1>5
  <2> QED BY <2>1, <2>2, <2>3 DEF SizeOf, Root
<1>9. ASSUME NEW b \in 1 .. n + 1, NEW c \in 1 .. n + 1, b <= c PROVE at[b] <= at[c]
  BY <1>1, <1>2, <1>3, <1>9 DEF Root
<1> QED BY <1>6, <1>7, <1>8, <1>9 DEF Follow, at

\* Each statement after the resets belongs to one block.
LEMMA OneBlockEach ==
    ASSUME NEW g, NEW at, Follow(g, at), NEW s, s \in at[1] .. at[Len(g) + 1] - 1
    PROVE  /\ \E b \in 1 .. Len(g) : s \in at[b] .. at[b + 1] - 1
           /\ \A b, c \in 1 .. Len(g) :
                 s \in at[b] .. at[b + 1] - 1 /\ s \in at[c] .. at[c + 1] - 1 => b = c
<1> DEFINE n == Len(g)
           S == {b \in 1 .. n + 1 : s < at[b]}
<1> USE DEF Follow
<1>1. n + 1 \in S /\ S \subseteq Nat /\ S # {} /\ s \in Int
  BY DEF Root
<1> HIDE DEF S
<1>2. PICK m \in S : \A k \in S : m <= k
  BY <1>1, NatMin
<1>3. m \in 1 .. n + 1 /\ s < at[m] /\ m # 1
  BY <1>1, <1>2 DEF S
<1>4. m - 1 \in 1 .. n /\ (m - 1) + 1 = m /\ m - 1 \in 1 .. n + 1
  BY <1>3
<1>5. ~(s < at[m - 1])
  BY <1>2, <1>3, <1>4 DEF S
<1>6. s \in at[m - 1] .. at[(m - 1) + 1] - 1
  <2>1. at[m - 1] \in Nat /\ at[m] \in Nat
    BY <1>3, <1>4
  <2> DEFINE a == at[m - 1]
             z == at[m]
  <2>2. a \in Nat /\ z \in Nat /\ s < z /\ ~(s < a)
    BY <1>3, <1>5, <2>1
  <2> HIDE DEF a, z
  <2>3. s \in a .. z - 1
    BY <1>1, <2>2
  <2> QED BY <1>4, <2>3 DEF a, z
<1>7. ASSUME NEW b \in 1 .. n, NEW c \in 1 .. n, b < c,
             s \in at[b] .. at[b + 1] - 1, s \in at[c] .. at[c + 1] - 1
      PROVE  FALSE
  <2>1. b + 1 <= c /\ b + 1 \in 1 .. n + 1 /\ c \in 1 .. n + 1
    BY <1>7
  <2>2. at[b + 1] <= at[c] /\ at[b + 1] \in Nat /\ at[c] \in Nat
    BY <2>1
  <2> QED BY <1>1, <1>7, <2>2
<1>8. \A b, c \in 1 .. n : b < c \/ c < b \/ b = c
  OBVIOUS
<1> QED BY <1>4, <1>6, <1>7, <1>8

\* What is inserted for one block.
Flat(r, at, n) ==
    /\ r.type \in {"Label", "SetVariable", "Code", "Return", "Goto"} /\ r.up = Root
    /\ Complete(r)
    /\ r.type = "Goto" => \E t \in 1 .. n : r.label = at[t]

\* The code of block b.
CodeOf(r, b) == r.type = "Code" /\ "block" \in DOMAIN r /\ r.block = b

LEMMA OneBlock ==
    ASSUME NEW g, TargetsAreBlocks(g), NEW at, NEW b \in 1 .. Len(g), NEW k \in 1 .. SizeOf(g, b)
    PROVE  /\ Flat(BlockStmts(g, b, at)[k], at, Len(g))
           /\ k = 1 => BlockStmts(g, b, at)[k].type = "Label"
           /\ k = 2 => BlockStmts(g, b, at)[k].type = "SetVariable"
           /\ k # 1 => BlockStmts(g, b, at)[k].type # "Label"
           /\ k = 3 => CodeOf(BlockStmts(g, b, at)[k], b)
           /\ k # 3 => BlockStmts(g, b, at)[k].type # "Code"
<1> DEFINE n == Len(g)
           F(r) == Flat(r, at, n) /\ r.type # "Label" /\ r.type # "Code"
           T == Terminators(g, b, at)
           X == <<[type |-> "Label", up |-> Root, id |-> b - 1], ResetVariable(b),
                  [type |-> "Code", up |-> Root, block |-> b]>>
           H == {X[1], X[2], X[3], T[1], T[2]}
<1>1. /\ g[b].end_class \in {"Branch", "Exit"} /\ n \in Nat
      /\ g[b].branch_true \in 0 .. n /\ g[b].branch_false \in 0 .. n
      /\ g[b].end_class = "Branch" =>
          /\ g[b].cond # "False" => g[b].branch_true \in 1 .. n
          /\ g[b].cond # "True" => g[b].branch_false \in 1 .. n
  <2> DEFINE R == [end_class : {"Branch", "Exit"}, cond : {"True", "False", "Guest"},
                   branch_true : 0 .. Len(g), branch_false : 0 .. Len(g)]
  <2>1. g \in Seq(R)
    BY DEF TargetsAreBlocks
  <2>2. g[b] \in R /\ n \in Nat
    <3> HIDE DEF R
    <3> QED BY <2>1, ElementOfSeq, LenProperties
  <2>3. /\ g[b].end_class \in {"Branch", "Exit"}
        /\ g[b].branch_true \in 0 .. n /\ g[b].branch_false \in 0 .. n
    BY <2>2
  <2>4. g[b].end_class = "Branch" =>
           /\ g[b].cond # "False" => g[b].branch_true # 0
           /\ g[b].cond # "True" => g[b].branch_false # 0
    BY DEF TargetsAreBlocks
  <2>5. \A t \in 0 .. n : t # 0 => t \in 1 .. n
    BY <2>2
  <2> HIDE DEF R
  <2> QED BY <2>2, <2>3, <2>4, <2>5
<1>2. \A c, t : LET r == [type |-> "Goto", up |-> Root, cond |-> c, label |-> at[t]]
                IN  t \in 1 .. n => F(r)
  BY DEF Flat, Complete
<1>3. F([type |-> "Return", up |-> Root])
  BY DEF Flat, Complete
<1>4. \/ ~TwoWay(g, b) /\ T = <<T[1]>> /\ F(T[1])
      \/ TwoWay(g, b) /\ T = <<T[1], T[2]>> /\ F(T[1]) /\ F(T[2])
  <2> DEFINE G(c, t) == [type |-> "Goto", up |-> Root, cond |-> c, label |-> at[t]]
  <2>1. CASE g[b].end_class = "Exit"
    <3>1. T = <<[type |-> "Return", up |-> Root]>> /\ ~TwoWay(g, b)
      BY <2>1 DEF Terminators, TwoWay
    <3> QED BY <1>3, <3>1
  <2>2. CASE TwoWay(g, b)
    <3>1. T = <<G(Guest, g[b].branch_true), G(True, g[b].branch_false)>>
      BY <2>2 DEF Terminators, TwoWay
    <3>2. g[b].branch_true \in 1 .. n /\ g[b].branch_false \in 1 .. n
      BY <1>1, <2>2 DEF TwoWay
    <3>3. F(G(Guest, g[b].branch_true)) /\ F(G(True, g[b].branch_false))
      BY <1>2, <3>2
    <3> QED BY <2>2, <3>1, <3>3
  <2>3. CASE g[b].end_class = "Branch" /\ g[b].cond = "True"
    <3>1. T = <<G(True, g[b].branch_true)>> /\ ~TwoWay(g, b)
      BY <2>3 DEF Terminators, TwoWay
    <3>2. F(G(True, g[b].branch_true))
      BY <1>1, <1>2, <2>3
    <3> QED BY <3>1, <3>2
  <2>4. CASE g[b].end_class = "Branch" /\ g[b].cond = "False"
    <3>1. T = <<G(True, g[b].branch_false)>> /\ ~TwoWay(g, b)
      BY <2>4 DEF Terminators, TwoWay
    <3>2. F(G(True, g[b].branch_false))
      BY <1>1, <1>2, <2>4
    <3> QED BY <3>1, <3>2
  <2> QED BY <1>1, <2>1, <2>2, <2>3, <2>4 DEF TwoWay
<1>5. X \in Seq(H) /\ Len(X) = 3 /\ \A i \in 1 .. 3 : Flat(X[i], at, n)
  <2>1. Flat(X[1], at, n) /\ Flat(X[2], at, n) /\ Flat(X[3], at, n)
    BY DEF Flat, Complete, ResetVariable
  <2>2. Len(X) = 3
    OBVIOUS
  <2>3. X \in Seq(H)
    OBVIOUS
  <2>4. \A i \in 1 .. 3 : i = 1 \/ i = 2 \/ i = 3
    OBVIOUS
  <2> HIDE DEF X
  <2> QED BY <2>1, <2>2, <2>3, <2>4
<1>6. X[1].type = "Label" /\ X[2].type = "SetVariable" /\ X[3].type = "Code" /\ CodeOf(X[3], b)
  BY DEF ResetVariable, CodeOf
<1> HIDE DEF X
<1>7. T \in Seq(H) /\ Len(T) = SizeOf(g, b) - 3 /\ \A i \in 1 .. Len(T) : F(T[i])
  <2> DEFINE u == T[1]
             v == T[2]
  <2>2. <<u>> \in Seq(H) /\ <<u, v>> \in Seq(H) /\ Len(<<u>>) = 1 /\ Len(<<u, v>>) = 2
    OBVIOUS
  <2> HIDE DEF T, H
  <2>3. CASE ~TwoWay(g, b)
    <3>1. T = <<u>> /\ F(T[1]) /\ SizeOf(g, b) = 4
      BY <1>4, <2>3 DEF SizeOf
    <3>2. Len(T) = 1 /\ T \in Seq(H)
      BY <2>2, <3>1
    <3>3. \A i \in 1 .. 1 : i = 1
      OBVIOUS
    <3> QED BY <3>1, <3>2, <3>3
  <2>4. CASE TwoWay(g, b)
    <3>1. T = <<u, v>> /\ F(T[1]) /\ F(T[2]) /\ SizeOf(g, b) = 5
      BY <1>4, <2>4 DEF SizeOf
    <3>2. Len(T) = 2 /\ T \in Seq(H)
      BY <2>2, <3>1
    <3>3. \A i \in 1 .. 2 : i = 1 \/ i = 2
      OBVIOUS
    <3> QED BY <3>1, <3>2, <3>3
  <2> QED BY <2>3, <2>4
<1> HIDE DEF T, H
<1>8. BlockStmts(g, b, at) = X \o T
  BY DEF BlockStmts, X, T
<1>9. SizeOf(g, b) \in {4, 5}
  BY DEF SizeOf
<1>10. \A i \in 1 .. SizeOf(g, b) : (X \o T)[i] = IF i <= 3 THEN X[i] ELSE T[i - 3]
  <2>1. Len(X) = 3 /\ Len(T) = SizeOf(g, b) - 3 /\ X \in Seq(H) /\ T \in Seq(H)
    BY <1>5, <1>7
  <2>2. Len(X) + Len(T) = SizeOf(g, b)
    BY <1>9, <2>1
  <2>3. \A i \in 1 .. Len(X) + Len(T) :
            (X \o T)[i] = IF i <= Len(X) THEN X[i] ELSE T[i - Len(X)]
    BY <2>1, ConcatProperties
  <2> QED BY <2>1, <2>2, <2>3
<1>11. k \in 1 .. SizeOf(g, b) /\ k \in Int
  BY <1>9
<1>12. CASE k <= 3
  <2>1. k \in 1 .. 3
    BY <1>11, <1>12
  <2>2. (X \o T)[k] = X[k]
    BY <1>10, <1>11, <1>12
  <2>3. BlockStmts(g, b, at)[k] = X[k]
    BY <1>8, <2>2
  <2>4. k = 1 \/ k = 2 \/ k = 3
    BY <2>1
  <2> QED BY <1>5, <1>6, <2>1, <2>3, <2>4
<1>13. CASE ~(k <= 3)
  <2>1. k - 3 \in 1 .. SizeOf(g, b) - 3 /\ k # 1 /\ k # 2 /\ k # 3
    BY <1>9, <1>11, <1>13
  <2>2. BlockStmts(g, b, at)[k] = T[k - 3]
    BY <1>8, <1>10, <1>11, <1>13
  <2> QED BY <1>7, <2>1, <2>2
<1> QED BY <1>12, <1>13

\* A root and m - 1 statements that are all in its list, in order.
FlatPool(st, m) ==
    /\ m \in Nat /\ Root \in 1 .. m
    /\ Numbered(st) /\ Len(st) = m /\ DOMAIN st = 1 .. m
    /\ st[Root].type = "Function" /\ st[Root].up = 0 /\ Complete(st[Root])
    /\ st[Root].children = [i \in 1 .. m - 1 |-> i + 1]
    /\ \A s \in 2 .. m :
          /\ st[s].type \in {"Label", "SetVariable", "Code", "Return", "Goto"}
          /\ st[s].up = Root /\ Complete(st[s])
          /\ st[s].type = "Goto" => st[s].label \in 2 .. m /\ st[st[s].label].type = "Label"

\* A label is followed by the reset of its variable, and of the n blocks the list begins
\* with the reset of one.
Resets(st, m, n) ==
    /\ \A s \in 2 .. m :
          st[s].type = "Label" => s < m /\ st[s + 1].type = "SetVariable"
    /\ n # 0 => m > 1 /\ st[2].type = "SetVariable"

\* Each of the n blocks has its code, in the order of the blocks.
CodePerBlock(st, m, n) ==
    /\ \A s \in 2 .. m : st[s].type = "Code" => \E b \in 1 .. n : CodeOf(st[s], b)
    /\ \A b \in 1 .. n : \E s \in 2 .. m : CodeOf(st[s], b)
    /\ \A s, t \in 2 .. m : st[s].type = "Code" /\ st[t].type = "Code" /\ s < t =>
          st[s].block < st[t].block

LEMMA TheTreeIsFlat ==
    ASSUME NEW g, TargetsAreBlocks(g)
    PROVE  \E m : /\ FlatPool(BuildTree(g), m) /\ Resets(BuildTree(g), m, Len(g))
                  /\ CodePerBlock(BuildTree(g), m, Len(g))
<1> DEFINE n == Len(g)
           at == LabelStmts(g)
           m == at[n + 1] - 1
           BlockOf(s) == CHOOSE b \in 1 .. n : s \in at[b] .. at[b + 1] - 1
           root == [type |-> "Function", up |-> 0, children |-> [i \in 1 .. m - Root |-> i + Root]]
           st == BuildTree(g)
<1>1. n \in Nat
  BY LenProperties DEF TargetsAreBlocks
<1>2. Follow(g, at)
  BY <1>1, BlocksFollow
<1>3. st = [s \in 1 .. m |->
              CASE s = Root -> root
                [] s # Root /\ s < at[1] -> ResetVariable(at[1] - s)
                [] OTHER -> BlockStmts(g, BlockOf(s), at)[s - at[BlockOf(s)] + 1]]
  BY DEF BuildTree, FlatTree
<1> HIDE DEF at
<1>4. m \in Nat /\ at[1] = n + 2 /\ at[1] <= m + 1 /\ Root \in 1 .. m
  <2>1. 1 \in 1 .. n + 1 /\ n + 1 \in 1 .. n + 1 /\ 1 <= n + 1
    BY <1>1
  <2>2. at[1] <= at[n + 1] /\ at[n + 1] \in Nat
    BY <1>2, <2>1 DEF Follow
  <2>3. at[1] = n + 2
    BY <1>1, <1>2 DEF Follow, Root
  <2> QED BY <1>1, <2>2, <2>3 DEF Root
<1>5. ASSUME NEW s \in at[1] .. m, NEW b \in 1 .. n, s \in at[b] .. at[b + 1] - 1
      PROVE  st[s] = BlockStmts(g, b, at)[s - at[b] + 1]
  <2>1. BlockOf(s) = b
    <3>1. \A c \in 1 .. n : s \in at[c] .. at[c + 1] - 1 => c = b
      BY <1>2, <1>5, OneBlockEach
    <3> QED BY <1>5, <3>1
  <2>2. s \in 1 .. m /\ s # Root /\ ~(s < at[1])
    BY <1>1, <1>4 DEF Root
  <2> HIDE DEF BlockOf, root
  <2> QED BY <1>3, <2>1, <2>2
<1>6. ASSUME NEW s \in 2 .. m, s < at[1] PROVE st[s] = ResetVariable(at[1] - s)
  <2>1. s \in 1 .. m /\ s # Root
    BY DEF Root
  <2> HIDE DEF BlockOf, root
  <2> QED BY <1>3, <1>6, <2>1
<1>7. st[Root] = root
  <2> HIDE DEF BlockOf, root
  <2> QED BY <1>3, <1>4
<1>8. Numbered(st) /\ Len(st) = m /\ DOMAIN st = 1 .. m
  <2>1. st = [x \in 1 .. m |-> st[x]]
    BY <1>3
  <2> HIDE DEF st, m
  <2> QED BY <1>4, <2>1, NumberPool
<1> HIDE DEF st, m, BlockOf
<1>9. ASSUME NEW b \in 1 .. n
      PROVE  \A s \in at[b] .. at[b + 1] - 1 :
                /\ s \in at[1] .. m /\ s - at[b] + 1 \in 1 .. SizeOf(g, b)
                /\ Flat(st[s], at, n)
                /\ s = at[b] => st[s].type = "Label"
                /\ s # at[b] => st[s].type # "Label"
                /\ s = at[b] + 1 => st[s].type = "SetVariable"
                /\ s = at[b] + 2 => CodeOf(st[s], b)
                /\ s # at[b] + 2 => st[s].type # "Code"
  <2> SUFFICES ASSUME NEW s \in at[b] .. at[b + 1] - 1
               PROVE  /\ s \in at[1] .. m /\ s - at[b] + 1 \in 1 .. SizeOf(g, b)
                      /\ Flat(st[s], at, n)
                      /\ s = at[b] => st[s].type = "Label"
                      /\ s # at[b] => st[s].type # "Label"
                      /\ s = at[b] + 1 => st[s].type = "SetVariable"
                      /\ s = at[b] + 2 => CodeOf(st[s], b)
                      /\ s # at[b] + 2 => st[s].type # "Code"
    OBVIOUS
  <2>0. /\ 1 \in 1 .. n + 1 /\ b \in 1 .. n + 1 /\ b + 1 \in 1 .. n + 1 /\ n + 1 \in 1 .. n + 1
        /\ 1 <= b /\ b + 1 <= n + 1
    BY <1>1
  <2>1. at[1] <= at[b] /\ at[b + 1] <= at[n + 1]
    BY <1>2, <2>0 DEF Follow
  <2>2. at[1] \in Nat /\ at[b] \in Nat /\ at[b + 1] \in Nat /\ at[n + 1] \in Nat
    BY <1>2, <2>0 DEF Follow
  <2>3. at[b + 1] = at[b] + SizeOf(g, b) /\ SizeOf(g, b) \in Nat
    BY <1>2 DEF Follow, SizeOf
  <2>4. s \in Int /\ at[b] <= s /\ s <= at[b + 1] - 1
    BY <2>2
  <2>5. s \in at[1] .. m
    BY <2>1, <2>2, <2>4 DEF m
  <2>6. s - at[b] + 1 \in 1 .. SizeOf(g, b)
    <3> DEFINE a == at[b]
               z == at[b + 1]
               k == SizeOf(g, b)
    <3>1. a \in Nat /\ k \in Nat /\ z = a + k /\ s \in Int /\ a <= s /\ s <= z - 1
      BY <2>2, <2>3, <2>4
    <3> HIDE DEF a, z, k
    <3>2. s - a + 1 \in 1 .. k
      BY <3>1
    <3> QED BY <3>2 DEF a, k
  <2>7. st[s] = BlockStmts(g, b, at)[s - at[b] + 1]
    BY <1>5, <2>5
  <2>8. /\ s = at[b] <=> s - at[b] + 1 = 1
        /\ s = at[b] + 1 <=> s - at[b] + 1 = 2
        /\ s = at[b] + 2 <=> s - at[b] + 1 = 3
    <3> DEFINE a == at[b]
    <3>1. a \in Nat /\ s \in Int
      BY <2>2, <2>4
    <3> HIDE DEF a
    <3>2. /\ s = a <=> s - a + 1 = 1
          /\ s = a + 1 <=> s - a + 1 = 2
          /\ s = a + 2 <=> s - a + 1 = 3
      BY ONLY <3>1
    <3> QED BY <3>2 DEF a
  <2>9. /\ Flat(BlockStmts(g, b, at)[s - at[b] + 1], at, n)
        /\ s - at[b] + 1 = 1 => BlockStmts(g, b, at)[s - at[b] + 1].type = "Label"
        /\ s - at[b] + 1 = 2 => BlockStmts(g, b, at)[s - at[b] + 1].type = "SetVariable"
        /\ s - at[b] + 1 # 1 => BlockStmts(g, b, at)[s - at[b] + 1].type # "Label"
        /\ s - at[b] + 1 = 3 => CodeOf(BlockStmts(g, b, at)[s - at[b] + 1], b)
        /\ s - at[b] + 1 # 3 => BlockStmts(g, b, at)[s - at[b] + 1].type # "Code"
    BY <2>6, OneBlock
  <2> QED BY <2>5, <2>6, <2>7, <2>8, <2>9
<1>10. ASSUME NEW t \in 1 .. n PROVE at[t] \in 2 .. m /\ st[at[t]].type = "Label"
  <2>1. t \in 1 .. n + 1 /\ at[t] \in Nat /\ at[t + 1] = at[t] + SizeOf(g, t)
    BY <1>1, <1>2 DEF Follow
  <2>2. at[t] \in at[t] .. at[t + 1] - 1
    BY <2>1 DEF SizeOf
  <2>3. at[t] \in at[1] .. m /\ st[at[t]].type = "Label"
    BY <1>9, <2>2
  <2> QED BY <1>1, <1>4, <2>3
<1>11. ASSUME NEW s \in 2 .. m PROVE Flat(st[s], at, n)
  <2>1. CASE s < at[1]
    <3>1. \A b : Flat(ResetVariable(b), at, n)
      BY DEF Flat, Complete, ResetVariable
    <3> QED BY <1>6, <2>1, <3>1
  <2>2. CASE ~(s < at[1])
    <3>1. s \in at[1] .. at[n + 1] - 1
      BY <1>1, <1>4, <2>2 DEF m
    <3>2. PICK b \in 1 .. n : s \in at[b] .. at[b + 1] - 1
      BY <1>2, <3>1, OneBlockEach
    <3> QED BY <1>9, <3>2
  <2> QED BY <2>1, <2>2
<1>12. /\ st[Root].type = "Function" /\ st[Root].up = 0 /\ Complete(st[Root])
       /\ st[Root].children = [i \in 1 .. m - 1 |-> i + 1]
  BY <1>7 DEF Complete, Root
<1>13. FlatPool(st, m)
  <2>1. ASSUME NEW s \in 2 .. m
        PROVE  /\ st[s].type \in {"Label", "SetVariable", "Code", "Return", "Goto"}
               /\ st[s].up = Root /\ Complete(st[s])
               /\ st[s].type = "Goto" =>
                     st[s].label \in 2 .. m /\ st[st[s].label].type = "Label"
    <3>1. Flat(st[s], at, n)
      BY <1>11
    <3> QED BY <1>10, <3>1 DEF Flat
  <2> HIDE DEF Complete
  <2> QED BY <1>4, <1>8, <1>12, <2>1 DEF FlatPool
<1>14. Resets(st, m, n)
  <2>1. ASSUME NEW s \in 2 .. m, st[s].type = "Label"
        PROVE  s < m /\ st[s + 1].type = "SetVariable"
    <3>1. ~(s < at[1])
      <4>1. \A b : ResetVariable(b).type = "SetVariable"
        BY DEF ResetVariable
      <4> QED BY <1>6, <2>1, <4>1
    <3>2. s \in at[1] .. at[n + 1] - 1
      BY <1>1, <1>4, <3>1 DEF m
    <3>3. PICK b \in 1 .. n : s \in at[b] .. at[b + 1] - 1
      BY <1>2, <3>2, OneBlockEach
    <3>4. s = at[b]
      BY <1>9, <2>1, <3>3
    <3>5. at[b] \in Nat /\ at[b + 1] = at[b] + SizeOf(g, b) /\ SizeOf(g, b) \in {4, 5}
      BY <1>1, <1>2 DEF Follow, SizeOf
    <3>6. s + 1 \in at[b] .. at[b + 1] - 1 /\ s + 1 = at[b] + 1
      BY <3>4, <3>5
    <3>7. s + 1 \in at[1] .. m /\ st[s + 1].type = "SetVariable"
      BY <1>9, <3>6
    <3> QED BY <1>4, <3>7
  <2>2. ASSUME n # 0 PROVE m > 1 /\ st[2].type = "SetVariable"
    <3>1. m > 1 /\ 2 \in 2 .. m /\ 2 < at[1]
      BY <1>1, <1>4, <2>2
    <3>2. st[2] = ResetVariable(at[1] - 2)
      BY <1>6, <3>1
    <3>3. \A b : ResetVariable(b).type = "SetVariable"
      BY DEF ResetVariable
    <3> QED BY <3>1, <3>2, <3>3
  <2> QED BY <2>1, <2>2 DEF Resets
<1>15. ASSUME NEW s \in 2 .. m, st[s].type = "Code"
       PROVE  \E b \in 1 .. n : s = at[b] + 2 /\ CodeOf(st[s], b)
  <2>1. ~(s < at[1])
    <3>1. \A b : ResetVariable(b).type = "SetVariable"
      BY DEF ResetVariable
    <3> QED BY <1>6, <1>15, <3>1
  <2>2. s \in at[1] .. at[n + 1] - 1
    BY <1>1, <1>4, <2>1 DEF m
  <2>3. PICK b \in 1 .. n : s \in at[b] .. at[b + 1] - 1
    BY <1>2, <2>2, OneBlockEach
  <2>4. s = at[b] + 2 /\ CodeOf(st[s], b)
    BY <1>9, <1>15, <2>3
  <2> QED BY <2>4
<1>16. ASSUME NEW b \in 1 .. n PROVE at[b] + 2 \in 2 .. m /\ CodeOf(st[at[b] + 2], b)
  <2>1. b \in 1 .. n + 1 /\ at[b] \in Nat /\ at[b + 1] = at[b] + SizeOf(g, b)
    BY <1>1, <1>2 DEF Follow
  <2>2. at[b] + 2 \in at[b] .. at[b + 1] - 1
    BY <2>1 DEF SizeOf
  <2>3. at[b] + 2 \in at[1] .. m /\ CodeOf(st[at[b] + 2], b)
    BY <1>9, <2>2
  <2> QED BY <1>1, <1>4, <2>3
<1>17. CodePerBlock(st, m, n)
  <2>1. ASSUME NEW s \in 2 .. m, NEW t \in 2 .. m, st[s].type = "Code", st[t].type = "Code", s < t
        PROVE  st[s].block < st[t].block
    <3>1. PICK b \in 1 .. n : s = at[b] + 2 /\ CodeOf(st[s], b)
      BY <1>15, <2>1
    <3>2. PICK c \in 1 .. n : t = at[c] + 2 /\ CodeOf(st[t], c)
      BY <1>15, <2>1
    <3>3. at[b] \in Nat /\ at[c] \in Nat /\ (c <= b => at[c] <= at[b])
      <4>1. b \in 1 .. n + 1 /\ c \in 1 .. n + 1
        BY <1>1
      <4> QED BY <1>2, <4>1 DEF Follow
    <3>4. ~(c <= b)
      BY <2>1, <3>1, <3>2, <3>3
    <3> QED BY <3>1, <3>2, <3>4 DEF CodeOf
  <2> QED BY <1>15, <1>16, <2>1 DEF CodePerBlock
<1> QED BY <1>13, <1>14, <1>17 DEF st

\* Ascending lists the numbers of a finite set in ascending order, each once.
LEMMA AscendingLists ==
    ASSUME NEW S, S \subseteq Nat, IsFiniteSet(S)
    PROVE  /\ Ascending(S) \in Seq(S)
           /\ \A a : Contains(Ascending(S), a) <=> a \in S
           /\ \A a, b : Earlier(Ascending(S), a, b) => a < b
<1> DEFINE n == Cardinality(S)
           Below(a) == {b \in S : b < a}
           rank(a) == Cardinality(Below(a))
<1>0. \A a \in S : a \in Int
  OBVIOUS
<1>1. n \in Nat
  BY FS_CardinalityType
<1>2. \A a \in S : /\ IsFiniteSet(Below(a)) /\ rank(a) \in Nat /\ rank(a) < n
  <2> SUFFICES ASSUME NEW a \in S
               PROVE  IsFiniteSet(Below(a)) /\ rank(a) \in Nat /\ rank(a) < n
    OBVIOUS
  <2>1. Below(a) \in SUBSET S /\ a \notin Below(a)
    OBVIOUS
  <2> HIDE DEF Below
  <2>2. IsFiniteSet(Below(a)) /\ rank(a) <= n /\ (n = rank(a) => S = Below(a))
    BY <2>1, FS_Subset
  <2>3. rank(a) \in Nat
    BY <2>2, FS_CardinalityType
  <2> QED BY <1>1, <2>1, <2>2, <2>3
<1>3. \A a, b \in S : a < b => rank(a) < rank(b)
  <2> SUFFICES ASSUME NEW a \in S, NEW b \in S, a < b PROVE rank(a) < rank(b)
    OBVIOUS
  <2>1. Below(a) \in SUBSET Below(b) /\ a \in Below(b) /\ a \notin Below(a)
    <3>1. a \in Int /\ b \in Int /\ ~(a < a)
      BY <1>0
    <3>2. \A c \in S : c < a => c < b
      BY <1>0, <3>1
    <3> QED BY <3>1, <3>2
  <2>2. IsFiniteSet(Below(b)) /\ rank(a) \in Nat /\ rank(b) \in Nat
    BY <1>2
  <2> HIDE DEF Below
  <2>3. rank(a) <= rank(b) /\ (rank(b) = rank(a) => Below(b) = Below(a))
    BY <2>1, <2>2, FS_Subset
  <2> QED BY <2>1, <2>2, <2>3
<1>4. \A k \in 1 .. n : \E a \in S : rank(a) = k - 1
  <2> DEFINE Unranked == {k \in 1 .. n : ~ \E a \in S : rank(a) = k - 1}
  <2> SUFFICES ASSUME Unranked # {} PROVE FALSE
    OBVIOUS
  <2>1. PICK k \in Unranked : \A j \in Unranked : k <= j
    <3>1. Unranked \subseteq Nat
      BY <1>1
    <3> HIDE DEF Unranked
    <3> QED BY <3>1, NatMin
  <2>2. k \in 1 .. n /\ \A a \in S : rank(a) # k - 1
    OBVIOUS
  <2>3. CASE k = 1
    <3>1. S # {}
      BY <1>1, <2>2, FS_EmptySet
    <3>2. PICK a \in S : \A b \in S : a <= b
      BY <3>1, NatMin
    <3>3. Below(a) = {}
      <4>1. \A b \in S : a \in Int /\ b \in Int /\ a <= b
        BY <1>0, <3>2
      <4>2. \A b \in S : ~(b < a)
        BY <4>1
      <4> QED BY <4>2
    <3>4. rank(a) = 0
      BY <3>3, FS_EmptySet
    <3> QED BY <2>2, <2>3, <3>4
  <2>4. CASE k # 1
    <3>1. k - 1 \in 1 .. n /\ ~(k <= k - 1)
      BY <1>1, <2>2, <2>4
    <3>2. PICK a \in S : rank(a) = (k - 1) - 1
      <4>1. k - 1 \notin Unranked
        BY <2>1, <3>1
      <4> QED BY <3>1, <4>1
    <3> DEFINE Above == {b \in S : a < b}
    <3>3. S = (Below(a) \cup {a}) \cup Above
      <4>1. \A b \in S : b < a \/ b = a \/ a < b
        BY <1>0
      <4> QED BY <4>1
    <3>4. IsFiniteSet(Below(a) \cup {a}) /\ Cardinality(Below(a) \cup {a}) = k - 1
      <4>1. IsFiniteSet(Below(a)) /\ a \notin Below(a)
        BY <1>2
      <4> HIDE DEF Below
      <4>2. IsFiniteSet(Below(a) \cup {a}) /\ Cardinality(Below(a) \cup {a}) = rank(a) + 1
        BY <4>1, FS_AddElement
      <4> QED BY <3>1, <3>2, <4>2
    <3>5. Above # {}
      <4> SUFFICES ASSUME Above = {} PROVE FALSE
        OBVIOUS
      <4>1. S = Below(a) \cup {a}
        BY <3>3
      <4>2. n = k - 1
        BY <3>4, <4>1
      <4> QED BY <2>2, <4>2, <1>1
    <3>6. PICK b \in Above : \A c \in Above : b <= c
      <4>1. Above \subseteq Nat
        OBVIOUS
      <4> HIDE DEF Above
      <4> QED BY <3>5, <4>1, NatMin
    <3>7. Below(b) = Below(a) \cup {a}
      <4>1. Below(a) \cup {a} \subseteq Below(b)
        <5>1. a \in Int /\ b \in Int /\ a < b /\ a \in S
          BY <1>0
        <5>2. \A c \in S : c < a => c < b
          BY <1>0, <5>1
        <5> QED BY <5>1, <5>2
      <4>2. \A c \in Below(b) : c \notin Above
        BY <3>6
      <4> QED BY <3>3, <4>1, <4>2
    <3>8. rank(b) = k - 1
      BY <3>4, <3>7
    <3> QED BY <2>2, <3>8
  <2> QED BY <2>3, <2>4
<1> DEFINE s == Ascending(S)
<1>5. /\ DOMAIN s = 1 .. n
      /\ \A k \in 1 .. n : s[k] \in S /\ rank(s[k]) = k - 1
  <2>1. s = [k \in 1 .. n |-> CHOOSE a \in S : rank(a) = k - 1]
    BY DEF Ascending
  <2> HIDE DEF s, rank
  <2>2. \A k \in 1 .. n : s[k] = CHOOSE a \in S : rank(a) = k - 1
    BY <2>1
  <2> QED BY <1>4, <2>1, <2>2
<1>6. s \in Seq(S) /\ Len(s) = n
  <2>1. Ascending(S) = [k \in 1 .. n |-> CHOOSE a \in S : rank(a) = k - 1]
    BY DEF Ascending
  <2>2. s \in [1 .. n -> S]
    <3>1. s = [k \in 1 .. n |-> s[k]]
      BY <2>1
    <3> HIDE DEF s, rank
    <3> QED BY <1>5, <3>1
  <2> HIDE DEF s
  <2>3. s \in Seq(S)
    BY <1>1, <2>2, SeqDef
  <2> QED BY <1>1, <1>5, <2>3, LenProperties
<1>7. \A i, j \in 1 .. n : i < j => s[i] < s[j]
  <2> SUFFICES ASSUME NEW i \in 1 .. n, NEW j \in 1 .. n, i < j PROVE s[i] < s[j]
    OBVIOUS
  <2>1. s[i] \in S /\ s[j] \in S /\ rank(s[i]) < rank(s[j])
    BY <1>1, <1>5
  <2>2. \A a, b \in S : ~(a < b) => rank(b) <= rank(a)
    <3>1. \A a, b \in S : ~(a < b) => b < a \/ b = a
      OBVIOUS
    <3> HIDE DEF rank
    <3>2. \A a \in S : rank(a) \in Nat
      BY <1>2
    <3> QED BY <1>3, <3>1, <3>2
  <2>3. rank(s[i]) \in Nat /\ rank(s[j]) \in Nat
    BY <1>2, <2>1
  <2> HIDE DEF rank, s
  <2>4. ~(rank(s[j]) <= rank(s[i]))
    BY <2>1, <2>3
  <2> QED BY <2>1, <2>2, <2>4
<1>8. \A a : Contains(s, a) <=> a \in S
  <2>1. \A a : Contains(s, a) => a \in S
    <3> HIDE DEF s, rank
    <3> QED BY <1>5, <1>6 DEF Contains
  <2>2. ASSUME NEW a \in S PROVE Contains(s, a)
    <3> DEFINE k == rank(a) + 1
    <3>1. k \in 1 .. n /\ rank(a) = k - 1
      BY <1>1, <1>2
    <3>2. s[k] \in S /\ rank(s[k]) = rank(a)
      BY <1>5, <3>1
    <3>3. ~(s[k] < a) /\ ~(a < s[k])
      <4>1. rank(a) \in Nat /\ ~(rank(a) < rank(a))
        BY <1>2
      <4> HIDE DEF rank, s, k
      <4> QED BY <1>3, <3>2, <4>1
    <3>4. s[k] = a
      <4>1. s[k] \in Int /\ a \in Int
        BY <1>0, <3>2
      <4> HIDE DEF s, k
      <4> QED BY <3>3, <4>1
    <3> HIDE DEF s, k
    <3> QED BY <1>6, <3>1, <3>4 DEF Contains
  <2> QED BY <2>1, <2>2
<1>9. \A a, b : Earlier(s, a, b) => a < b
  <2> HIDE DEF s
  <2> QED BY <1>6, <1>7 DEF Earlier
<1> QED BY <1>6, <1>8, <1>9

\* The root's list is the rest of a flat pool, in order.
LEMMA FlatList ==
    ASSUME NEW st, NEW m, FlatPool(st, m)
    PROVE  /\ Children(st, Root) \in Seq(DOMAIN st)
           /\ \A c : Contains(Children(st, Root), c) <=> c \in 2 .. m
           /\ \A a, b : Earlier(Children(st, Root), a, b) => a < b
           /\ \A p \in 2 .. m : Children(st, p) = <<>>
<1> DEFINE list == [i \in 1 .. m - 1 |-> i + 1]
<1>1. /\ Children(st, Root) = list /\ m \in Nat /\ m - 1 \in Nat /\ DOMAIN st = 1 .. m
      /\ \A p \in 2 .. m : ~HasChildren(st, p)
  BY DEF FlatPool, Children, HasChildren, Root
<1>2. \A i \in 1 .. m - 1 : list[i] = i + 1 /\ list[i] \in 2 .. m /\ list[i] \in 1 .. m
  BY <1>1
<1>3. list \in Seq(1 .. m) /\ Len(list) = m - 1
  <2>1. list = [i \in 1 .. m - 1 |-> list[i]]
    OBVIOUS
  <2>2. list \in [1 .. m - 1 -> 1 .. m]
    <3> HIDE DEF list
    <3> QED BY <1>2, <2>1
  <2>3. DOMAIN list = 1 .. m - 1
    OBVIOUS
  <2> HIDE DEF list
  <2>4. list \in Seq(1 .. m)
    BY <1>1, <2>2, SeqDef
  <2> QED BY <1>1, <2>3, <2>4, LenProperties
<1> HIDE DEF list
<1>4. ASSUME NEW c PROVE Contains(list, c) <=> c \in 2 .. m
  <2>1. Contains(list, c) => c \in 2 .. m
    BY <1>2, <1>3 DEF Contains
  <2>2. ASSUME c \in 2 .. m PROVE Contains(list, c)
    <3>1. c - 1 \in 1 .. m - 1 /\ (c - 1) + 1 = c
      BY <1>1, <2>2
    <3>2. list[c - 1] = c
      BY <1>2, <3>1
    <3> QED BY <1>3, <3>1, <3>2 DEF Contains
  <2> QED BY <2>1, <2>2
<1>5. ASSUME NEW a, NEW b, Earlier(list, a, b) PROVE a < b
  <2>1. PICK i, j \in 1 .. m - 1 : i < j /\ list[i] = a /\ list[j] = b
    BY <1>3, <1>5 DEF Earlier
  <2>2. a = i + 1 /\ b = j + 1
    BY <1>2, <2>1
  <2> QED BY <2>1, <2>2
<1> QED BY <1>1, <1>3, <1>4, <1>5 DEF Children

LEMMA FlatPoolOK ==
    ASSUME NEW st, NEW m, FlatPool(st, m)
    PROVE  /\ PoolOK(st)
           /\ \A s \in 2 .. m : Chain(st, s) = {s, Root}
           /\ \A s \in 2 .. m : Siblings(st, s) = Children(st, Root)
           /\ GotosIn(st) = {s \in DOMAIN st : st[s].type = "Goto"}
<1>1. /\ DOMAIN st = 1 .. m /\ m \in Nat /\ Root \in 1 .. m /\ st[Root].up = 0
      /\ \A s \in 1 .. m : s = Root \/ (s \in 2 .. m /\ s # Root)
      /\ \A s \in 2 .. m : st[s].up = Root /\ s \in 1 .. m /\ s # Root
  BY DEF FlatPool, Root
<1>2. /\ Children(st, Root) \in Seq(DOMAIN st)
      /\ \A c : Contains(Children(st, Root), c) <=> c \in 2 .. m
      /\ \A a, b : Earlier(Children(st, Root), a, b) => a < b
      /\ \A p \in 2 .. m : Children(st, p) = <<>>
  BY FlatList
<1>3. \A s \in 2 .. m : Siblings(st, s) = Children(st, Root)
  BY <1>1 DEF Siblings
<1>4. Fields(st)
  <2>1. Root \in DOMAIN st /\ 0 \notin DOMAIN st /\ st[Root].up = 0
    BY <1>1
  <2>2. /\ st[Root].type = "Function" /\ Complete(st[Root]) /\ HasChildren(st, Root)
        /\ st[Root].type \in Types /\ st[Root].type # "Goto"
    BY DEF FlatPool, HasChildren, Types
  <2>3. ASSUME NEW s \in 2 .. m
        PROVE  /\ st[s].type \in Types /\ st[s].type # "Function" /\ Complete(st[s])
               /\ Children(st, s) \in Seq(DOMAIN st)
               /\ st[s].type = "Goto" => st[s].label \in DOMAIN st /\ st[st[s].label].type = "Label"
    <3>1. \A x : x \in 2 .. m => x \in DOMAIN st
      BY <1>1
    <3>2. <<>> \in Seq(DOMAIN st)
      OBVIOUS
    <3>3. /\ st[s].type \in {"Label", "SetVariable", "Code", "Return", "Goto"}
          /\ Complete(st[s])
          /\ st[s].type = "Goto" => st[s].label \in 2 .. m /\ st[st[s].label].type = "Label"
      BY DEF FlatPool
    <3>4. Children(st, s) = <<>>
      BY <1>2
    <3> QED BY <3>1, <3>2, <3>3, <3>4 DEF Types
  <2> HIDE DEF Complete, HasChildren
  <2> QED BY <1>1, <1>2, <2>1, <2>2, <2>3 DEF Fields
<1>5. Lists(st)
  <2>1. \A a : ~Earlier(Children(st, Root), a, a)
    <3> SUFFICES ASSUME NEW a, Earlier(Children(st, Root), a, a) PROVE FALSE
      OBVIOUS
    <3>1. a \in 2 .. m /\ a < a
      BY <1>2, EarlierContained
    <3> QED BY <3>1
  <2>2. \A p \in 2 .. m : Once(Children(st, p)) /\ \A c : ~Contains(Children(st, p), c)
    BY <1>2, NothingIn DEF Once
  <2> QED BY <1>1, <1>2, <1>3, <2>1, <2>2 DEF Lists, Once
<1>6. Rooted(st)
  <2> DEFINE r == [s \in DOMAIN st |-> IF s = Root THEN 0 ELSE 1]
  <2>1. r \in [DOMAIN st -> 0 .. 1]
    OBVIOUS
  <2>2. \A s \in DOMAIN st : st[s].up # 0 => st[s].up \in DOMAIN st /\ r[st[s].up] < r[s]
    BY <1>1
  <2> HIDE DEF r
  <2>3. Ranks(st, r, 1)
    BY <2>1, <2>2 DEF Ranks
  <2> QED BY <2>3 DEF Rooted
<1>7. ASSUME NEW s \in 2 .. m PROVE Chain(st, s) = {s, Root}
  <2>1. Chain(st, Root) = {Root}
    BY <1>1, <1>6, ChainEquation
  <2>2. Chain(st, s) = {s} \cup Chain(st, Root)
    BY <1>1, <1>6, ChainEquation DEF Root
  <2> QED BY <2>1, <2>2
<1>8. BreaksInLoops(st)
  BY <1>1 DEF BreaksInLoops, FlatPool
<1>9. GotosIn(st) = {s \in DOMAIN st : st[s].type = "Goto"}
  <2>1. ASSUME NEW s \in DOMAIN st, st[s].type = "Goto" PROVE Contains(Siblings(st, s), s)
    <3>1. s \in 2 .. m
      BY <1>1, <2>1 DEF FlatPool
    <3> QED BY <1>2, <1>3, <3>1
  <2> QED BY <2>1 DEF GotosIn
<1> QED BY <1>3, <1>4, <1>5, <1>6, <1>7, <1>8, <1>9 DEF PoolOK

LEMMA InitOK ==
    ASSUME Init
    PROVE  IInv
<1>1. PICK m : FlatPool(stmt, m)
  <2>1. TargetsAreBlocks(cfg) /\ stmt = BuildTree(cfg)
    BY CfgsAssumption DEF Init
  <2> QED BY <2>1, TheTreeIsFlat
<1>2. /\ PoolOK(stmt)
      /\ \A s \in 2 .. m : Chain(stmt, s) = {s, Root}
      /\ \A s \in 2 .. m : Siblings(stmt, s) = Children(stmt, Root)
      /\ GotosIn(stmt) = {s \in DOMAIN stmt : stmt[s].type = "Goto"}
  BY <1>1, FlatPoolOK
<1>3. /\ \A c : Contains(Children(stmt, Root), c) <=> c \in 2 .. m
      /\ \A a, b : Earlier(Children(stmt, Root), a, b) => a < b
  BY <1>1, FlatList
<1>4. TreeOK
  BY <1>1, <1>2 DEF TreeOK, FlatPool
<1> DEFINE G == {s \in DOMAIN stmt : stmt[s].type = "Goto"}
<1>5. /\ gotos \in Seq(G)
      /\ \A s : Contains(gotos, s) <=> s \in G
      /\ \A a, b : Earlier(gotos, a, b) => a < b
  <2>1. G \subseteq Nat /\ IsFiniteSet(G)
    <3>1. DOMAIN stmt = 1 .. m /\ m \in Nat
      BY <1>1 DEF FlatPool
    <3>2. IsFiniteSet(1 .. m)
      BY <3>1, FS_Interval
    <3>3. G \in SUBSET (1 .. m) /\ 1 .. m \subseteq Nat
      BY <3>1
    <3> HIDE DEF G
    <3> QED BY <3>2, <3>3, FS_Subset
  <2>2. gotos = Ascending(G)
    BY DEF Init, BuildGotos
  <2> HIDE DEF G
  <2> QED BY <2>1, <2>2, AscendingLists
<1>6. \A s \in G : s \in 2 .. m /\ s # Root /\ s \in Int
  BY <1>1 DEF FlatPool, Root
<1>7. gotos \in Seq(DOMAIN stmt)
  <2>1. G \subseteq DOMAIN stmt
    OBVIOUS
  <2> HIDE DEF G
  <2> QED BY <1>5, <2>1
<1>8. ASSUME NEW w, Contains(gotos, w) PROVE Spine(stmt, w)
  <2>1. w \in 2 .. m
    BY <1>5, <1>6, <1>8
  <2>2. Chain(stmt, w) \ {Root} \subseteq {w}
    BY <1>2, <2>1
  <2>3. ASSUME NEW e \in DOMAIN stmt, Earlier(Siblings(stmt, w), e, w)
        PROVE  stmt[e].type \notin {"If", "Loop", "Break"}
    <3>1. e \in 2 .. m
      BY <1>2, <1>3, <2>1, <2>3, EarlierContained
    <3> QED BY <1>1, <3>1 DEF FlatPool
  <2> QED BY <2>2, <2>3 DEF Spine
<1>9. ASSUME NEW w, NEW v, Earlier(gotos, w, v) PROVE w # v /\ NotBehind(stmt, v, w)
  <2>1. w \in 2 .. m /\ v \in 2 .. m /\ w < v /\ w \in Int /\ v \in Int
    BY <1>5, <1>6, <1>9, EarlierContained
  <2>2. Chain(stmt, v) \ {Root} \subseteq {v} /\ Chain(stmt, w) = {w, Root}
    BY <1>2, <2>1
  <2>3. ASSUME NEW e \in DOMAIN stmt, Earlier(Siblings(stmt, v), v, e) PROVE e \notin {w, Root}
    <3>1. v < e /\ e \in 2 .. m
      BY <1>2, <1>3, <2>1, <2>3, EarlierContained
    <3> QED BY <2>1, <3>1 DEF Root
  <2> QED BY <2>1, <2>2, <2>3 DEF NotBehind
<1>10. goto_stmt = 0 /\ goto_level = 0 /\ label_level = 0 /\ step = "next"
  BY DEF Init
<1>11. WaitingOK
  <2>1. \A s : s \in GotosIn(stmt) <=> Contains(gotos, s)
    BY <1>2, <1>5
  <2> QED BY <1>7, <1>8, <1>9, <1>10, <2>1 DEF WaitingOK
<1>12. MovingOK
  BY <1>10 DEF MovingOK
<1> QED BY <1>4, <1>11, <1>12 DEF IInv

\* No counter of moves goes below 0.
LEMMA MovesAreLeft == IInv => MovesLeft >= 0
<1> SUFFICES ASSUME IInv PROVE MovesLeft >= 0
  OBVIOUS
<1>1. TreeOK /\ WaitingOK /\ MovingOK
  BY DEF IInv
<1>2. CASE step \notin {"relate", "outward", "inward"}
  BY <1>2 DEF MovesLeft
<1>3. CASE step = "relate"
  <2>1. Level(stmt, goto_stmt) \in Nat
    BY <1>1, <1>3, TheGoto DEF MovingOK
  <2> QED BY <1>3, <2>1 DEF MovesLeft
<1>4. CASE step \in {"outward", "inward"}
  <2> DEFINE g == goto_stmt
             l == label_stmt
  <2>1. goto_stmt # 0
    BY <1>1, <1>4 DEF MovingOK
  <2>2. /\ g \in DOMAIN stmt /\ l \in DOMAIN stmt
        /\ stmt[g].up \in DOMAIN stmt /\ stmt[g].up # 0
        /\ stmt[l].up \in DOMAIN stmt
        /\ Level(stmt, g) \in Nat /\ Level(stmt, l) \in Nat
        /\ Level(stmt, g) = 1 + Level(stmt, stmt[g].up)
        /\ Level(stmt, l) = 1 + Level(stmt, stmt[l].up)
        /\ Rooted(stmt)
    BY <1>1, <2>1, TheGoto
  <2> HIDE DEF g, l
  <2>3. /\ Level(stmt, stmt[g].up) \in Nat /\ Level(stmt, stmt[l].up) \in Nat
    BY <2>2, LevelEquation
  <2>4. CASE step = "outward"
    <3>1. /\ stmt[l].up \in Chain(stmt, stmt[g].up)
          /\ goto_level = Level(stmt, g) /\ label_level = Level(stmt, l)
      BY <1>1, <2>4 DEF MovingOK, g, l
    <3>2. Level(stmt, stmt[l].up) <= Level(stmt, stmt[g].up)
      BY <2>2, <2>3, <3>1, LevelsFall
    <3>3. goto_level - label_level >= 0
      BY <2>2, <2>3, <3>1, <3>2
    <3> QED BY <2>4, <3>3 DEF MovesLeft
  <2>5. CASE step = "inward"
    <3>1. label_level - goto_level = Level(stmt, l) - Level(stmt, g)
      BY <1>1, <2>5 DEF MovingOK, InwardOK, g, l
    <3>2. PICK x \in Chain(stmt, l) : stmt[x].up = stmt[g].up
      BY <1>1, <2>5 DEF MovingOK, InwardOK, g, l
    <3>3. x \in DOMAIN stmt
      BY <2>2, <3>2, ChainInPool
    <3>4. Level(stmt, x) = Level(stmt, g)
      BY <2>2, <3>2, <3>3, LevelEquation
    <3>5. Level(stmt, x) <= Level(stmt, l)
      BY <2>2, <3>2, <3>3, <3>4, LevelsFall
    <3>6. label_level - goto_level >= 0
      BY <2>2, <3>1, <3>4, <3>5
    <3> QED BY <2>5, <3>6 DEF MovesLeft
  <2> QED BY <1>4, <2>4, <2>5
<1> QED BY <1>2, <1>3, <1>4

LEMMA NextKeeps ==
    ASSUME IInv, cfg \in Cfgs, [Next]_vars
    PROVE  IInv' /\ cfg' \in Cfgs
<1>1. CASE NextGoto
  BY <1>1, NextGotoKeeps DEF NextGoto
<1>2. CASE OutwardToRelate
  BY <1>2, OutwardToRelateKeeps DEF OutwardToRelate
<1>3. CASE Related
  BY <1>3, RelatedKeeps DEF Related
<1>4. CASE CountLevels
  BY <1>4, CountLevelsKeeps DEF CountLevels
<1>5. CASE OutwardToLevel
  BY <1>5, OutwardToLevelKeeps DEF OutwardToLevel
<1>6. CASE GotoLifting
  BY <1>6, GotoLiftingKeeps DEF GotoLifting
<1>7. CASE InwardToLevel
  BY <1>7, InwardToLevelKeeps DEF InwardToLevel
<1>8. CASE Eliminate
  BY <1>8, EliminateKeeps DEF Eliminate
<1>9. CASE Finish
  BY <1>9 DEF Finish, IInv, TreeOK, WaitingOK, MovingOK
<1>10. CASE UNCHANGED vars
  BY <1>10 DEF vars, IInv, TreeOK, WaitingOK, MovingOK, OutwardOK, LiftOK, InwardOK,
               label_stmt, NextToLabel
<1>11. CASE Terminated
  BY <1>10, <1>11 DEF Terminated
<1> QED BY <1>1, <1>2, <1>3, <1>4, <1>5, <1>6, <1>7, <1>8, <1>9, <1>10, <1>11 DEF Next

\* Every step of the pass brings it nearer to its end.
LEMMA NextIsCloser ==
    ASSUME IInv, Next, MovesLeft' >= 0
    PROVE  step = "done" \/ Closer \/ UNCHANGED vars
<1> USE DEF Closer, Left, Stage, MovesLeft
<1>0. Len(gotos) \in Nat
  BY LenProperties DEF IInv, WaitingOK
<1>1. CASE NextGoto
  <2>1. Len(gotos') = Len(gotos) - 1
    BY <1>1, NextGotoKeeps
  <2> QED BY <1>0, <2>1
<1>2. CASE OutwardToRelate
  BY <1>2, OutwardToRelateKeeps
<1>3. CASE Related
  BY <1>3, RelatedKeeps
<1>4. CASE CountLevels
  BY <1>4, CountLevelsKeeps
<1>5. CASE OutwardToLevel
  BY <1>5, OutwardToLevelKeeps
<1>6. CASE GotoLifting
  BY <1>6, GotoLiftingKeeps
<1>7. CASE InwardToLevel
  BY <1>7, InwardToLevelKeeps
<1>8. CASE Eliminate
  BY <1>8, EliminateKeeps
<1>9. CASE Finish
  BY <1>9 DEF Finish
<1>10. CASE Terminated
  BY <1>10 DEF Terminated
<1> QED BY <1>1, <1>2, <1>3, <1>4, <1>5, <1>6, <1>7, <1>8, <1>9, <1>10 DEF Next

\* What After lists stands behind the statement.
LEMMA AfterIsLater ==
    ASSUME NEW st, PoolOK(st), NEW x \in DOMAIN st, x # Root, Contains(Siblings(st, x), x),
           NEW e, Contains(After(st, x), e)
    PROVE  e \in DOMAIN st /\ Earlier(Siblings(st, x), x, e)
<1> DEFINE D == DOMAIN st
           body == st[st[x].up].children
<1>1. Siblings(st, x) = body /\ body \in Seq(D) /\ Once(body)
  BY ListOf
<1>2. /\ Before(st, x) \in Seq(D) /\ <<x>> \in Seq(D) /\ After(st, x) \in Seq(D)
      /\ body = (Before(st, x) \o <<x>>) \o After(st, x)
  BY <1>1, CutAt
<1> HIDE DEF body
<1>3. Contains(<<x>>, x)
  BY OneIn
<1>4. Before(st, x) \o <<x>> \in Seq(D) /\ Contains(Before(st, x) \o <<x>>, x)
  BY <1>2, <1>3, Joined
<1>5. Earlier(body, x, e)
  BY <1>2, <1>4, Joined
<1>6. e \in D
  BY <1>2, ContainedIn
<1> QED BY <1>1, <1>5, <1>6

\* What is around a waiting goto.
LEMMA AroundAWaitingGoto ==
    ASSUME IInv, NEW w, Contains(gotos, w)
    PROVE  /\ w \in DOMAIN stmt /\ stmt[w].type = "Goto"
           /\ \A x \in Chain(stmt, w) :
                 /\ x \in DOMAIN stmt
                 /\ x # Root => x = w \/ stmt[x].type = "Loop"
                 /\ x # Root => Contains(Siblings(stmt, x), x)
<1>1. PoolOK(stmt) /\ Fields(stmt) /\ Lists(stmt) /\ Rooted(stmt)
  BY DEF IInv, TreeOK, PoolOK
<1>2. w \in GotosIn(stmt) /\ Spine(stmt, w)
  BY DEF IInv, WaitingOK
<1>3. w \in DOMAIN stmt /\ stmt[w].type = "Goto" /\ Contains(Siblings(stmt, w), w)
  BY <1>2 DEF GotosIn
<1>4. \A x \in Chain(stmt, w) : x \in DOMAIN stmt
  BY <1>1, <1>3, ChainInPool
<1>5. \A x \in Chain(stmt, w) : x # Root => x = w \/ stmt[x].type = "Loop"
  BY <1>2 DEF Spine
<1>6. \A x \in Chain(stmt, w) : x # Root => Contains(Siblings(stmt, x), x)
  BY <1>1, <1>3, <1>4, <1>5 DEF Lists
<1> QED BY <1>3, <1>4, <1>5, <1>6

LEMMA TypesHold ==
    ASSUME IInv, cfg \in Cfgs
    PROVE  TypeOK
<1>1. Fields(stmt) /\ Numbered(stmt)
  BY DEF IInv, TreeOK, PoolOK
<1>2. DOMAIN stmt = 1 .. Len(stmt) /\ Len(stmt) \in Nat
  BY <1>1, NumberedPool
<1>3. \A b \in DOMAIN cfg : {cfg[b].branch_true, cfg[b].branch_false} \subseteq 0 .. Len(cfg)
  <2> DEFINE R == [end_class : {"Branch", "Exit"}, cond : {"True", "False", "Guest"},
                   branch_true : 0 .. Len(cfg), branch_false : 0 .. Len(cfg)]
  <2>1. cfg \in Seq(R)
    BY CfgsAssumption DEF TargetsAreBlocks
  <2>2. \A b \in DOMAIN cfg : cfg[b] \in R
    <3> HIDE DEF R
    <3> QED BY <2>1, ElementOfSeq, LenProperties
  <2> QED BY <2>2
<1>4. ASSUME NEW s \in DOMAIN stmt
      PROVE  /\ stmt[s].type \in Types
             /\ stmt[s].up \in 0 .. Len(stmt)
             /\ \A i \in DOMAIN Children(stmt, s) : Children(stmt, s)[i] \in DOMAIN stmt
             /\ stmt[s].type = "Goto" => stmt[stmt[s].label].type = "Label"
  <2>1. stmt[s].type \in Types /\ (stmt[s].type = "Goto" => stmt[stmt[s].label].type = "Label")
    BY <1>1 DEF Fields
  <2>2. stmt[s].up \in 0 .. Len(stmt)
    <3>1. stmt[s].up = 0 \/ stmt[s].up \in DOMAIN stmt
      BY <1>1 DEF Fields
    <3>2. \A x \in 1 .. Len(stmt) : x \in 0 .. Len(stmt)
      OBVIOUS
    <3>3. 0 \in 0 .. Len(stmt)
      BY <1>2
    <3> QED BY <1>2, <3>1, <3>2, <3>3
  <2>3. Children(stmt, s) \in Seq(DOMAIN stmt)
    BY <1>1 DEF Fields
  <2>4. \A i \in DOMAIN Children(stmt, s) : Children(stmt, s)[i] \in DOMAIN stmt
    BY <2>3, ElementOfSeq, LenProperties
  <2> QED BY <2>1, <2>2, <2>4
<1>5. gotos \in Seq(DOMAIN stmt) /\ goto_level \in Nat /\ label_level \in Nat /\ step \in Steps
  BY DEF IInv, WaitingOK, MovingOK, Steps
<1>6. goto_stmt \in 0 .. Len(stmt)
  <2>1. goto_stmt = 0 \/ goto_stmt \in DOMAIN stmt
    BY DEF IInv, WaitingOK, GotosIn
  <2>2. \A x \in 1 .. Len(stmt) : x \in 0 .. Len(stmt)
    OBVIOUS
  <2>3. 0 \in 0 .. Len(stmt)
    BY <1>2
  <2> QED BY <1>2, <2>1, <2>2, <2>3
<1> QED BY <1>3, <1>4, <1>5, <1>6 DEF TypeOK

LEMMA UpHolds ==
    ASSUME IInv
    PROVE  UpIsTheContainer
<1>1. Fields(stmt) /\ Lists(stmt)
  BY DEF IInv, TreeOK, PoolOK
<1> SUFFICES ASSUME NEW p \in DOMAIN stmt, NEW i \in DOMAIN Children(stmt, p)
             PROVE  /\ stmt[stmt[p].children[i]].up = p
                    /\ \A j \in DOMAIN stmt[p].children :
                          stmt[p].children[i] = stmt[p].children[j] => i = j
  BY DEF UpIsTheContainer
<1> DEFINE list == Children(stmt, p)
<1>2. list \in Seq(DOMAIN stmt) /\ Once(list)
  BY <1>1 DEF Fields, Lists
<1>3. Len(list) \in Nat /\ DOMAIN list = 1 .. Len(list)
  BY <1>2, LenProperties
<1>4. stmt[p].children = list
  <2>1. list # <<>>
    <3> SUFFICES ASSUME list = <<>> PROVE FALSE
      OBVIOUS
    <3>1. DOMAIN list = {}
      OBVIOUS
    <3> QED BY <3>1
  <2> QED BY <2>1 DEF Children
<1>5. i \in 1 .. Len(list) /\ list[i] \in DOMAIN stmt
  BY <1>2, <1>3, ElementOfSeq
<1> HIDE DEF list
<1>6. Contains(list, list[i])
  BY <1>5 DEF Contains
<1>7. stmt[list[i]].up = p
  BY <1>1, <1>5, <1>6 DEF Lists, list
<1>8. ASSUME NEW j \in DOMAIN list, list[i] = list[j], i # j PROVE FALSE
  <2>1. j \in 1 .. Len(list) /\ (i < j \/ j < i)
    BY <1>3, <1>5, <1>8
  <2>2. Earlier(list, list[i], list[i])
    BY <1>5, <1>8, <2>1 DEF Earlier
  <2> QED BY <1>2, <2>2 DEF Once
<1> QED BY <1>4, <1>7, <1>8

LEMMA PendingHolds ==
    ASSUME IInv
    PROVE  PendingInTree
<1> DEFINE held == ToSet(gotos) \cup ({goto_stmt} \ {0})
           Listed(s) == Contains(stmt[stmt[s].up].children, s)
<1>1. PoolOK(stmt) /\ Fields(stmt) /\ Lists(stmt)
  BY DEF IInv, TreeOK, PoolOK
<1>2. gotos \in Seq(DOMAIN stmt) /\ \A s : s \in ToSet(gotos) <=> Contains(gotos, s)
  <2>1. gotos \in Seq(DOMAIN stmt)
    BY DEF IInv, WaitingOK
  <2>2. DOMAIN gotos = 1 .. Len(gotos)
    BY <2>1, LenProperties
  <2> QED BY <2>1, <2>2 DEF ToSet, Contains
<1>3. \A s \in DOMAIN stmt : s # Root => (Listed(s) <=> Contains(Siblings(stmt, s), s))
  BY <1>1, ListOf
<1>4. \A s \in DOMAIN stmt : stmt[s].type = "Goto" => s # Root
  BY <1>1 DEF Fields
<1>5. {s \in DOMAIN stmt : stmt[s].type = "Goto" /\ Listed(s)} = GotosIn(stmt)
  BY <1>3, <1>4 DEF GotosIn
<1>6. \A s : s \in GotosIn(stmt) <=> s \in held
  BY <1>2 DEF IInv, WaitingOK
<1>7. \A s \in held : Listed(stmt[s].label)
  <2> SUFFICES ASSUME NEW s \in held PROVE Listed(stmt[s].label)
    OBVIOUS
  <2>1. s \in DOMAIN stmt /\ stmt[s].type = "Goto"
    BY <1>6 DEF GotosIn
  <2>2. stmt[s].label \in DOMAIN stmt /\ stmt[stmt[s].label].type = "Label"
    BY <1>1, <2>1 DEF Fields
  <2>3. stmt[s].label # Root
    BY <1>1, <2>2 DEF Fields
  <2>4. Contains(Siblings(stmt, stmt[s].label), stmt[s].label)
    BY <1>1, <2>2, <2>3 DEF Lists
  <2> QED BY <1>3, <2>2, <2>3, <2>4
<1>8. ASSUME NEW i \in DOMAIN gotos, NEW j \in DOMAIN gotos, i < j,
             NEW x \in Chain(stmt, gotos[j]) \ {Root}, NEW e \in Chain(stmt, gotos[i]),
             Contains(After(stmt, x), e)
      PROVE  FALSE
  <2>1. i \in 1 .. Len(gotos) /\ j \in 1 .. Len(gotos)
    BY <1>2, LenProperties
  <2>2. Earlier(gotos, gotos[i], gotos[j]) /\ Contains(gotos, gotos[j])
    BY <1>8, <2>1 DEF Earlier, Contains
  <2>3. NotBehind(stmt, gotos[j], gotos[i])
    BY <2>2 DEF IInv, WaitingOK
  <2>4. x \in DOMAIN stmt /\ x # Root /\ Contains(Siblings(stmt, x), x)
    BY <2>2, AroundAWaitingGoto
  <2>5. e \in DOMAIN stmt /\ Earlier(Siblings(stmt, x), x, e)
    BY <1>1, <1>8, <2>4, AfterIsLater
  <2> QED BY <2>3, <2>5 DEF NotBehind
<1> HIDE DEF held, Listed
<1>9. /\ {s \in DOMAIN stmt : stmt[s].type = "Goto" /\ Listed(s)} = held
      /\ \A s \in held : Listed(stmt[s].label)
      /\ \A i, j \in DOMAIN gotos : i < j =>
            \A x \in Chain(stmt, gotos[j]) \ {Root}, e \in Chain(stmt, gotos[i]) :
               ~Contains(After(stmt, x), e)
  BY <1>5, <1>6, <1>7, <1>8
<1> QED BY <1>9 DEF PendingInTree, held, Listed

LEMMA WaitingHolds ==
    ASSUME IInv
    PROVE  WaitingOutsideIfs
<1> SUFFICES ASSUME NEW i \in DOMAIN gotos, NEW x \in Chain(stmt, gotos[i])
             PROVE  stmt[x].type # "If"
  BY DEF WaitingOutsideIfs
<1>1. Contains(gotos, gotos[i])
  <2>1. gotos \in Seq(DOMAIN stmt)
    BY DEF IInv, WaitingOK
  <2> QED BY <2>1, LenProperties DEF Contains
<1>2. x = Root \/ x = gotos[i] \/ stmt[x].type = "Loop"
  BY <1>1, AroundAWaitingGoto
<1>3. stmt[Root].type = "Function"
  BY DEF IInv, TreeOK, PoolOK, Fields
<1>4. stmt[gotos[i]].type = "Goto"
  BY <1>1, AroundAWaitingGoto
<1> QED BY <1>2, <1>3, <1>4

LEMMA StructureHolds ==
    ASSUME IInv
    PROVE  Structured
<1>1. Fields(stmt) /\ Lists(stmt) /\ BreaksInLoops(stmt)
  BY DEF IInv, TreeOK, PoolOK
<1> SUFFICES ASSUME step = "done", NEW p \in DOMAIN stmt, NEW i \in DOMAIN Children(stmt, p)
             PROVE  LET s == stmt[p].children[i]
                    IN  /\ stmt[s].type # "Goto"
                        /\ stmt[s].type = "Break" =>
                              \E t \in Chain(stmt, s) : stmt[t].type = "Loop"
  BY DEF Structured
<1> DEFINE s == Children(stmt, p)[i]
<1>2. Children(stmt, p) \in Seq(DOMAIN stmt)
  BY <1>1 DEF Fields
<1>3. i \in 1 .. Len(Children(stmt, p)) /\ s \in DOMAIN stmt
  BY <1>2, ElementOfSeq, LenProperties
<1>4. stmt[p].children = Children(stmt, p)
  <2>1. Children(stmt, p) # <<>>
    <3> SUFFICES ASSUME Children(stmt, p) = <<>> PROVE FALSE
      OBVIOUS
    <3>1. DOMAIN Children(stmt, p) = {}
      OBVIOUS
    <3> QED BY <3>1
  <2> QED BY <2>1 DEF Children
<1>5. Contains(Children(stmt, p), s)
  BY <1>3 DEF Contains
<1> HIDE DEF s
<1>6. stmt[s].up = p /\ Contains(Siblings(stmt, s), s)
  <2>1. stmt[s].up = p
    BY <1>1, <1>3, <1>5 DEF Lists
  <2> QED BY <1>5, <2>1 DEF Siblings
<1>7. GotosIn(stmt) = {}
  <2>1. gotos = <<>> /\ goto_stmt = 0
    BY DEF IInv, MovingOK
  <2>2. \A w : ~Contains(gotos, w)
    BY <2>1, NothingIn
  <2> QED BY <2>1, <2>2 DEF IInv, WaitingOK
<1>8. stmt[s].type # "Goto"
  BY <1>3, <1>6, <1>7 DEF GotosIn
<1>9. stmt[s].type = "Break" => \E t \in Chain(stmt, s) : stmt[t].type = "Loop"
  BY <1>1, <1>3 DEF BreaksInLoops
<1> QED BY <1>4, <1>8, <1>9 DEF s

-----------------------------------------------------------------------------
(* The text of the tree                                                    *)

\* A recursion of n turns, each a function F of the number of the turn and of what the
\* turn before made, has a solution.
TurnsIn(F, n, S) == \A k \in 1 .. n, y \in S : F[<<k, y>>] \in S
Recursion(f, F, x, n, S) ==
    f \in [0 .. n -> S] /\ f[0] = x /\ \A k \in 1 .. n : f[k] = F[<<k, f[k - 1]>>]

LEMMA RecursionExists ==
    ASSUME NEW S, NEW x \in S, NEW F, NEW n \in Nat, TurnsIn(F, n, S)
    PROVE  \E f : Recursion(f, F, x, n, S)
<1> USE DEF TurnsIn, Recursion
<1> DEFINE Solves(f, m) == /\ f \in [0 .. m -> S]
                           /\ f[0] = x /\ \A k \in 1 .. m : f[k] = F[<<k, f[k - 1]>>]
           Missing == {m \in 0 .. n : ~ \E f : Solves(f, m)}
<1> SUFFICES ASSUME Missing # {} PROVE FALSE
  OBVIOUS
<1>1. PICK m \in Missing : \A k \in Missing : m <= k
  <2>1. Missing \subseteq Nat
    OBVIOUS
  <2> HIDE DEF Missing
  <2> QED BY <2>1, NatMin
<1>2. m # 0
  <2>1. Solves([k \in 0 .. 0 |-> x], 0)
    OBVIOUS
  <2> QED BY <2>1
<1>3. m - 1 \in 0 .. n /\ m \in 1 .. n /\ ~(m <= m - 1)
  BY <1>2
<1>4. PICK f : Solves(f, m - 1)
  BY <1>1, <1>3
<1> DEFINE g == [k \in 0 .. m |-> IF k = m THEN F[<<m, f[m - 1]>>] ELSE f[k]]
<1>5. f[m - 1] \in S /\ F[<<m, f[m - 1]>>] \in S
  BY <1>3, <1>4
<1>6. g \in [0 .. m -> S] /\ g[0] = x
  BY <1>3, <1>4, <1>5
<1>7. g[m] = F[<<m, f[m - 1]>>] /\ \A k \in 0 .. m - 1 : g[k] = f[k]
  BY <1>3
<1>8. ASSUME NEW k \in 1 .. m PROVE g[k] = F[<<k, g[k - 1]>>]
  <2> HIDE DEF g
  <2>1. CASE k = m
    BY <1>3, <1>7, <2>1
  <2>2. CASE k # m
    <3>1. k \in 1 .. m - 1 /\ k \in 0 .. m - 1 /\ k - 1 \in 0 .. m - 1
      BY <1>3, <2>2
    <3> QED BY <1>4, <1>7, <3>1
  <2> QED BY <2>1, <2>2
<1>9. Solves(g, m)
  <2> HIDE DEF g
  <2> QED BY <1>6, <1>8
<1> QED BY <1>9

\* What stands in the text for a statement, one level unfolded.
Piece(s) == IF HasChildren(stmt, s) THEN stmt[s].children ELSE <<s>>

\* u is a list with the pieces of the first n statements put together.
Pieces(u, list, n) ==
    /\ u \in [0 .. n -> Seq(DOMAIN stmt)]
    /\ u[0] = <<>> /\ \A k \in 1 .. n : u[k] = u[k - 1] \o Piece(list[k])

LEMMA PiecesInPool ==
    ASSUME PoolOK(stmt), NEW s \in DOMAIN stmt
    PROVE  Piece(s) \in Seq(DOMAIN stmt)
<1>1. Children(stmt, s) \in Seq(DOMAIN stmt)
  BY DEF PoolOK, Fields
<1>2. <<s>> \in Seq(DOMAIN stmt)
  OBVIOUS
<1>3. CASE HasChildren(stmt, s)
  <2>1. Piece(s) = Children(stmt, s)
    BY <1>3 DEF Piece, Children
  <2> QED BY <1>1, <2>1
<1>4. CASE ~HasChildren(stmt, s)
  BY <1>2, <1>4 DEF Piece
<1> QED BY <1>3, <1>4

\* Unfold puts the pieces of a whole list together.
LEMMA UnfoldPieces ==
    ASSUME PoolOK(stmt), NEW list \in Seq(DOMAIN stmt)
    PROVE  \E u : Pieces(u, list, Len(list)) /\ Unfold(list) = u[Len(list)]
<1> DEFINE n == Len(list)
           D == Seq(DOMAIN stmt)
           F == [z \in (1 .. n) \X D |-> z[2] \o Piece(list[z[1]])]
           Solves(u) == u = [i \in 0 .. Len(list) |->
                               IF i = 0 THEN <<>>
                               ELSE u[i - 1] \o (IF HasChildren(stmt, list[i])
                                                 THEN stmt[list[i]].children ELSE <<list[i]>>)]
<1>1. n \in Nat /\ n \in 0 .. n /\ <<>> \in D
  BY LenProperties
<1>2. \A k \in 1 .. n : Piece(list[k]) \in D
  BY PiecesInPool, ElementOfSeq
<1>3. \A k \in 1 .. n, y \in D : F[<<k, y>>] = y \o Piece(list[k]) /\ F[<<k, y>>] \in D
  <2> SUFFICES ASSUME NEW k \in 1 .. n, NEW y \in D
               PROVE  F[<<k, y>>] = y \o Piece(list[k]) /\ F[<<k, y>>] \in D
    OBVIOUS
  <2>1. <<k, y>> \in (1 .. n) \X D /\ <<k, y>>[1] = k /\ <<k, y>>[2] = y
    OBVIOUS
  <2>2. y \o Piece(list[k]) \in D
    BY <1>2, ConcatProperties
  <2> QED BY <2>1, <2>2
<1> HIDE DEF F, n, D
<1>4. PICK f : /\ f \in [0 .. n -> D] /\ f[0] = <<>>
               /\ \A k \in 1 .. n : f[k] = F[<<k, f[k - 1]>>]
  <2>1. TurnsIn(F, n, D)
    BY <1>3 DEF TurnsIn
  <2>2. \E f : Recursion(f, F, <<>>, n, D)
    BY <1>1, <2>1, RecursionExists
  <2> QED BY <2>2 DEF Recursion
<1>5. \A k \in 1 .. n : k - 1 \in 0 .. n /\ k \in 0 .. n /\ k # 0
  BY <1>1
<1>6. \A k \in 1 .. n : f[k] = f[k - 1] \o Piece(list[k])
  BY <1>3, <1>4, <1>5
<1>7. Solves(f)
  <2>1. f = [i \in 0 .. n |-> f[i]]
    BY <1>4
  <2>2. \A i \in 0 .. n : i = 0 \/ i \in 1 .. n
    BY <1>1
  <2>3. \A i \in 0 .. n : f[i] = IF i = 0 THEN <<>>
                               ELSE f[i - 1] \o (IF HasChildren(stmt, list[i])
                                                 THEN stmt[list[i]].children ELSE <<list[i]>>)
    BY <1>4, <1>6, <2>2 DEF Piece
  <2> QED BY <2>1, <2>3 DEF n
<1> DEFINE u == CHOOSE u : Solves(u)
<1>8. Solves(u)
  <2> HIDE DEF Solves
  <2> QED BY <1>7
<1>9. Unfold(list) = u[n]
  BY DEF Unfold, n
<1> HIDE DEF u
<1>10. /\ u = [i \in 0 .. n |-> u[i]] /\ u[0] = <<>>
       /\ \A k \in 1 .. n : u[k] = u[k - 1] \o Piece(list[k])
  <2>1. /\ u = [i \in 0 .. n |-> u[i]]
        /\ \A i \in 0 .. n : u[i] = IF i = 0 THEN <<>>
                               ELSE u[i - 1] \o (IF HasChildren(stmt, list[i])
                                                 THEN stmt[list[i]].children ELSE <<list[i]>>)
    BY <1>8 DEF n
  <2>2. 0 \in 0 .. n
    BY <1>1
  <2> QED BY <1>5, <2>1, <2>2 DEF Piece
<1> HIDE DEF Solves
<1>11. \A k \in 0 .. n : u[k] \in D
  <2> DEFINE Odd == {k \in 0 .. n : u[k] \notin D}
  <2> SUFFICES ASSUME Odd # {} PROVE FALSE
    OBVIOUS
  <2>1. PICK k \in Odd : \A j \in Odd : k <= j
    <3>1. Odd \subseteq Nat
      OBVIOUS
    <3> HIDE DEF Odd
    <3> QED BY <3>1, NatMin
  <2>2. k # 0
    BY <1>1, <1>10
  <2>3. k \in 1 .. n /\ k - 1 \in 0 .. n /\ ~(k <= k - 1)
    BY <1>1, <2>2
  <2>4. u[k - 1] \in D
    BY <2>1, <2>3
  <2>5. u[k] \in D
    <3>1. Piece(list[k]) \in D /\ u[k] = u[k - 1] \o Piece(list[k])
      BY <1>2, <1>10, <2>3
    <3>2. u[k - 1] \o Piece(list[k]) \in D
      BY <2>4, <3>1, ConcatProperties DEF D
    <3> QED BY <3>1, <3>2
  <2> QED BY <2>5
<1> QED BY <1>1, <1>9, <1>10, <1>11 DEF Pieces, D, n

\* What the pieces of the first n statements of a list hold, and in which order.
MadeOf(text, list, n) ==
    /\ \A a : Contains(text, a) <=> \E k \in 1 .. n : Contains(Piece(list[k]), a)
    /\ \A a, b : Earlier(text, a, b) =>
          \/ \E k \in 1 .. n : Earlier(Piece(list[k]), a, b)
          \/ \E j, k \in 1 .. n : /\ j < k /\ Contains(Piece(list[j]), a)
                                  /\ Contains(Piece(list[k]), b)

LEMMA PiecesHold ==
    ASSUME PoolOK(stmt), NEW list \in Seq(DOMAIN stmt), NEW u, Pieces(u, list, Len(list)),
           NEW m \in 0 .. Len(list)
    PROVE  MadeOf(u[m], list, m)
<1> DEFINE D == DOMAIN stmt
           n == Len(list)
           Holds(i) == MadeOf(u[i], list, i)
           Odd == {i \in 0 .. n : ~Holds(i)}
<1>1. n \in Nat
  BY LenProperties
<1>2. /\ u[0] = <<>> /\ \A k \in 0 .. n : u[k] \in Seq(D)
      /\ \A k \in 1 .. n : u[k] = u[k - 1] \o Piece(list[k])
  BY DEF Pieces
<1>3. \A k \in 1 .. n : Piece(list[k]) \in Seq(D)
  BY PiecesInPool, ElementOfSeq
<1> HIDE DEF n, D
<1>4. Holds(0)
  BY <1>2, NothingIn DEF MadeOf
<1>5. ASSUME NEW i \in 1 .. n, Holds(i - 1) PROVE Holds(i)
  <2> DEFINE p == Piece(list[i])
             v == u[i - 1]
  <2>1. i - 1 \in 0 .. n /\ 1 .. i = (1 .. i - 1) \cup {i} /\ \A k \in 1 .. i - 1 : k < i
    BY <1>1
  <2>2. v \in Seq(D) /\ p \in Seq(D) /\ u[i] = v \o p
    BY <1>2, <1>3, <2>1
  <2>3. /\ \A a : Contains(v, a) <=> \E k \in 1 .. i - 1 : Contains(Piece(list[k]), a)
        /\ \A a, b : Earlier(v, a, b) =>
              \/ \E k \in 1 .. i - 1 : Earlier(Piece(list[k]), a, b)
              \/ \E j, k \in 1 .. i - 1 : /\ j < k /\ Contains(Piece(list[j]), a)
                                          /\ Contains(Piece(list[k]), b)
    BY <1>5 DEF MadeOf
  <2> HIDE DEF v, Holds
  <2>4. \A a, b : /\ Contains(u[i], a) <=> Contains(v, a) \/ Contains(p, a)
                  /\ Earlier(u[i], a, b) <=> \/ Earlier(v, a, b) \/ Earlier(p, a, b)
                                             \/ Contains(v, a) /\ Contains(p, b)
    <3> HIDE DEF p
    <3> QED BY <2>2, Joined
  <2>5. \A a : Contains(u[i], a) <=> \E k \in 1 .. i : Contains(Piece(list[k]), a)
    BY <2>1, <2>3, <2>4
  <2>6. ASSUME NEW a, NEW b, Earlier(u[i], a, b)
        PROVE  \/ \E k \in 1 .. i : Earlier(Piece(list[k]), a, b)
               \/ \E j, k \in 1 .. i : /\ j < k /\ Contains(Piece(list[j]), a)
                                       /\ Contains(Piece(list[k]), b)
    <3>1. CASE Earlier(v, a, b)
      BY <2>1, <2>3, <3>1
    <3>2. CASE Earlier(p, a, b)
      BY <2>1, <3>2
    <3>3. CASE Contains(v, a) /\ Contains(p, b)
      <4>1. PICK j \in 1 .. i - 1 : Contains(Piece(list[j]), a)
        BY <2>3, <3>3
      <4>2. j \in 1 .. i /\ i \in 1 .. i /\ j < i
        BY <2>1
      <4> QED BY <3>3, <4>1, <4>2
    <3> QED BY <2>4, <2>6, <3>1, <3>2, <3>3
  <2> QED BY <2>5, <2>6 DEF Holds, MadeOf
<1> HIDE DEF Holds
<1>6. Odd = {}
  <2> SUFFICES ASSUME Odd # {} PROVE FALSE
    OBVIOUS
  <2>1. PICK k \in Odd : \A j \in Odd : k <= j
    <3>1. Odd \subseteq Nat
      OBVIOUS
    <3> HIDE DEF Odd
    <3> QED BY <3>1, NatMin
  <2>2. k # 0
    BY <1>4
  <2>3. k \in 1 .. n /\ k - 1 \in 0 .. n /\ ~(k <= k - 1)
    BY <1>1, <2>2
  <2>4. Holds(k - 1)
    BY <2>1, <2>3
  <2> QED BY <1>5, <2>3, <2>4
<1>7. Holds(m)
  BY <1>6 DEF n
<1> QED BY <1>7 DEF Holds

-----------------------------------------------------------------------------
\* a is before b in the text: so are two siblings that they are in.
TextBefore(a, b) ==
    \E x \in Chain(stmt, a) \ {Root}, y \in Chain(stmt, b) : Earlier(Siblings(stmt, x), x, y)

\* The list is the text with the Trees of the first n levels unfolded.
Unfolded(list, n) ==
    /\ list \in Seq(DOMAIN stmt)
    /\ \A s \in DOMAIN stmt : stmt[s].type # "Goto" /\ ~HasChildren(stmt, s) =>
          \E a \in Chain(stmt, s) : Contains(list, a)
    /\ \A a, b : Earlier(list, a, b) => TextBefore(a, b)
    /\ \A a : Contains(list, a) /\ HasChildren(stmt, a) => Level(stmt, a) = n

\* The pieces of a statement are it or its children.
LEMMA InAPiece ==
    ASSUME PoolOK(stmt), NEW s \in DOMAIN stmt, NEW a, Contains(Piece(s), a)
    PROVE  /\ a \in DOMAIN stmt /\ Chain(stmt, s) \subseteq Chain(stmt, a)
           /\ \/ a = s /\ ~HasChildren(stmt, s)
              \/ a # Root /\ stmt[a].up = s /\ HasChildren(stmt, s) /\ Children(stmt, s) = Piece(s)
<1>1. Rooted(stmt)
  BY DEF PoolOK
<1>2. CASE HasChildren(stmt, s)
  <2>1. Children(stmt, s) = Piece(s)
    BY <1>2 DEF Piece, Children
  <2>2. a \in DOMAIN stmt
    BY <2>1, ContainedIn, PiecesInPool
  <2>3. stmt[a].up = s /\ s # 0 /\ stmt[Root].up = 0
    BY <2>1, <2>2 DEF PoolOK, Lists, Fields
  <2> QED BY <1>1, <1>2, <2>1, <2>2, <2>3, ChainEquation
<1>3. CASE ~HasChildren(stmt, s)
  BY <1>3, OneIn DEF Piece
<1> QED BY <1>2, <1>3

LEMMA UnfoldGoesDown ==
    ASSUME PoolOK(stmt), NEW n \in Nat, NEW list, Unfolded(list, n)
    PROVE  Unfolded(Unfold(list), n + 1)
<1> DEFINE D == DOMAIN stmt
<1>1. list \in Seq(D) /\ Rooted(stmt) /\ Len(list) \in Nat
  BY LenProperties DEF Unfolded, PoolOK
<1>2. PICK u : Pieces(u, list, Len(list)) /\ Unfold(list) = u[Len(list)]
  BY <1>1, UnfoldPieces
<1> DEFINE U == Unfold(list)
<1>3. \A k \in 1 .. Len(list) : list[k] \in D /\ Contains(list, list[k])
  BY <1>1, ElementOfSeq DEF Contains
<1>4. Len(list) \in 0 .. Len(list)
  BY <1>1
<1>5. U \in Seq(D)
  BY <1>2, <1>4 DEF Pieces
<1>6. /\ \A a : Contains(U, a) <=> \E k \in 1 .. Len(list) : Contains(Piece(list[k]), a)
      /\ \A a, b : Earlier(U, a, b) =>
            \/ \E k \in 1 .. Len(list) : Earlier(Piece(list[k]), a, b)
            \/ \E j, k \in 1 .. Len(list) : /\ j < k /\ Contains(Piece(list[j]), a)
                                            /\ Contains(Piece(list[k]), b)
  <2>1. MadeOf(U, list, Len(list))
    BY <1>1, <1>2, <1>4, PiecesHold
  <2> HIDE DEF U
  <2> QED BY <2>1 DEF MadeOf
<1> HIDE DEF U
<1>7. ASSUME NEW s \in D, stmt[s].type # "Goto", ~HasChildren(stmt, s)
      PROVE  \E a \in Chain(stmt, s) : Contains(U, a)
  <2>1. PICK c \in Chain(stmt, s) : Contains(list, c)
    BY <1>7 DEF Unfolded
  <2>2. PICK k \in 1 .. Len(list) : list[k] = c
    BY <2>1 DEF Contains
  <2>3. CASE ~HasChildren(stmt, c)
    <3>1. Contains(Piece(c), c)
      BY <2>3, OneIn DEF Piece
    <3> QED BY <1>6, <2>1, <2>2, <3>1
  <2>4. CASE HasChildren(stmt, c)
    <3>1. PICK y \in Chain(stmt, s) : y \in D /\ y # Root /\ stmt[y].up = c
      BY <1>7, <2>1, <2>4, ChildOnTheWay
    <3>2. stmt[y].type # "Goto"
      <4>1. CASE y = s
        BY <1>7, <4>1
      <4>2. CASE y # s
        BY <3>1, <4>2, ChildOnTheWay DEF HasChildren
      <4> QED BY <4>1, <4>2
    <3>3. Contains(Siblings(stmt, y), y)
      BY <3>1, <3>2 DEF PoolOK, Lists
    <3>4. Siblings(stmt, y) = Piece(c)
      BY <2>4, <3>1 DEF Siblings, Piece, Children
    <3> QED BY <1>6, <2>2, <3>3, <3>4
  <2> QED BY <2>3, <2>4
<1>8. ASSUME NEW a, NEW b, Earlier(U, a, b) PROVE TextBefore(a, b)
  <2>1. CASE \E k \in 1 .. Len(list) : Earlier(Piece(list[k]), a, b)
    <3>1. PICK k \in 1 .. Len(list) : Earlier(Piece(list[k]), a, b)
      BY <2>1
    <3> DEFINE c == list[k]
    <3>2. c \in D /\ Contains(Piece(c), a) /\ Contains(Piece(c), b)
      BY <1>3, <3>1, EarlierContained
    <3> HIDE DEF c
    <3>3. HasChildren(stmt, c)
      <4> SUFFICES ASSUME ~HasChildren(stmt, c) PROVE FALSE
        OBVIOUS
      <4> QED BY <3>1, OneIn DEF Piece, c
    <3>4. /\ a \in D /\ a # Root /\ stmt[a].up = c /\ Children(stmt, c) = Piece(c)
          /\ b \in D
      BY <3>2, <3>3, InAPiece
    <3>5. Earlier(Siblings(stmt, a), a, b)
      BY <3>1, <3>4 DEF Siblings, c
    <3>6. a \in Chain(stmt, a) /\ b \in Chain(stmt, b)
      BY <1>1, <3>4, ChainEquation
    <3> QED BY <3>4, <3>5, <3>6 DEF TextBefore
  <2>2. CASE \E j, k \in 1 .. Len(list) : /\ j < k /\ Contains(Piece(list[j]), a)
                                          /\ Contains(Piece(list[k]), b)
    <3>1. PICK j, k \in 1 .. Len(list) : /\ j < k /\ Contains(Piece(list[j]), a)
                                         /\ Contains(Piece(list[k]), b)
      BY <2>2
    <3>2. Earlier(list, list[j], list[k])
      BY <3>1 DEF Earlier
    <3>3. TextBefore(list[j], list[k])
      BY <3>2 DEF Unfolded
    <3>4. Chain(stmt, list[j]) \subseteq Chain(stmt, a) /\ Chain(stmt, list[k]) \subseteq Chain(stmt, b)
      BY <1>3, <3>1, InAPiece
    <3> QED BY <3>3, <3>4 DEF TextBefore
  <2> QED BY <1>6, <1>8, <2>1, <2>2
<1>9. ASSUME NEW a, Contains(U, a), HasChildren(stmt, a) PROVE Level(stmt, a) = n + 1
  <2>1. PICK k \in 1 .. Len(list) : Contains(Piece(list[k]), a)
    BY <1>6, <1>9
  <2> DEFINE c == list[k]
  <2>2. c \in D /\ Contains(list, c)
    BY <1>3
  <2>3. a \in D /\ stmt[a].up = c /\ HasChildren(stmt, c)
    BY <1>9, <2>1, <2>2, InAPiece
  <2>4. Level(stmt, c) = n
    BY <2>2, <2>3 DEF Unfolded
  <2>5. c # 0
    BY <2>2 DEF PoolOK, Fields
  <2> HIDE DEF c
  <2> QED BY <1>1, <2>3, <2>4, <2>5, LevelEquation
<1> QED BY <1>5, <1>7, <1>8, <1>9 DEF Unfolded, U

Trees == {s \in DOMAIN stmt : HasChildren(stmt, s)}

\* Text is the root with as many levels unfolded as the pool has Trees.
LEMMA TextIsUnfolded ==
    ASSUME TreeOK
    PROVE  IsFiniteSet(Trees) /\ Cardinality(Trees) \in Nat /\ Unfolded(Text, Cardinality(Trees))
<1> DEFINE n == Cardinality(Trees)
           S == Seq(DOMAIN stmt)
           F == [z \in (1 .. n) \X S |-> Unfold(z[2])]
           Solves(f) == f = [i \in 0 .. n |-> IF i = 0 THEN <<Root>> ELSE Unfold(f[i - 1])]
           text == CHOOSE f : Solves(f)
<1>1. PoolOK(stmt) /\ Rooted(stmt) /\ Fields(stmt) /\ Root \in DOMAIN stmt
  BY DEF TreeOK, PoolOK, Fields
<1>2. IsFiniteSet(Trees) /\ n \in Nat
  <2>1. Len(stmt) \in Nat /\ DOMAIN stmt = 1 .. Len(stmt)
    BY NumberedPool DEF TreeOK
  <2>2. IsFiniteSet(1 .. Len(stmt))
    BY <2>1, FS_Interval
  <2>3. Trees \subseteq 1 .. Len(stmt)
    BY <2>1 DEF Trees
  <2>4. IsFiniteSet(Trees)
    BY <2>2, <2>3, FS_Subset
  <2> QED BY <2>4, FS_CardinalityType
<1>3. Text = text[n]
  BY DEF Text, Trees
<1> HIDE DEF n
<1>4. \A y \in S : Unfold(y) \in S
  <2> SUFFICES ASSUME NEW y \in S PROVE Unfold(y) \in S
    OBVIOUS
  <2>1. PICK u : Pieces(u, y, Len(y)) /\ Unfold(y) = u[Len(y)]
    BY <1>1, UnfoldPieces
  <2>2. Len(y) \in 0 .. Len(y)
    BY LenProperties
  <2> QED BY <2>1, <2>2 DEF Pieces
<1>5. <<Root>> \in S
  BY <1>1
<1>6. \A k \in 1 .. n, y \in S : F[<<k, y>>] = Unfold(y) /\ F[<<k, y>>] \in S
  <2> SUFFICES ASSUME NEW k \in 1 .. n, NEW y \in S
               PROVE  F[<<k, y>>] = Unfold(y) /\ F[<<k, y>>] \in S
    OBVIOUS
  <2>1. <<k, y>> \in (1 .. n) \X S /\ <<k, y>>[2] = y
    OBVIOUS
  <2> HIDE DEF S
  <2> QED BY <1>4, <2>1
<1> HIDE DEF F, S
<1>7. PICK f : /\ f \in [0 .. n -> S] /\ f[0] = <<Root>>
               /\ \A k \in 1 .. n : f[k] = F[<<k, f[k - 1]>>]
  <2>1. TurnsIn(F, n, S)
    BY <1>6 DEF TurnsIn
  <2>2. \E f : Recursion(f, F, <<Root>>, n, S)
    BY <1>2, <1>5, <2>1, RecursionExists
  <2> QED BY <2>2 DEF Recursion
<1>8. \A k \in 1 .. n : k - 1 \in 0 .. n /\ k \in 0 .. n /\ k # 0 /\ ~(k <= k - 1)
  BY <1>2
<1>9. \A i \in 0 .. n : i = 0 \/ i \in 1 .. n
  BY <1>2
<1>10. Solves(f)
  <2>1. f = [i \in 0 .. n |-> f[i]]
    BY <1>7
  <2>2. \A k \in 1 .. n : f[k] = Unfold(f[k - 1])
    BY <1>6, <1>7, <1>8
  <2>3. \A i \in 0 .. n : f[i] = IF i = 0 THEN <<Root>> ELSE Unfold(f[i - 1])
    BY <1>7, <1>9, <2>2
  <2> QED BY <2>1, <2>3
<1>11. Solves(text)
  <2> HIDE DEF Solves
  <2> QED BY <1>10
<1> HIDE DEF text
<1>12. text[0] = <<Root>> /\ \A k \in 1 .. n : text[k] = Unfold(text[k - 1])
  <2>1. text = [i \in 0 .. n |-> IF i = 0 THEN <<Root>> ELSE Unfold(text[i - 1])]
    BY <1>11
  <2>2. 0 \in 0 .. n
    BY <1>2
  <2>3. \A i \in 0 .. n : text[i] = IF i = 0 THEN <<Root>> ELSE Unfold(text[i - 1])
    BY <2>1
  <2> QED BY <1>8, <2>2, <2>3
<1> HIDE DEF Solves
<1>13. Unfolded(<<Root>>, 0)
  <2>1. \A s \in DOMAIN stmt : Root \in Chain(stmt, s)
    BY <1>1, RootInChain
  <2>2. Contains(<<Root>>, Root) /\ \A a : Contains(<<Root>>, a) => a = Root
    BY OneIn
  <2>3. \A a, b : ~Earlier(<<Root>>, a, b)
    BY OneIn
  <2>4. Level(stmt, Root) = 0
    BY <1>1, LevelEquation DEF Fields
  <2> QED BY <1>5, <2>1, <2>2, <2>3, <2>4 DEF Unfolded, S
<1>14. \A k \in 0 .. n : Unfolded(text[k], k)
  <2> DEFINE Odd == {k \in 0 .. n : ~Unfolded(text[k], k)}
  <2> SUFFICES ASSUME Odd # {} PROVE FALSE
    OBVIOUS
  <2>1. PICK k \in Odd : \A j \in Odd : k <= j
    <3>1. Odd \subseteq Nat
      OBVIOUS
    <3> HIDE DEF Odd
    <3> QED BY <3>1, NatMin
  <2>2. k # 0
    BY <1>12, <1>13
  <2>3. k \in 1 .. n /\ k - 1 \in 0 .. n /\ ~(k <= k - 1)
    BY <1>8, <1>9, <2>2
  <2>4. Unfolded(text[k - 1], k - 1)
    BY <2>1, <2>3
  <2>5. k - 1 \in Nat /\ (k - 1) + 1 = k
    BY <2>3
  <2>6. Unfolded(Unfold(text[k - 1]), (k - 1) + 1)
    BY <1>1, <2>4, <2>5, UnfoldGoesDown
  <2>7. Unfolded(text[k], k)
    BY <1>12, <2>3, <2>5, <2>6
  <2> QED BY <2>7
<1>15. n \in 0 .. n
  BY <1>2
<1> QED BY <1>2, <1>3, <1>14, <1>15 DEF n

\* A statement is on a level below the number of the Trees.
LEMMA NoTreeBelow ==
    ASSUME TreeOK, NEW s \in DOMAIN stmt, HasChildren(stmt, s), IsFiniteSet(Trees)
    PROVE  Level(stmt, s) < Cardinality(Trees)
<1> DEFINE n == Level(stmt, s)
           I == 0 .. n
           f == [i \in I |-> Ancestor(stmt, s, i)]
<1>1. PoolOK(stmt) /\ Rooted(stmt)
  BY DEF TreeOK, PoolOK
<1>2. n \in Nat
  BY <1>1, LevelEquation
<1>3. \A i \in I : /\ Ancestor(stmt, s, i) \in Chain(stmt, s)
                   /\ Level(stmt, Ancestor(stmt, s, i)) = n - i
  BY <1>1, AncestorLevel
<1>4. \A x \in Chain(stmt, s) : x \in Trees
  <2> SUFFICES ASSUME NEW x \in Chain(stmt, s) PROVE x \in Trees
    OBVIOUS
  <2>1. CASE x = s
    BY <2>1 DEF Trees
  <2>2. CASE x # s
    BY <1>1, <2>2, ChildOnTheWay DEF Trees
  <2> QED BY <2>1, <2>2
<1> HIDE DEF n
<1>5. f \in Injection(I, Trees)
  <2>1. f \in [I -> Trees] /\ \A i \in I : Level(stmt, f[i]) = n - i
    BY <1>3, <1>4
  <2> HIDE DEF f
  <2>2. \A i, j \in I : f[i] = f[j] => i = j
    <3> SUFFICES ASSUME NEW i \in I, NEW j \in I, f[i] = f[j] PROVE i = j
      OBVIOUS
    <3>1. n - i = n - j
      BY <2>1
    <3> QED BY <1>2, <3>1
  <2> QED BY <2>1, <2>2 DEF Injection, IsInjective
<1>6. Cardinality(I) <= Cardinality(Trees) /\ Cardinality(Trees) \in Nat
  <2> HIDE DEF f, I
  <2> QED BY <1>5, FS_Injection, FS_CardinalityType
<1>7. Cardinality(I) = n + 1
  <2>1. Cardinality(0 .. n) = IF 0 > n THEN 0 ELSE n - 0 + 1
    BY <1>2, FS_Interval
  <2> QED BY <1>2, <2>1
<1> HIDE DEF I
<1> QED BY <1>2, <1>6, <1>7 DEF n

\* The text has all statements but the Trees and the gotos, in the order of the tree.
LEMMA TextHolds ==
    ASSUME TreeOK
    PROVE  /\ Text \in Seq(DOMAIN stmt)
           /\ \A s \in DOMAIN stmt :
                 stmt[s].type # "Goto" /\ ~HasChildren(stmt, s) => Contains(Text, s)
           /\ \A a, b : Earlier(Text, a, b) => TextBefore(a, b)
<1>1. PoolOK(stmt) /\ Rooted(stmt)
  BY DEF TreeOK, PoolOK
<1>2. /\ IsFiniteSet(Trees) /\ Cardinality(Trees) \in Nat
      /\ Unfolded(Text, Cardinality(Trees))
  BY TextIsUnfolded
<1>3. Text \in Seq(DOMAIN stmt) /\ \A a, b : Earlier(Text, a, b) => TextBefore(a, b)
  BY <1>2 DEF Unfolded
<1>4. ASSUME NEW s \in DOMAIN stmt, stmt[s].type # "Goto", ~HasChildren(stmt, s)
      PROVE  Contains(Text, s)
  <2>1. PICK a \in Chain(stmt, s) : Contains(Text, a)
    BY <1>2, <1>4 DEF Unfolded
  <2>2. CASE a # s
    <3>1. a \in DOMAIN stmt /\ HasChildren(stmt, a)
      BY <1>1, <2>2, ChildOnTheWay
    <3>2. Level(stmt, a) = Cardinality(Trees)
      BY <1>2, <2>1, <3>1 DEF Unfolded
    <3>3. Level(stmt, a) < Cardinality(Trees)
      BY <1>2, <3>1, NoTreeBelow
    <3> QED BY <1>2, <3>2, <3>3
  <2> QED BY <2>1, <2>2
<1> QED BY <1>3, <1>4

-----------------------------------------------------------------------------
(* The code of the blocks                                                  *)

\* The Codes that stand for a block of the graph.
GuestCode(st) == {s \in DOMAIN st : st[s].type = "Code" /\ st[s].block # Dummy}

\* The code of each of n blocks is in the pool once, and no code is in the text behind the
\* code of a later block.
CodePlaced(st, n) ==
    /\ \A s \in DOMAIN st : st[s].type = "Code" => "block" \in DOMAIN st[s]
    /\ \A s \in GuestCode(st) : st[s].block \in 1 .. n
    /\ \A b \in 1 .. n : \E s \in GuestCode(st) : st[s].block = b
    /\ \A s, t \in GuestCode(st) : s # t =>
          st[s].block # st[t].block /\ (st[s].block < st[t].block => NotBehind(st, t, s))

\* In s2 the statements of st have the type and the block they had; a new Code stands
\* for no block.
CodeKept(st, s2) ==
    /\ DOMAIN st \subseteq DOMAIN s2
    /\ \A s \in DOMAIN st :
          /\ "type" \in DOMAIN st[s] => "type" \in DOMAIN s2[s] /\ s2[s].type = st[s].type
          /\ "block" \in DOMAIN st[s] => "block" \in DOMAIN s2[s] /\ s2[s].block = st[s].block
    /\ \A s \in DOMAIN s2 \ DOMAIN st :
          /\ "type" \in DOMAIN s2[s]
          /\ s2[s].type = "Code" => "block" \in DOMAIN s2[s] /\ s2[s].block = Dummy

LEMMA CodeStaysPlaced ==
    ASSUME NEW st, NEW n, CodePlaced(st, n), NEW s2, CodeKept(st, s2), NEW gone,
           Keeps(st, s2, gone)
    PROVE  CodePlaced(s2, n)
<1>1. \A s \in DOMAIN st : s \in DOMAIN s2 /\ s2[s].type = st[s].type
  BY DEF Keeps, SameKind
<1>2. \A s \in DOMAIN st : st[s].type = "Code" => "block" \in DOMAIN s2[s] /\ s2[s].block = st[s].block
  BY DEF CodePlaced, CodeKept
<1>3. \A s \in GuestCode(s2) : s \in GuestCode(st) /\ s2[s].block = st[s].block
  BY <1>1, <1>2 DEF GuestCode, CodeKept
<1>4. \A s \in GuestCode(st) : s \in GuestCode(s2)
  BY <1>1, <1>2 DEF GuestCode
<1>5. \A s \in DOMAIN s2 : s2[s].type = "Code" => "block" \in DOMAIN s2[s]
  BY <1>1, <1>2 DEF CodeKept
<1>6. \A s \in GuestCode(s2) : s2[s].block \in 1 .. n
  BY <1>3 DEF CodePlaced
<1>7. \A b \in 1 .. n : \E s \in GuestCode(s2) : s2[s].block = b
  BY <1>3, <1>4 DEF CodePlaced
<1>8. ASSUME NEW s \in GuestCode(s2), NEW t \in GuestCode(s2), s # t
      PROVE  s2[s].block # s2[t].block /\ (s2[s].block < s2[t].block => NotBehind(s2, t, s))
  <2>1. /\ s \in GuestCode(st) /\ s2[s].block = st[s].block
        /\ t \in GuestCode(st) /\ s2[t].block = st[t].block
    BY <1>3
  <2>2. s \in DOMAIN st /\ t \in DOMAIN st
    BY <2>1 DEF GuestCode
  <2>3. st[s].block # st[t].block /\ (st[s].block < st[t].block => NotBehind(st, t, s))
    BY <1>8, <2>1 DEF CodePlaced
  <2>4. NotBehind(st, t, s) => NotBehind(s2, t, s)
    BY <2>2 DEF Keeps
  <2> QED BY <2>1, <2>3, <2>4
<1> QED BY <1>5, <1>6, <1>7, <1>8 DEF CodePlaced

\* Nothing is before itself in the text.
LEMMA NotBeforeItself ==
    ASSUME PoolOK(stmt), NEW s \in DOMAIN stmt
    PROVE  ~TextBefore(s, s)
<1> SUFFICES ASSUME TextBefore(s, s) PROVE FALSE
  OBVIOUS
<1>1. PICK x \in Chain(stmt, s) \ {Root}, y \in Chain(stmt, s) : Earlier(Siblings(stmt, x), x, y)
  BY DEF TextBefore
<1>2. Rooted(stmt) /\ x \in DOMAIN stmt /\ y \in DOMAIN stmt
  BY <1>1, ChainInPool DEF PoolOK
<1>3. stmt[y].up = stmt[x].up
  BY <1>1, <1>2, ListOf, EarlierContained
<1>4. x = y
  BY <1>1, <1>2, <1>3, OnePerLevel
<1>5. Once(Siblings(stmt, x))
  BY <1>1, <1>2, ListOf
<1> QED BY <1>1, <1>4, <1>5 DEF Once

LEMMA CodeStandsInOrder ==
    ASSUME TreeOK, CodePlaced(stmt, Len(cfg))
    PROVE  CodeInOrder
<1> DEFINE text == Text
           code == {i \in DOMAIN text : stmt[text[i]].type = "Code" /\ stmt[text[i]].block # Dummy}
<1>1. /\ text \in Seq(DOMAIN stmt)
      /\ \A s \in DOMAIN stmt :
            stmt[s].type # "Goto" /\ ~HasChildren(stmt, s) => Contains(text, s)
      /\ \A a, b : Earlier(text, a, b) => TextBefore(a, b)
  BY TextHolds
<1>2. PoolOK(stmt) /\ Rooted(stmt)
  BY DEF TreeOK, PoolOK
<1> HIDE DEF text
<1>3. DOMAIN text = 1 .. Len(text) /\ \A i \in DOMAIN text : text[i] \in DOMAIN stmt
  BY <1>1, ElementOfSeq, LenProperties
<1>4. \A i \in code : i \in 1 .. Len(text) /\ text[i] \in GuestCode(stmt)
  BY <1>3 DEF GuestCode
<1>5. \A s \in GuestCode(stmt) : \E i \in code : text[i] = s
  <2> SUFFICES ASSUME NEW s \in GuestCode(stmt) PROVE \E i \in code : text[i] = s
    OBVIOUS
  <2>1. s \in DOMAIN stmt /\ stmt[s].type = "Code" /\ stmt[s].block # Dummy
    BY DEF GuestCode
  <2>2. Contains(text, s)
    BY <1>1, <2>1 DEF HasChildren
  <2>3. PICK i \in 1 .. Len(text) : text[i] = s
    BY <2>2 DEF Contains
  <2> QED BY <1>3, <2>1, <2>3
<1> HIDE DEF code
<1>6. {stmt[text[i]].block : i \in code} = 1 .. Len(cfg)
  <2>1. \A i \in code : stmt[text[i]].block \in 1 .. Len(cfg)
    BY <1>4 DEF CodePlaced
  <2>2. ASSUME NEW b \in 1 .. Len(cfg) PROVE \E i \in code : stmt[text[i]].block = b
    <3>1. PICK s \in GuestCode(stmt) : stmt[s].block = b
      BY DEF CodePlaced
    <3>2. PICK i \in code : text[i] = s
      BY <1>5
    <3> QED BY <3>1, <3>2
  <2> QED BY <2>1, <2>2
<1>7. ASSUME NEW i \in code, NEW j \in code, i < j
      PROVE  stmt[text[i]].block < stmt[text[j]].block
  <2> DEFINE s == text[i]
             t == text[j]
  <2>1. s \in GuestCode(stmt) /\ t \in GuestCode(stmt)
    BY <1>4
  <2>2. Earlier(text, s, t)
    BY <1>4, <1>7 DEF Earlier
  <2>3. TextBefore(s, t)
    BY <1>1, <2>2
  <2> HIDE DEF s, t
  <2>4. s \in DOMAIN stmt /\ t \in DOMAIN stmt
    BY <2>1 DEF GuestCode
  <2>5. s # t
    BY <1>2, <2>3, <2>4, NotBeforeItself
  <2>6. ~(stmt[t].block < stmt[s].block)
    <3> SUFFICES ASSUME stmt[t].block < stmt[s].block PROVE FALSE
      OBVIOUS
    <3>1. NotBehind(stmt, s, t)
      BY <2>1, <2>5 DEF CodePlaced
    <3>2. PICK x \in Chain(stmt, s) \ {Root}, y \in Chain(stmt, t) : Earlier(Siblings(stmt, x), x, y)
      BY <2>3 DEF TextBefore
    <3>3. y \in DOMAIN stmt
      BY <1>2, <2>4, <3>2, ChainInPool
    <3> QED BY <3>1, <3>2, <3>3 DEF NotBehind
  <2>7. stmt[s].block \in Int /\ stmt[t].block \in Int /\ stmt[s].block # stmt[t].block
    BY <2>1, <2>5 DEF CodePlaced
  <2> QED BY <2>6, <2>7 DEF s, t
<1> QED BY <1>6, <1>7 DEF CodeInOrder, text, code

LEMMA CodeKeptTwice ==
    ASSUME NEW s1, NEW s2, NEW s3, CodeKept(s1, s2), CodeKept(s2, s3)
    PROVE  CodeKept(s1, s3)
<1>1. \A s \in DOMAIN s1 :
         /\ "type" \in DOMAIN s1[s] => "type" \in DOMAIN s3[s] /\ s3[s].type = s1[s].type
         /\ "block" \in DOMAIN s1[s] => "block" \in DOMAIN s3[s] /\ s3[s].block = s1[s].block
  BY DEF CodeKept
<1>2. ASSUME NEW s \in DOMAIN s3 \ DOMAIN s1
      PROVE  /\ "type" \in DOMAIN s3[s]
             /\ s3[s].type = "Code" => "block" \in DOMAIN s3[s] /\ s3[s].block = Dummy
  <2>1. CASE s \in DOMAIN s2
    BY <1>2, <2>1 DEF CodeKept
  <2>2. CASE s \notin DOMAIN s2
    BY <1>2, <2>2 DEF CodeKept
  <2> QED BY <2>1, <2>2
<1> QED BY <1>1, <1>2 DEF CodeKept

\* Another value of a field that is neither the type nor the block.
LEMMA OtherField ==
    ASSUME NEW r, NEW v, NEW f, f \in {"children", "up", "cond"}
    PROVE  /\ DOMAIN [r EXCEPT ![f] = v] = DOMAIN r
           /\ "type" \in DOMAIN r => [r EXCEPT ![f] = v].type = r.type
           /\ "block" \in DOMAIN r => [r EXCEPT ![f] = v].block = r.block
OBVIOUS

LEMMA SetChildrenKeepsCode ==
    ASSUME NEW st, NEW s, NEW body
    PROVE  CodeKept(st, SetChildren(st, s, body))
<1> DEFINE s2 == SetChildren(st, s, body)
<1>1. /\ DOMAIN s2 = DOMAIN st
      /\ \A x \in DOMAIN st : s2[x] = IF x = s THEN [st[x] EXCEPT !.children = body] ELSE st[x]
  BY DEF SetChildren
<1> HIDE DEF s2
<1>2. ASSUME NEW x \in DOMAIN st
      PROVE  /\ "type" \in DOMAIN st[x] => "type" \in DOMAIN s2[x] /\ s2[x].type = st[x].type
             /\ "block" \in DOMAIN st[x] => "block" \in DOMAIN s2[x] /\ s2[x].block = st[x].block
  <2> DEFINE r == st[x]
             r2 == [r EXCEPT !.children = body]
  <2>1. /\ DOMAIN r2 = DOMAIN r
        /\ "type" \in DOMAIN r => r2.type = r.type
        /\ "block" \in DOMAIN r => r2.block = r.block
    BY OtherField
  <2>2. s2[x] = r2 \/ s2[x] = r
    BY <1>1
  <2> HIDE DEF r, r2
  <2> QED BY <2>1, <2>2 DEF r
<1> QED BY <1>1, <1>2 DEF CodeKept, s2

LEMMA UpdateTreeUpKeepsCode ==
    ASSUME NEW st, NEW s
    PROVE  CodeKept(st, UpdateTreeUp(st, s))
<1> DEFINE s2 == UpdateTreeUp(st, s)
<1>1. /\ DOMAIN s2 = DOMAIN st
      /\ \A x \in DOMAIN st : s2[x] = IF Contains(st[s].children, x) THEN [st[x] EXCEPT !.up = s]
                                                                     ELSE st[x]
  BY DEF UpdateTreeUp
<1> HIDE DEF s2
<1>2. ASSUME NEW x \in DOMAIN st
      PROVE  /\ "type" \in DOMAIN st[x] => "type" \in DOMAIN s2[x] /\ s2[x].type = st[x].type
             /\ "block" \in DOMAIN st[x] => "block" \in DOMAIN s2[x] /\ s2[x].block = st[x].block
  <2> DEFINE r == st[x]
             r2 == [r EXCEPT !.up = s]
  <2>1. /\ DOMAIN r2 = DOMAIN r
        /\ "type" \in DOMAIN r => r2.type = r.type
        /\ "block" \in DOMAIN r => r2.block = r.block
    BY OtherField
  <2>2. s2[x] = r2 \/ s2[x] = r
    BY <1>1
  <2> HIDE DEF r, r2
  <2> QED BY <2>1, <2>2 DEF r
<1> QED BY <1>1, <1>2 DEF CodeKept, s2

LEMMA EnterNestedKeepsCode ==
    ASSUME NEW st, NEW s, NEW variable
    PROVE  CodeKept(st, EnterNested(st, s, variable))
<1> DEFINE s2 == EnterNested(st, s, variable)
<1>1. /\ DOMAIN s2 = DOMAIN st
      /\ \A x \in DOMAIN st : \/ s2[x] = [st[x] EXCEPT !.cond = Or(variable, st[x].cond)]
                              \/ s2[x] = st[x]
  BY DEF EnterNested
<1> HIDE DEF s2
<1>2. ASSUME NEW x \in DOMAIN st
      PROVE  /\ "type" \in DOMAIN st[x] => "type" \in DOMAIN s2[x] /\ s2[x].type = st[x].type
             /\ "block" \in DOMAIN st[x] => "block" \in DOMAIN s2[x] /\ s2[x].block = st[x].block
  <2> DEFINE r == st[x]
             r2 == [r EXCEPT !.cond = Or(variable, st[x].cond)]
  <2>1. /\ DOMAIN r2 = DOMAIN r
        /\ "type" \in DOMAIN r => r2.type = r.type
        /\ "block" \in DOMAIN r => r2.block = r.block
    BY OtherField
  <2>2. s2[x] = r2 \/ s2[x] = r
    BY <1>1
  <2> HIDE DEF r, r2
  <2> QED BY <2>1, <2>2 DEF r
<1> QED BY <1>1, <1>2 DEF CodeKept, s2

\* A new statement that is no Code of a block.
LEMMA CreateKeepsCode ==
    ASSUME NEW st, Numbered(st), NEW fields, "type" \in DOMAIN fields,
           fields.type = "Code" => "block" \in DOMAIN fields /\ fields.block = Dummy
    PROVE  CodeKept(st, Create(st, fields)) /\ Numbered(Create(st, fields))
<1> DEFINE s2 == Create(st, fields)
<1>1. Created(st, s2, fields)
  BY CreateDoes
<1> HIDE DEF s2
<1>2. \A x \in DOMAIN s2 \ DOMAIN st : s2[x] = fields
  BY <1>1 DEF Created
<1> QED BY <1>1, <1>2 DEF Created, CodeKept, s2

LEMMA StaysNumbered ==
    ASSUME NEW st, Numbered(st), NEW s, NEW body, NEW variable
    PROVE  /\ Numbered(SetChildren(st, s, body)) /\ Numbered(UpdateTreeUp(st, s))
           /\ Numbered(EnterNested(st, s, variable))
<1> DEFINE n == Len(st)
           a == SetChildren(st, s, body)
           b == UpdateTreeUp(st, s)
           c == EnterNested(st, s, variable)
<1>1. n \in Nat /\ DOMAIN st = 1 .. n
  BY NumberedPool
<1>2. /\ a = [x \in 1 .. n |-> a[x]] /\ b = [x \in 1 .. n |-> b[x]]
      /\ c = [x \in 1 .. n |-> c[x]]
  <2> HIDE DEF n
  <2> QED BY <1>1 DEF SetChildren, UpdateTreeUp, EnterNested
<1> HIDE DEF a, b, c, n
<1>3. Numbered(a) /\ Numbered(b) /\ Numbered(c)
  BY <1>1, <1>2, NumberPool
<1> QED BY <1>3 DEF a, b, c

\* The pool s2 comes from st and has its Codes.
CodeStep(st, s2) == Numbered(s2) /\ CodeKept(st, s2)

LEMMA CodeSteps ==
    ASSUME NEW st, NEW s1, CodeStep(st, s1)
    PROVE  /\ \A s, body : CodeStep(st, SetChildren(s1, s, body))
           /\ \A s : CodeStep(st, UpdateTreeUp(s1, s))
           /\ \A s, variable : CodeStep(st, EnterNested(s1, s, variable))
           /\ \A fields : "type" \in DOMAIN fields /\ fields.type # "Code" =>
                 CodeStep(st, Create(s1, fields))
<1>1. Numbered(s1) /\ CodeKept(st, s1)
  BY DEF CodeStep
<1>2. ASSUME NEW s, NEW body PROVE CodeStep(st, SetChildren(s1, s, body))
  BY <1>1, StaysNumbered, SetChildrenKeepsCode, CodeKeptTwice DEF CodeStep
<1>3. ASSUME NEW s PROVE CodeStep(st, UpdateTreeUp(s1, s))
  BY <1>1, StaysNumbered, UpdateTreeUpKeepsCode, CodeKeptTwice DEF CodeStep
<1>4. ASSUME NEW s, NEW variable PROVE CodeStep(st, EnterNested(s1, s, variable))
  BY <1>1, StaysNumbered, EnterNestedKeepsCode, CodeKeptTwice DEF CodeStep
<1>5. ASSUME NEW fields, "type" \in DOMAIN fields /\ fields.type # "Code"
      PROVE  CodeStep(st, Create(s1, fields))
  BY <1>1, <1>5, CreateKeepsCode, CodeKeptTwice DEF CodeStep
<1> QED BY <1>2, <1>3, <1>4, <1>5

LEMMA CodeStepNone ==
    ASSUME NEW st, Numbered(st)
    PROVE  CodeStep(st, st)
BY DEF CodeStep, CodeKept

\* The new statements of the moves are no Codes.
LEMMA NewStatements ==
    ASSUME NEW st, NEW g, NEW up
    PROVE  /\ "type" \in DOMAIN NewGoto(st, g, up) /\ NewGoto(st, g, up).type # "Code"
           /\ "type" \in DOMAIN SetVariable(st, g, up) /\ SetVariable(st, g, up).type # "Code"
           /\ "type" \in DOMAIN SkipIf(st, g) /\ SkipIf(st, g).type # "Code"
BY DEF NewGoto, SetVariable, SkipIf

LEMMA ConditionalKeepsCode ==
    ASSUME NEW st, Numbered(st), NEW g
    PROVE  CodeKept(st, EliminateAsConditional(st, g))
<1> DEFINE s1 == Create(st, SkipIf(st, g))
           s2 == UpdateTreeUp(s1, Len(s1))
<1>1. CodeStep(st, s1)
  BY CodeStepNone, CodeSteps, NewStatements
<1>2. CodeStep(st, s2)
  <2> HIDE DEF s1
  <2> QED BY <1>1, CodeSteps
<1> HIDE DEF s2
<1>3. CodeStep(st, SetChildren(s2, st[g].up, Before(st, g) \o <<Len(s1)>> \o From(st, st[g].label)))
  <2> HIDE DEF s1
  <2> QED BY <1>2, CodeSteps
<1> QED BY <1>3 DEF EliminateAsConditional, CodeStep, s2

LEMMA LoopKeepsCode ==
    ASSUME NEW st, Numbered(st), NEW g
    PROVE  CodeKept(st, EliminateAsLoop(st, g))
<1> DEFINE tree == [type |-> "Loop", up |-> st[g].up, cond |-> st[g].cond,
                    children |-> Span(st, st[g].label, g)]
           s1 == Create(st, tree)
           s2 == UpdateTreeUp(s1, Len(s1))
<1>1. CodeStep(st, s1)
  <2>1. "type" \in DOMAIN tree /\ tree.type # "Code"
    OBVIOUS
  <2> HIDE DEF tree
  <2> QED BY <2>1, CodeStepNone, CodeSteps
<1>2. CodeStep(st, s2)
  <2> HIDE DEF s1
  <2> QED BY <1>1, CodeSteps
<1> HIDE DEF s2
<1>3. CodeStep(st, SetChildren(s2, st[g].up,
                               Before(st, st[g].label) \o <<Len(s1)>> \o After(st, g)))
  <2> HIDE DEF s1
  <2> QED BY <1>2, CodeSteps
<1> QED BY <1>3 DEF EliminateAsLoop, CodeStep, s2

LEMMA OutwardKeepsCode ==
    ASSUME NEW st, Numbered(st), NEW g
    PROVE  CodeKept(st, MoveOutwardLoop(st, g))
<1> DEFINE p == st[g].up
           s1 == Create(st, SetVariable(st, g, p))
           leaf == [type |-> "Break", up |-> p, cond |-> Variable(st[st[g].label].id)]
           s2 == Create(s1, leaf)
           s3 == SetChildren(s2, p, Before(st, g) \o <<Len(s1), Len(s2)>> \o After(st, g))
           s4 == Create(s3, NewGoto(st, g, st[p].up))
           s5 == SetChildren(s4, st[p].up, Before(st, p) \o <<p, Len(s4)>> \o After(st, p))
<1>1. CodeStep(st, s1)
  BY CodeStepNone, CodeSteps, NewStatements
<1>2. CodeStep(st, s2)
  <2>1. "type" \in DOMAIN leaf /\ leaf.type # "Code"
    OBVIOUS
  <2> HIDE DEF s1, leaf
  <2> QED BY <1>1, <2>1, CodeSteps
<1>3. CodeStep(st, s3)
  <2> HIDE DEF s2
  <2> QED BY <1>2, CodeSteps
<1>4. CodeStep(st, s4)
  <2> HIDE DEF s3
  <2> QED BY <1>3, CodeSteps, NewStatements
<1>5. CodeStep(st, s5)
  <2> HIDE DEF s4
  <2> QED BY <1>4, CodeSteps
<1>6. MoveOutwardLoop(st, g) = s5
  BY DEF MoveOutwardLoop, GotoAfterParent
<1> HIDE DEF s5
<1> QED BY <1>5, <1>6 DEF CodeStep

LEMMA InwardKeepsCode ==
    ASSUME NEW st, Numbered(st), NEW g
    PROVE  CodeKept(st, MoveInward(st, g))
<1> DEFINE p == st[g].up
           nested == SiblingFromNephew(st, g, st[g].label)
           skipped == Tail(Span(st, g, nested))
           variable == Variable(st[st[g].label].id)
           s1 == Create(st, SetVariable(st, g, p))
           tree == [type |-> "If", up |-> p, cond |-> Not(variable), children |-> skipped]
           s2 == Create(s1, tree)
           u == UpdateTreeUp(s2, Len(s2))
           a == SetChildren(s1, p, Before(st, g) \o <<Len(s1)>> \o From(st, nested))
           b == SetChildren(u, p, Before(st, g) \o <<Len(s1), Len(s2)>> \o From(st, nested))
           s3 == IF skipped = <<>> THEN a ELSE b
           e == EnterNested(s3, nested, variable)
           s4 == Create(e, NewGoto(st, g, nested))
           s5 == SetChildren(s4, nested, <<Len(s4)>> \o st[nested].children)
<1>1. CodeStep(st, s1)
  BY CodeStepNone, CodeSteps, NewStatements
<1>2. CodeStep(st, s2)
  <2>1. "type" \in DOMAIN tree /\ tree.type # "Code"
    OBVIOUS
  <2> HIDE DEF s1, tree
  <2> QED BY <1>1, <2>1, CodeSteps
<1>3. CodeStep(st, u)
  <2> HIDE DEF s2
  <2> QED BY <1>2, CodeSteps
<1>4. CodeStep(st, a)
  <2> HIDE DEF s1
  <2> QED BY <1>1, CodeSteps
<1>5. CodeStep(st, b)
  <2> HIDE DEF u
  <2> QED BY <1>3, CodeSteps
<1>6. CodeStep(st, s3)
  <2> HIDE DEF a, b
  <2> QED BY <1>4, <1>5
<1>7. CodeStep(st, e)
  <2> HIDE DEF s3
  <2> QED BY <1>6, CodeSteps
<1>8. CodeStep(st, s4)
  <2> HIDE DEF e
  <2> QED BY <1>7, CodeSteps, NewStatements
<1>9. CodeStep(st, s5)
  <2> HIDE DEF s4
  <2> QED BY <1>8, CodeSteps
<1>10. MoveInward(st, g) = s5
  BY DEF MoveInward
<1> HIDE DEF s5
<1> QED BY <1>9, <1>10 DEF CodeStep

LEMMA LiftKeepsCode ==
    ASSUME NEW st, Numbered(st), NEW g
    PROVE  CodeKept(st, Lift(st, g))
<1> DEFINE p == st[g].up
           nested == SiblingFromNephew(st, g, st[g].label)
           body == Span(st, nested, g)
           tree == [type |-> "Loop", up |-> p, cond |-> Variable(st[st[g].label].id),
                    children |-> body]
           s1 == Create(st, tree)
           loop == Len(s1)
           u == UpdateTreeUp(s1, loop)
           s2 == Create(u, NewGoto(st, g, loop))
           s3 == Create(s2, SetVariable(st, g, loop))
           s4 == SetChildren(s3, loop, <<Len(s2)>> \o body \o <<Len(s3)>>)
           s5 == SetChildren(s4, p, Before(st, nested) \o <<loop>> \o After(st, g))
<1>1. CodeStep(st, s1)
  <2>1. "type" \in DOMAIN tree /\ tree.type # "Code"
    OBVIOUS
  <2> HIDE DEF tree
  <2> QED BY <2>1, CodeStepNone, CodeSteps
<1>2. CodeStep(st, u)
  <2> HIDE DEF s1
  <2> QED BY <1>1, CodeSteps
<1>3. CodeStep(st, s2)
  <2> HIDE DEF u
  <2> QED BY <1>2, CodeSteps, NewStatements
<1>4. CodeStep(st, s3)
  <2> HIDE DEF s2
  <2> QED BY <1>3, CodeSteps, NewStatements
<1>5. CodeStep(st, s4)
  <2> HIDE DEF s3
  <2> QED BY <1>4, CodeSteps
<1>6. CodeStep(st, s5)
  <2> HIDE DEF s4
  <2> QED BY <1>5, CodeSteps
<1>7. Lift(st, g) = s5
  BY DEF Lift
<1> HIDE DEF s5
<1> QED BY <1>6, <1>7 DEF CodeStep

\* A step of RemoveGoto that takes the goto g away keeps the rest and the code.
TreeStep(st, s2, g) == Keeps(st, s2, {g}) /\ CodeKept(st, s2)

LEMMA MoveOutwardIsAStep ==
    ASSUME TreeOK, WaitingOK, goto_stmt # 0, OutwardOK, MoveOutward, step' # "LogicError"
    PROVE  TreeStep(stmt, stmt', goto_stmt)
<1> DEFINE g == goto_stmt
           p == stmt[g].up
<1>1. /\ g \in GotosIn(stmt) /\ g \in DOMAIN stmt /\ g # Root /\ p \in DOMAIN stmt /\ p # 0
      /\ stmt[g].type = "Goto" /\ Rooted(stmt)
  BY TheGoto
<1>2. p \in Chain(stmt, g) /\ p # g
  <2>1. p \in Chain(stmt, g)
    BY <1>1, ChainEquation, ChainGoesUp
  <2>2. g \notin Chain(stmt, p) /\ p \in Chain(stmt, p)
    BY <1>1, NotInItself, ChainEquation
  <2> QED BY <2>1, <2>2
<1>3. stmt[p].type \in {"If", "Loop"}
  BY DEF MoveOutward
<1>4. p # Root
  BY <1>3 DEF TreeOK, PoolOK, Fields
<1>5. stmt[p].type = "Loop"
  BY <1>2, <1>4 DEF OutwardOK, OutwardPath
<1>6. stmt' = MoveOutwardLoop(stmt, g)
  BY <1>5 DEF MoveOutward
<1>7. PoolOK(stmt) /\ Numbered(stmt)
  BY DEF TreeOK
<1> HIDE DEF g
<1>8. Leaves(stmt, MoveOutwardLoop(stmt, g), {g})
  BY <1>1, <1>5, <1>7, OutwardMovesOut DEF MovedOut
<1>9. Keeps(stmt, MoveOutwardLoop(stmt, g), {g})
  BY <1>1, <1>7, <1>8, LeavesKeep
<1>10. CodeKept(stmt, MoveOutwardLoop(stmt, g))
  BY <1>7, OutwardKeepsCode
<1> QED BY <1>6, <1>9, <1>10 DEF TreeStep, g

LEMMA GotoLiftingIsAStep ==
    ASSUME IInv, GotoLifting
    PROVE  TreeStep(stmt, stmt', goto_stmt)
<1> DEFINE g == goto_stmt
           l == label_stmt
           x == SiblingFromNephew(stmt, g, l)
<1>1. TreeOK /\ WaitingOK /\ g # 0 /\ LiftOK
  BY DEF IInv, MovingOK, GotoLifting
<1>2. /\ g \in GotosIn(stmt) /\ l \in DOMAIN stmt /\ stmt[g].label = l
      /\ Level(stmt, g) \in Nat /\ Level(stmt, l) \in Nat
      /\ Level(stmt, g) = 1 + Level(stmt, stmt[g].up)
      /\ Level(stmt, l) = 1 + Level(stmt, stmt[l].up)
  BY <1>1, TheGoto
<1>3. stmt[l].up = stmt[g].up /\ Earlier(Siblings(stmt, g), l, g)
  BY <1>1 DEF LiftOK
<1> HIDE DEF g, l
<1>4. x = l
  <2>1. Level(stmt, l) - Level(stmt, g) = 0
    BY <1>2, <1>3
  <2>2. Ancestor(stmt, l, 0) = l
    BY AncestorSteps
  <2> QED BY <2>1, <2>2 DEF SiblingFromNephew
<1>5. stmt' = Lift(stmt, g)
  <2>1. step' = "inward"
    BY GotoLiftingKeeps
  <2> QED BY <2>1 DEF GotoLifting, g
<1>6. l = SiblingFromNephew(stmt, g, stmt[g].label)
  BY <1>2, <1>4
<1>7. PoolOK(stmt) /\ Numbered(stmt)
  BY <1>1 DEF TreeOK
<1>8. Keeps(stmt, Lift(stmt, g), {g})
  BY <1>2, <1>3, <1>6, <1>7, LiftMoves DEF Lifted
<1>9. CodeKept(stmt, Lift(stmt, g))
  BY <1>7, LiftKeepsCode
<1> QED BY <1>5, <1>8, <1>9 DEF TreeStep, g

LEMMA InwardToLevelIsAStep ==
    ASSUME IInv, InwardToLevel
    PROVE  TreeStep(stmt, stmt', goto_stmt)
<1> DEFINE g == goto_stmt
           l == label_stmt
           x == SiblingFromNephew(stmt, g, l)
<1>1. /\ TreeOK /\ WaitingOK /\ g # 0 /\ InwardOK
      /\ goto_level \in Nat /\ label_level \in Nat /\ goto_level < label_level
  BY DEF IInv, MovingOK, InwardToLevel
<1>2. g \in GotosIn(stmt) /\ stmt[g].label = l
  BY <1>1, TheGoto
<1>3. /\ x \in DOMAIN stmt /\ HasChildren(stmt, x) /\ stmt[x].up = stmt[g].up
      /\ Earlier(Siblings(stmt, g), g, x)
  BY <1>1, TowardsTheLabel
<1>4. stmt' = MoveInward(stmt, g)
  BY <1>3 DEF InwardToLevel
<1> HIDE DEF g, l
<1>5. x = SiblingFromNephew(stmt, g, stmt[g].label)
  BY <1>2
<1> HIDE DEF x
<1>6. PoolOK(stmt) /\ Numbered(stmt)
  BY <1>1 DEF TreeOK
<1>7. Keeps(stmt, MoveInward(stmt, g), {g})
  <2>1. CASE Tail(Span(stmt, g, x)) = <<>>
    <3>1. MovedIn(stmt, MoveInward(stmt, g), g, x, Len(stmt) + 2)
      BY <1>2, <1>3, <1>5, <1>6, <2>1, InwardNext
    <3> QED BY <3>1 DEF MovedIn
  <2>2. CASE Tail(Span(stmt, g, x)) # <<>>
    <3>1. MovedIn(stmt, MoveInward(stmt, g), g, x, Len(stmt) + 3)
      BY <1>2, <1>3, <1>5, <1>6, <2>2, InwardSkips
    <3> QED BY <3>1 DEF MovedIn
  <2> QED BY <2>1, <2>2
<1>8. CodeKept(stmt, MoveInward(stmt, g))
  BY <1>6, InwardKeepsCode
<1> QED BY <1>4, <1>7, <1>8 DEF TreeStep, g

LEMMA EliminateIsAStep ==
    ASSUME IInv, Eliminate
    PROVE  TreeStep(stmt, stmt', goto_stmt)
<1> DEFINE g == goto_stmt
           l == label_stmt
<1>1. TreeOK /\ WaitingOK /\ g # 0
  BY AtTheLabel DEF IInv, Eliminate
<1>2. /\ g \in GotosIn(stmt) /\ g \in DOMAIN stmt /\ g # Root /\ l \in DOMAIN stmt
      /\ stmt[g].label = l /\ l # Root
      /\ stmt[g].type = "Goto" /\ stmt[l].type = "Label"
  BY <1>1, TheGoto
<1>3. stmt[l].up = stmt[g].up
  BY AtTheLabel DEF Eliminate
<1>4. /\ Siblings(stmt, g) = stmt[stmt[g].up].children /\ Siblings(stmt, l) = Siblings(stmt, g)
      /\ Siblings(stmt, g) \in Seq(DOMAIN stmt) /\ Once(Siblings(stmt, g))
      /\ Contains(Siblings(stmt, g), g) /\ Contains(Siblings(stmt, g), l) /\ g # l
  <2>1. /\ Siblings(stmt, g) = stmt[stmt[g].up].children
        /\ stmt[stmt[g].up].children \in Seq(DOMAIN stmt) /\ Once(stmt[stmt[g].up].children)
    BY <1>1, <1>2, ListOf DEF TreeOK
  <2>2. Contains(Siblings(stmt, l), l)
    BY <1>1, <1>2 DEF TreeOK, PoolOK, Lists
  <2>3. Siblings(stmt, l) = Siblings(stmt, g)
    BY <1>3 DEF Siblings
  <2> QED BY <1>2, <2>1, <2>2, <2>3 DEF GotosIn
<1>5. AreSiblings(stmt, g, l)
  BY <1>4 DEF AreSiblings
<1>6. AreOrdered(stmt, g, l) <=> Earlier(Siblings(stmt, g), g, l)
  <2> HIDE DEF g, l
  <2>1. AreOrdered(stmt, g, l) <=> Earlier(Siblings(stmt, l), g, l)
    BY <1>1, <1>2, <1>4, OrderedMeans DEF TreeOK
  <2> QED BY <1>4, <2>1
<1>7. PoolOK(stmt) /\ Numbered(stmt)
  BY <1>1 DEF TreeOK
<1>8. CASE EraseGoto
  <2>1. stmt' = SetChildren(stmt, stmt[g].up, Before(stmt, g) \o After(stmt, g))
    BY <1>8 DEF EraseGoto
  <2> HIDE DEF g, l
  <2>2. Keeps(stmt, SetChildren(stmt, stmt[g].up, Before(stmt, g) \o After(stmt, g)), {g})
    BY <1>2, <1>7, EraseKeeps
  <2> QED BY <2>1, <2>2, SetChildrenKeepsCode DEF TreeStep, g
<1>9. CASE EliminateForward
  <2>1. stmt' = EliminateAsConditional(stmt, g) /\ AreOrdered(stmt, g, l)
    BY <1>9 DEF EliminateForward
  <2>2. stmt[stmt[g].label].up = stmt[g].up /\ Earlier(Siblings(stmt, g), g, stmt[g].label)
    BY <1>2, <1>3, <1>6, <2>1
  <2> HIDE DEF g, l
  <2>3. Keeps(stmt, EliminateAsConditional(stmt, g), {g})
    BY <1>2, <1>7, <2>2, ConditionalKeeps
  <2> QED BY <1>7, <2>1, <2>3, ConditionalKeepsCode DEF TreeStep, g
<1>10. CASE EliminateBackward
  <2>1. stmt' = EliminateAsLoop(stmt, g) /\ ~AreOrdered(stmt, g, l)
    BY <1>5, <1>10 DEF EliminateBackward
  <2>2. Earlier(Siblings(stmt, g), l, g)
    <3> HIDE DEF g, l
    <3> QED BY <1>4, <1>6, <2>1, EarlierOrLater
  <2>3. stmt[stmt[g].label].up = stmt[g].up /\ Earlier(Siblings(stmt, g), stmt[g].label, g)
    BY <1>2, <1>3, <2>2
  <2> HIDE DEF g, l
  <2>4. Keeps(stmt, EliminateAsLoop(stmt, g), {g})
    BY <1>2, <1>7, <2>3, LoopKeeps
  <2> QED BY <1>7, <2>1, <2>4, LoopKeepsCode DEF TreeStep, g
<1> QED BY <1>8, <1>9, <1>10 DEF Eliminate

\* Every step of the pass keeps the code in its place.
LEMMA NextKeepsCode ==
    ASSUME IInv, cfg \in Cfgs, [Next]_vars, NEW n, CodePlaced(stmt, n)
    PROVE  CodePlaced(stmt', n) /\ cfg' = cfg
<1>1. OutwardToRelate => TreeStep(stmt, stmt', goto_stmt)
  <2> SUFFICES ASSUME OutwardToRelate PROVE TreeStep(stmt, stmt', goto_stmt)
    OBVIOUS
  <2>1. step' # "LogicError" /\ MoveOutward /\ step = "relate"
    BY OutwardToRelateKeeps DEF OutwardToRelate
  <2>2. TreeOK /\ WaitingOK /\ goto_stmt # 0 /\ OutwardOK
    BY <2>1 DEF IInv, MovingOK
  <2> QED BY <2>1, <2>2, MoveOutwardIsAStep
<1>2. OutwardToLevel => TreeStep(stmt, stmt', goto_stmt)
  <2> SUFFICES ASSUME OutwardToLevel PROVE TreeStep(stmt, stmt', goto_stmt)
    OBVIOUS
  <2>1. step' # "LogicError" /\ MoveOutward /\ step = "outward"
    BY OutwardToLevelKeeps DEF OutwardToLevel
  <2>2. TreeOK /\ WaitingOK /\ goto_stmt # 0 /\ OutwardOK
    BY <2>1 DEF IInv, MovingOK
  <2> QED BY <2>1, <2>2, MoveOutwardIsAStep
<1>3. NextGoto \/ Related \/ CountLevels \/ Finish \/ Terminated \/ UNCHANGED vars =>
         stmt' = stmt
  BY DEF NextGoto, Related, CountLevels, Finish, Terminated, vars
<1>4. stmt' = stmt \/ TreeStep(stmt, stmt', goto_stmt)
  BY <1>1, <1>2, <1>3, GotoLiftingIsAStep, InwardToLevelIsAStep, EliminateIsAStep DEF Next
<1>5. CodePlaced(stmt', n)
  BY <1>4, CodeStaysPlaced DEF TreeStep
<1>6. cfg' = cfg
  BY DEF Next, NextGoto, OutwardToRelate, Related, CountLevels, OutwardToLevel, GotoLifting,
         InwardToLevel, Eliminate, Finish, Terminated, vars
<1> QED BY <1>5, <1>6

\* BuildTree lists the code of the blocks in order.
LEMMA InitPlacesCode ==
    ASSUME Init
    PROVE  CodePlaced(stmt, Len(cfg))
<1>1. PICK m : FlatPool(stmt, m) /\ CodePerBlock(stmt, m, Len(cfg))
  <2>1. TargetsAreBlocks(cfg) /\ stmt = BuildTree(cfg)
    BY CfgsAssumption DEF Init
  <2> QED BY <2>1, TheTreeIsFlat
<1> DEFINE n == Len(cfg)
<1>2. n \in Nat
  BY CfgsAssumption, LenProperties DEF Init, TargetsAreBlocks
<1> HIDE DEF n
<1>3. /\ m \in Nat /\ DOMAIN stmt = 1 .. m /\ stmt[Root].type = "Function"
      /\ \A s \in DOMAIN stmt : s = Root \/ s \in 2 .. m
      /\ \A s \in 2 .. m : s \in DOMAIN stmt
  BY <1>1 DEF FlatPool, Root
<1>4. /\ \A s \in 2 .. m : Chain(stmt, s) = {s, Root}
      /\ \A s \in 2 .. m : Siblings(stmt, s) = Children(stmt, Root)
      /\ \A c : Contains(Children(stmt, Root), c) <=> c \in 2 .. m
      /\ \A a, b : Earlier(Children(stmt, Root), a, b) => a < b
  BY <1>1, FlatPoolOK, FlatList
<1>5. /\ \A s \in 2 .. m : stmt[s].type = "Code" => \E b \in 1 .. n : CodeOf(stmt[s], b)
      /\ \A b \in 1 .. n : \E s \in 2 .. m : CodeOf(stmt[s], b)
      /\ \A s, t \in 2 .. m : stmt[s].type = "Code" /\ stmt[t].type = "Code" /\ s < t =>
            stmt[s].block < stmt[t].block
  BY <1>1 DEF CodePerBlock, n
<1>6. \A s \in DOMAIN stmt : stmt[s].type = "Code" => s \in 2 .. m /\ s # Root
  BY <1>3
<1>7. \A s \in DOMAIN stmt : stmt[s].type = "Code" => "block" \in DOMAIN stmt[s]
  BY <1>5, <1>6 DEF CodeOf
<1>8. \A s \in GuestCode(stmt) : s \in 2 .. m /\ stmt[s].type = "Code" /\ stmt[s].block \in 1 .. n
  BY <1>5, <1>6 DEF CodeOf, GuestCode
<1>9. ASSUME NEW b \in 1 .. n PROVE \E s \in GuestCode(stmt) : stmt[s].block = b
  <2>1. PICK s \in 2 .. m : CodeOf(stmt[s], b)
    BY <1>5
  <2>2. b # 0
    BY <1>2
  <2> QED BY <1>3, <2>1, <2>2 DEF CodeOf, GuestCode, Dummy
<1>10. ASSUME NEW s \in GuestCode(stmt), NEW t \in GuestCode(stmt), s # t
       PROVE  /\ stmt[s].block # stmt[t].block
              /\ stmt[s].block < stmt[t].block => NotBehind(stmt, t, s)
  <2>1. /\ s \in 2 .. m /\ t \in 2 .. m /\ stmt[s].type = "Code" /\ stmt[t].type = "Code"
        /\ stmt[s].block \in Int /\ stmt[t].block \in Int
    BY <1>8
  <2>2. s < t \/ t < s
    BY <1>10, <2>1
  <2>3. s < t => stmt[s].block < stmt[t].block
    BY <1>5, <2>1
  <2>4. t < s => stmt[t].block < stmt[s].block
    BY <1>5, <2>1
  <2>5. s < t => NotBehind(stmt, t, s)
    <3> SUFFICES ASSUME s < t, NEW x \in Chain(stmt, t) \ {Root}, NEW e \in DOMAIN stmt,
                        Earlier(Siblings(stmt, x), x, e), e \in Chain(stmt, s)
                 PROVE  FALSE
      BY DEF NotBehind
    <3>1. x = t /\ (e = s \/ e = Root)
      BY <1>4, <2>1
    <3>2. Earlier(Children(stmt, Root), t, e)
      BY <1>4, <2>1, <3>1
    <3>3. t < e /\ e \in 2 .. m
      BY <1>4, <3>2, EarlierContained
    <3> QED BY <2>1, <3>1, <3>3 DEF Root
  <2> QED BY <2>1, <2>2, <2>3, <2>4, <2>5
<1> QED BY <1>7, <1>8, <1>9, <1>10 DEF CodePlaced, n

-----------------------------------------------------------------------------
(* Theorems                                                                *)

\* The inductive invariant holds along every run: the goto that is moved, those
\* that wait and their labels stand to each other as RemoveGoto needs it.
THEOREM GotoInvariant == Spec => [](IInv /\ cfg \in Cfgs)
<1>1. Init => IInv /\ cfg \in Cfgs
  BY InitOK DEF Init
<1>2. IInv /\ cfg \in Cfgs /\ [Next]_vars => (IInv /\ cfg \in Cfgs)'
  BY NextKeeps
<1> QED BY <1>1, <1>2, PTL DEF Spec

\* After every transformation statements are complete, every child points up to
\* the one list it is in, and the gotos held are those in the tree, each after the
\* ones that wait for a later turn (UpdateTreeUp, the splices of the Move functions).
THEOREM TreeStaysConsistent == Spec => []TreeIsConsistent
<1>1. IInv /\ cfg \in Cfgs => TreeIsConsistent
  BY TypesHold, UpHolds, PendingHolds DEF TreeIsConsistent
<1> QED BY <1>1, GotoInvariant, PTL

\* No goto waits inside an If, so MoveOutwardIf, which pops a statement too many,
\* is never reached by RemoveGoto.
THEOREM WaitingStayOutsideIfs == Spec => []WaitingOutsideIfs
<1>1. IInv /\ cfg \in Cfgs => WaitingOutsideIfs
  BY WaitingHolds
<1> QED BY <1>1, GotoInvariant, PTL

\* RemoveGoto reaches none of its throws: a goto that is moved has a Tree to leave
\* and one to enter, ends next to its label, and no lifted loop holds a Break.
THEOREM RemovesWithoutThrowing == Spec => []NeverThrows
<1>1. IInv /\ cfg \in Cfgs => NeverThrows
  BY DEF IInv, MovingOK, NeverThrows
<1> QED BY <1>1, GotoInvariant, PTL

\* The tree TranslatePass gets has no Goto, and every Break of it is in a Loop.
THEOREM EndsStructured == Spec => []Structured
<1>1. IInv /\ cfg \in Cfgs => Structured
  BY StructureHolds
<1> QED BY <1>1, GotoInvariant, PTL

\* Each turn of RemoveGoto's loops makes the pass's measure smaller, so the pass
\* comes to an end on every graph.
THEOREM EveryTurnIsCloser == Spec => ComesToAnEnd
<1>1. IInv => MovesLeft >= 0
  BY MovesAreLeft
<1>2. IInv /\ (MovesLeft >= 0)' /\ [Next]_vars => [step = "done" \/ Closer]_vars
  BY NextIsCloser DEF vars
<1> QED BY <1>1, <1>2, GotoInvariant, PTL DEF Spec, ComesToAnEnd

\* What the moves keep of the code: each block's is in the pool once, and the tree has
\* none of it behind the code of a later block.
THEOREM CodeKeepsItsPlace == Spec => []CodePlaced(stmt, Len(cfg))
<1>1. Init => CodePlaced(stmt, Len(cfg))
  BY InitPlacesCode
<1>2. IInv /\ cfg \in Cfgs /\ [Next]_vars /\ CodePlaced(stmt, Len(cfg))
         => (CodePlaced(stmt, Len(cfg)))'
  <2> SUFFICES ASSUME IInv, cfg \in Cfgs, [Next]_vars, CodePlaced(stmt, Len(cfg))
               PROVE  CodePlaced(stmt', Len(cfg'))
    OBVIOUS
  <2>1. CodePlaced(stmt', Len(cfg)) /\ cfg' = cfg
    BY NextKeepsCode
  <2> QED BY <2>1
<1> QED BY <1>1, <1>2, GotoInvariant, PTL DEF Spec

\* The splices of the moves and the Trees they make change nothing of the order of the
\* program: after each step the text has the code of the blocks in address order, each
\* once.
THEOREM CodeStaysInOrder == Spec => []CodeInOrder
<1>1. IInv /\ CodePlaced(stmt, Len(cfg)) => CodeInOrder
  BY CodeStandsInOrder DEF IInv
<1> QED BY <1>1, GotoInvariant, CodeKeepsItsPlace, PTL

\* What the constructor builds (CfgShapes!IsCfg, which BuildsACfg proves of it) is
\* what this pass and TranslatePass assume of their graphs.
THEOREM BuiltGraphsFit ==
    ASSUME NEW g, Len(g) \in Nat, g = [b \in 1 .. Len(g) |-> g[b]], IsCfg(g)
    PROVE  TargetsAreBlocks(g) /\ g # <<>>
<1> DEFINE n == Len(g)
           R == [end_class : {"Branch", "Exit"}, cond : {"True", "False", "Guest"},
                 branch_true : 0 .. n, branch_false : 0 .. n]
           Fits(e) == /\ e \in R
                      /\ e.end_class = "Branch" => /\ e.cond # "False" => e.branch_true # 0
                                                   /\ e.cond # "True" => e.branch_false # 0
<1>0. n \in Nat /\ 0 \in 0 .. n /\ \A t \in 1 .. n : t \in 0 .. n /\ t # 0
  OBVIOUS
<1> HIDE DEF n
<1>1. ASSUME NEW b \in 1 .. n PROVE Fits(g[b])
  <2>1. g[b] \in EndsOf(n, b)
    BY DEF IsCfg, n
  <2>2. Fits(Exit)
    BY <1>0 DEF Exit
  <2>3. ASSUME NEW t \in 1 .. n PROVE Fits(Jump(t))
    BY <1>0 DEF Jump
  <2>4. ASSUME NEW t \in 1 .. n, b < n PROVE Fits(Cond(t, b + 1))
    <3>1. b + 1 \in 1 .. n
      BY <1>0, <2>4
    <3> QED BY <1>0, <3>1 DEF Cond
  <2> HIDE DEF Fits
  <2>5. \/ g[b] = Exit
        \/ \E t \in 1 .. n : g[b] = Jump(t)
        \/ \E t \in 1 .. n : b < n /\ g[b] = Cond(t, b + 1)
    BY <2>1 DEF EndsOf
  <2> QED BY <2>2, <2>3, <2>4, <2>5
<1>2. g \in Seq(R)
  <2>1. g = [b \in 1 .. n |-> g[b]]
    BY DEF n
  <2>2. g \in [1 .. n -> R]
    <3>1. \A b \in 1 .. n : g[b] \in R
      BY <1>1
    <3> HIDE DEF R
    <3> QED BY <2>1, <3>1
  <2> HIDE DEF R
  <2> QED BY <1>0, <2>2, SeqDef
<1>3. g # <<>>
  BY DEF IsCfg
<1> QED BY <1>1, <1>2, <1>3 DEF TargetsAreBlocks, n
=================================================================================
