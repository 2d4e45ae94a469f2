--------------------------- MODULE ControlFlowProofs ---------------------------
(***************************************************************************)
(* What the proofs about several passes need: induction and recursion      *)
(* along a measure, in a form without operator parameters (sets of numbers *)
(* have a least element, and a function defined by recursion exists if its *)
(* value at a point depends only on its values at points of smaller        *)
(* measure), and facts about lists of blocks and about paths.              *)
(***************************************************************************)
EXTENDS Orders, FiniteSetTheorems, SequenceTheorems, WellFoundedInduction, TLAPS

LessThan == {p \in Nat \X Nat : p[1] < p[2]}

LEMMA LessThanWellFounded == IsWellFoundedOn(LessThan, Nat)
<1>1. OpToRel(<, Nat) = LessThan
  BY DEF OpToRel, LessThan
<1> QED
  BY <1>1, NatLessThanWellFounded

\* A set of numbers that is not empty has a least element.
LEMMA LeastNumber ==
  ASSUME NEW T \in SUBSET Nat, T # {}
  PROVE  \E x \in T : \A y \in T : x <= y
<1>1. PICK x \in T : \A y \in T : ~ (<<y, x>> \in LessThan)
  BY LessThanWellFounded, WFMin, Zenon
<1>2. \A y \in T : ~(y < x)
  <2> TAKE y \in T
  <2>1. <<y, x>> \in Nat \X Nat /\ <<y, x>>[1] = y /\ <<y, x>>[2] = x
    OBVIOUS
  <2> QED
    BY <2>1, <1>1 DEF LessThan
<1>3. x \in Nat /\ \A y \in T : y \in Nat
  OBVIOUS
<1>4. \A y \in T : x <= y
  BY <1>2, <1>3
<1> QED
  BY <1>4

\* So has a set of things with a measure.
LEMMA LeastMeasure ==
  ASSUME NEW S, NEW m \in [S -> Nat], NEW T \in SUBSET S, T # {}
  PROVE  \E x \in T : \A y \in T : m[x] <= m[y]
<1> DEFINE M == {m[x] : x \in T}
<1>1. M \in SUBSET Nat /\ M # {}
  OBVIOUS
<1>2. PICK k \in M : \A l \in M : k <= l
  BY <1>1, LeastNumber
<1> QED
  BY <1>2

\* A set of numbers that is bounded from above has a greatest element.
LEMMA GreatestNumber ==
  ASSUME NEW n \in Nat, NEW T \in SUBSET (0 .. n), T # {}
  PROVE  \E x \in T : \A y \in T : y <= x
<1> DEFINE m == [x \in T |-> n - x]
<1>1. m \in [T -> Nat] /\ T \in SUBSET T
  OBVIOUS
<1>2. PICK x \in T : \A y \in T : m[x] <= m[y]
  BY <1>1, LeastMeasure
<1>3. \A y \in T : y <= x
  BY <1>2
<1> QED
  BY <1>3

-----------------------------------------------------------------------------
\* D[x][g] is the value at x if the others are those of g; it depends only on
\* the values at points of smaller measure.
Grounded(S, V, m, D) ==
  /\ m \in [S -> Nat] /\ D \in [S -> [[S -> V] -> V]]
  /\ \A x \in S : \A g, h \in [S -> V] :
       (\A y \in S : m[y] < m[x] => g[y] = h[y]) => D[x][g] = D[x][h]

\* g is right at the points of measure less than n.
RightBelow(S, V, m, D, n, g) ==
  g \in [S -> V] /\ \A x \in S : m[x] < n => g[x] = D[x][g]

LEMMA RightUnique ==
  ASSUME NEW S, NEW V, NEW m, NEW D, Grounded(S, V, m, D)
  PROVE  \A n \in Nat : \A g, h : RightBelow(S, V, m, D, n, g) /\ RightBelow(S, V, m, D, n, h)
           => \A x \in S : m[x] < n => g[x] = h[x]
<1> TAKE n \in Nat
<1> TAKE g, h
<1> HAVE RightBelow(S, V, m, D, n, g) /\ RightBelow(S, V, m, D, n, h)
<1> m \in [S -> Nat] /\ D \in [S -> [[S -> V] -> V]]
  BY DEF Grounded
<1> DEFINE T == {x \in S : m[x] < n /\ g[x] # h[x]}
<1> SUFFICES ASSUME T # {} PROVE FALSE
  OBVIOUS
<1>1. PICK x \in T : \A y \in T : m[x] <= m[y]
  BY LeastMeasure
<1>2. \A y \in S : m[y] < m[x] => g[y] = h[y]
  BY <1>1
<1>3. g \in [S -> V] /\ h \in [S -> V]
  BY DEF RightBelow
<1>4. D[x][g] = D[x][h]
  BY <1>1, <1>2, <1>3 DEF Grounded
<1> QED
  BY <1>1, <1>4 DEF RightBelow

LEMMA RightBelowExists ==
  ASSUME NEW S, NEW V, V # {}, NEW m, NEW D, Grounded(S, V, m, D), NEW n \in Nat
  PROVE  \E g : RightBelow(S, V, m, D, n, g)
<1> m \in [S -> Nat] /\ D \in [S -> [[S -> V] -> V]]
  BY DEF Grounded
<1> DEFINE T == {k \in Nat : ~ \E g : RightBelow(S, V, m, D, k, g)}
<1> SUFFICES ASSUME T # {} PROVE FALSE
  OBVIOUS
<1>1. PICK k \in T : \A l \in T : k <= l
  BY LeastNumber
<1>2. k # 0
  <2> SUFFICES ASSUME k = 0 PROVE FALSE
    OBVIOUS
  <2>1. PICK v \in V : TRUE
    OBVIOUS
  <2>2. RightBelow(S, V, m, D, 0, [x \in S |-> v])
    BY DEF RightBelow
  <2> QED
    BY <2>2, <1>1
<1>3. k \in Nat /\ k - 1 \in Nat /\ k - 1 \notin T
  <2>1. k \in Nat
    OBVIOUS
  <2>2. k - 1 \in Nat /\ ~(k <= k - 1)
    BY <1>2, <2>1
  <2> QED
    BY <1>1, <2>1, <2>2
<1>4. PICK g : RightBelow(S, V, m, D, k - 1, g)
  BY <1>3
<1> DEFINE h == [x \in S |-> IF m[x] = k - 1 THEN D[x][g] ELSE g[x]]
<1>5. g \in [S -> V] /\ h \in [S -> V]
  BY <1>4 DEF RightBelow
<1> HIDE DEF T
<1>6. ASSUME NEW x \in S, m[x] < k
      PROVE  h[x] = D[x][h]
  <2>1. \A y \in S : m[y] < m[x] => g[y] = h[y]
    BY <1>3, <1>6
  <2>2. D[x][g] = D[x][h]
    BY <1>5, <2>1 DEF Grounded
  <2>3. CASE m[x] = k - 1
    BY <2>2, <2>3
  <2>4. CASE m[x] # k - 1
    <3>1. \A a, b \in Nat : a < b /\ a # b - 1 => a < b - 1
      OBVIOUS
    <3>2. m[x] < k - 1
      BY <3>1, <1>3, <1>6, <2>4
    <3> QED
      BY <1>4, <2>2, <2>4, <3>2 DEF RightBelow
  <2> QED
    BY <2>3, <2>4
<1>7. RightBelow(S, V, m, D, k, h)
  BY <1>5, <1>6 DEF RightBelow
<1> QED
  BY <1>1, <1>7 DEF T

\* The function exists.
LEMMA RecursionExists ==
  ASSUME NEW S, NEW V, V # {}, NEW m, NEW D, Grounded(S, V, m, D)
  PROVE  \E f \in [S -> V] : \A x \in S : f[x] = D[x][f]
<1> m \in [S -> Nat] /\ D \in [S -> [[S -> V] -> V]]
  BY DEF Grounded
<1> DEFINE F(n) == CHOOSE g : RightBelow(S, V, m, D, n, g)
           f == [x \in S |-> F(m[x] + 1)[x]]
<1>1. \A n \in Nat : RightBelow(S, V, m, D, n, F(n))
  BY RightBelowExists
<1>2. \A n \in Nat : F(n) \in [S -> V]
  BY <1>1 DEF RightBelow
<1> HIDE DEF F
<1>3. f \in [S -> V]
  BY <1>2
<1>4. ASSUME NEW x \in S
      PROVE  f[x] = D[x][f]
  <2> DEFINE g == F(m[x] + 1)
  <2>1. m[x] + 1 \in Nat /\ RightBelow(S, V, m, D, m[x] + 1, g) /\ g \in [S -> V]
    BY <1>1, <1>2
  <2>2. f[x] = D[x][g]
    BY <2>1 DEF RightBelow
  <2>3. ASSUME NEW y \in S, m[y] < m[x]
        PROVE  g[y] = f[y]
    <3> DEFINE n == m[y] + 1
               h == F(n)
    <3>1. n \in Nat /\ m[y] < n /\ n <= m[x]
      BY <2>3
    <3>2. f[y] = h[y] /\ RightBelow(S, V, m, D, n, h)
      BY <1>1, <3>1
    <3> HIDE DEF g, h, n, f
    <3>3. RightBelow(S, V, m, D, n, g)
      BY <2>1, <3>1 DEF RightBelow
    <3>4. \A z \in S : m[z] < n => g[z] = h[z]
      BY <3>1, <3>2, <3>3, RightUnique
    <3> QED
      BY <3>1, <3>2, <3>4
  <2>4. D[x][g] = D[x][f]
    BY <1>3, <2>1, <2>3 DEF Grounded
  <2> QED
    BY <2>2, <2>4
<1> QED
  BY <1>3, <1>4

-----------------------------------------------------------------------------
(***************************************************************************)
(* Lists of blocks, and paths.                                             *)
(***************************************************************************)
\* The successors as a list and as a set.
LEMMA SuccSeq == ASSUME NEW g \in Cfgs, NEW b \in Block
                 PROVE  g[b] \in Seq(Block) /\ Range(g[b]) = SuccSet(g, b) /\ SuccSet(g, b) \subseteq Block
<1>1. g[b] \in SuccLists
  BY DEF Cfgs
<1>2. g[b] \in Seq(Block)
  <2>1. CASE g[b] = <<>>
    BY <2>1
  <2>2. CASE g[b] \in {<<a>> : a \in Block}
    <3>1. PICK a \in Block : g[b] = <<a>>
      BY <2>2
    <3> QED
      BY <3>1
  <2>3. CASE g[b] \in {<<a, c>> : a, c \in Block}
    <3>1. PICK a \in Block, c \in Block : g[b] = <<a, c>>
      BY <2>3
    <3> QED
      BY <3>1
  <2> QED
    BY <1>1, <2>1, <2>2, <2>3 DEF SuccLists
<1> QED
  BY <1>2 DEF Range, SuccSet

\* A list that is not empty holds its head and what its tail holds.
LEMMA TailRange ==
  ASSUME NEW q \in Seq(Block), q # <<>>
  PROVE  /\ Head(q) \in Range(q) /\ Tail(q) \in Seq(Block) /\ Range(Tail(q)) \subseteq Range(q)
         /\ \A y \in Range(q) : y = Head(q) \/ y \in Range(Tail(q))
<1>1. Len(q) \in Nat \ {0}
  BY EmptySeq
<1>2. Tail(q) \in Seq(Block) /\ Len(Tail(q)) = Len(q) - 1 /\ Head(q) = q[1]
      /\ \A i \in 1 .. Len(q) - 1 : Tail(q)[i] = q[i + 1]
  BY <1>1
<1>3. PICK k \in Nat : k = Len(q) - 1 /\ k + 1 = Len(q)
  BY <1>1
<1>4. PICK t : t = Tail(q)
  OBVIOUS
<1>5. DOMAIN t = 1 .. k /\ \A i \in 1 .. k : t[i] = q[i + 1]
  BY <1>2, <1>3, <1>4
<1>6. DOMAIN q = 1 .. k + 1 /\ 1 \in 1 .. k + 1 /\ \A i \in 1 .. k : i + 1 \in 1 .. k + 1
  BY <1>1, <1>3
<1>7. ASSUME NEW y \in Range(q) PROVE y = q[1] \/ y \in Range(t)
  <2>1. PICK i \in 1 .. k + 1 : y = q[i]
    BY <1>6 DEF Range
  <2>2. CASE i = 1
    BY <2>1, <2>2
  <2>3. CASE i # 1
    <3>1. i - 1 \in 1 .. k /\ (i - 1) + 1 = i
      BY <1>3, <2>3
    <3>2. t[i - 1] = q[i]
      BY <1>5, <3>1
    <3> QED
      BY <1>5, <2>1, <3>1, <3>2 DEF Range
  <2> QED
    BY <2>2, <2>3
<1>8. ASSUME NEW y \in Range(t) PROVE y \in Range(q)
  <2>1. PICK i \in 1 .. k : y = t[i]
    BY <1>5 DEF Range
  <2> QED
    BY <1>5, <1>6, <2>1 DEF Range
<1>9. q[1] \in Range(q)
  BY <1>6 DEF Range
<1> QED
  BY <1>2, <1>4, <1>7, <1>8, <1>9

\* f is defined level by level: base is the first, step makes the next.
Levels(K, V, base, step, f) ==
  f \in [0 .. K -> V] /\ f[0] = base /\ \A n \in 1 .. K : f[n] = step[f[n - 1]]

\* A function that is defined level by level exists.
LEMMA LevelsExist ==
  ASSUME NEW K \in Nat, NEW V, NEW base \in V, NEW step \in [V -> V]
  PROVE  \E f : Levels(K, V, base, step, f)
<1> DEFINE X == 0 .. K
           m == [n \in X |-> n]
           A(h, n) == IF n = 0 THEN base ELSE step[h[n - 1]]
           D == [n \in X |-> [h \in [X -> V] |-> A(h, n)]]
<1>1. ASSUME NEW n \in X, n # 0 PROVE n - 1 \in X /\ m[n - 1] < m[n]
  BY <1>1
<1>2. m \in [X -> Nat]
  OBVIOUS
<1> HIDE DEF X
<1>3. ASSUME NEW n \in X, NEW h \in [X -> V] PROVE A(h, n) \in V
  BY <1>1
<1>4. ASSUME NEW n \in X, NEW g \in [X -> V], NEW h \in [X -> V],
             \A j \in X : m[j] < m[n] => g[j] = h[j]
      PROVE  D[n][g] = D[n][h]
  <2>1. D[n][g] = A(g, n) /\ D[n][h] = A(h, n)
    BY <1>4
  <2>2. n # 0 => g[n - 1] = h[n - 1]
    BY <1>1, <1>4
  <2> QED
    BY <2>1, <2>2
<1>5. D \in [X -> [[X -> V] -> V]]
  <2> HIDE DEF A
  <2> QED
    BY <1>3
<1>6. Grounded(X, V, m, D)
  <2> HIDE DEF D, m
  <2> QED
    BY <1>2, <1>4, <1>5 DEF Grounded
<1>7. PICK f \in [X -> V] : \A n \in X : f[n] = D[n][f]
  <2>1. V # {}
    OBVIOUS
  <2> HIDE DEF D, m
  <2> QED
    BY <1>6, <2>1, RecursionExists
<1>8. \A n \in X : f[n] = A(f, n)
  <2> HIDE DEF A
  <2> QED
    BY <1>7
<1>9. 0 \in X /\ \A n \in 1 .. K : n \in X /\ n # 0
  BY DEF X
<1> QED
  BY <1>7, <1>8, <1>9 DEF X, Levels

\* What holds of the first level and is passed on holds of the last one; P[n]
\* is what is asked of level n.
LEMMA LevelsKeep ==
  ASSUME NEW K \in Nat, NEW f, NEW P, f[0] \in P[0],
         \A n \in 1 .. K : f[n - 1] \in P[n - 1] => f[n] \in P[n]
  PROVE  f[K] \in P[K]
<1> DEFINE Bad == {n \in 0 .. K : f[n] \notin P[n]}
<1>1. ASSUME Bad # {} PROVE FALSE
  <2>1. PICK n \in Bad : \A k \in Bad : n <= k
    <3>1. Bad \in SUBSET Nat
      OBVIOUS
    <3> HIDE DEF Bad
    <3> QED
      BY <1>1, <3>1, LeastNumber
  <2>2. n # 0
    BY <2>1
  <2>3. n \in 1 .. K /\ n - 1 \in 0 .. K /\ ~(n <= n - 1)
    BY <2>2
  <2>4. f[n - 1] \in P[n - 1]
    BY <2>1, <2>3
  <2> QED
    BY <2>1, <2>3, <2>4
<1> QED
  BY <1>1

\* S contains from and, with a block, its successors inside P.
Closed(succ, P, from, S) ==
  from \in S /\ \A a \in S : SuccSet(succ, a) \cap P \cap Block \subseteq S

\* The levels of the search for what can be reached; the last one is the result.
Layers(g, P, a, f) ==
  /\ f \in [0 .. N -> SUBSET Block] /\ f[0] = {a} /\ f[N] = ReachFrom(g, P, a)
  /\ \A n \in 1 .. N : f[n] = Onward(g, P, f[n - 1])

LEMMA LayersExist ==
  ASSUME NEW g, NEW P, NEW a \in Block
  PROVE  \E f : Layers(g, P, a, f)
<1> DEFINE V == SUBSET Block
           step == [S \in V |-> Onward(g, P, S)]
           B(f, n) == IF n = 0 THEN {a} ELSE Onward(g, P, f[n - 1])
           is(f) == f = [n \in 0 .. N |-> B(f, n)]
           within == CHOOSE f : is(f)
<1>1. N \in Nat \ {0}
  BY SizeAssumption
<1>2. {a} \in V /\ step \in [V -> V]
  BY DEF Onward
<1>3. PICK v : Levels(N, V, {a}, step, v)
  <2> HIDE DEF V, step
  <2> QED
    BY <1>1, <1>2, LevelsExist
<1>4. ASSUME NEW n \in 0 .. N PROVE v[n] = B(v, n)
  <2>1. n # 0 => n \in 1 .. N /\ n - 1 \in 0 .. N
    BY <1>1
  <2>2. n # 0 => v[n - 1] \in V /\ v[n] = step[v[n - 1]]
    BY <1>3, <2>1 DEF Levels
  <2> HIDE DEF V
  <2> QED
    BY <1>3, <2>2 DEF Levels
<1>5. is(v)
  <2>1. v = [n \in 0 .. N |-> v[n]]
    BY <1>3 DEF Levels
  <2> HIDE DEF B
  <2> QED
    BY <1>4, <2>1
<1>6. is(within)
  <2> HIDE DEF is
  <2> QED
    BY <1>5
<1>7. ReachFrom(g, P, a) = within[N]
  BY DEF ReachFrom
<1> HIDE DEF within
<1>8. 0 \in 0 .. N /\ \A n \in 1 .. N : n \in 0 .. N /\ n # 0 /\ n - 1 \in 0 .. N
  BY <1>1
<1>9. within[0] = {a} /\ \A n \in 1 .. N : within[n] = Onward(g, P, within[n - 1])
  BY <1>6, <1>8
<1>10. \A n \in 0 .. N : within[n] \in V
  <2> DEFINE Bad == {n \in 0 .. N : within[n] \notin V}
  <2>1. ASSUME Bad # {} PROVE FALSE
    <3>1. PICK n \in Bad : \A k \in Bad : n <= k
      <4>1. Bad \in SUBSET Nat
        OBVIOUS
      <4> HIDE DEF Bad
      <4> QED
        BY <2>1, <4>1, LeastNumber
    <3>2. n # 0
      BY <1>2, <1>9, <3>1
    <3>3. n \in 1 .. N /\ n - 1 \in 0 .. N /\ ~(n <= n - 1)
      BY <1>1, <3>2
    <3>4. within[n - 1] \in V /\ within[n] = Onward(g, P, within[n - 1])
      BY <1>9, <3>1, <3>3
    <3> QED
      BY <3>1, <3>4 DEF Onward
  <2> QED
    BY <2>1
<1>11. within \in [0 .. N -> V]
  BY <1>6, <1>10
<1> QED
  BY <1>7, <1>9, <1>11 DEF Layers

\* The blocks that are reached are the least closed set: N levels are enough,
\* since every level but the last ones holds a block more than the one before.
LEMMA ReachLeast ==
  ASSUME NEW g, NEW P, NEW a \in Block
  PROVE  /\ ReachFrom(g, P, a) \in SUBSET Block /\ Closed(g, P, a, ReachFrom(g, P, a))
         /\ \A S \in SUBSET Block : Closed(g, P, a, S) => ReachFrom(g, P, a) \subseteq S
<1>1. N \in Nat \ {0} /\ IsFiniteSet(Block) /\ Cardinality(Block) = N
  BY SizeAssumption, FS_Interval DEF Block
<1>2. PICK f : Layers(g, P, a, f)
  BY LayersExist
<1>3. \A n \in 1 .. N : n \in 0 .. N /\ n - 1 \in 0 .. N
  BY <1>1
<1>4. ASSUME NEW S \in SUBSET Block, Closed(g, P, a, S) PROVE f[N] \subseteq S
  <2> DEFINE Q == [n \in 0 .. N |-> SUBSET S]
  <2>1. f[0] \in Q[0] /\ N \in 0 .. N
    BY <1>1, <1>2, <1>4 DEF Layers, Closed
  <2>2. ASSUME NEW n \in 1 .. N, f[n - 1] \in Q[n - 1] PROVE f[n] \in Q[n]
    <3>1. f[n - 1] \subseteq S /\ f[n] = Onward(g, P, f[n - 1])
      BY <1>2, <1>3, <2>2 DEF Layers
    <3>2. f[n] \subseteq S
      BY <1>4, <3>1 DEF Onward, Closed
    <3> QED
      BY <1>3, <3>2
  <2>3. f[N] \in Q[N]
    <3> HIDE DEF Q
    <3> QED
      BY <1>1, <2>1, <2>2, LevelsKeep
  <2> QED
    BY <2>1, <2>3
<1>5. a \in f[N] /\ f[N] = Onward(g, P, f[N])
  <2> DEFINE Stable(T) == T = Onward(g, P, T)
             Q == [n \in 0 .. N |-> {T \in SUBSET Block : a \in T /\ (Stable(T) \/ Cardinality(T) > n)}]
  <2>1. f[0] \in Q[0] /\ N \in 0 .. N
    <3>1. Cardinality({a}) = 1
      BY FS_Singleton
    <3> QED
      BY <1>1, <1>2, <3>1 DEF Layers
  <2>2. ASSUME NEW n \in 1 .. N, f[n - 1] \in Q[n - 1] PROVE f[n] \in Q[n]
    <3>1. PICK T : T = f[n - 1]
      OBVIOUS
    <3>2. /\ T \in SUBSET Block /\ a \in T /\ (Stable(T) \/ Cardinality(T) > n - 1)
          /\ n - 1 \in Nat /\ n \in Nat /\ f[n] = Onward(g, P, T)
      BY <1>2, <1>3, <2>2, <3>1 DEF Layers
    <3>3. PICK U : U = Onward(g, P, T)
      OBVIOUS
    <3>4. U \in SUBSET Block /\ T \subseteq U /\ a \in U
      BY <3>2, <3>3 DEF Onward
    <3>5. Stable(U) \/ Cardinality(U) > n
      <4>1. CASE U = T
        BY <3>3, <4>1
      <4>2. CASE U # T
        <5>1. ~Stable(T)
          BY <3>3, <4>2
        <5>2. IsFiniteSet(U) /\ IsFiniteSet(T)
          BY <1>1, <3>2, <3>4, FS_Subset
        <5>3. Cardinality(T) < Cardinality(U) /\ Cardinality(T) \in Nat /\ Cardinality(U) \in Nat
          BY <3>4, <4>2, <5>2, FS_Subset, FS_CardinalityType
        <5>4. Cardinality(T) > n - 1
          BY <3>2, <5>1
        <5> HIDE DEF Stable
        <5> QED
          BY <3>2, <5>3, <5>4
      <4> QED
        BY <4>1, <4>2
    <3> HIDE DEF Stable
    <3> QED
      BY <1>3, <3>2, <3>3, <3>4, <3>5
  <2>3. f[N] \in Q[N]
    <3> HIDE DEF Q
    <3> QED
      BY <1>1, <2>1, <2>2, LevelsKeep
  <2>4. f[N] \in SUBSET Block /\ a \in f[N] /\ (Stable(f[N]) \/ Cardinality(f[N]) > N)
    BY <2>1, <2>3
  <2>5. Cardinality(f[N]) <= N /\ Cardinality(f[N]) \in Nat
    BY <1>1, <2>4, FS_Subset, FS_CardinalityType
  <2>6. Stable(f[N])
    <3> HIDE DEF Stable
    <3> QED
      BY <1>1, <2>4, <2>5
  <2> QED
    BY <2>4, <2>6
<1>6. ReachFrom(g, P, a) = f[N] /\ f[N] \in SUBSET Block
  BY <1>1, <1>2 DEF Layers
<1>7. \A b \in f[N] : SuccSet(g, b) \cap P \cap Block \subseteq f[N]
  BY <1>5 DEF Onward
<1> QED
  BY <1>4, <1>5, <1>6, <1>7 DEF Closed

\* A set that is closed holds what can be reached.
LEMMA ReachOn ==
  ASSUME NEW g, NEW P, NEW a, NEW S \in SUBSET Block, Closed(g, P, a, S)
  PROVE  ReachFrom(g, P, a) \subseteq S
<1>1. a \in Block
  BY DEF Closed
<1> QED
  BY <1>1, ReachLeast

\* Every path begins where it starts.
LEMMA ReachSelf ==
  ASSUME NEW g, NEW P, NEW a \in Block
  PROVE  a \in ReachFrom(g, P, a) /\ ReachFrom(g, P, a) \subseteq Block
BY ReachLeast DEF Closed

\* A path can be prolonged by an edge.
LEMMA ReachStep ==
  ASSUME NEW g, NEW P, NEW a \in Block, NEW b \in ReachFrom(g, P, a), NEW c \in Block,
         c \in SuccSet(g, b), c \in P
  PROVE  c \in ReachFrom(g, P, a)
BY ReachLeast DEF Closed

\* Paths can be joined.
LEMMA ReachTrans ==
  ASSUME NEW g \in Cfgs, NEW P, NEW Q, P \subseteq Q, NEW a \in Block, NEW b \in ReachFrom(g, Q, a)
  PROVE  ReachFrom(g, P, b) \subseteq ReachFrom(g, Q, a)
<1> DEFINE S == ReachFrom(g, Q, a)
<1>1. S \in SUBSET Block /\ b \in S
  BY ReachSelf
<1>2. ASSUME NEW c \in S, NEW d \in SuccSet(g, c) \cap P PROVE d \in S
  <2>1. d \in Block
    BY <1>1, SuccSeq
  <2> QED
    BY <2>1, ReachStep
<1>3. Closed(g, P, b, S)
  <2> HIDE DEF S
  <2> QED
    BY <1>1, <1>2 DEF Closed
<1> HIDE DEF S
<1>4. ReachFrom(g, P, b) \subseteq S
  BY <1>1, <1>3, ReachOn
<1> QED
  BY <1>4 DEF S

\* The list of predecessors holds the predecessors.
LEMMA PredsFacts ==
  ASSUME NEW g \in Cfgs, NEW b \in Block
  PROVE  Preds(g, b) \in Seq(Block) /\ Range(Preds(g, b)) = {c \in Block : b \in SuccSet(g, c)}
<1> DEFINE S == 0 .. N
           V == Seq(Block)
           m == [c \in S |-> c]
           B(f, c) == IF c = 0 THEN <<>>
                      ELSE IF b \in SuccSet(g, c) THEN Append(f[c - 1], c) ELSE f[c - 1]
           D == [c \in S |-> [f \in [S -> V] |-> B(f, c)]]
           is(f) == f = [c \in S |-> B(f, c)]
           from == CHOOSE f : is(f)
<1>1. N \in Nat \ {0} /\ Block = 1 .. N
  BY SizeAssumption DEF Block
<1>2. ASSUME NEW c \in S, NEW f \in [S -> V] PROVE B(f, c) \in V
  <2>1. c # 0 => c - 1 \in S /\ c \in Block
    BY <1>1
  <2>2. c # 0 => f[c - 1] \in V
    BY <2>1
  <2> HIDE DEF S
  <2> QED
    BY <2>1, <2>2
<1>3. Grounded(S, V, m, D)
  <2>1. m \in [S -> Nat]
    BY <1>1
  <2>2. D \in [S -> [[S -> V] -> V]]
    <3> HIDE DEF B, S, V
    <3> QED
      BY <1>2
  <2>3. ASSUME NEW x \in S, NEW f \in [S -> V], NEW h \in [S -> V],
               \A y \in S : m[y] < m[x] => f[y] = h[y]
        PROVE  D[x][f] = D[x][h]
    <3>1. x # 0 => x - 1 \in S /\ m[x - 1] < m[x]
      BY <1>1
    <3>2. B(f, x) = B(h, x)
      BY <2>3, <3>1
    <3> HIDE DEF B, S, V
    <3> QED
      BY <3>2
  <2> HIDE DEF D, m, S, V
  <2> QED
    BY <2>1, <2>2, <2>3 DEF Grounded
<1>4. \E f : is(f)
  <2>1. V # {}
    BY EmptySeq
  <2>2. PICK f \in [S -> V] : \A x \in S : f[x] = D[x][f]
    <3> HIDE DEF D, m, S, V
    <3> QED
      BY <1>3, <2>1, RecursionExists
  <2>3. \A x \in S : f[x] = B(f, x)
    <3> HIDE DEF B, S, V
    <3> QED
      BY <2>2
  <2>4. f = [c \in S |-> B(f, c)]
    <3> HIDE DEF B, S, V
    <3> QED
      BY <2>3
  <2> QED
    BY <2>4
<1>5. is(from)
  <2> HIDE DEF is
  <2> QED
    BY <1>4
<1>6. Preds(g, b) = from[N]
  BY DEF Preds
<1> HIDE DEF from
<1> DEFINE Right(c) == from[c] \in Seq(Block) /\ Range(from[c]) = {x \in Block : x <= c /\ b \in SuccSet(g, x)}
           Wrong == {c \in S : ~Right(c)}
<1>7. ASSUME NEW c \in S, \A d \in S : d < c => Right(d) PROVE Right(c)
  <2>1. from[c] = B(from, c)
    BY <1>5
  <2>2. CASE c = 0
    <3>1. from[c] = <<>> /\ {x \in Block : x <= c /\ b \in SuccSet(g, x)} = {}
      BY <1>1, <2>1, <2>2
    <3> QED
      BY <3>1 DEF Range
  <2>3. CASE c # 0
    <3>1. c - 1 \in S /\ c - 1 < c /\ c \in Block
      BY <1>1, <2>3
    <3>2. Right(c - 1)
      BY <1>7, <3>1
    <3>3. \A x \in Block : x <= c <=> x <= c - 1 \/ x = c
      BY <1>1
    <3>4. Range(Append(from[c - 1], c)) = Range(from[c - 1]) \cup {c}
      <4> HIDE DEF from
      <4>1. PICK t \in Seq(Block) : t = from[c - 1]
        BY <3>2
      <4>2. Append(t, c) = [i \in 1 .. Len(t) + 1 |-> IF i = Len(t) + 1 THEN c ELSE t[i]] /\ DOMAIN t = 1 .. Len(t) /\ Len(t) \in Nat
        BY <3>1, <4>1
      <4>3. Range(Append(t, c)) = Range(t) \cup {c}
        BY <4>2 DEF Range
      <4> QED
        BY <4>1, <4>3
    <3>5. from[c] = IF b \in SuccSet(g, c) THEN Append(from[c - 1], c) ELSE from[c - 1]
      BY <2>1, <2>3
    <3>6. from[c] \in Seq(Block)
      BY <3>1, <3>2, <3>5
    <3>7. Range(from[c]) = {x \in Block : x <= c /\ b \in SuccSet(g, x)}
      <4>1. CASE b \in SuccSet(g, c)
        BY <3>1, <3>2, <3>3, <3>4, <3>5, <4>1
      <4>2. CASE b \notin SuccSet(g, c)
        BY <3>1, <3>2, <3>3, <3>5, <4>2
      <4> QED
        BY <4>1, <4>2
    <3> QED
      BY <3>6, <3>7
  <2> QED
    BY <2>2, <2>3
<1>8. Wrong = {}
  <2> SUFFICES ASSUME Wrong # {} PROVE FALSE
    OBVIOUS
  <2>1. Wrong \in SUBSET Nat
    BY <1>1
  <2>2. PICK c \in Wrong : \A d \in Wrong : c <= d
    <3> HIDE DEF Wrong
    <3> QED
      BY <2>1, LeastNumber
  <2>3. c \in S /\ ~Right(c)
    OBVIOUS
  <2>4. \A d \in S : d < c => Right(d)
    <3> SUFFICES ASSUME NEW d \in S, d < c, ~Right(d) PROVE FALSE
      OBVIOUS
    <3>1. d \in Wrong
      OBVIOUS
    <3>2. c <= d /\ c \in Nat /\ d \in Nat
      BY <2>1, <2>2, <3>1
    <3> QED
      BY <3>2
  <2> HIDE DEF Right, S
  <2> QED
    BY <1>7, <2>3, <2>4
<1>9. N \in S /\ Right(N)
  BY <1>1, <1>8
<1>10. {x \in Block : x <= N /\ b \in SuccSet(g, x)} = {c \in Block : b \in SuccSet(g, c)}
  BY <1>1
<1> QED
  BY <1>6, <1>9, <1>10

-----------------------------------------------------------------------------
(***************************************************************************)
(* Visiting the members of a list, and calls that nest.                    *)
(***************************************************************************)
\* The greatest of the first numbers.
LEMMA MaxFacts ==
  ASSUME NEW n \in Nat
  PROVE  /\ \A T \in SUBSET (1 .. n) : T # {} => Max(T) \in T
         /\ n # 0 => Max(1 .. n) = n
<1>1. ASSUME NEW T \in SUBSET (1 .. n), T # {} PROVE Max(T) \in T /\ \A y \in T : Max(T) >= y
  <2>1. T \in SUBSET (0 .. n)
    OBVIOUS
  <2>2. PICK x \in T : \A y \in T : y <= x
    BY <1>1, <2>1, GreatestNumber
  <2>3. \A y \in T : x >= y
    BY <2>1, <2>2
  <2> QED
    BY <2>3 DEF Max
<1>2. ASSUME n # 0 PROVE Max(1 .. n) = n
  <2>1. 1 .. n # {} /\ n \in 1 .. n
    BY <1>2
  <2>2. Max(1 .. n) \in 1 .. n /\ Max(1 .. n) >= n
    BY <1>1, <2>1
  <2> HIDE DEF Max
  <2> QED
    BY <2>2
<1> QED
  BY <1>1, <1>2

\* f is a visit of one of B, in terms of the states S.
Visitor(f, S, B) == f \in [S -> [B -> S]]

\* h gives what f makes of s along the places in a set, in their order; FoldsOn
\* says so only of the sets before which the value is known to be in S.
IsFold(S, f, list, s, h) ==
  /\ h \in [SUBSET (1 .. Len(list)) -> S]
  /\ \A T \in SUBSET (1 .. Len(list)) : h[T] = IF T = {} THEN s ELSE f[h[T \ {Max(T)}]][list[Max(T)]]

FoldsOn(S, f, list, s, h) ==
  /\ h[{}] = s
  /\ \A T \in SUBSET (1 .. Len(list)) :
       T # {} /\ h[T \ {Max(T)}] \in S => h[T] = f[h[T \ {Max(T)}]][list[Max(T)]]

\* w holds what f makes of s after each place of the list.
IsWalk(S, f, list, s, w) ==
  w \in [0 .. Len(list) -> S] /\ w[0] = s /\ \A i \in 1 .. Len(list) : w[i] = f[w[i - 1]][list[i]]

\* There is a fold.
LEMMA FoldExists ==
  ASSUME NEW S, NEW B, NEW f, Visitor(f, S, B), NEW list \in Seq(B), NEW s \in S
  PROVE  \E h : IsFold(S, f, list, s, h)
<1> DEFINE X == SUBSET (1 .. Len(list))
           A(h, T) == IF T = {} THEN s ELSE f[h[T \ {Max(T)}]][list[Max(T)]]
           m == [T \in X |-> Cardinality(T)]
           D == [T \in X |-> [h \in [X -> S] |-> A(h, T)]]
<1>1. Len(list) \in Nat /\ DOMAIN list = 1 .. Len(list)
  OBVIOUS
<1>2. ASSUME NEW T \in X, T # {}
      PROVE  /\ Max(T) \in T /\ Max(T) \in 1 .. Len(list) /\ list[Max(T)] \in B /\ T \ {Max(T)} \in X
             /\ Cardinality(T) \in Nat /\ Cardinality(T \ {Max(T)}) \in Nat
             /\ Cardinality(T \ {Max(T)}) < Cardinality(T)
  <2>1. Max(T) \in T
    BY <1>1, <1>2, MaxFacts
  <2>2. IsFiniteSet(T)
    <3>1. IsFiniteSet(1 .. Len(list))
      BY <1>1, FS_Interval
    <3> QED
      BY <3>1, FS_Subset
  <2>3. Cardinality(T \ {Max(T)}) = Cardinality(T) - 1 /\ Cardinality(T) \in Nat
        /\ Cardinality(T \ {Max(T)}) \in Nat
    BY <2>1, <2>2, FS_RemoveElement, FS_CardinalityType
  <2>4. Cardinality(T \ {Max(T)}) < Cardinality(T)
    BY <2>3
  <2>5. T \ {Max(T)} \in X /\ Max(T) \in 1 .. Len(list)
    BY <2>1
  <2>6. list[Max(T)] \in B
    BY <1>1, <2>5
  <2> QED
    BY <2>1, <2>3, <2>4, <2>5, <2>6
<1>3. m \in [X -> Nat]
  <2>1. Cardinality({}) \in Nat
    BY FS_EmptySet
  <2>2. ASSUME NEW T \in X PROVE Cardinality(T) \in Nat
    <3>1. CASE T = {}
      BY <2>1, <3>1
    <3>2. CASE T # {}
      BY <1>2, <3>2
    <3> QED
      BY <3>1, <3>2
  <2> HIDE DEF X
  <2> QED
    BY <2>2
<1> HIDE DEF X
<1>4. ASSUME NEW T \in X, NEW h \in [X -> S] PROVE A(h, T) \in S
  <2>1. CASE T = {}
    BY <2>1
  <2>2. CASE T # {}
    <3>1. T \ {Max(T)} \in X /\ list[Max(T)] \in B
      BY <1>2, <2>2
    <3>2. PICK t \in S : t = h[T \ {Max(T)}]
      BY <3>1
    <3>3. PICK c \in B : c = list[Max(T)]
      BY <3>1
    <3>4. f[t][c] \in S
      BY DEF Visitor
    <3>5. A(h, T) = f[t][c]
      BY <2>2, <3>2, <3>3
    <3> QED
      BY <3>4, <3>5
  <2> QED
    BY <2>1, <2>2
<1>5. ASSUME NEW T \in X, NEW g \in [X -> S], NEW h \in [X -> S],
             \A U \in X : m[U] < m[T] => g[U] = h[U]
      PROVE  D[T][g] = D[T][h]
  <2>1. D[T][g] = A(g, T) /\ D[T][h] = A(h, T)
    BY <1>5
  <2>2. CASE T = {}
    BY <2>1, <2>2
  <2>3. CASE T # {}
    <3>1. m[T \ {Max(T)}] < m[T] /\ T \ {Max(T)} \in X
      BY <1>2, <2>3
    <3>2. g[T \ {Max(T)}] = h[T \ {Max(T)}]
      BY <1>5, <3>1
    <3> QED
      BY <2>1, <2>3, <3>2
  <2> QED
    BY <2>2, <2>3
<1>6. D \in [X -> [[X -> S] -> S]]
  <2> HIDE DEF A
  <2> QED
    BY <1>4
<1>7. Grounded(X, S, m, D)
  <2> HIDE DEF D, m
  <2> QED
    BY <1>3, <1>5, <1>6 DEF Grounded
<1>8. PICK h \in [X -> S] : \A T \in X : h[T] = D[T][h]
  <2>1. S # {}
    OBVIOUS
  <2> HIDE DEF D, m
  <2> QED
    BY <1>7, <2>1, RecursionExists
<1>9. \A T \in X : h[T] = A(h, T)
  <2> HIDE DEF A
  <2> QED
    BY <1>8
<1> QED
  BY <1>8, <1>9 DEF X, IsFold

\* Its values at the first places are those of a walk along the list.
LEMMA FoldWalk ==
  ASSUME NEW S, NEW B, NEW f, Visitor(f, S, B), NEW list \in Seq(B), NEW s \in S, NEW iter, FoldsOn(S, f, list, s, iter)
  PROVE  \E w : IsWalk(S, f, list, s, w) /\ w[Len(list)] = iter[1 .. Len(list)]
<1> DEFINE w == [i \in 0 .. Len(list) |-> iter[1 .. i]]
<1>1. Len(list) \in Nat /\ DOMAIN list = 1 .. Len(list)
  OBVIOUS
<1>2. \A i \in 0 .. Len(list) : 1 .. i \in SUBSET (1 .. Len(list))
  BY <1>1
<1>3. w[0] = s
  <2>1. 1 .. 0 = {} /\ 0 \in 0 .. Len(list)
    BY <1>1
  <2> QED
    BY <2>1 DEF FoldsOn
<1>4. ASSUME NEW i \in 1 .. Len(list), w[i - 1] \in S PROVE w[i] = f[w[i - 1]][list[i]]
  <2>1. i \in Nat /\ i # 0 /\ i \in 0 .. Len(list) /\ i - 1 \in 0 .. Len(list)
    BY <1>1
  <2>2. Max(1 .. i) = i /\ i \in 1 .. i
    BY <2>1, MaxFacts
  <2>3. (1 .. i) \ {i} = 1 .. (i - 1)
    BY <2>1
  <2>4. w[i] = iter[1 .. i] /\ w[i - 1] = iter[(1 .. i) \ {i}]
    BY <2>1, <2>3
  <2>5. iter[1 .. i] = f[iter[(1 .. i) \ {i}]][list[i]]
    <3> HIDE DEF w
    <3>1. iter[(1 .. i) \ {i}] \in S
      BY <1>4, <2>4
    <3>2. PICK T \in SUBSET (1 .. Len(list)) : T = 1 .. i
      BY <1>2, <2>1
    <3>3. T # {} /\ Max(T) = i
      BY <2>2, <3>2
    <3> HIDE DEF Max
    <3> QED
      BY <3>1, <3>2, <3>3 DEF FoldsOn
  <2> HIDE DEF w
  <2> QED
    BY <2>4, <2>5
<1>5. \A i \in 0 .. Len(list) : w[i] \in S
  <2> DEFINE Bad == {i \in 0 .. Len(list) : w[i] \notin S}
  <2> SUFFICES ASSUME Bad # {} PROVE FALSE
    OBVIOUS
  <2>1. Bad \in SUBSET Nat
    OBVIOUS
  <2>2. PICK i \in Bad : \A j \in Bad : i <= j
    <3> HIDE DEF Bad
    <3> QED
      BY <2>1, LeastNumber
  <2> HIDE DEF w
  <2>3. i # 0
    BY <1>3, <2>2
  <2>4. i \in 1 .. Len(list) /\ i - 1 \in 0 .. Len(list) /\ ~(i <= i - 1)
    BY <1>1, <2>3
  <2>5. w[i - 1] \in S
    BY <2>2, <2>4
  <2>6. list[i] \in B
    BY <2>4
  <2>7. f[w[i - 1]][list[i]] \in S
    BY <2>5, <2>6 DEF Visitor
  <2> QED
    BY <1>4, <2>2, <2>4, <2>5, <2>7
<1>6. w[Len(list)] = iter[1 .. Len(list)]
  <2> Len(list) \in 0 .. Len(list)
    BY <1>1
  <2> QED
    OBVIOUS
<1>7. w \in [0 .. Len(list) -> S]
  BY <1>5
<1>8. \A i \in 1 .. Len(list) : w[i - 1] \in S
  <2> HIDE DEF w
  <2> QED
    BY <1>1, <1>5
<1> HIDE DEF w
<1> QED
  BY <1>3, <1>4, <1>6, <1>7, <1>8 DEF IsWalk

\* The members of a list are visited one after the other.
LEMMA EachOfFacts ==
  ASSUME NEW S, NEW B, NEW f, Visitor(f, S, B), NEW list \in Seq(B), NEW s \in S
  PROVE  \E w \in [0 .. Len(list) -> S] :
           /\ w[0] = s /\ w[Len(list)] = EachOf(f, list, s)
           /\ \A i \in 1 .. Len(list) : w[i] = f[w[i - 1]][list[i]]
<1> DEFINE X == SUBSET (1 .. Len(list))
           A(h, T) == IF T = {} THEN s ELSE f[h[T \ {Max(T)}]][list[Max(T)]]
           is(h) == h = [T \in X |-> A(h, T)]
           iter == CHOOSE h : is(h)
<1>1. EachOf(f, list, s) = iter[1 .. Len(list)]
  <2> Len(list) \in Nat /\ DOMAIN list = 1 .. Len(list)
    OBVIOUS
  <2> QED
    BY DEF EachOf, FoldLeft, MapThenFoldSet
<1>2. PICK h : IsFold(S, f, list, s, h)
  BY FoldExists
<1>3. is(h)
  <2>1. h \in [X -> S] /\ \A T \in X : h[T] = A(h, T)
    BY <1>2 DEF IsFold
  <2> HIDE DEF A
  <2> QED
    BY <2>1
<1>4. is(iter)
  <2> HIDE DEF A
  <2> QED
    BY <1>3
<1> HIDE DEF iter
<1>5. \A T \in X : iter[T] = A(iter, T)
  BY <1>4
<1>6. PICK it : it = iter
  OBVIOUS
<1>7. FoldsOn(S, f, list, s, it)
  BY <1>5, <1>6 DEF FoldsOn
<1>8. PICK w : IsWalk(S, f, list, s, w) /\ w[Len(list)] = it[1 .. Len(list)]
  BY <1>7, FoldWalk
<1> QED
  BY <1>1, <1>6, <1>8 DEF IsWalk

\* What the visits keep holds in the end.
LEMMA EachOfKeeps ==
  ASSUME NEW S, NEW B, NEW f, Visitor(f, S, B), NEW list \in Seq(B), NEW P \in SUBSET S, NEW s \in P,
         \A t \in P : \A b \in Range(list) : f[t][b] \in P
  PROVE  EachOf(f, list, s) \in P
<1>1. PICK w \in [0 .. Len(list) -> S] :
           /\ w[0] = s /\ w[Len(list)] = EachOf(f, list, s)
           /\ \A i \in 1 .. Len(list) : w[i] = f[w[i - 1]][list[i]]
  BY EachOfFacts
<1>2. Len(list) \in Nat /\ DOMAIN list = 1 .. Len(list)
  OBVIOUS
<1> DEFINE Bad == {i \in 0 .. Len(list) : w[i] \notin P}
<1>3. ASSUME Bad # {} PROVE FALSE
  <2>1. PICK i \in Bad : \A j \in Bad : i <= j
    <3>1. Bad \in SUBSET Nat
      OBVIOUS
    <3> HIDE DEF Bad
    <3> QED
      BY <1>3, <3>1, LeastNumber
  <2>2. i \in 1 .. Len(list) /\ i - 1 \in 0 .. Len(list) /\ ~(i <= i - 1)
    BY <1>1, <1>2
  <2>3. w[i - 1] \in P /\ list[i] \in Range(list)
    BY <1>2, <2>1, <2>2 DEF Range
  <2> QED
    BY <1>1, <2>2, <2>3
<1> QED
  BY <1>1, <1>2, <1>3

\* w holds the states between the visits of the members.
Walk(f, list, s, w) ==
  w[0] = s /\ w[Len(list)] = EachOf(f, list, s) /\ \A i \in 1 .. Len(list) : w[i] = f[w[i - 1]][list[i]]

\* list is a list of members of B.
ListOver(B, list) == list \in Seq(B)

LEMMA EachOfWalk ==
  ASSUME NEW S, NEW B, NEW f, Visitor(f, S, B), NEW list, ListOver(B, list), NEW s \in S
  PROVE  \E w : Walk(f, list, s, w)
<1>1. list \in Seq(B)
  BY DEF ListOver
<1>2. PICK w \in [0 .. Len(list) -> S] :
           /\ w[0] = s /\ w[Len(list)] = EachOf(f, list, s)
           /\ \A i \in 1 .. Len(list) : w[i] = f[w[i - 1]][list[i]]
  BY <1>1, EachOfFacts
<1> QED
  BY <1>2 DEF Walk

\* Without members nothing happens.
LEMMA EachOfNone ==
  ASSUME NEW S, NEW B, NEW f, Visitor(f, S, B), NEW s \in S
  PROVE  EachOf(f, <<>>, s) = s
<1>1. PICK list : list = <<>>
  OBVIOUS
<1>2. ListOver(B, list) /\ Len(list) = 0
  BY <1>1 DEF ListOver
<1>3. PICK w : Walk(f, list, s, w)
  BY <1>2, EachOfWalk
<1> QED
  BY <1>1, <1>2, <1>3 DEF Walk

\* The first member is visited first.
LEMMA EachOfNext ==
  ASSUME NEW S, NEW B, NEW f, Visitor(f, S, B), NEW list \in Seq(B), list # <<>>, NEW s \in S
  PROVE  EachOf(f, list, s) = EachOf(f, Tail(list), f[s][Head(list)])
<1>1. PICK n \in Nat : n = Len(list) - 1 /\ Len(list) = n + 1
  BY EmptySeq
<1>2. PICK rest : rest = Tail(list)
  OBVIOUS
<1>3. /\ rest \in Seq(B) /\ Len(rest) = n /\ Head(list) = list[1] /\ list[1] \in B
      /\ \A i \in 1 .. n : rest[i] = list[i + 1]
  BY <1>1, <1>2
<1>4. PICK t \in S : t = f[s][list[1]]
  BY <1>3 DEF Visitor
<1>5. PICK w : Walk(f, list, s, w)
  <2>1. ListOver(B, list)
    BY DEF ListOver
  <2> QED
    BY <2>1, EachOfWalk
<1>6. PICK v : Walk(f, rest, t, v)
  <2>1. ListOver(B, rest)
    BY <1>3 DEF ListOver
  <2> QED
    BY <1>4, <2>1, EachOfWalk
<1> USE DEF Walk
<1> DEFINE Bad == {i \in 0 .. n : v[i] # w[i + 1]}
<1>7. ASSUME Bad # {} PROVE FALSE
  <2>1. PICK i \in Bad : \A j \in Bad : i <= j
    <3>1. Bad \in SUBSET Nat
      BY <1>1
    <3> HIDE DEF Bad
    <3> QED
      BY <1>7, <3>1, LeastNumber
  <2>2. w[1] = t
    <3>1. 1 \in 1 .. Len(list) /\ 1 - 1 = 0
      BY <1>1
    <3> QED
      BY <1>4, <1>5, <3>1
  <2>3. i # 0
    BY <1>6, <2>1, <2>2
  <2>4. PICK j : j = i - 1
    OBVIOUS
  <2>9. j \in 0 .. n /\ i = j + 1 /\ i \in 1 .. n /\ ~(i <= j)
    BY <1>1, <2>1, <2>3, <2>4
  <2>5. v[j] = w[j + 1]
    BY <2>1, <2>9
  <2>6. v[i] = f[v[j]][list[i + 1]]
    BY <1>3, <1>6, <2>4, <2>9
  <2>7. w[i + 1] = f[w[i]][list[i + 1]]
    <3>1. i + 1 \in 1 .. Len(list) /\ (i + 1) - 1 = i
      BY <1>1, <2>9
    <3> QED
      BY <1>5, <3>1
  <2> QED
    BY <2>1, <2>5, <2>6, <2>7, <2>9
<1>8. v[n] = w[n + 1]
  <2>1. n \in 0 .. n
    BY <1>1
  <2> QED
    BY <1>7, <2>1
<1> QED
  BY <1>2, <1>3, <1>4, <1>5, <1>6, <1>8

\* What the visit of the first member brings about, and the later ones keep.
LEMMA EachOfFirst ==
  ASSUME NEW S, NEW B, NEW f, Visitor(f, S, B), NEW list \in Seq(B), list # <<>>, NEW s \in S,
         NEW P \in SUBSET S, f[s][Head(list)] \in P, \A t \in P : \A b \in Range(list) : f[t][b] \in P
  PROVE  EachOf(f, list, s) \in P
<1>1. PICK w \in [0 .. Len(list) -> S] :
           /\ w[0] = s /\ w[Len(list)] = EachOf(f, list, s)
           /\ \A i \in 1 .. Len(list) : w[i] = f[w[i - 1]][list[i]]
  BY EachOfFacts
<1>2. Len(list) \in Nat \ {0} /\ DOMAIN list = 1 .. Len(list) /\ Head(list) = list[1]
  BY EmptySeq
<1> DEFINE Bad == {i \in 1 .. Len(list) : w[i] \notin P}
<1>3. ASSUME Bad # {} PROVE FALSE
  <2>1. PICK i \in Bad : \A j \in Bad : i <= j
    <3>1. Bad \in SUBSET Nat
      OBVIOUS
    <3> HIDE DEF Bad
    <3> QED
      BY <1>3, <3>1, LeastNumber
  <2>2. i \in 1 .. Len(list) /\ list[i] \in Range(list)
    BY <1>2, <2>1 DEF Range
  <2>3. CASE i = 1
    <3>1. 1 \in 1 .. Len(list) /\ 1 - 1 = 0
      BY <1>2
    <3>2. w[1] = f[w[0]][list[1]]
      BY <1>1, <3>1
    <3> QED
      BY <1>1, <1>2, <2>1, <2>3, <3>2
  <2>4. CASE i # 1
    <3>1. i - 1 \in 1 .. Len(list) /\ ~(i <= i - 1)
      BY <1>2, <2>2, <2>4
    <3>2. w[i - 1] \in P
      BY <2>1, <3>1
    <3> QED
      BY <1>1, <2>1, <2>2, <3>2
  <2> QED
    BY <2>3, <2>4
<1>4. Len(list) \in 1 .. Len(list)
  BY <1>2
<1> QED
  BY <1>1, <1>3, <1>4

\* What the visit of each member brings about, and the later ones keep.
LEMMA EachOfBrings ==
  ASSUME NEW S, NEW B, NEW f, Visitor(f, S, B), NEW list \in Seq(B), NEW P \in SUBSET S, NEW s \in P,
         \A t \in P : \A b \in Range(list) : f[t][b] \in P,
         NEW G, \A t \in P : \A b \in Range(list) : f[t][b] \in G[b],
         \A t \in P : \A b, c \in Range(list) : t \in G[c] => f[t][b] \in G[c]
  PROVE  \A b \in Range(list) : EachOf(f, list, s) \in G[b]
<1>1. PICK w \in [0 .. Len(list) -> S] :
           /\ w[0] = s /\ w[Len(list)] = EachOf(f, list, s)
           /\ \A i \in 1 .. Len(list) : w[i] = f[w[i - 1]][list[i]]
  BY EachOfFacts
<1>2. Len(list) \in Nat /\ DOMAIN list = 1 .. Len(list)
  OBVIOUS
<1> DEFINE Bad == {i \in 0 .. Len(list) : w[i] \notin P \/ \E k \in 1 .. i : w[i] \notin G[list[k]]}
<1>3. ASSUME Bad # {} PROVE FALSE
  <2>1. PICK i \in Bad : \A j \in Bad : i <= j
    <3>1. Bad \in SUBSET Nat
      OBVIOUS
    <3> HIDE DEF Bad
    <3> QED
      BY <1>3, <3>1, LeastNumber
  <2>2. i # 0
    BY <1>1, <2>1
  <2>3. i \in 1 .. Len(list) /\ i - 1 \in 0 .. Len(list) /\ ~(i <= i - 1)
    BY <1>2, <2>2
  <2>4. w[i - 1] \in P /\ list[i] \in Range(list) /\ \A k \in 1 .. i - 1 : w[i - 1] \in G[list[k]]
    BY <1>2, <2>1, <2>3 DEF Range
  <2>5. w[i] \in P /\ w[i] \in G[list[i]]
    BY <1>1, <2>3, <2>4
  <2>6. ASSUME NEW k \in 1 .. i PROVE w[i] \in G[list[k]]
    <3>1. CASE k = i
      BY <2>5, <3>1
    <3>2. CASE k # i
      <4>1. k \in 1 .. i - 1 /\ k \in 1 .. Len(list)
        BY <1>2, <2>3, <3>2
      <4>2. list[k] \in Range(list) /\ w[i - 1] \in G[list[k]]
        BY <1>2, <2>4, <4>1 DEF Range
      <4> QED
        BY <1>1, <2>3, <2>4, <4>2
    <3> QED
      BY <3>1, <3>2
  <2> QED
    BY <2>1, <2>5, <2>6
<1>4. ASSUME NEW b \in Range(list) PROVE EachOf(f, list, s) \in G[b]
  <2>1. PICK k \in 1 .. Len(list) : b = list[k]
    BY <1>2 DEF Range
  <2>2. Len(list) \in 0 .. Len(list) /\ Len(list) \notin Bad
    BY <1>2, <1>3
  <2> QED
    BY <1>1, <2>1, <2>2
<1> QED
  BY <1>4

\* A visitor keeps the state of the visit a state of the visit.
LEMMA VisitBlockType ==
  ASSUME NEW g \in Cfgs, NEW f, Visitor(f, VisitState, Block), NEW b \in Block, NEW s \in VisitState
  PROVE  VisitBlock(g, f, s, b) \in VisitState
<1>1. g[b] \in Seq(Block) /\ Range(g[b]) \subseteq Block
  BY SuccSeq
<1>2. CASE b \in s.seen
  BY <1>2 DEF VisitBlock
<1>3. CASE b \notin s.seen
  <2>1. [s EXCEPT !.seen = @ \cup {b}] \in VisitState
    BY DEF VisitState
  <2>2. \A t \in VisitState : \A c \in Range(g[b]) : f[t][c] \in VisitState
    BY <1>1 DEF Visitor
  <2>3. PICK t \in VisitState : t = EachOf(f, g[b], [s EXCEPT !.seen = @ \cup {b}])
    <3> HIDE DEF VisitState
    <3> QED
      BY <1>1, <2>1, <2>2, EachOfKeeps
  <2>4. PICK o : o = Append(t.out, b)
    OBVIOUS
  <2>5. o \in Seq(Block) /\ VisitBlock(g, f, s, b) = [t EXCEPT !.out = o]
    BY <1>3, <2>3, <2>4 DEF VisitBlock, VisitState
  <2> QED
    BY <2>5 DEF VisitState
<1> QED
  BY <1>2, <1>3

\* What a call of PostOrderVisitor does, for every state and block.
VisitCalls == [VisitState -> [Block -> VisitState]]

\* The calls of PostOrderVisitor, by how deep others may nest in them.
VisitLevels(g, visit) ==
  /\ \A n \in 0 .. N : visit[n] \in VisitCalls
  /\ \A s \in VisitState : \A b \in Block :
       /\ visit[0][s][b] = s
       /\ \A n \in 1 .. N : visit[n][s][b] = VisitBlock(g, visit[n - 1], s, b)

\* The levels of PostOrderVisitor exist and are what their definition says.
LEMMA PostOrderLevels ==
  ASSUME NEW g \in Cfgs
  PROVE  \E visit : VisitLevels(g, visit) /\ PostOrderVisitor(g) = visit[N]
<1> DEFINE base == [s \in VisitState |-> [b \in Block |-> s]]
           step == [f \in VisitCalls |-> [s \in VisitState |-> [b \in Block |-> VisitBlock(g, f, s, b)]]]
           D(v, n) == IF n = 0 THEN [s \in VisitState |-> [b \in Block |-> s]]
                      ELSE [s \in VisitState |-> [b \in Block |-> VisitBlock(g, v[n - 1], s, b)]]
           is(v) == v = [n \in 0 .. N |-> D(v, n)]
           visit == CHOOSE v : is(v)
<1>1. N \in Nat
  BY SizeAssumption
<1>2. base \in VisitCalls
  BY DEF VisitCalls
<1>3. ASSUME NEW f \in VisitCalls
      PROVE  [s \in VisitState |-> [b \in Block |-> VisitBlock(g, f, s, b)]] \in VisitCalls
  <2>1. Visitor(f, VisitState, Block)
    BY DEF Visitor, VisitCalls
  <2>2. \A s \in VisitState : \A b \in Block : VisitBlock(g, f, s, b) \in VisitState
    BY <2>1, VisitBlockType
  <2> QED
    BY <2>2 DEF VisitCalls
<1>4. step \in [VisitCalls -> VisitCalls]
  <2> HIDE DEF VisitCalls
  <2> QED
    BY <1>3
<1>5. PICK v : Levels(N, VisitCalls, base, step, v)
  <2> HIDE DEF base, step
  <2> QED
    BY <1>1, <1>2, <1>4, LevelsExist
<1>6. is(v)
  <2>1. ASSUME NEW n \in 0 .. N PROVE v[n] = D(v, n)
    <3>1. CASE n = 0
      BY <1>5, <3>1 DEF Levels
    <3>2. CASE n # 0
      <4>1. n \in 1 .. N /\ n - 1 \in 0 .. N
        BY <1>1, <3>2
      <4>2. v[n - 1] \in VisitCalls /\ v[n] = step[v[n - 1]]
        BY <1>5, <4>1 DEF Levels
      <4> HIDE DEF VisitCalls
      <4> QED
        BY <4>2, <3>2
    <3> QED
      BY <3>1, <3>2
  <2> HIDE DEF D
  <2> QED
    BY <1>5, <2>1 DEF Levels
<1>7. is(visit)
  <2> HIDE DEF is
  <2> QED
    BY <1>6
<1>8. PostOrderVisitor(g) = visit[N]
  BY DEF PostOrderVisitor
<1> HIDE DEF visit
<1>9. visit[0] = base /\ 0 \in 0 .. N
  BY <1>1, <1>7
<1>10. ASSUME NEW n \in 1 .. N
       PROVE  /\ n - 1 \in 0 .. N
              /\ visit[n] = [s \in VisitState |-> [b \in Block |-> VisitBlock(g, visit[n - 1], s, b)]]
  <2>1. n \in 0 .. N /\ n # 0 /\ n - 1 \in 0 .. N
    BY <1>1
  <2>2. visit[n] = D(visit, n)
    <3> HIDE DEF D
    <3> QED
      BY <1>7, <2>1
  <2> QED
    BY <2>1, <2>2
<1>11. \A n \in 0 .. N : visit[n] \in VisitCalls
  <2> DEFINE Bad == {n \in 0 .. N : visit[n] \notin VisitCalls}
  <2>1. ASSUME Bad # {} PROVE FALSE
    <3>1. PICK n \in Bad : \A k \in Bad : n <= k
      <4>1. Bad \in SUBSET Nat
        BY <1>1
      <4> HIDE DEF Bad
      <4> QED
        BY <2>1, <4>1, LeastNumber
    <3>2. n \in 1 .. N /\ ~(n <= n - 1)
      BY <1>1, <1>2, <1>9, <3>1
    <3>3. PICK f \in VisitCalls : f = visit[n - 1]
      BY <1>10, <3>1, <3>2
    <3>4. visit[n] \in VisitCalls
      BY <1>3, <1>10, <3>2, <3>3
    <3> QED
      BY <3>1, <3>4
  <2> QED
    BY <2>1
<1>12. ASSUME NEW s \in VisitState, NEW b \in Block PROVE visit[0][s][b] = s
  BY <1>9
<1>13. ASSUME NEW s \in VisitState, NEW b \in Block, NEW n \in 1 .. N
       PROVE  visit[n][s][b] = VisitBlock(g, visit[n - 1], s, b)
  <2>1. PICK f : f = visit[n - 1]
    OBVIOUS
  <2>2. visit[n] = [t \in VisitState |-> [c \in Block |-> VisitBlock(g, f, t, c)]]
    BY <1>10, <2>1
  <2> QED
    BY <2>1, <2>2
<1>14. VisitLevels(g, visit)
  BY <1>11, <1>12, <1>13 DEF VisitLevels
<1> QED
  BY <1>8, <1>14

-----------------------------------------------------------------------------
(***************************************************************************)
(* Dominance is an order in which the dominators of a block form a chain,  *)
(* and natural loops with different headers are nested or disjoint.        *)
(***************************************************************************)
\* What dominates the target of an edge dominates its source.
LEMMA DominatesSource ==
  ASSUME NEW g \in Cfgs, NEW d \in Block, NEW x \in Reachable(g), NEW y \in SuccSet(g, x),
         Dominates(g, d, y), d # y
  PROVE  Dominates(g, d, x) /\ x \in Block /\ y \in Reachable(g) /\ y \in Block
<1>1. Root \in Block
  BY SizeAssumption DEF Root, Block
<1>2. x \in ReachFrom(g, Block, Root) /\ x \in Block
  BY <1>1, ReachSelf DEF Reachable, Reach
<1>3. y \in Block
  BY <1>2, SuccSeq
<1>4. y \in ReachFrom(g, Block, Root)
  BY <1>1, <1>2, <1>3, ReachStep
<1>5. x \in ReachFrom(g, Block \ {d}, Root) => y \in ReachFrom(g, Block \ {d}, Root)
  <2> SUFFICES ASSUME x \in ReachFrom(g, Block \ {d}, Root) PROVE y \in ReachFrom(g, Block \ {d}, Root)
    OBVIOUS
  <2>1. y \in Block \ {d}
    BY <1>3
  <2> QED
    BY <1>1, <1>3, <2>1, ReachStep
<1> QED
  BY <1>2, <1>3, <1>4, <1>5 DEF Dominates, Reach, Reachable

\* Only the entry dominates the entry.
LEMMA DominatesRoot == ASSUME NEW g, NEW d \in Block, Dominates(g, d, Root) PROVE d = Root
<1>1. Root \in Block
  BY SizeAssumption DEF Root, Block
<1>2. Root \in ReachFrom(g, Block \ {d}, Root)
  BY <1>1, ReachSelf
<1> QED
  BY <1>2 DEF Dominates, Reach

\* What holds of the entry, and of the target of an edge if it holds of the
\* source, holds of all reachable blocks.
LEMMA ReachableBy ==
  ASSUME NEW g \in Cfgs, NEW Y, Root \in Y,
         \A x \in Reachable(g) \cap Y : \A y \in SuccSet(g, x) : y \in Y
  PROVE  Reachable(g) \subseteq Y
<1>1. Root \in Block
  BY SizeAssumption DEF Root, Block
<1>2. Reachable(g) \subseteq Block /\ Root \in Reachable(g)
  BY <1>1, ReachSelf DEF Reachable, Reach
<1> DEFINE S == Reachable(g) \cap Y
<1>3. ASSUME NEW x \in S, NEW y \in SuccSet(g, x) \cap Block PROVE y \in S
  <2>1. y \in ReachFrom(g, Block, Root)
    BY <1>1, ReachStep DEF Reachable, Reach
  <2> QED
    BY <2>1 DEF Reachable, Reach
<1>4. S \in SUBSET Block /\ Closed(g, Block, Root, S)
  <2>1. S \subseteq Block /\ Root \in S
    BY <1>2
  <2> HIDE DEF S
  <2> QED
    BY <1>3, <2>1 DEF Closed
<1>5. Reachable(g) \subseteq S
  <2> HIDE DEF S
  <2> QED
    BY <1>4, ReachOn DEF Reachable, Reach
<1> QED
  BY <1>5

LEMMA DominatesTrans ==
  ASSUME NEW g \in Cfgs, NEW a \in Block, NEW b \in Block, NEW c, Dominates(g, a, b), Dominates(g, b, c)
  PROVE  Dominates(g, a, c)
<1>1. Root \in Block
  BY SizeAssumption DEF Root, Block
<1>2. SUFFICES ASSUME a # c, a # Root, c \in Reach(g, Block \ {a}), b # c, b # a PROVE FALSE
  BY DEF Dominates
<1>3. b # Root /\ b \notin Reach(g, Block \ {a})
  BY <1>2, DominatesRoot DEF Dominates
<1>4. c \notin Reach(g, Block \ {b})
  BY <1>2, <1>3 DEF Dominates
<1> DEFINE S == Reach(g, Block \ {a}) \cap Reach(g, Block \ {b})
<1>5. S \in SUBSET Block /\ Root \in S
  BY <1>1, ReachSelf DEF Reach
<1>6. ASSUME NEW x \in S, NEW y \in SuccSet(g, x) \cap (Block \ {a}) PROVE y \in S
  <2>1. y \in Reach(g, Block \ {a})
    BY <1>1, ReachStep DEF Reach
  <2>2. y \in Block \ {b}
    BY <1>3, <2>1
  <2>3. y \in Reach(g, Block \ {b})
    BY <1>1, <2>2, ReachStep DEF Reach
  <2> QED
    BY <2>1, <2>3
<1>7. Closed(g, Block \ {a}, Root, S)
  <2> HIDE DEF S
  <2> QED
    BY <1>5, <1>6 DEF Closed
<1>8. Reach(g, Block \ {a}) \subseteq S
  <2> HIDE DEF S
  <2> QED
    BY <1>5, <1>7, ReachOn DEF Reach
<1> QED
  BY <1>2, <1>4, <1>8

\* Of two blocks one does not dominate the other.
LEMMA DominatesAntisym ==
  ASSUME NEW g \in Cfgs, NEW h \in Reachable(g), NEW k \in Reachable(g), Dominates(g, h, k), Dominates(g, k, h)
  PROVE  h = k
<1>1. Root \in Block /\ h \in Block /\ k \in Block
  BY SizeAssumption, ReachSelf DEF Root, Block, Reachable, Reach
<1>2. SUFFICES ASSUME h # k PROVE FALSE
  OBVIOUS
<1>3. h # Root /\ k # Root
  BY <1>1, <1>2, DominatesRoot
<1>4. k \notin Reach(g, Block \ {h}) /\ h \notin Reach(g, Block \ {k})
  BY <1>2, <1>3 DEF Dominates
<1> DEFINE Y == Reach(g, Block \ {h}) \cap Reach(g, Block \ {k})
<1>5. Root \in Y
  BY <1>1, ReachSelf DEF Reach
<1>6. ASSUME NEW x \in Reachable(g) \cap Y, NEW y \in SuccSet(g, x) PROVE y \in Y
  <2>1. y \in Block
    <3>1. x \in Block
      BY <1>1, ReachSelf DEF Reachable, Reach
    <3> QED
      BY <3>1, SuccSeq
  <2>2. y # h => y \in Reach(g, Block \ {h})
    BY <1>1, <2>1, ReachStep DEF Reach
  <2>3. y # k => y \in Reach(g, Block \ {k})
    BY <1>1, <2>1, ReachStep DEF Reach
  <2> QED
    BY <1>2, <1>4, <2>2, <2>3
<1>7. Reachable(g) \subseteq Y
  <2> HIDE DEF Y
  <2> QED
    BY <1>5, <1>6, ReachableBy
<1> QED
  BY <1>4, <1>7

\* Of two dominators of a block one dominates the other.
LEMMA DominatesChain ==
  ASSUME NEW g \in Cfgs, NEW h \in Block, NEW k \in Block, NEW b \in Reachable(g),
         Dominates(g, h, b), Dominates(g, k, b)
  PROVE  Dominates(g, h, k) \/ Dominates(g, k, h)
<1> SUFFICES ASSUME ~Dominates(g, h, k), ~Dominates(g, k, h) PROVE FALSE
  OBVIOUS
<1> DEFINE Y == {x \in Reachable(g) : ~Dominates(g, h, x) \/ ~Dominates(g, k, x)}
<1>1. Root \in Y
  <2>1. Root \in Reachable(g)
    <3>1. Root \in Block
      BY SizeAssumption DEF Root, Block
    <3> QED
      BY <3>1, ReachSelf DEF Reachable, Reach
  <2>2. h # k
    BY DEF Dominates
  <2> QED
    BY <2>1, <2>2, DominatesRoot
<1>2. ASSUME NEW x \in Reachable(g) \cap Y, NEW y \in SuccSet(g, x) PROVE y \in Y
  <2>1. y \in Reachable(g)
    <3>1. Root \in Block
      BY SizeAssumption DEF Root, Block
    <3>2. x \in Block
      BY <3>1, ReachSelf DEF Reachable, Reach
    <3>3. y \in Block
      BY <3>2, SuccSeq
    <3> QED
      BY <3>1, <3>3, ReachStep DEF Reachable, Reach
  <2>2. SUFFICES ASSUME Dominates(g, h, y), Dominates(g, k, y) PROVE FALSE
    BY <2>1
  <2>3. y # h /\ y # k
    BY <2>2
  <2>4. Dominates(g, h, x) /\ Dominates(g, k, x)
    BY <2>2, <2>3, DominatesSource
  <2> QED
    BY <2>4
<1>3. Reachable(g) \subseteq Y
  <2> HIDE DEF Y
  <2> QED
    BY <1>1, <1>2, ReachableBy
<1> QED
  BY <1>3

\* A back edge: its target strictly dominates its source.
IsBack(g, s, h) == /\ s \in Reachable(g) /\ h \in Reachable(g)
                   /\ h \in SuccSet(g, s) /\ h \in StrictDominators(g, s)

\* The header of a natural loop dominates its blocks.
LEMMA HeaderDominates ==
  ASSUME NEW g \in Cfgs, NEW s, NEW h, IsBack(g, s, h)
  PROVE  /\ s # h /\ s \in Block /\ h \in Block
         /\ s \in NaturalLoop(g, s, h) /\ h \in NaturalLoop(g, s, h)
         /\ NaturalLoop(g, s, h) \subseteq Reachable(g) /\ Reachable(g) \subseteq Block
         /\ \A b \in NaturalLoop(g, s, h) : Dominates(g, h, b)
<1>1. Root \in Block
  BY SizeAssumption DEF Root, Block
<1>2. Reachable(g) \subseteq Block
  BY <1>1, ReachSelf DEF Reachable, Reach
<1>3. s # h /\ s \in Block /\ h \in Block /\ Dominates(g, h, s) /\ s \in Reachable(g) /\ h \in Reachable(g)
  BY <1>2 DEF IsBack, StrictDominators
<1>4. s \in NaturalLoop(g, s, h) /\ h \in NaturalLoop(g, s, h) /\ NaturalLoop(g, s, h) \subseteq Reachable(g)
  BY <1>3, ReachSelf DEF NaturalLoop
<1>5. ASSUME NEW b \in NaturalLoop(g, s, h) PROVE Dominates(g, h, b)
  <2>1. SUFFICES ASSUME b # h, h # Root, b \in Reach(g, Block \ {h}) PROVE FALSE
    BY DEF Dominates
  <2>2. s \in ReachFrom(g, Block \ {h}, b)
    BY <2>1 DEF NaturalLoop
  <2>3. s \in Reach(g, Block \ {h})
    BY <1>1, <2>1, <2>2, ReachTrans DEF Reach
  <2> QED
    BY <1>3, <2>1, <2>3 DEF Dominates
<1> QED
  BY <1>2, <1>3, <1>4, <1>5

\* What k dominates is reached from k without a block that k does not dominate.
LEMMA FromDominator ==
  ASSUME NEW g \in Cfgs, NEW h \in Block, NEW k \in Block, ~Dominates(g, k, h),
         NEW b \in Reachable(g), Dominates(g, k, b)
  PROVE  b \in ReachFrom(g, Block \ {h}, k)
<1>1. Root \in Block
  BY SizeAssumption DEF Root, Block
<1> DEFINE Y == {x \in Block : Dominates(g, k, x) => x \in ReachFrom(g, Block \ {h}, k)}
<1>2. k \in Y
  BY ReachSelf
<1>3. Root \in Y
  BY <1>1, <1>2, DominatesRoot
<1>4. ASSUME NEW x \in Reachable(g) \cap Y, NEW y \in SuccSet(g, x) PROVE y \in Y
  <2>1. x \in Block
    OBVIOUS
  <2>2. y \in Block
    BY <2>1, SuccSeq
  <2>3. CASE Dominates(g, k, y) /\ y # k
    <3>1. Dominates(g, k, x)
      BY <2>3, DominatesSource
    <3>2. x \in ReachFrom(g, Block \ {h}, k) /\ y \in Block \ {h}
      BY <2>2, <2>3, <3>1
    <3>3. y \in ReachFrom(g, Block \ {h}, k)
      BY <2>2, <3>2, ReachStep
    <3> QED
      BY <2>2, <3>3
  <2> QED
    BY <1>2, <2>2, <2>3
<1>5. Reachable(g) \subseteq Y
  <2> HIDE DEF Y
  <2> QED
    BY <1>3, <1>4, ReachableBy
<1> QED
  BY <1>5

\* What is reached without k is reached without h, or from h without k.
LEMMA Detour ==
  ASSUME NEW g \in Cfgs, NEW h \in Block, NEW k \in Block, NEW x \in Block
  PROVE  ReachFrom(g, Block \ {k}, x) \subseteq ReachFrom(g, Block \ {h}, x) \cup ReachFrom(g, Block \ {k}, h)
<1> DEFINE A == ReachFrom(g, Block \ {h}, x)
           B == ReachFrom(g, Block \ {k}, h)
           S == A \cup B
<1>1. S \in SUBSET Block /\ x \in S /\ h \in B
  BY ReachSelf
<1>2. ASSUME NEW a \in S, NEW b \in SuccSet(g, a) \cap (Block \ {k}) PROVE b \in S
  <2>1. CASE a \in B
    BY <2>1, ReachStep
  <2>2. CASE a \in A /\ b # h
    <3>1. b \in Block \ {h} /\ b \in Block
      BY <2>2
    <3> QED
      BY <2>2, <3>1, ReachStep
  <2> QED
    BY <1>1, <2>1, <2>2
<1>3. Closed(g, Block \ {k}, x, S)
  <2> HIDE DEF S
  <2> QED
    BY <1>1, <1>2 DEF Closed
<1> QED
  <2> HIDE DEF S
  <2>1. ReachFrom(g, Block \ {k}, x) \subseteq S
    BY <1>1, <1>3, ReachOn
  <2> QED
    BY <2>1 DEF S

\* Two natural loops that meet are nested if their headers differ.
LEMMA LoopsNest ==
  ASSUME NEW g \in Cfgs, NEW s, NEW h, IsBack(g, s, h), NEW t, NEW k, IsBack(g, t, k), h # k,
         NEW b \in NaturalLoop(g, s, h) \cap NaturalLoop(g, t, k), Dominates(g, h, k)
  PROVE  NaturalLoop(g, t, k) \subseteq NaturalLoop(g, s, h) /\ h \notin NaturalLoop(g, t, k)
<1>1. Root \in Block
  BY SizeAssumption DEF Root, Block
<1>2. /\ s # h /\ s \in Block /\ h \in Block /\ t # k /\ t \in Block /\ k \in Block
      /\ NaturalLoop(g, t, k) \subseteq Reachable(g) /\ Reachable(g) \subseteq Block
      /\ \A c \in NaturalLoop(g, s, h) : Dominates(g, h, c)
      /\ \A c \in NaturalLoop(g, t, k) : Dominates(g, k, c)
      /\ h \in Reachable(g) /\ k \in Reachable(g)
  BY HeaderDominates DEF IsBack
<1>3. ~Dominates(g, k, h)
  BY <1>2, DominatesAntisym
<1>4. h \notin NaturalLoop(g, t, k)
  BY <1>2, <1>3
<1>5. b # h /\ s \in ReachFrom(g, Block \ {h}, b) /\ b \in Reachable(g) /\ b \in Block /\ Dominates(g, k, b)
  BY <1>2, <1>4 DEF NaturalLoop
<1>6. s \in ReachFrom(g, Block \ {h}, k)
  <2>1. b \in ReachFrom(g, Block \ {h}, k)
    BY <1>2, <1>3, <1>5, FromDominator
  <2> QED
    BY <1>2, <1>5, <2>1, ReachTrans
<1>7. ASSUME NEW x \in NaturalLoop(g, t, k) PROVE x \in NaturalLoop(g, s, h)
  <2>1. x # h /\ x \in Reachable(g) /\ x \in Block
    BY <1>2, <1>4
  <2>2. CASE x = k
    BY <1>6, <2>1, <2>2 DEF NaturalLoop
  <2>3. CASE x # k
    <3>1. t \in ReachFrom(g, Block \ {k}, x)
      BY <2>3 DEF NaturalLoop
    <3>2. t \notin ReachFrom(g, Block \ {k}, h)
      <4>1. k # Root /\ h \in Reach(g, Block \ {k})
        BY <1>2, <1>3 DEF Dominates
      <4>2. ReachFrom(g, Block \ {k}, h) \subseteq Reach(g, Block \ {k})
        BY <1>1, <4>1, ReachTrans DEF Reach
      <4>3. Dominates(g, k, t)
        BY DEF IsBack, StrictDominators
      <4> QED
        BY <1>2, <4>1, <4>2, <4>3 DEF Dominates
    <3>3. t \in ReachFrom(g, Block \ {h}, x)
      BY <1>2, <2>1, <3>1, <3>2, Detour
    <3>4. k \in ReachFrom(g, Block \ {h}, x)
      <4>1. k \in SuccSet(g, t) /\ k \in Block \ {h}
        BY <1>2 DEF IsBack
      <4> QED
        BY <2>1, <3>3, <4>1, ReachStep
    <3>5. s \in ReachFrom(g, Block \ {h}, x)
      BY <1>6, <2>1, <3>4, ReachTrans
    <3> QED
      BY <2>1, <3>5 DEF NaturalLoop
  <2> QED
    BY <2>2, <2>3
<1> QED
  BY <1>4, <1>7
=============================================================================
