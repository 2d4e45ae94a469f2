--------------------------- MODULE DomTreeFastProofs ---------------------------
(***************************************************************************)
(* Theorems about the fast dominator tree (Lengauer and Tarjan) and the    *)
(* elimination of checks that uses it, for every number of blocks and      *)
(* every graph on them.  First the theory of depth-first trees,            *)
(* semidominators and dominators, about graphs alone; then the inductive   *)
(* invariant of the analysis, its proof action by action, and the          *)
(* theorems; last the elimination, for every program on such a graph.      *)
(***************************************************************************)
EXTENDS CheckElimination, ControlFlowProofs

-----------------------------------------------------------------------------
(***************************************************************************)
(* Depth-first trees.                                                      *)
(***************************************************************************)
Num(o, b)   == CHOOSE i \in DOMAIN o : o[i] = b
Distinct(o) == \A i, j \in 1 .. Len(o) : o[i] = o[j] => i = j

\* The ancestors of b in the tree that p describes, b included.
ParentClosed(p, S) == \A c \in S : p[c] # Null => p[c] \in S
Up(p, b) == {a \in Block : \A S \in SUBSET Block : b \in S /\ ParentClosed(p, S) => a \in S}

\* o numbers the nodes of a tree of edges of g that p describes.
Tree(g, o, p) ==
  /\ g \in Cfgs /\ o \in Seq(Block) /\ Distinct(o) /\ o # <<>> /\ o[1] = Root
  /\ p \in [Block -> Block \cup {Null}]
  /\ \A b \in Block : p[b] # Null <=> b \in Range(o) \ {Root}
  /\ \A b \in Range(o) \ {Root} :
       p[b] \in Range(o) /\ Num(o, p[b]) < Num(o, b) /\ b \in SuccSet(g, p[b])

\* The tree is one of a depth-first visit: an edge to a higher number goes
\* down the tree, and the numbers of a subtree have no gap.
DepthFirst(g, o, p) ==
  /\ \A a, b \in Range(o) : b \in SuccSet(g, a) /\ Num(o, a) < Num(o, b) => a \in Up(p, b)
  /\ \A a, b, c \in Range(o) :
       a \in Up(p, c) /\ Num(o, a) <= Num(o, b) /\ Num(o, b) <= Num(o, c) => a \in Up(p, b)

\* The visit is over.
Spanning(g, o, p) == /\ Tree(g, o, p) /\ DepthFirst(g, o, p)
                     /\ \A a \in Range(o) : SuccSet(g, a) \subseteq Range(o)

-----------------------------------------------------------------------------
\* The entry is a block, and no block is the null pointer.
LEMMA RootBlock == Root \in Block /\ Block \subseteq Nat \ {0} /\ Null \notin Block
BY SizeAssumption DEF Root, Block, Null

\* The number of a block is its place in the order, and tells it from the others.
LEMMA NumFacts ==
  ASSUME NEW o \in Seq(Block), Distinct(o)
  PROVE  /\ Range(o) \subseteq Block
         /\ \A i \in 1 .. Len(o) : o[i] \in Range(o) /\ Num(o, o[i]) = i
         /\ \A b \in Range(o) : Num(o, b) \in 1 .. Len(o) /\ o[Num(o, b)] = b /\ Num(o, b) \in Nat
         /\ \A a, b \in Range(o) : Num(o, a) = Num(o, b) => a = b
<1>1. DOMAIN o = 1 .. Len(o) /\ Len(o) \in Nat /\ \A i \in 1 .. Len(o) : o[i] \in Block
  OBVIOUS
<1>2. Range(o) \subseteq Block /\ \A i \in 1 .. Len(o) : o[i] \in Range(o)
  BY <1>1 DEF Range
<1>3. ASSUME NEW b \in Range(o) PROVE Num(o, b) \in 1 .. Len(o) /\ o[Num(o, b)] = b /\ Num(o, b) \in Nat
  <2>1. \E i \in DOMAIN o : o[i] = b
    BY DEF Range
  <2>2. Num(o, b) \in DOMAIN o /\ o[Num(o, b)] = b
    BY <2>1 DEF Num
  <2> QED
    BY <1>1, <2>2
<1>4. \A i \in 1 .. Len(o) : Num(o, o[i]) = i
  BY <1>2, <1>3 DEF Distinct
<1>5. \A a, b \in Range(o) : Num(o, a) = Num(o, b) => a = b
  BY <1>3
<1> QED
  BY <1>2, <1>3, <1>4, <1>5

-----------------------------------------------------------------------------
(***************************************************************************)
(* Ancestors.                                                              *)
(***************************************************************************)
\* A block is one of its ancestors, which are blocks.
LEMMA UpSelf == ASSUME NEW p, NEW b \in Block PROVE b \in Up(p, b) /\ Up(p, b) \subseteq Block
BY DEF Up

\* A set closed under the parent holds the ancestors of its members.
LEMMA UpOn ==
  ASSUME NEW p, NEW S \in SUBSET Block, NEW b \in S, ParentClosed(p, S)
  PROVE  Up(p, b) \subseteq S
BY DEF Up

\* The ancestors are closed under the parent.
LEMMA UpClosed ==
  ASSUME NEW p \in [Block -> Block \cup {Null}], NEW b \in Block
  PROVE  ParentClosed(p, Up(p, b))
<1> SUFFICES ASSUME NEW c \in Up(p, b), p[c] # Null PROVE p[c] \in Up(p, b)
  BY DEF ParentClosed
<1>1. c \in Block /\ p[c] \in Block
  BY DEF Up
<1>2. ASSUME NEW S \in SUBSET Block, b \in S, ParentClosed(p, S) PROVE p[c] \in S
  BY <1>2 DEF Up, ParentClosed
<1> QED
  BY <1>1, <1>2 DEF Up

\* The ancestors of an ancestor are ancestors.
LEMMA UpTrans ==
  ASSUME NEW p \in [Block -> Block \cup {Null}], NEW b \in Block, NEW a \in Up(p, b)
  PROVE  Up(p, a) \subseteq Up(p, b)
BY UpSelf, UpClosed, UpOn

\* The ancestors of a node are the node and those of its parent.
LEMMA UpStep ==
  ASSUME NEW p \in [Block -> Block \cup {Null}], NEW b \in Block
  PROVE  /\ p[b] # Null => Up(p, b) = {b} \cup Up(p, p[b]) /\ p[b] \in Up(p, b)
         /\ p[b] = Null => Up(p, b) = {b}
<1>1. ASSUME p[b] # Null PROVE Up(p, b) = {b} \cup Up(p, p[b]) /\ p[b] \in Up(p, b)
  <2>1. p[b] \in Block
    BY <1>1
  <2>2. p[b] \in Up(p, b)
    BY <1>1, UpSelf, UpClosed DEF ParentClosed
  <2>3. {b} \cup Up(p, p[b]) \subseteq Up(p, b)
    BY <2>2, UpSelf, UpTrans
  <2> DEFINE S == {b} \cup Up(p, p[b])
  <2>4. S \in SUBSET Block /\ b \in S
    BY <2>1, UpSelf
  <2>5. ParentClosed(p, S)
    BY <2>1, UpSelf, UpClosed DEF ParentClosed
  <2> HIDE DEF S
  <2>6. Up(p, b) \subseteq S
    BY <2>4, <2>5, UpOn
  <2> QED
    BY <2>2, <2>3, <2>6 DEF S
<1>2. ASSUME p[b] = Null PROVE Up(p, b) = {b}
  <2>1. ParentClosed(p, {b}) /\ {b} \in SUBSET Block
    BY <1>2 DEF ParentClosed
  <2> QED
    BY <2>1, UpOn, UpSelf
<1> QED
  BY <1>1, <1>2

\* Of two ancestors of a node, one is an ancestor of the other.
LEMMA UpChain ==
  ASSUME NEW p \in [Block -> Block \cup {Null}], NEW b \in Block, NEW a \in Up(p, b), NEW c \in Up(p, b)
  PROVE  a \in Up(p, c) \/ c \in Up(p, a)
<1> DEFINE S == {x \in Block : a \in Up(p, x) \/ x \in Up(p, a)}
<1>1. S \in SUBSET Block /\ b \in S /\ a \in Block
  BY UpSelf
<1>2. ASSUME NEW x \in S, p[x] # Null PROVE p[x] \in S
  <2>1. x \in Block /\ p[x] \in Block
    BY <1>2
  <2>2. CASE x \in Up(p, a)
    <3>1. p[x] \in Up(p, a)
      BY <1>1, <1>2, <2>2, UpClosed DEF ParentClosed
    <3> QED
      BY <2>1, <3>1
  <2>3. CASE x \notin Up(p, a)
    <3>1. a \in Up(p, x) /\ a # x
      BY <1>1, <2>3, UpSelf
    <3>2. a \in Up(p, p[x])
      BY <1>2, <2>1, <3>1, UpStep
    <3> QED
      BY <2>1, <3>2
  <2> QED
    BY <2>2, <2>3
<1>3. ParentClosed(p, S)
  BY <1>2 DEF ParentClosed
<1> HIDE DEF S
<1>4. c \in S
  BY <1>1, <1>3, UpOn
<1> QED
  BY <1>4 DEF S

\* The numbers decrease on the way up.
LEMMA UpNum ==
  ASSUME NEW g, NEW o, NEW p, Tree(g, o, p), NEW b \in Range(o), NEW a \in Up(p, b)
  PROVE  a \in Range(o) /\ Num(o, a) <= Num(o, b) /\ (a # b => Num(o, a) < Num(o, b))
<1> DEFINE S == {c \in Range(o) : Num(o, c) <= Num(o, b)}
<1>1. /\ o \in Seq(Block) /\ Distinct(o) /\ Range(o) \subseteq Block
      /\ \A c \in Range(o) : Num(o, c) \in Nat
      /\ \A c, d \in Range(o) : Num(o, c) = Num(o, d) => c = d
  BY NumFacts DEF Tree
<1>2. S \in SUBSET Block /\ b \in S
  BY <1>1
<1>3. ASSUME NEW c \in S, p[c] # Null PROVE p[c] \in S
  <2>1. p[c] \in Range(o) /\ Num(o, p[c]) < Num(o, c)
    BY <1>1, <1>3 DEF Tree
  <2>2. Num(o, p[c]) <= Num(o, b)
    BY <1>1, <2>1
  <2> QED
    BY <2>1, <2>2
<1>4. ParentClosed(p, S)
  BY <1>3 DEF ParentClosed
<1> HIDE DEF S
<1>5. a \in S
  BY <1>2, <1>4, UpOn
<1> QED
  BY <1>1, <1>5 DEF S

\* The ancestors of a node are in the order of their numbers.
LEMMA UpOrder ==
  ASSUME NEW g, NEW o, NEW p, Tree(g, o, p), NEW b \in Range(o), NEW a \in Up(p, b), NEW c \in Up(p, b),
         Num(o, a) <= Num(o, c)
  PROVE  a \in Up(p, c)
<1>1. /\ o \in Seq(Block) /\ Distinct(o) /\ b \in Block /\ p \in [Block -> Block \cup {Null}]
      /\ a \in Range(o) /\ c \in Range(o) /\ a \in Block
      /\ Num(o, a) \in Nat /\ Num(o, c) \in Nat
  BY NumFacts, UpNum DEF Tree
<1>2. CASE c \in Up(p, a)
  <2>1. c = a
    BY <1>1, <1>2, UpNum
  <2> QED
    BY <1>1, <2>1, UpSelf
<1> QED
  BY <1>1, <1>2, UpChain

\* The entry is an ancestor of every node, with number 1.
LEMMA RootUp ==
  ASSUME NEW g, NEW o, NEW p, Tree(g, o, p), NEW b \in Range(o)
  PROVE  Root \in Up(p, b) /\ Root \in Range(o) /\ Num(o, Root) = 1
<1>1. /\ o \in Seq(Block) /\ Distinct(o) /\ b \in Block /\ p \in [Block -> Block \cup {Null}]
      /\ o # <<>> /\ o[1] = Root
      /\ \A c \in Block : p[c] # Null <=> c \in Range(o) \ {Root}
      /\ \A c \in Range(o) \ {Root} : p[c] \in Range(o) /\ Num(o, p[c]) < Num(o, c)
  BY NumFacts DEF Tree
<1>2. 1 \in 1 .. Len(o) /\ Root \in Range(o) /\ Num(o, Root) = 1
  BY <1>1, NumFacts
<1> DEFINE m == [c \in Range(o) |-> Num(o, c)]
<1>3. m \in [Range(o) -> Nat]
  BY <1>1, NumFacts
<1>4. Up(p, b) \in SUBSET Range(o) /\ b \in Up(p, b)
  BY <1>1, UpNum, UpSelf
<1> HIDE DEF m
<1>5. PICK a \in Up(p, b) : \A c \in Up(p, b) : m[a] <= m[c]
  <2>1. Up(p, b) # {}
    BY <1>4
  <2> QED
    BY <1>3, <1>4, <2>1, LeastMeasure
<1>6. ASSUME a # Root PROVE FALSE
  <2>1. p[a] \in Range(o) /\ Num(o, p[a]) < Num(o, a) /\ p[a] # Null
    BY <1>1, <1>4, <1>6, NumFacts
  <2>2. p[a] \in Up(p, b)
    BY <1>1, <2>1, UpClosed DEF ParentClosed
  <2>3. Num(o, a) <= Num(o, p[a]) /\ Num(o, a) \in Nat /\ Num(o, p[a]) \in Nat
    BY <1>1, <1>4, <1>5, <2>1, <2>2, NumFacts DEF m
  <2> QED
    BY <2>1, <2>3
<1> QED
  BY <1>2, <1>6

\* What the proofs need of the numbering of a tree.
LEMMA TreeFacts ==
  ASSUME NEW g, NEW o, NEW p, Tree(g, o, p)
  PROVE  /\ o \in Seq(Block) /\ Distinct(o) /\ Range(o) \subseteq Block
         /\ p \in [Block -> Block \cup {Null}] /\ g \in Cfgs
         /\ \A a \in Range(o) : Num(o, a) \in 1 .. Len(o) /\ Num(o, a) \in Nat /\ o[Num(o, a)] = a
         /\ \A a, b \in Range(o) : Num(o, a) = Num(o, b) => a = b
         /\ \A i \in 1 .. Len(o) : o[i] \in Range(o) /\ Num(o, o[i]) = i
BY NumFacts DEF Tree

-----------------------------------------------------------------------------
(***************************************************************************)
(* Paths.                                                                  *)
(***************************************************************************)
\* The path down the tree.
LEMMA TreePath ==
  ASSUME NEW g, NEW o, NEW p, Tree(g, o, p), NEW b \in Range(o), NEW a \in Up(p, b), NEW P,
         \A c \in Up(p, b) : Num(o, c) > Num(o, a) => c \in P
  PROVE  b \in ReachFrom(g, P, a)
<1> DEFINE R == ReachFrom(g, P, a)
           S == {c \in Up(p, b) : c \notin R /\ a \in Up(p, c)}
<1>1. /\ g \in Cfgs /\ b \in Block /\ a \in Block
      /\ p \in [Block -> Block \cup {Null}] /\ Range(o) \subseteq Block
      /\ Up(p, b) \subseteq Range(o)
  BY TreeFacts, UpNum
<1>2. a \in R
  BY <1>1, ReachSelf
<1>3. ASSUME NEW c \in S, p[c] # Null PROVE p[c] \in S
  <2>1. c \in Range(o) /\ c \in Block /\ c \in Up(p, b) /\ c \notin R /\ a \in Up(p, c) /\ c # a
    BY <1>1, <1>2
  <2>2. c \in SuccSet(g, p[c]) /\ p[c] \in Block
    BY <1>1, <1>3, <2>1 DEF Tree
  <2>3. p[c] \in Up(p, b) /\ a \in Up(p, p[c])
    <3>1. p[c] \in Up(p, b)
      BY <1>1, <1>3, <2>1, UpClosed DEF ParentClosed
    <3>2. Up(p, c) = {c} \cup Up(p, p[c])
      BY <1>1, <1>3, <2>1, UpStep
    <3> QED
      BY <2>1, <3>1, <3>2
  <2>4. c \in P
    <3>1. Num(o, a) < Num(o, c) /\ Num(o, a) \in Nat /\ Num(o, c) \in Nat
      BY <1>1, <2>1, UpNum, TreeFacts
    <3> QED
      BY <2>1, <3>1
  <2>5. p[c] \notin R
    BY <1>1, <2>1, <2>2, <2>4, ReachStep
  <2> QED
    BY <2>3, <2>5
<1>4. S \in SUBSET Block /\ ParentClosed(p, S)
  BY <1>1, <1>3 DEF ParentClosed
<1>5. ASSUME b \notin R PROVE FALSE
  <2>1. b \in S
    BY <1>1, <1>5, UpSelf
  <2>2. a \in S
    <3> HIDE DEF S
    <3> QED
      BY <1>4, <2>1, UpOn
  <2> QED
    BY <1>2, <2>2
<1> QED
  BY <1>5

-----------------------------------------------------------------------------
(***************************************************************************)
(* Semidominators.                                                         *)
(***************************************************************************)
Above(o, b)   == {c \in Range(o) : Num(o, c) > Num(o, b)}
Ends(g, o, b) == {v \in Range(o) : b \in ReachFrom(g, Above(o, b) \cup {v, b}, v)}
Sd(g, o, b)   == CHOOSE n \in {Num(o, v) : v \in Ends(g, o, b)} :
                   \A v \in Ends(g, o, b) : n <= Num(o, v)

\* The semidominator is the least start of a path through higher numbers.
LEMMA SdLeast ==
  ASSUME NEW g, NEW o, NEW p, Tree(g, o, p), NEW b \in Range(o)
  PROVE  /\ Sd(g, o, b) \in 1 .. Len(o) /\ Sd(g, o, b) \in Nat /\ Sd(g, o, b) <= Num(o, b)
         /\ o[Sd(g, o, b)] \in Ends(g, o, b)
         /\ \A v \in Ends(g, o, b) : Sd(g, o, b) <= Num(o, v)
<1> DEFINE E == Ends(g, o, b)
           m == [v \in Range(o) |-> Num(o, v)]
<1>1. E \in SUBSET Range(o) /\ b \in E
  BY TreeFacts, ReachSelf DEF Ends
<1>2. m \in [Range(o) -> Nat]
  BY TreeFacts
<1> HIDE DEF E
<1>3. PICK x \in E : \A y \in E : m[x] <= m[y]
  <2> HIDE DEF m
  <2> QED
    BY <1>1, <1>2, LeastMeasure
<1>4. Sd(g, o, b) \in {Num(o, v) : v \in E} /\ \A v \in E : Sd(g, o, b) <= Num(o, v)
  BY <1>1, <1>3 DEF Sd, E
<1>5. PICK x0 \in E : Sd(g, o, b) = Num(o, x0)
  BY <1>4
<1>6. o[Num(o, x0)] = x0 /\ Num(o, x0) \in 1 .. Len(o) /\ Num(o, x0) \in Nat
  BY <1>1, TreeFacts
<1> QED
  BY <1>1, <1>4, <1>5, <1>6 DEF E

\* The start of an edge is one of those starts.
LEMMA SdEdge ==
  ASSUME NEW g, NEW o, NEW p, Tree(g, o, p), NEW b \in Range(o), NEW v \in Range(o), b \in SuccSet(g, v)
  PROVE  Sd(g, o, b) <= Num(o, v)
<1>1. v \in Block /\ b \in Block
  BY TreeFacts
<1>2. b \in ReachFrom(g, Above(o, b) \cup {v, b}, v)
  BY <1>1, ReachSelf, ReachStep
<1> QED
  BY <1>2, SdLeast DEF Ends

\* So is the semidominator of an ancestor of that start, if its number is higher.
LEMMA SdSpread ==
  ASSUME NEW g, NEW o, NEW p, Tree(g, o, p), NEW d \in Range(o), NEW e \in Range(o),
         e \in SuccSet(g, d), NEW u \in Up(p, d), Num(o, e) < Num(o, u)
  PROVE  Sd(g, o, e) <= Sd(g, o, u)
<1> DEFINE s == o[Sd(g, o, u)]
           P == Above(o, e) \cup {s, e}
           R == ReachFrom(g, P, s)
<1>1. g \in Cfgs /\ u \in Range(o) /\ d \in Block /\ e \in Block /\ Range(o) \subseteq Block
  BY TreeFacts, UpNum
<1>2. s \in Ends(g, o, u) /\ Num(o, s) = Sd(g, o, u) /\ s \in Range(o) /\ s \in Block
  BY <1>1, SdLeast, TreeFacts
<1>3. \A c \in Range(o) : Num(o, c) >= Num(o, u) => c \in P
  <2> SUFFICES ASSUME NEW c \in Range(o), Num(o, c) >= Num(o, u) PROVE Num(o, c) > Num(o, e)
    BY DEF Above
  <2>1. Num(o, c) \in Nat /\ Num(o, u) \in Nat /\ Num(o, e) \in Nat
    BY <1>1, TreeFacts
  <2> QED
    BY <2>1
<1>4. Above(o, u) \cup {s, u} \subseteq P
  <2>1. ASSUME NEW c \in Above(o, u) PROVE c \in P
    <3>1. c \in Range(o) /\ Num(o, c) > Num(o, u)
      BY DEF Above
    <3>2. Num(o, c) \in Nat /\ Num(o, u) \in Nat
      BY <1>1, <3>1, TreeFacts
    <3> QED
      BY <1>3, <3>1, <3>2
  <2>2. u \in P
    <3>1. Num(o, u) \in Nat
      BY <1>1, TreeFacts
    <3> QED
      BY <1>1, <1>3, <3>1
  <2> QED
    BY <2>1, <2>2
<1>5. u \in R
  <2>1. u \in ReachFrom(g, Above(o, u) \cup {s, u}, s)
    BY <1>2 DEF Ends
  <2> HIDE DEF P
  <2>2. s \in R
    BY <1>2, ReachSelf
  <2>3. ReachFrom(g, Above(o, u) \cup {s, u}, s) \subseteq R
    BY <1>1, <1>2, <1>4, <2>2, ReachTrans
  <2> QED
    BY <2>1, <2>3
<1>6. d \in ReachFrom(g, P, u)
  <2>1. \A c \in Up(p, d) : Num(o, c) > Num(o, u) => c \in P
    <3> SUFFICES ASSUME NEW c \in Up(p, d), Num(o, c) > Num(o, u) PROVE c \in P
      OBVIOUS
    <3>1. c \in Range(o) /\ Num(o, c) \in Nat /\ Num(o, u) \in Nat
      BY <1>1, UpNum, TreeFacts
    <3> QED
      BY <1>3, <3>1
  <2> HIDE DEF P
  <2> QED
    BY <2>1, TreePath
<1>7. d \in R
  <2> HIDE DEF P
  <2> QED
    BY <1>1, <1>2, <1>5, <1>6, ReachTrans
<1>8. e \in R
  <2>1. e \in P
    OBVIOUS
  <2> HIDE DEF P
  <2> QED
    BY <1>1, <1>2, <1>7, <2>1, ReachStep
<1>9. s \in Ends(g, o, e)
  BY <1>2, <1>8 DEF Ends
<1> QED
  BY <1>2, <1>9, SdLeast

\* An ancestor of c, c included, above k has a semidominator of at most m.
Hit(g, o, p, k, m, c) == \E u \in Up(p, c) : Num(o, u) > k /\ Sd(g, o, u) <= m

\* A path above k hands on the ancestor with a small semidominator.
LEMMA HitSpread ==
  ASSUME NEW g, NEW o, NEW p, Tree(g, o, p), DepthFirst(g, o, p),
         NEW k \in Int, NEW m \in Int, NEW d \in Range(o), NEW e \in Range(o), e \in SuccSet(g, d),
         Hit(g, o, p, k, m, d), Num(o, e) > k
  PROVE  Hit(g, o, p, k, m, e)
<1>1. PICK u \in Up(p, d) : Num(o, u) > k /\ Sd(g, o, u) <= m
  BY DEF Hit
<1>2. /\ g \in Cfgs /\ u \in Range(o) /\ d \in Block /\ e \in Block
      /\ p \in [Block -> Block \cup {Null}]
      /\ Num(o, u) \in Nat /\ Num(o, e) \in Nat /\ Num(o, d) \in Nat /\ Num(o, u) <= Num(o, d)
      /\ Sd(g, o, u) \in Nat /\ Sd(g, o, e) \in Nat
  BY TreeFacts, UpNum, SdLeast
<1>3. CASE Num(o, d) <= Num(o, e)
  <2>1. d \in Up(p, e)
    <3>1. CASE d = e
      BY <1>2, <3>1, UpSelf
    <3>2. CASE d # e
      <4>1. Num(o, d) < Num(o, e)
        BY <1>2, <1>3, <3>2, TreeFacts
      <4> QED
        BY <4>1 DEF DepthFirst
    <3> QED
      BY <3>1, <3>2
  <2>2. u \in Up(p, e)
    BY <1>2, <2>1, UpTrans
  <2> QED
    BY <1>1, <2>2 DEF Hit
<1>4. CASE Num(o, e) < Num(o, d) /\ Num(o, u) <= Num(o, e)
  <2>1. u \in Up(p, e)
    BY <1>1, <1>2, <1>4 DEF DepthFirst
  <2> QED
    BY <1>1, <2>1 DEF Hit
<1>5. CASE Num(o, e) < Num(o, u)
  <2>1. Sd(g, o, e) <= Sd(g, o, u)
    BY <1>5, SdSpread
  <2>2. Sd(g, o, e) <= m /\ e \in Up(p, e)
    BY <1>1, <1>2, <2>1, UpSelf
  <2> QED
    BY <2>2 DEF Hit
<1> QED
  BY <1>2, <1>3, <1>4, <1>5

\* The semidominator of b is not below m if no edge to b, and no node above
\* b from which the tree goes down to such an edge, says so.
LEMMA SdBelow ==
  ASSUME NEW g, NEW o, NEW p, Tree(g, o, p), DepthFirst(g, o, p), NEW b \in Range(o),
         NEW m \in Nat, m <= Num(o, b),
         \A v \in Range(o) : b \in SuccSet(g, v) =>
           /\ Num(o, v) < Num(o, b) => m <= Num(o, v)
           /\ \A u \in Up(p, v) : Num(o, u) > Num(o, b) => m <= Sd(g, o, u)
  PROVE  m <= Sd(g, o, b)
<1> DEFINE s == o[Sd(g, o, b)]
           k == Num(o, b)
           P == Above(o, b) \cup {s, b}
           S == {s} \cup {c \in Above(o, b) : Hit(g, o, p, k, Num(o, s), c)}
<1>1. g \in Cfgs /\ b \in Block /\ Range(o) \subseteq Block /\ k \in Nat
  BY TreeFacts
<1>2. s \in Ends(g, o, b) /\ Num(o, s) = Sd(g, o, b) /\ s \in Range(o) /\ s \in Block /\ Num(o, s) \in Nat
  BY SdLeast, TreeFacts
<1> SUFFICES ASSUME Num(o, s) < m PROVE FALSE
  BY <1>2
<1>3. Num(o, s) < k /\ s # b
  BY <1>1, <1>2
<1>4. S \in SUBSET Block /\ s \in S
  BY <1>1, <1>2 DEF Above
<1>5. b \notin S
  BY <1>1, <1>3 DEF Above
<1>6. ASSUME NEW c \in S, NEW e \in SuccSet(g, c) \cap P PROVE e \in S
  <2>1. c \in Range(o) /\ e \in Range(o)
    BY <1>2 DEF Above
  <2>2. CASE e = s
    BY <2>2
  <2>3. CASE e = b
    <3>1. CASE c = s
      BY <1>2, <1>3, <2>3, <3>1
    <3>2. CASE c # s
      <4>1. PICK u \in Up(p, c) : Num(o, u) > k /\ Sd(g, o, u) <= Num(o, s)
        BY <3>2 DEF Hit
      <4>2. m <= Sd(g, o, u)
        BY <2>1, <2>3, <4>1
      <4>3. Sd(g, o, u) \in Nat
        BY <2>1, <4>1, UpNum, SdLeast
      <4> QED
        BY <1>2, <4>1, <4>2, <4>3
    <3> QED
      BY <3>1, <3>2
  <2>4. CASE e \in Above(o, b)
    <3>1. Num(o, e) > k
      BY <2>4 DEF Above
    <3>2. Hit(g, o, p, k, Num(o, s), e)
      <4>1. CASE c = s
        <5>1. Sd(g, o, e) <= Num(o, s) /\ e \in Up(p, e)
          BY <1>1, <2>1, <4>1, SdEdge, UpSelf
        <5> QED
          BY <3>1, <5>1 DEF Hit
      <4>2. CASE c # s
        <5> HIDE DEF s, k
        <5> QED
          BY <1>1, <1>2, <2>1, <3>1, <4>2, HitSpread
      <4> QED
        BY <4>1, <4>2
    <3> QED
      BY <2>4, <3>2
  <2> QED
    BY <2>2, <2>3, <2>4
<1>7. b \in ReachFrom(g, P, s)
  BY <1>2 DEF Ends
<1>8. Closed(g, P, s, S)
  <2> HIDE DEF S, P
  <2> QED
    BY <1>4, <1>6 DEF Closed
<1> QED
  <2> HIDE DEF S, P
  <2> QED
    BY <1>4, <1>5, <1>7, <1>8, ReachOn

\* The semidominator of a node is a proper ancestor.
LEMMA SdAncestor ==
  ASSUME NEW g, NEW o, NEW p, Tree(g, o, p), DepthFirst(g, o, p), NEW b \in Range(o) \ {Root}
  PROVE  /\ Sd(g, o, b) < Num(o, b)
         /\ o[Sd(g, o, b)] \in Up(p, b) \ {b}
         /\ o[Sd(g, o, b)] \in Range(o) /\ Num(o, o[Sd(g, o, b)]) = Sd(g, o, b)
<1> DEFINE s == o[Sd(g, o, b)]
           P == Above(o, b) \cup {s, b}
           S == {s} \cup {c \in Above(o, b) : s \in Up(p, c)}
<1>1. g \in Cfgs /\ b \in Block /\ Range(o) \subseteq Block /\ Num(o, b) \in Nat
      /\ p \in [Block -> Block \cup {Null}]
  BY TreeFacts
<1>2. s \in Ends(g, o, b) /\ Num(o, s) = Sd(g, o, b) /\ s \in Range(o) /\ s \in Block /\ Num(o, s) \in Nat
  BY SdLeast, TreeFacts
<1>3. Num(o, s) < Num(o, b) /\ s # b
  <2>1. p[b] \in Range(o) /\ Num(o, p[b]) < Num(o, b) /\ b \in SuccSet(g, p[b]) /\ Num(o, p[b]) \in Nat
    BY TreeFacts DEF Tree
  <2>2. Sd(g, o, b) <= Num(o, p[b])
    BY <2>1, SdEdge
  <2> QED
    BY <1>1, <1>2, <2>1, <2>2
<1>4. ASSUME s \notin Up(p, b) PROVE FALSE
  <2>1. S \in SUBSET Block /\ s \in S
    BY <1>1, <1>2 DEF Above
  <2>2. b \notin S
    BY <1>1, <1>3 DEF Above
  <2>3. ASSUME NEW c \in S, NEW e \in SuccSet(g, c) \cap P, e # s PROVE e \in S
    <3>1. /\ c \in Range(o) /\ e \in Range(o) /\ Num(o, c) \in Nat /\ Num(o, e) \in Nat
          /\ c \in Block /\ e \in Block
      BY <1>1, <1>2, <2>3, TreeFacts DEF Above
    <3>2. Num(o, e) >= Num(o, b)
      BY <1>1, <2>3, <3>1 DEF Above
    <3>3. s \in Up(p, c)
      BY <1>2, UpSelf
    <3>4. s \in Up(p, e)
      <4>1. CASE Num(o, c) < Num(o, e)
        <5>1. c \in Up(p, e)
          BY <2>3, <3>1, <4>1 DEF DepthFirst
        <5> QED
          BY <1>1, <3>1, <3>3, <5>1, UpTrans
      <4>2. CASE Num(o, e) <= Num(o, c)
        <5>1. Num(o, s) <= Num(o, e)
          BY <1>1, <1>2, <1>3, <3>1, <3>2
        <5> QED
          BY <1>2, <3>1, <3>3, <4>2, <5>1 DEF DepthFirst
      <4> QED
        BY <3>1, <4>1, <4>2
    <3> QED
      BY <1>4, <2>3, <3>4
  <2>4. b \in ReachFrom(g, P, s)
    BY <1>2 DEF Ends
  <2>5. Closed(g, P, s, S)
    <3>1. ASSUME NEW c \in S, NEW e \in SuccSet(g, c) \cap P PROVE e \in S
      BY <2>1, <2>3
    <3> HIDE DEF S, P
    <3> QED
      BY <2>1, <3>1 DEF Closed
  <2> QED
    <3> HIDE DEF S, P
    <3> QED
      BY <2>1, <2>2, <2>4, <2>5, ReachOn
<1> QED
  BY <1>2, <1>3, <1>4

-----------------------------------------------------------------------------
(***************************************************************************)
(* Dominators.                                                             *)
(***************************************************************************)
\* The visit reaches exactly the reachable blocks.
LEMMA ReachableIsVisited ==
  ASSUME NEW g, NEW o, NEW p, Spanning(g, o, p)
  PROVE  Reachable(g) = Range(o)
<1>1. /\ Tree(g, o, p) /\ g \in Cfgs /\ Range(o) \subseteq Block /\ Root \in Range(o)
      /\ o # <<>> /\ Root \in Block
  <2>1. Tree(g, o, p)
    BY DEF Spanning
  <2>2. o \in Seq(Block) /\ o # <<>> /\ o[1] = Root
    BY <2>1 DEF Tree
  <2>3. Root \in Range(o)
    BY <2>2 DEF Range
  <2> QED
    BY <2>1, <2>2, <2>3, TreeFacts
<1>2. Reachable(g) \subseteq Range(o)
  <2>1. Closed(g, Block, Root, Range(o))
    BY <1>1 DEF Closed, Spanning
  <2> QED
    BY <1>1, <2>1, ReachOn DEF Reachable, Reach
<1>3. ASSUME NEW b \in Range(o) PROVE b \in Reachable(g)
  <2>1. Root \in Up(p, b) /\ Up(p, b) \subseteq Block
    BY <1>1, RootUp, UpSelf
  <2> QED
    BY <1>1, <2>1, TreePath DEF Reachable, Reach
<1> QED
  BY <1>2, <1>3

\* The strict dominators of b are the proper ancestors that no semidominator
\* of an ancestor of b further down jumps over.
DomUp(g, o, p, b) == {d \in Up(p, b) \ {b} : \A u \in Up(p, b) : Num(o, u) > Num(o, d) => Sd(g, o, u) >= Num(o, d)}

\* A semidominator above d, of a node below d, gives a path around d.
LEMMA JumpAvoids ==
  ASSUME NEW g, NEW o, NEW p, Tree(g, o, p), NEW b \in Range(o), NEW u \in Up(p, b), NEW d \in Range(o),
         Num(o, u) > Num(o, d), Sd(g, o, u) < Num(o, d)
  PROVE  b \in Reach(g, Block \ {d})
<1> DEFINE s == o[Sd(g, o, u)]
           P == Block \ {d}
           R == ReachFrom(g, P, Root)
<1>1. /\ g \in Cfgs /\ u \in Range(o) /\ Range(o) \subseteq Block
      /\ Root \in Block /\ Num(o, u) \in Nat /\ Num(o, d) \in Nat
  BY TreeFacts, UpNum, RootBlock
<1>2. s \in Ends(g, o, u) /\ Num(o, s) = Sd(g, o, u) /\ s \in Range(o) /\ s \in Block /\ Num(o, s) \in Nat
  BY <1>1, SdLeast, TreeFacts
<1>3. s \in R
  <2>1. Root \in Up(p, s)
    BY <1>2, RootUp
  <2>2. \A c \in Up(p, s) : c \in P
    <3> SUFFICES ASSUME NEW c \in Up(p, s) PROVE c # d /\ c \in Block
      OBVIOUS
    <3>1. c \in Range(o) /\ Num(o, c) <= Num(o, s) /\ Num(o, c) \in Nat
      BY <1>2, UpNum, TreeFacts
    <3> QED
      BY <1>1, <1>2, <3>1
  <2> HIDE DEF P
  <2> QED
    BY <1>2, <2>1, <2>2, TreePath
<1>4. u \in R
  <2>1. d \notin Above(o, u) \cup {s, u}
    BY <1>1, <1>2 DEF Above
  <2>2. Above(o, u) \cup {s, u} \subseteq P
    BY <1>1, <1>2, <2>1 DEF Above
  <2>3. u \in ReachFrom(g, Above(o, u) \cup {s, u}, s)
    BY <1>2 DEF Ends
  <2> HIDE DEF P
  <2> QED
    BY <1>1, <1>3, <2>2, <2>3, ReachTrans
<1>5. b \in ReachFrom(g, P, u)
  <2>1. \A c \in Up(p, b) : Num(o, c) > Num(o, u) => c \in P
    <3> SUFFICES ASSUME NEW c \in Up(p, b), Num(o, c) > Num(o, u) PROVE c # d /\ c \in Block
      OBVIOUS
    <3>1. c \in Range(o) /\ Num(o, c) \in Nat
      BY UpNum, TreeFacts
    <3> QED
      BY <1>1, <3>1
  <2> HIDE DEF P
  <2> QED
    BY <2>1, TreePath
<1>6. b \in R
  <2> HIDE DEF P
  <2> QED
    BY <1>1, <1>4, <1>5, ReachTrans
<1> QED
  BY <1>6 DEF Reach

\* Without one there is no path around d.
LEMMA NoJumpBlocks ==
  ASSUME NEW g, NEW o, NEW p, Spanning(g, o, p), NEW b \in Range(o), NEW d \in DomUp(g, o, p, b), d # Root
  PROVE  b \notin Reach(g, Block \ {d})
<1> DEFINE k == Num(o, d)
           S == {c \in Range(o) : Num(o, c) < k \/ (Num(o, c) > k /\ Hit(g, o, p, k, k - 1, c))}
<1>1. /\ Tree(g, o, p) /\ DepthFirst(g, o, p) /\ g \in Cfgs /\ Range(o) \subseteq Block
      /\ d \in Range(o) /\ d \in Up(p, b) /\ d # b /\ Num(o, d) < Num(o, b)
      /\ \A c \in Range(o) : Num(o, c) \in Nat
  BY TreeFacts, UpNum DEF DomUp, Spanning
<1>2. Root \in S
  <2>1. Root \in Range(o) /\ Num(o, Root) = 1
    BY <1>1, RootUp
  <2>2. Num(o, d) # 1 /\ Num(o, d) \in 1 .. Len(o)
    BY <1>1, <2>1, TreeFacts
  <2> QED
    BY <2>1, <2>2
<1>3. ASSUME NEW c \in S, NEW e \in SuccSet(g, c) \cap (Block \ {d}) PROVE e \in S
  <2>1. c \in Range(o) /\ e \in Range(o) /\ Num(o, c) \in Nat /\ Num(o, e) \in Nat /\ k \in Nat
    BY <1>1 DEF Spanning
  <2>2. Num(o, e) # k
    BY <1>1, <2>1, TreeFacts
  <2> SUFFICES ASSUME Num(o, e) > k PROVE Hit(g, o, p, k, k - 1, e)
    BY <2>1, <2>2
  <2>3. CASE Num(o, c) < k
    <3>1. Sd(g, o, e) <= Num(o, c) /\ Sd(g, o, e) \in Nat /\ e \in Up(p, e)
      BY <1>1, <2>1, SdEdge, SdLeast, UpSelf
    <3>2. Sd(g, o, e) <= k - 1
      BY <2>1, <2>3, <3>1
    <3> QED
      BY <3>1, <3>2 DEF Hit
  <2>4. CASE Hit(g, o, p, k, k - 1, c)
    <3>1. k \in Int /\ k - 1 \in Int
      BY <2>1
    <3> HIDE DEF k
    <3> QED
      BY <1>1, <2>1, <2>4, <3>1, HitSpread
  <2> QED
    BY <2>3, <2>4
<1>4. Closed(g, Block \ {d}, Root, S) /\ S \in SUBSET Block
  <2>1. S \in SUBSET Block
    BY <1>1
  <2> HIDE DEF S
  <2> QED
    BY <1>2, <1>3, <2>1 DEF Closed
<1>5. b \notin S
  <2> SUFFICES ASSUME Hit(g, o, p, k, k - 1, b) PROVE FALSE
    BY <1>1
  <2>1. PICK u \in Up(p, b) : Num(o, u) > k /\ Sd(g, o, u) <= k - 1
    BY DEF Hit
  <2>2. Sd(g, o, u) >= k
    BY <2>1 DEF DomUp
  <2>3. Sd(g, o, u) \in Nat /\ k \in Nat
    BY <1>1, UpNum, SdLeast
  <2> QED
    BY <2>1, <2>2, <2>3
<1> QED
  <2> HIDE DEF S
  <2> QED
    BY <1>4, <1>5, ReachOn DEF Reach

\* So the strict dominators can be read off the tree and the semidominators.
LEMMA DominatorsUp ==
  ASSUME NEW g, NEW o, NEW p, Spanning(g, o, p), NEW b \in Range(o)
  PROVE  StrictDominators(g, b) = DomUp(g, o, p, b)
<1>1. /\ Tree(g, o, p) /\ Reachable(g) = Range(o) /\ Range(o) \subseteq Block /\ Root \in Up(p, b)
      /\ \A c \in Range(o) : Num(o, c) \in Nat
      /\ Num(o, Root) = 1
  BY ReachableIsVisited, TreeFacts, RootUp DEF Spanning
<1>2. ASSUME NEW d \in StrictDominators(g, b) PROVE d \in DomUp(g, o, p, b)
  <2>1. d \in Range(o) /\ d # b /\ (d = Root \/ b \notin Reach(g, Block \ {d}))
    BY <1>1 DEF StrictDominators, Dominates
  <2>2. ASSUME d \notin Up(p, b) PROVE FALSE
    <3>1. \A c \in Up(p, b) : c \in Block \ {d}
      BY <1>1, <2>2, UpNum
    <3>2. b \in ReachFrom(g, Block \ {d}, Root)
      BY <1>1, <3>1, TreePath
    <3> QED
      BY <1>1, <2>1, <2>2, <3>2 DEF Reach
  <2>3. ASSUME NEW u \in Up(p, b), Num(o, u) > Num(o, d) PROVE Sd(g, o, u) >= Num(o, d)
    <3>1. u \in Range(o) /\ Sd(g, o, u) \in Nat /\ Sd(g, o, u) \in 1 .. Len(o) /\ Num(o, d) \in Nat
      BY <1>1, <2>1, UpNum, SdLeast
    <3> SUFFICES ASSUME Sd(g, o, u) < Num(o, d) PROVE FALSE
      BY <3>1
    <3>2. d # Root
      BY <1>1, <3>1
    <3>3. b \in Reach(g, Block \ {d})
      BY <1>1, <2>1, <2>3, JumpAvoids
    <3> QED
      BY <2>1, <3>2, <3>3
  <2> QED
    BY <2>1, <2>2, <2>3 DEF DomUp
<1>3. ASSUME NEW d \in DomUp(g, o, p, b) PROVE d \in StrictDominators(g, b)
  <2>1. d \in Range(o) /\ d # b
    BY <1>1, UpNum DEF DomUp
  <2>2. d = Root \/ b \notin Reach(g, Block \ {d})
    BY NoJumpBlocks
  <2> QED
    BY <1>1, <2>1, <2>2 DEF StrictDominators, Dominates
<1> QED
  BY <1>2, <1>3

\* The immediate dominator is the semidominator.
LEMMA DominatorIsSemi ==
  ASSUME NEW g, NEW o, NEW p, Spanning(g, o, p), NEW b \in Range(o) \ {Root}, NEW s, s = o[Sd(g, o, b)],
         \A u \in Up(p, b) : Num(o, u) > Num(o, s) => Sd(g, o, u) >= Sd(g, o, b)
  PROVE  StrictDominators(g, b) = {s} \cup StrictDominators(g, s)
<1>1. /\ Tree(g, o, p) /\ DepthFirst(g, o, p) /\ p \in [Block -> Block \cup {Null}]
      /\ b \in Block /\ s \in Range(o) /\ s \in Block /\ s \in Up(p, b) /\ s # b
      /\ Num(o, s) = Sd(g, o, b) /\ Num(o, s) < Num(o, b)
      /\ \A c \in Range(o) : Num(o, c) \in Nat /\ Sd(g, o, c) \in Nat
  BY SdAncestor, TreeFacts, SdLeast DEF Spanning
<1>2. Up(p, s) \subseteq Up(p, b) /\ Up(p, b) \subseteq Range(o) /\ b \in Up(p, b)
  BY <1>1, UpTrans, UpNum, UpSelf
<1>3. ASSUME NEW d \in DomUp(g, o, p, b), d # s PROVE d \in DomUp(g, o, p, s)
  <2>1. d \in Up(p, b) /\ d # b /\ d \in Range(o) /\ Num(o, d) < Num(o, b)
    BY <1>1, <1>2, UpNum DEF DomUp
  <2>2. Sd(g, o, b) >= Num(o, d)
    BY <1>1, <1>2, <2>1 DEF DomUp
  <2>3. d \in Up(p, s)
    BY <1>1, <2>1, <2>2, UpOrder
  <2> QED
    BY <1>2, <1>3, <2>3 DEF DomUp
<1>4. s \in DomUp(g, o, p, b)
  BY <1>1 DEF DomUp
<1>5. ASSUME NEW d \in DomUp(g, o, p, s) PROVE d \in DomUp(g, o, p, b)
  <2>1. d \in Up(p, s) /\ d # s /\ d \in Up(p, b) /\ d \in Range(o) /\ Num(o, d) < Num(o, s) /\ d # b
    BY <1>1, <1>2, UpNum DEF DomUp
  <2>2. ASSUME NEW u \in Up(p, b), Num(o, u) > Num(o, d) PROVE Sd(g, o, u) >= Num(o, d)
    <3>1. Num(o, u) \in Nat /\ Sd(g, o, u) \in Nat /\ Num(o, d) \in Nat
      BY <1>1, <1>2, <2>1
    <3>2. CASE Num(o, u) > Num(o, s)
      BY <1>1, <2>1, <3>1, <3>2
    <3>3. CASE Num(o, u) <= Num(o, s)
      <4>1. u \in Up(p, s)
        BY <1>1, <3>3, UpOrder
      <4> QED
        BY <2>2, <4>1 DEF DomUp
    <3> QED
      BY <1>1, <3>1, <3>2, <3>3
  <2> QED
    BY <2>1, <2>2 DEF DomUp
<1>6. DomUp(g, o, p, b) = {s} \cup DomUp(g, o, p, s)
  BY <1>3, <1>4, <1>5
<1> QED
  BY <1>1, <1>6, DominatorsUp

\* The immediate dominator is that of the ancestor of least semidominator.
LEMMA DominatorIsShared ==
  ASSUME NEW g, NEW o, NEW p, Spanning(g, o, p), NEW b \in Range(o) \ {Root}, NEW v \in Up(p, b),
         Num(o, v) > Sd(g, o, b), Sd(g, o, v) < Sd(g, o, b),
         \A u \in Up(p, b) : Num(o, u) > Sd(g, o, b) => Sd(g, o, u) >= Sd(g, o, v)
  PROVE  StrictDominators(g, b) = StrictDominators(g, v)
<1>1. /\ Tree(g, o, p) /\ DepthFirst(g, o, p) /\ p \in [Block -> Block \cup {Null}]
      /\ b \in Block /\ v \in Range(o) /\ v \in Block /\ v # b
      /\ Num(o, v) < Num(o, b)
      /\ \A c \in Range(o) : Num(o, c) \in Nat /\ Sd(g, o, c) \in Nat
  BY UpNum, TreeFacts, SdLeast DEF Spanning
<1>2. Up(p, v) \subseteq Up(p, b) /\ Up(p, b) \subseteq Range(o) /\ b \in Up(p, b) /\ v \in Up(p, v)
  BY <1>1, UpTrans, UpNum, UpSelf
<1>3. ASSUME NEW d \in DomUp(g, o, p, b) PROVE d \in DomUp(g, o, p, v)
  <2>1. d \in Up(p, b) /\ d # b /\ d \in Range(o) /\ Num(o, d) < Num(o, b)
    BY <1>1, <1>2, UpNum DEF DomUp
  <2>2. Sd(g, o, b) >= Num(o, d)
    BY <1>1, <1>2, <2>1 DEF DomUp
  <2>3. Num(o, d) < Num(o, v)
    BY <1>1, <1>2, <2>1, <2>2
  <2>4. d \in Up(p, v)
    BY <1>1, <2>1, <2>3, UpOrder
  <2>5. d # v
    BY <1>1, <2>3
  <2> QED
    BY <1>2, <2>4, <2>5 DEF DomUp
<1>4. ASSUME NEW d \in DomUp(g, o, p, v) PROVE d \in DomUp(g, o, p, b)
  <2>1. d \in Up(p, v) /\ d # v /\ d \in Up(p, b) /\ d \in Range(o) /\ Num(o, d) < Num(o, v) /\ d # b
    BY <1>1, <1>2, UpNum DEF DomUp
  <2>2. Sd(g, o, v) >= Num(o, d)
    BY <1>1, <1>2, <2>1 DEF DomUp
  <2>3. ASSUME NEW u \in Up(p, b), Num(o, u) > Num(o, d) PROVE Sd(g, o, u) >= Num(o, d)
    <3>1. Num(o, u) \in Nat /\ Sd(g, o, u) \in Nat /\ Num(o, d) \in Nat
      BY <1>1, <1>2, <2>1
    <3>2. CASE Num(o, u) > Num(o, v)
      <4>1. Sd(g, o, u) >= Sd(g, o, v)
        BY <1>1, <1>2, <3>1, <3>2
      <4> QED
        BY <1>1, <2>2, <3>1, <4>1
    <3>3. CASE Num(o, u) <= Num(o, v)
      <4>1. u \in Up(p, v)
        BY <1>1, <3>3, UpOrder
      <4> QED
        BY <2>3, <4>1 DEF DomUp
    <3> QED
      BY <1>1, <3>1, <3>2, <3>3
  <2> QED
    BY <2>1, <2>3 DEF DomUp
<1>5. DomUp(g, o, p, b) = DomUp(g, o, p, v)
  BY <1>3, <1>4
<1> QED
  BY <1>1, <1>5, DominatorsUp

\* Nothing dominates the entry.
LEMMA RootUndominated ==
  ASSUME NEW g, NEW o, NEW p, Spanning(g, o, p)
  PROVE  StrictDominators(g, Root) = {}
<1>1. Tree(g, o, p) /\ Root \in Range(o) /\ p[Root] = Null /\ Root \in Block /\ p \in [Block -> Block \cup {Null}]
  <2>1. Tree(g, o, p) /\ Reachable(g) = Range(o)
    BY ReachableIsVisited DEF Spanning
  <2>2. Root \in Reachable(g)
    BY RootBlock, ReachSelf DEF Reachable, Reach
  <2> QED
    BY <2>1, <2>2, RootBlock DEF Tree
<1>2. Up(p, Root) = {Root}
  BY <1>1, UpStep
<1> QED
  BY <1>1, <1>2, DominatorsUp DEF DomUp

(***************************************************************************)
(* The inductive invariant, in named parts.                                *)
(***************************************************************************)
Frame      == [block : Block, rest : Seq(Block)]
Linked(b)  == ancestor[b] # Null
OnStack(b) == \E i \in 1 .. Len(stack) : stack[i].block = b
Sources(b) == {c \in Block : b \in SuccSet(succ, c)}

TypeInv ==
  /\ succ \in Cfgs /\ order \in Seq(Block) /\ stack \in Seq(Frame)
  /\ parent \in [Block -> Block \cup {Null}] /\ ancestor \in [Block -> Block \cup {Null}]
  /\ label \in [Block -> Block] /\ dom \in [Block -> Block \cup {Null}]
  /\ sdom \in [Block -> Nat] /\ bucket \in [1 .. N -> Seq(Block)]
  /\ at \in Nat /\ preds \in Seq(Block) /\ idom \in [Block -> Block \cup {Null}]
  /\ pc \in {"start", "preorder", "semi", "implicit", "explicit", "done", "crash"}

\* What the preorder visit has not touched yet.
Fresh ==
  /\ pc = "start" => order = <<>> /\ stack = <<>> /\ \A b \in Block : parent[b] = Null
  /\ pc \in {"start", "preorder"} =>
       /\ \A b \in Block : ~Linked(b) /\ label[b] = b
       /\ \A n \in 1 .. N : bucket[n] = <<>>
       /\ \A b \in Range(order) : sdom[b] = Num(order, b)

\* The calls of PreOrderVisitor: a chain of the tree whose subtrees are being
\* visited; the nodes that are not on it are done with.
Frames ==
  /\ \A i \in 1 .. Len(stack) :
       /\ stack[i].block \in Range(order)
       /\ Range(stack[i].rest) \subseteq SuccSet(succ, stack[i].block)
       /\ SuccSet(succ, stack[i].block) \subseteq Range(order) \cup Range(stack[i].rest)
  /\ \A i, j \in 1 .. Len(stack) : i < j => Num(order, stack[i].block) < Num(order, stack[j].block)
  /\ \A i \in 1 .. Len(stack), c \in Range(order) :
       Num(order, stack[i].block) <= Num(order, c) => stack[i].block \in Up(parent, c)
  /\ stack # <<>> => \A a \in Up(parent, Top.block) : OnStack(a)
  /\ \A a \in Range(order) : OnStack(a) \/ SuccSet(succ, a) \subseteq Range(order)

Visit ==
  /\ pc = "preorder" => Tree(succ, order, parent) /\ DepthFirst(succ, order, parent) /\ Frames
  /\ pc \notin {"start", "preorder"} => Spanning(succ, order, parent)

\* a and l can be the ancestor and the label of b: l has the least
\* semidominator number of the nodes from b up to below a, or a smaller one.
Best(b, a, l) ==
  /\ a \in Up(parent, b) /\ a # b
  /\ l \in Up(parent, b) /\ Linked(l)
  /\ \A c \in Up(parent, b) : Num(order, c) > Num(order, a) => Linked(c) /\ sdom[l] <= sdom[c]

Forest ==
  pc \in {"semi", "implicit"} =>
    /\ at \in 2 .. Len(order)
    /\ \A b \in Block : Linked(b) <=> b \in Range(order) /\ (Num(order, b) > at \/ (Num(order, b) = at /\ pc = "implicit"))
    /\ \A b \in Block : ~Linked(b) => label[b] = b
    /\ \A b \in Block : Linked(b) => Best(b, ancestor[b], label[b])

\* Step 2 is over for the linked nodes and has not begun for the others,
\* but for the node at hand.
Semis ==
  /\ pc \in {"semi", "implicit"} =>
       /\ \A b \in Block : Linked(b) => sdom[b] = Sd(succ, order, b) /\ Sources(b) \subseteq Range(order)
       /\ \A b \in Range(order) : ~Linked(b) /\ Num(order, b) # at => sdom[b] = Num(order, b)
  /\ pc = "semi" =>
       /\ Sd(succ, order, order[at]) <= sdom[order[at]] /\ sdom[order[at]] <= at
       /\ Range(preds) \subseteq Sources(order[at])
       /\ \A c \in Sources(order[at]) \ Range(preds) :
            /\ c \in Range(order)
            /\ Num(order, c) < at => sdom[order[at]] <= Num(order, c)
            /\ \A u \in Up(parent, c) : Num(order, u) > at => sdom[order[at]] <= Sd(succ, order, u)

\* Step 3 is over for v: the semidominator is the dominator, or an ancestor
\* with the same dominator is recorded.
Deferred(v) ==
  \/ /\ dom[v] = order[Sd(succ, order, v)]
     /\ \A u \in Up(parent, v) : Num(order, u) > Sd(succ, order, v) => Sd(succ, order, u) >= Sd(succ, order, v)
  \/ /\ dom[v] \in Up(parent, v) /\ Num(order, dom[v]) > Sd(succ, order, v)
     /\ Sd(succ, order, dom[v]) < Sd(succ, order, v)
     /\ \A u \in Up(parent, v) : Num(order, u) > Sd(succ, order, v) => Sd(succ, order, u) >= Sd(succ, order, dom[v])

\* A node waits in the bucket of its semidominator until the loop is at the
\* child of the semidominator above it.
Buckets ==
  pc \in {"semi", "implicit"} =>
    /\ \A n \in 1 .. N : \A v \in Range(bucket[n]) : Linked(v) /\ sdom[v] = n
    /\ \A v \in Block : Linked(v) => v \in Range(bucket[sdom[v]]) \/ Deferred(v)
    /\ \A v \in Block : Linked(v) => \A c \in Up(parent, v) :
         Num(order, c) > at /\ parent[c] = order[sdom[v]] => v \notin Range(bucket[sdom[v]])

\* d is the immediate dominator of b.
Immediate(d, b) ==
  /\ d \in Range(order) /\ Num(order, d) < Num(order, b)
  /\ StrictDominators(succ, b) = {d} \cup StrictDominators(succ, d)

Finishing ==
  pc = "explicit" =>
    /\ at \in 1 .. Len(order) + 1 /\ (at = 1 => Len(order) = 1)
    /\ \A b \in Range(order) \ {Root} :
         /\ sdom[b] = Sd(succ, order, b) /\ Sources(b) \subseteq Range(order)
         /\ IF Num(order, b) < at THEN Immediate(dom[b], b) ELSE Deferred(b)

Finished ==
  /\ pc = "done" => /\ \A b \in Range(order) \ {Root} : Immediate(idom[b], b) /\ Sources(b) \subseteq Range(order)
  /\ \A b \in Block \ (Range(order) \ {Root}) : idom[b] = Null
  /\ pc = "crash" => \E b \in Range(order) \ {Root} : ~(Sources(b) \subseteq Range(order))

IInv == TypeInv /\ Fresh /\ Visit /\ Forest /\ Semis /\ Buckets /\ Finishing /\ Finished

-----------------------------------------------------------------------------
(***************************************************************************)
(* Lists of blocks.                                                        *)
(***************************************************************************)
\* The order is not longer than the number of blocks.
LEMMA LenBound == ASSUME NEW o \in Seq(Block), Distinct(o) PROVE Len(o) <= N
<1>1. N \in Nat /\ Block = 1 .. N
  BY SizeAssumption DEF Block
<1>2. PICK n \in Nat : n = Len(o)
  OBVIOUS
<1>3. \A i \in 1 .. n : o[i] \in 1 .. N
  BY <1>1, <1>2
<1> DEFINE f == [i \in 1 .. n |-> o[i]]
<1>4. f \in Injection(1 .. n, 1 .. N)
  BY <1>2, <1>3 DEF Injection, IsInjective, Distinct
<1>5. Cardinality(1 .. n) <= Cardinality(1 .. N) /\ IsFiniteSet(1 .. N)
  <2>1. IsFiniteSet(1 .. N)
    BY <1>1, FS_Interval
  <2> HIDE DEF f
  <2> QED
    BY <1>4, <2>1, FS_Injection
<1>6. Cardinality(1 .. n) = n /\ Cardinality(1 .. N) = N
  <2>1. \A a \in Nat : Cardinality(1 .. a) = a
    <3> TAKE a \in Nat
    <3>1. Cardinality(1 .. a) = IF 1 > a THEN 0 ELSE a - 1 + 1
      BY FS_Interval
    <3> QED
      BY <3>1
  <2> QED
    BY <1>1, <2>1
<1> QED
  BY <1>2, <1>5, <1>6

\* A proper ancestor has a child on the way.
LEMMA ChildOn ==
  ASSUME NEW p \in [Block -> Block \cup {Null}], NEW b \in Block, NEW a \in Up(p, b), a # b
  PROVE  \E c \in Up(p, b) : p[c] = a
<1> DEFINE S == {x \in Up(p, b) : a \in Up(p, x) /\ x # a}
<1> SUFFICES ASSUME \A c \in Up(p, b) : p[c] # a PROVE FALSE
  OBVIOUS
<1>1. S \in SUBSET Block /\ b \in S
  BY UpSelf
<1>2. ASSUME NEW x \in S, p[x] # Null PROVE p[x] \in S
  <2>1. x \in Block /\ x \in Up(p, b) /\ a \in Up(p, x) /\ x # a
    BY <1>1
  <2>2. p[x] \in Up(p, b)
    BY <1>2, <2>1, UpClosed DEF ParentClosed
  <2>3. a \in Up(p, p[x])
    BY <1>2, <2>1, UpStep
  <2> QED
    BY <2>1, <2>2, <2>3
<1>3. ParentClosed(p, S)
  BY <1>2 DEF ParentClosed
<1>4. a \in S
  <2> HIDE DEF S
  <2> QED
    BY <1>1, <1>3, UpOn
<1> QED
  BY <1>4

\* e becomes the last node, a child of t.
Appended(o2, o, e)    == o2 = Append(o, e)
Attached(q, p, e, t) == q = [p EXCEPT ![e] = t]

\* A new leaf changes the ancestors of no other node.
LEMMA UpExtend ==
  ASSUME NEW g, NEW o, NEW p, Tree(g, o, p), NEW e \in Block \ Range(o), NEW t \in Range(o),
         NEW q, Attached(q, p, e, t)
  PROVE  /\ \A b \in Range(o) : Up(q, b) = Up(p, b)
         /\ Up(q, e) = {e} \cup Up(p, t)
<1>1. /\ p \in [Block -> Block \cup {Null}] /\ Range(o) \subseteq Block /\ t \in Block
      /\ q \in [Block -> Block \cup {Null}] /\ t # Null /\ q = [p EXCEPT ![e] = t]
  BY TreeFacts, RootBlock DEF Attached
<1>2. ASSUME NEW b \in Range(o) PROVE Up(q, b) = Up(p, b)
  <2>1. Up(p, b) \subseteq Range(o) /\ b \in Block /\ b \in Up(p, b) /\ Up(p, b) \in SUBSET Block
    BY <1>1, UpNum, UpSelf
  <2>2. ParentClosed(q, Up(p, b))
    <3>1. ParentClosed(p, Up(p, b))
      BY <1>1, <2>1, UpClosed
    <3> QED
      BY <1>1, <2>1, <3>1 DEF ParentClosed
  <2>3. Up(q, b) \subseteq Up(p, b)
    BY <2>1, <2>2, UpOn
  <2>4. b \in Up(q, b) /\ Up(q, b) \in SUBSET Block
    BY <2>1, UpSelf
  <2>5. ParentClosed(p, Up(q, b))
    <3>1. ParentClosed(q, Up(q, b))
      BY <1>1, <2>1, UpClosed
    <3>2. \A c \in Up(q, b) : c \in Block /\ c # e
      BY <2>1, <2>3
    <3>3. \A c \in Up(q, b) : q[c] = p[c]
      BY <1>1, <3>2
    <3> QED
      BY <3>1, <3>3 DEF ParentClosed
  <2>6. Up(p, b) \subseteq Up(q, b)
    BY <2>4, <2>5, UpOn
  <2> QED
    BY <2>3, <2>6
<1>3. q[e] = t
  BY <1>1
<1> QED
  BY <1>1, <1>2, <1>3, UpStep

-----------------------------------------------------------------------------
(***************************************************************************)
(* The tree and the stack of the visit.                                    *)
(***************************************************************************)
\* What appending a block to the order does to the numbers.
LEMMA AppendNode ==
  ASSUME NEW o \in Seq(Block), Distinct(o), NEW e \in Block \ Range(o), NEW o2, Appended(o2, o, e)
  PROVE  /\ o2 \in Seq(Block) /\ Distinct(o2) /\ Range(o2) = Range(o) \cup {e} /\ o2 # <<>>
         /\ o # <<>> => o2[1] = o[1]
         /\ Num(o2, e) = Len(o) + 1 /\ Len(o2) = Len(o) + 1
         /\ \A b \in Range(o) : Num(o2, b) = Num(o, b) /\ Num(o2, b) < Num(o2, e)
<1>1. PICK n \in Nat : n = Len(o)
  OBVIOUS
<1>2. /\ o2 \in Seq(Block) /\ Len(o2) = n + 1 /\ DOMAIN o = 1 .. n /\ DOMAIN o2 = 1 .. n + 1
      /\ \A i \in 1 .. n : o2[i] = o[i] /\ o[i] \in Range(o)
      /\ o2[n + 1] = e
  BY <1>1 DEF Range, Appended
<1>3. Range(o2) = Range(o) \cup {e}
  <2>1. \A i \in 1 .. n + 1 : i \in 1 .. n \/ i = n + 1
    BY <1>1
  <2>2. n + 1 \in 1 .. n + 1 /\ \A i \in 1 .. n : i \in 1 .. n + 1
    BY <1>1
  <2> QED
    BY <1>2, <2>1, <2>2 DEF Range
<1>4. Distinct(o2)
  <2> SUFFICES ASSUME NEW i \in 1 .. n + 1, NEW j \in 1 .. n + 1, o2[i] = o2[j] PROVE i = j
    BY <1>2 DEF Distinct
  <2>1. CASE i \in 1 .. n /\ j \in 1 .. n
    BY <1>1, <1>2, <2>1 DEF Distinct
  <2>2. CASE i = n + 1 /\ j # n + 1
    BY <1>1, <1>2, <2>2
  <2>3. CASE j = n + 1 /\ i # n + 1
    BY <1>1, <1>2, <2>3
  <2> QED
    BY <1>1, <2>1, <2>2, <2>3
<1>5. Num(o2, e) = n + 1
  <2>1. n + 1 \in 1 .. Len(o2)
    BY <1>1, <1>2
  <2>2. Num(o2, o2[n + 1]) = n + 1
    BY <1>2, <1>4, <2>1, NumFacts
  <2> QED
    BY <1>2, <2>2
<1>6. ASSUME NEW b \in Range(o) PROVE Num(o2, b) = Num(o, b) /\ Num(o2, b) < n + 1
  <2>1. Num(o, b) \in 1 .. n /\ o[Num(o, b)] = b
    BY <1>1, NumFacts
  <2>2. Num(o, b) \in 1 .. Len(o2) /\ o2[Num(o, b)] = b
    BY <1>1, <1>2, <2>1
  <2>3. \A i \in 1 .. Len(o2) : Num(o2, o2[i]) = i
    BY <1>2, <1>4, NumFacts
  <2>4. Num(o2, b) = Num(o, b)
    BY <2>2, <2>3
  <2> QED
    BY <1>1, <2>1, <2>4
<1>7. o # <<>> => o2[1] = o[1]
  <2>1. o # <<>> => 1 \in 1 .. n
    BY <1>1, EmptySeq
  <2> QED
    BY <1>2, <2>1
<1>8. o2 # <<>>
  BY <1>1, <1>2, EmptySeq
<1> QED
  BY <1>1, <1>2, <1>3, <1>4, <1>5, <1>6, <1>7, <1>8

\* Entering a successor of the node on top of the stack keeps the depth-first tree.
LEMMA EnterTree ==
  ASSUME NEW g, NEW o, NEW p, Tree(g, o, p), DepthFirst(g, o, p),
         NEW e \in Block \ Range(o), NEW t \in Range(o), e \in SuccSet(g, t),
         \A a \in Range(o) : e \in SuccSet(g, a) => a \in Up(p, t),
         \A a \in Up(p, t), b \in Range(o) : Num(o, a) <= Num(o, b) => a \in Up(p, b),
         NEW o2, Appended(o2, o, e), NEW q, Attached(q, p, e, t)
  PROVE  Tree(g, o2, q) /\ DepthFirst(g, o2, q)
<1>1. /\ o \in Seq(Block) /\ Distinct(o) /\ Range(o) \subseteq Block /\ p \in [Block -> Block \cup {Null}]
      /\ g \in Cfgs /\ o # <<>> /\ o[1] = Root /\ t \in Block /\ t # Null
      /\ \A b \in Range(o) : Num(o, b) \in Nat
      /\ Root \in Range(o)
  BY TreeFacts, RootBlock, RootUp DEF Tree
<1>2. /\ o2 \in Seq(Block) /\ Distinct(o2) /\ Range(o2) = Range(o) \cup {e} /\ o2 # <<>> /\ o2[1] = Root
      /\ \A b \in Range(o) : Num(o2, b) = Num(o, b) /\ Num(o2, b) < Num(o2, e)
      /\ Num(o2, e) \in Nat
  <2>1. Len(o) \in Nat
    BY <1>1
  <2> QED
    BY <1>1, <2>1, AppendNode
<1>3. /\ \A b \in Range(o) : Up(q, b) = Up(p, b)
      /\ Up(q, e) = {e} \cup Up(p, t)
  BY UpExtend
<1>4. /\ q \in [Block -> Block \cup {Null}] /\ q[e] = t /\ \A b \in Range(o) : q[b] = p[b]
      /\ \A b \in Block : b # e => q[b] = p[b]
  BY <1>1 DEF Attached
<1>5. Tree(g, o2, q)
  <2>1. \A b \in Block : q[b] # Null <=> b \in Range(o2) \ {Root}
    <3> TAKE b \in Block
    <3>1. CASE b = e
      BY <1>1, <1>2, <1>4, <3>1
    <3>2. CASE b # e
      <4>1. p[b] # Null <=> b \in Range(o) \ {Root}
        BY DEF Tree
      <4> QED
        BY <1>2, <1>4, <3>2, <4>1
    <3> QED
      BY <3>1, <3>2
  <2>2. ASSUME NEW b \in Range(o2) \ {Root}
        PROVE  q[b] \in Range(o2) /\ Num(o2, q[b]) < Num(o2, b) /\ b \in SuccSet(g, q[b])
    <3>1. CASE b = e
      BY <1>2, <1>4, <3>1
    <3>2. CASE b # e
      <4>1. b \in Range(o) \ {Root} /\ q[b] = p[b]
        BY <1>2, <1>4, <3>2
      <4>2. p[b] \in Range(o) /\ Num(o, p[b]) < Num(o, b) /\ b \in SuccSet(g, p[b])
        BY <4>1 DEF Tree
      <4> QED
        BY <1>2, <4>1, <4>2
    <3> QED
      BY <3>1, <3>2
  <2> QED
    BY <1>1, <1>2, <1>4, <2>1, <2>2 DEF Tree
<1>6. ASSUME NEW a \in Range(o2), NEW b \in Range(o2), b \in SuccSet(g, a), Num(o2, a) < Num(o2, b)
      PROVE  a \in Up(q, b)
  <2>1. CASE b \in Range(o)
    <3>1. a # e
      <4> SUFFICES ASSUME a = e PROVE FALSE
        OBVIOUS
      <4>1. Num(o2, b) < Num(o2, e) /\ Num(o2, b) \in Nat /\ Num(o2, e) \in Nat
        BY <1>1, <1>2, <2>1
      <4> QED
        BY <1>6, <4>1
    <3>2. a \in Range(o)
      BY <1>2, <3>1
    <3>3. a \in Up(p, b)
      BY <1>2, <1>6, <2>1, <3>2 DEF DepthFirst
    <3> QED
      BY <1>3, <2>1, <3>3
  <2>2. CASE b = e
    <3>1. a # e
      BY <1>2, <1>6, <2>2
    <3>2. a \in Range(o)
      BY <1>2, <3>1
    <3> QED
      BY <1>3, <1>6, <2>2, <3>2
  <2> QED
    BY <1>2, <2>1, <2>2
<1>7. ASSUME NEW a \in Range(o2), NEW b \in Range(o2), NEW c \in Range(o2),
             a \in Up(q, c), Num(o2, a) <= Num(o2, b), Num(o2, b) <= Num(o2, c)
      PROVE  a \in Up(q, b)
  <2>1. CASE b = e
    <3>1. c = e
      <4>1. \A x \in Range(o) : Num(o2, x) \in Nat
        BY <1>1, <1>2
      <4> QED
        BY <1>2, <1>7, <2>1, <4>1
    <3> QED
      BY <1>7, <2>1, <3>1
  <2>2. CASE b \in Range(o) /\ c \in Range(o)
    <3>1. a \in Up(p, c)
      BY <1>3, <1>7, <2>2
    <3>2. a \in Range(o)
      BY <2>2, <3>1, UpNum
    <3>3. a \in Up(p, b)
      BY <1>2, <1>7, <2>2, <3>1, <3>2 DEF DepthFirst
    <3> QED
      BY <1>3, <2>2, <3>3
  <2>3. CASE b \in Range(o) /\ c = e
    <3>1. a # e
      <4>1. Num(o2, b) < Num(o2, e) /\ Num(o2, b) \in Nat /\ Num(o2, e) \in Nat
        BY <1>1, <1>2, <2>3
      <4> QED
        BY <1>7, <4>1
    <3>2. a \in Up(p, t) /\ a \in Range(o)
      BY <1>2, <1>3, <1>7, <2>3, <3>1
    <3>3. Num(o, a) <= Num(o, b)
      BY <1>2, <1>7, <2>3, <3>2
    <3>4. a \in Up(p, b)
      BY <2>3, <3>2, <3>3
    <3> QED
      BY <1>3, <2>3, <3>4
  <2> QED
    BY <1>2, <2>1, <2>2, <2>3
<1> QED
  BY <1>5, <1>6, <1>7 DEF DepthFirst

\* The top of the stack.
LEMMA TopFacts ==
  ASSUME TypeInv, stack # <<>>
  PROVE  /\ Len(stack) \in Nat \ {0} /\ Top = stack[Len(stack)] /\ Top \in Frame
         /\ Popped \in Seq(Frame) /\ Len(Popped) = Len(stack) - 1
         /\ \A i \in 1 .. Len(stack) - 1 : Popped[i] = stack[i]
<1>1. Len(stack) \in Nat \ {0} /\ stack \in Seq(Frame)
  BY EmptySeq DEF TypeInv
<1>2. PICK n \in Nat : n = Len(stack) - 1 /\ n + 1 = Len(stack)
  BY <1>1
<1>3. Top = stack[Len(stack)] /\ Top \in Frame
  BY <1>1 DEF Top
<1>4. Popped = SubSeq(stack, 1, n)
  BY <1>2 DEF Popped
<1>5. SubSeq(stack, 1, n) \in Seq(Frame) /\ Len(SubSeq(stack, 1, n)) = n
      /\ \A i \in 1 .. n : SubSeq(stack, 1, n)[i] = stack[i]
  BY <1>1, <1>2
<1> QED
  BY <1>1, <1>2, <1>3, <1>4, <1>5

\* The top of the stack once a successor is taken from it.
LEMMA AdvancedFacts ==
  ASSUME TypeInv, stack # <<>>, Top.rest # <<>>
  PROVE  /\ Advanced \in Seq(Frame) /\ Len(Advanced) = Len(stack)
         /\ \A i \in 1 .. Len(stack) : Advanced[i].block = stack[i].block
         /\ \A i \in 1 .. Len(stack) - 1 : Advanced[i].rest = stack[i].rest
         /\ Advanced[Len(stack)].rest = Tail(Top.rest)
         /\ Next1 \in Range(Top.rest) /\ Next1 \in Block
         /\ Range(Top.rest) = {Next1} \cup Range(Tail(Top.rest))
<1> DEFINE r == Top.rest
           fr == [Top EXCEPT !.rest = Tail(@)]
<1>1. PICK n \in Nat : n = Len(stack) - 1 /\ n + 1 = Len(stack)
  BY TopFacts
<1>2. Top = stack[n + 1] /\ Top \in Frame /\ Popped \in Seq(Frame) /\ Len(Popped) = n
      /\ \A i \in 1 .. n : Popped[i] = stack[i]
  BY <1>1, TopFacts
<1>3. r \in Seq(Block) /\ Top.block \in Block /\ Len(r) \in Nat \ {0}
  BY <1>2, EmptySeq DEF Frame
<1>4. fr \in Frame /\ fr.block = Top.block /\ fr.rest = Tail(r)
  <2>1. \A x \in Frame, y \in Seq(Block) :
          [x EXCEPT !.rest = y] \in Frame /\ [x EXCEPT !.rest = y].block = x.block /\ [x EXCEPT !.rest = y].rest = y
    BY DEF Frame
  <2>2. Tail(r) \in Seq(Block) /\ fr = [Top EXCEPT !.rest = Tail(r)]
    BY <1>3
  <2> HIDE DEF fr, r
  <2> QED
    BY <1>2, <2>1, <2>2
<1>5. Head(r) = r[1] /\ Tail(r) \in Seq(Block) /\ Len(Tail(r)) = Len(r) - 1
      /\ \A i \in 1 .. Len(r) - 1 : Tail(r)[i] = r[i + 1]
  BY <1>3
<1>6. Range(r) = {Head(r)} \cup Range(Tail(r)) /\ Head(r) \in Block
  <2>1. PICK k \in Nat : k = Len(r) - 1 /\ k + 1 = Len(r)
    BY <1>3
  <2>2. DOMAIN r = 1 .. k + 1 /\ DOMAIN Tail(r) = 1 .. k /\ \A i \in 1 .. k : Tail(r)[i] = r[i + 1]
    BY <1>3, <1>5, <2>1
  <2>3. \A i \in 1 .. k + 1 : i = 1 \/ (i - 1 \in 1 .. k /\ (i - 1) + 1 = i)
    BY <2>1
  <2>4. 1 \in 1 .. k + 1 /\ \A i \in 1 .. k : i + 1 \in 1 .. k + 1
    BY <2>1
  <2>5. \A x : x \in Range(r) <=> x = Head(r) \/ x \in Range(Tail(r))
    <3> DEFINE q == Tail(r)
    <3>1. DOMAIN q = 1 .. k /\ \A i \in 1 .. k : q[i] = r[i + 1]
      BY <2>2
    <3> HIDE DEF r, q
    <3>2. ASSUME NEW x \in Range(r) PROVE x = r[1] \/ x \in Range(q)
      <4>1. PICK i \in 1 .. k + 1 : x = r[i]
        BY <2>2 DEF Range
      <4>2. CASE i = 1
        BY <4>1, <4>2
      <4>3. CASE i # 1
        <5>1. i - 1 \in 1 .. k /\ (i - 1) + 1 = i
          BY <2>3, <4>3
        <5>2. q[i - 1] = r[i]
          BY <3>1, <5>1
        <5> QED
          BY <3>1, <4>1, <5>1, <5>2 DEF Range
      <4> QED
        BY <4>2, <4>3
    <3>3. ASSUME NEW x \in Range(q) PROVE x \in Range(r)
      <4>1. PICK i \in 1 .. k : x = q[i]
        BY <3>1 DEF Range
      <4> QED
        BY <2>2, <2>4, <3>1, <4>1 DEF Range
    <3>4. r[1] \in Range(r)
      BY <2>2, <2>4 DEF Range
    <3> QED
      BY <1>5, <3>2, <3>3, <3>4 DEF q
  <2>6. r[1] \in Block
    BY <1>3, <2>2, <2>4
  <2> HIDE DEF r
  <2> QED
    BY <1>5, <2>5, <2>6
<1>7. Advanced = Append(Popped, fr) /\ Next1 = Head(r)
  BY DEF Advanced, Next1
<1> HIDE DEF fr, r
<1>8. Append(Popped, fr) \in Seq(Frame) /\ Len(Append(Popped, fr)) = n + 1
      /\ Append(Popped, fr)[n + 1] = fr
      /\ \A i \in 1 .. n : Append(Popped, fr)[i] = stack[i]
  BY <1>1, <1>2, <1>4
<1>9. Top.rest = r
  BY DEF r
<1>10. \A i \in 1 .. n + 1 : i \in 1 .. n \/ i = n + 1
  BY <1>1
<1>11. \A i \in 1 .. n + 1 : Advanced[i].block = stack[i].block
  BY <1>2, <1>4, <1>7, <1>8, <1>10
<1> QED
  BY <1>1, <1>2, <1>4, <1>6, <1>7, <1>8, <1>9, <1>11

-----------------------------------------------------------------------------
(***************************************************************************)
(* The preorder visit: the calls of PreOrderVisitor.                       *)
(***************************************************************************)
\* Before the first step.
LEMMA InitInv == Init => IInv
<1> SUFFICES ASSUME Init PROVE IInv
  OBVIOUS
<1>1. TypeInv
  BY RootBlock, EmptySeq DEF Init, TypeInv
<1>2. Fresh /\ Finished
  BY RootBlock DEF Init, Fresh, Finished, Linked, Range
<1>3. Visit /\ Forest /\ Semis /\ Buckets /\ Finishing
  BY DEF Init, Visit, Forest, Semis, Buckets, Finishing
<1> QED
  BY <1>1, <1>2, <1>3 DEF IInv

\* The call of PreOrderVisitor for the entry.
LEMMA StartInv == IInv /\ Start => IInv'
<1> SUFFICES ASSUME IInv, Start PROVE IInv'
  OBVIOUS
<1>1. /\ TypeInv /\ order = <<>> /\ Root \in Block /\ \A b \in Block : parent[b] = Null
      /\ order' = Append(order, Root) /\ order' = <<Root>> /\ stack' = <<Call(Root)>>
      /\ sdom' = [sdom EXCEPT ![Root] = Len(order) + 1]
      /\ parent' = [parent EXCEPT ![Root] = Null] /\ pc = "start" /\ pc' = "preorder"
      /\ UNCHANGED <<succ, ancestor, label, dom, bucket, at, preds, idom>>
  BY RootBlock DEF IInv, Start, NewNode, Fresh, forest
<1>2. /\ order' \in Seq(Block) /\ Distinct(order') /\ Range(order') = {Root} /\ order' # <<>> /\ order'[1] = Root
      /\ Num(order', Root) = 1
  <2>1. PICK z : z = <<>>
    OBVIOUS
  <2>2. z \in Seq(Block) /\ Distinct(z) /\ Range(z) = {} /\ Len(z) = 0
    BY <2>1 DEF Range, Distinct
  <2>3. Appended(order', z, Root) /\ Root \in Block \ Range(z)
    BY <1>1, <2>1, <2>2 DEF Appended
  <2>4. /\ order' \in Seq(Block) /\ Distinct(order') /\ Range(order') = {} \cup {Root} /\ order' # <<>>
        /\ Num(order', Root) = 0 + 1
    BY <2>2, <2>3, AppendNode
  <2> QED
    BY <1>1, <2>4
<1>3. \A b \in Block : parent'[b] = Null
  BY <1>1 DEF TypeInv
<1>4. parent' \in [Block -> Block \cup {Null}] /\ sdom' \in [Block -> Nat] /\ sdom'[Root] = 1 /\ Len(order) = 0
  BY <1>1 DEF TypeInv
<1>5. /\ Len(stack') = 1 /\ stack'[1] = Call(Root) /\ stack' # <<>> /\ Call(Root) \in Frame /\ stack' \in Seq(Frame)
      /\ Call(Root).block = Root /\ Call(Root).rest = succ[Root] /\ Range(succ[Root]) = SuccSet(succ, Root)
      /\ \A i \in 1 .. Len(stack') : i = 1
  <2>1. succ[Root] \in Seq(Block) /\ Range(succ[Root]) = SuccSet(succ, Root)
    BY <1>1, SuccSeq DEF TypeInv
  <2>2. Call(Root) \in Frame
    BY <1>1, <2>1 DEF Call, Frame
  <2> QED
    BY <1>1, <2>1, <2>2 DEF Call
<1>6. TypeInv'
  BY <1>1, <1>2, <1>4, <1>5 DEF TypeInv
<1>7. Fresh'
  BY <1>1, <1>2, <1>4 DEF IInv, Fresh, Linked
<1>8. Tree(succ', order', parent')
  BY <1>1, <1>2, <1>3, <1>4 DEF Tree, TypeInv
<1>9. \A c \in {Root} : Up(parent', c) = {Root}
  BY <1>1, <1>3, <1>4, UpStep
<1>10. DepthFirst(succ', order', parent')
  BY <1>2, <1>9 DEF DepthFirst
<1>11. Frames'
  <2>1. \A i \in 1 .. Len(stack') : stack'[i].block = Root /\ stack'[i].rest = succ[Root]
    BY <1>5
  <2>2. OnStack(Root)'
    BY <1>5 DEF OnStack
  <2>3. Top'.block = Root
    BY <1>5 DEF Top
  <2>4. \A i, j \in 1 .. Len(stack') : ~(i < j)
    BY <1>5
  <2> QED
    BY <1>1, <1>2, <1>5, <1>9, <2>1, <2>2, <2>3, <2>4 DEF Frames
<1>12. Visit'
  BY <1>1, <1>8, <1>10, <1>11 DEF Visit
<1>13. Finished'
  BY <1>1, <1>2 DEF IInv, Finished, Range
<1>14. Forest' /\ Semis' /\ Buckets' /\ Finishing'
  BY <1>1 DEF Forest, Semis, Buckets, Finishing
<1> QED
  BY <1>6, <1>7, <1>12, <1>13, <1>14 DEF IInv

\* What a step of the visit leaves to show.
LEMMA VisitStep ==
  ASSUME IInv, pc = "preorder", pc' = "preorder", TypeInv', Fresh',
         Tree(succ', order', parent'), DepthFirst(succ', order', parent'), Frames',
         Range(order) \subseteq Range(order'), idom' = idom
  PROVE  IInv'
<1>1. Visit'
  BY DEF Visit
<1>2. Finished'
  BY DEF IInv, Finished
<1>3. Forest' /\ Semis' /\ Buckets' /\ Finishing'
  BY DEF Forest, Semis, Buckets, Finishing
<1> QED
  BY <1>1, <1>2, <1>3 DEF IInv

\* A successor that was visited before.
LEMMA SkipInv == IInv /\ Skip => IInv'
<1> SUFFICES ASSUME IInv, Skip PROVE IInv'
  OBVIOUS
<1>1. /\ pc = "preorder" /\ stack # <<>> /\ Top.rest # <<>> /\ Next1 \in Range(order) /\ stack' = Advanced
      /\ UNCHANGED <<succ, order, parent, ancestor, label, dom, sdom, bucket, at, preds, idom, pc>>
      /\ TypeInv /\ Frames /\ Tree(succ, order, parent) /\ DepthFirst(succ, order, parent)
  BY DEF IInv, Skip, Unseen, Node, Visit, forest
<1> DEFINE n == Len(stack)
<1>2. /\ n \in Nat \ {0} /\ Top = stack[n] /\ n \in 1 .. n
      /\ stack' \in Seq(Frame) /\ Len(stack') = n /\ stack' # <<>>
      /\ \A i \in 1 .. n : stack'[i].block = stack[i].block
      /\ \A i \in 1 .. n : i = n \/ i \in 1 .. n - 1
      /\ \A i \in 1 .. n - 1 : stack'[i].rest = stack[i].rest
      /\ stack'[n].rest = Tail(Top.rest)
      /\ Range(Top.rest) = {Next1} \cup Range(Tail(Top.rest))
  BY <1>1, TopFacts, AdvancedFacts, EmptySeq
<1> HIDE DEF n
<1>3. TypeInv'
  BY <1>1, <1>2 DEF TypeInv
<1>4. Fresh'
  BY <1>1 DEF IInv, Fresh, Linked
<1>5. Frames'
  <2>1. ASSUME NEW i \in 1 .. n
        PROVE  /\ stack'[i].block \in Range(order)
               /\ Range(stack'[i].rest) \subseteq SuccSet(succ, stack'[i].block)
               /\ SuccSet(succ, stack'[i].block) \subseteq Range(order) \cup Range(stack'[i].rest)
    <3>1. /\ stack[i].block \in Range(order)
          /\ Range(stack[i].rest) \subseteq SuccSet(succ, stack[i].block)
          /\ SuccSet(succ, stack[i].block) \subseteq Range(order) \cup Range(stack[i].rest)
      BY <1>1 DEF Frames, n
    <3> QED
      BY <1>1, <1>2, <3>1
  <2>2. \A i, j \in 1 .. n : i < j => Num(order, stack'[i].block) < Num(order, stack'[j].block)
    BY <1>1, <1>2 DEF Frames, n
  <2>3. \A i \in 1 .. n, c \in Range(order) :
          Num(order, stack'[i].block) <= Num(order, c) => stack'[i].block \in Up(parent, c)
    BY <1>1, <1>2 DEF Frames, n
  <2>4. \A a : OnStack(a) => OnStack(a)'
    BY <1>1, <1>2 DEF OnStack, n
  <2>5. Top'.block = Top.block
    BY <1>2 DEF Top, n
  <2>6. \A a \in Up(parent, Top.block) : OnStack(a)
    BY <1>1 DEF Frames
  <2>7. \A a \in Range(order) : OnStack(a) \/ SuccSet(succ, a) \subseteq Range(order)
    BY <1>1 DEF Frames
  <2> QED
    BY <1>1, <1>2, <2>1, <2>2, <2>3, <2>4, <2>5, <2>6, <2>7 DEF Frames
<1> QED
  BY <1>1, <1>3, <1>4, <1>5, VisitStep

\* The end of a call of PreOrderVisitor.
LEMMA ReturnInv == IInv /\ Return => IInv'
<1> SUFFICES ASSUME IInv, Return PROVE IInv'
  OBVIOUS
<1>1. /\ pc = "preorder" /\ stack # <<>> /\ Top.rest = <<>> /\ stack' = Popped
      /\ UNCHANGED <<succ, order, parent, ancestor, label, dom, sdom, bucket, at, preds, idom, pc>>
      /\ TypeInv /\ Frames /\ Tree(succ, order, parent) /\ DepthFirst(succ, order, parent)
  BY DEF IInv, Return, Visit, forest
<1> DEFINE n == Len(stack)
<1>2. /\ n \in Nat \ {0} /\ Top = stack[n] /\ n \in 1 .. n
      /\ stack' \in Seq(Frame) /\ Len(stack') = n - 1
      /\ \A i \in 1 .. n - 1 : stack'[i] = stack[i] /\ i \in 1 .. n /\ i < n
      /\ \A i \in 1 .. n : i = n \/ i \in 1 .. n - 1
  BY <1>1, TopFacts
<1> HIDE DEF n
<1>3. TypeInv'
  BY <1>1, <1>2 DEF TypeInv
<1>4. Fresh'
  BY <1>1 DEF IInv, Fresh, Linked
<1>5. \A a : OnStack(a) => a = Top.block \/ OnStack(a)'
  BY <1>1, <1>2 DEF OnStack, n
<1>6. SuccSet(succ, Top.block) \subseteq Range(order)
  <2>1. SuccSet(succ, stack[n].block) \subseteq Range(order) \cup Range(stack[n].rest)
    BY <1>1, <1>2 DEF Frames, n
  <2>2. Range(<<>>) = {}
    BY DEF Range
  <2> QED
    BY <1>1, <1>2, <2>1, <2>2
<1>7. ASSUME stack' # <<>>, NEW a \in Up(parent, Top'.block) PROVE OnStack(a)'
  <2> DEFINE t == stack[n - 1].block
  <2>1. n - 1 \in 1 .. n - 1 /\ n - 1 \in 1 .. n /\ n - 1 < n
    BY <1>2, <1>7, EmptySeq
  <2>2. Top'.block = t
    BY <1>2, <2>1 DEF Top
  <2>3. t \in Range(order) /\ Top.block \in Range(order) /\ Num(order, t) < Num(order, Top.block)
    BY <1>1, <1>2, <2>1 DEF Frames, n
  <2>4. parent \in [Block -> Block \cup {Null}] /\ Range(order) \subseteq Block
        /\ Num(order, t) \in Nat /\ Num(order, Top.block) \in Nat
    BY <1>1, <2>3, TreeFacts
  <2>5. t \in Up(parent, Top.block)
    <3>1. Num(order, t) <= Num(order, Top.block)
      BY <2>3, <2>4
    <3>2. \A i \in 1 .. n, c \in Range(order) :
            Num(order, stack[i].block) <= Num(order, c) => stack[i].block \in Up(parent, c)
      BY <1>1 DEF Frames, n
    <3> HIDE DEF t
    <3> QED
      BY <2>1, <2>3, <3>1, <3>2 DEF t
  <2>6. a \in Up(parent, t)
    BY <1>7, <2>2
  <2> HIDE DEF t
  <2>7. a \in Up(parent, Top.block)
    BY <2>3, <2>4, <2>5, <2>6, UpTrans
  <2>8. a # Top.block
    <3>1. a \in Range(order) /\ Num(order, a) <= Num(order, t) /\ Num(order, a) \in Nat
      BY <1>1, <2>3, <2>6, UpNum, TreeFacts
    <3> QED
      BY <2>3, <2>4, <3>1
  <2>9. OnStack(a)
    BY <1>1, <2>7 DEF Frames
  <2> QED
    BY <1>5, <2>8, <2>9
<1>8. Frames'
  <2>1. ASSUME NEW i \in 1 .. n - 1
        PROVE  /\ stack'[i].block \in Range(order)
               /\ Range(stack'[i].rest) \subseteq SuccSet(succ, stack'[i].block)
               /\ SuccSet(succ, stack'[i].block) \subseteq Range(order) \cup Range(stack'[i].rest)
    <3>1. /\ stack[i].block \in Range(order)
          /\ Range(stack[i].rest) \subseteq SuccSet(succ, stack[i].block)
          /\ SuccSet(succ, stack[i].block) \subseteq Range(order) \cup Range(stack[i].rest)
      BY <1>1, <1>2 DEF Frames, n
    <3> QED
      BY <1>2, <3>1
  <2>2. \A i, j \in 1 .. n - 1 : i < j => Num(order, stack'[i].block) < Num(order, stack'[j].block)
    BY <1>1, <1>2 DEF Frames, n
  <2>3. \A i \in 1 .. n - 1, c \in Range(order) :
          Num(order, stack'[i].block) <= Num(order, c) => stack'[i].block \in Up(parent, c)
    BY <1>1, <1>2 DEF Frames, n
  <2>4. \A a \in Range(order) : OnStack(a)' \/ SuccSet(succ, a) \subseteq Range(order)
    <3>1. \A a \in Range(order) : OnStack(a) \/ SuccSet(succ, a) \subseteq Range(order)
      BY <1>1 DEF Frames
    <3> QED
      BY <1>5, <1>6, <3>1
  <2> QED
    BY <1>1, <1>2, <1>7, <2>1, <2>2, <2>3, <2>4 DEF Frames
<1> QED
  BY <1>1, <1>3, <1>4, <1>8, VisitStep

\* The call of PreOrderVisitor for a successor.
LEMMA EnterInv == IInv /\ Enter => IInv'
<1> SUFFICES ASSUME IInv, Enter PROVE IInv'
  OBVIOUS
<1> DEFINE n == Len(stack)
<1>a. PICK e : e = Next1
  OBVIOUS
<1>b. PICK t : t = Top.block
  OBVIOUS
<1>1. /\ pc = "preorder" /\ pc' = "preorder" /\ stack # <<>> /\ Top.rest # <<>> /\ e \notin Range(order)
      /\ stack' = Append(Advanced, Call(e))
      /\ order' = Append(order, e) /\ sdom' = [sdom EXCEPT ![e] = Len(order) + 1]
      /\ parent' = [parent EXCEPT ![e] = t]
      /\ UNCHANGED <<succ, ancestor, label, dom, bucket, at, preds, idom>>
      /\ TypeInv /\ Frames /\ Tree(succ, order, parent) /\ DepthFirst(succ, order, parent)
  BY <1>a, <1>b DEF IInv, Enter, Unseen, Node, Visit, forest, NewNode
<1>2. /\ n \in Nat \ {0} /\ Top = stack[n] /\ n \in 1 .. n
      /\ Advanced \in Seq(Frame) /\ Len(Advanced) = n
      /\ \A i \in 1 .. n : Advanced[i].block = stack[i].block
      /\ \A i \in 1 .. n : i = n \/ (i \in 1 .. n - 1 /\ i < n)
      /\ \A i \in 1 .. n - 1 : Advanced[i].rest = stack[i].rest
      /\ Advanced[n].rest = Tail(Top.rest)
      /\ e \in Range(Top.rest) /\ e \in Block
      /\ Range(Top.rest) = {e} \cup Range(Tail(Top.rest))
  BY <1>1, <1>a, TopFacts, AdvancedFacts
<1>3. /\ Call(e) \in Frame /\ Call(e).block = e /\ Call(e).rest = succ[e]
      /\ Range(succ[e]) = SuccSet(succ, e)
  <2>1. succ[e] \in Seq(Block) /\ Range(succ[e]) = SuccSet(succ, e)
    BY <1>1, <1>2, SuccSeq DEF TypeInv
  <2> QED
    BY <1>2, <2>1 DEF Call, Frame
<1> HIDE DEF n
<1>4. /\ stack' \in Seq(Frame) /\ Len(stack') = n + 1 /\ stack' # <<>>
      /\ stack'[n + 1] = Call(e)
      /\ \A i \in 1 .. n : stack'[i] = Advanced[i] /\ i < n + 1
      /\ n + 1 \in 1 .. n + 1 /\ ~(n + 1 < n + 1)
      /\ \A i \in 1 .. n + 1 : i \in 1 .. n \/ i = n + 1
      /\ \A i \in 1 .. n : i \in 1 .. n + 1 /\ ~(n + 1 < i)
  <2>1. stack' \in Seq(Frame) /\ Len(stack') = n + 1 /\ stack'[n + 1] = Call(e)
        /\ \A i \in 1 .. n : stack'[i] = Advanced[i]
    BY <1>1, <1>2, <1>3
  <2> QED
    BY <1>2, <2>1, EmptySeq
<1>5. /\ order \in Seq(Block) /\ Distinct(order) /\ e \in Block \ Range(order) /\ Appended(order', order, e)
      /\ Attached(parent', parent, e, t)
      /\ parent \in [Block -> Block \cup {Null}] /\ Range(order) \subseteq Block
  BY <1>1, <1>2, TreeFacts DEF Appended, Attached
<1>6. /\ order' \in Seq(Block) /\ Distinct(order') /\ Range(order') = Range(order) \cup {e}
      /\ Num(order', e) = Len(order) + 1
      /\ \A b \in Range(order) : Num(order', b) = Num(order, b) /\ Num(order', b) < Num(order', e)
  BY <1>5, AppendNode
<1>7. t \in Range(order) /\ t \in Block /\ e \in SuccSet(succ, t) /\ t = stack[n].block
  <2>1. stack[n].block \in Range(order) /\ Range(stack[n].rest) \subseteq SuccSet(succ, stack[n].block)
    BY <1>1, <1>2 DEF Frames, n
  <2> QED
    BY <1>2, <1>5, <1>b, <2>1
<1>8. \A a, b \in Range(order) : OnStack(a) /\ Num(order, a) <= Num(order, b) => a \in Up(parent, b)
  BY <1>1 DEF Frames, OnStack
<1>9. \A a \in Range(order) : e \in SuccSet(succ, a) => a \in Up(parent, t)
  <2> SUFFICES ASSUME NEW a \in Range(order), e \in SuccSet(succ, a) PROVE a \in Up(parent, t)
    OBVIOUS
  <2>1. OnStack(a)
    BY <1>1, <1>5 DEF Frames
  <2>2. PICK i \in 1 .. n : stack[i].block = a
    BY <2>1 DEF OnStack, n
  <2>3. Num(order, a) <= Num(order, t)
    <3>1. Num(order, a) \in Nat /\ Num(order, t) \in Nat
      BY <1>1, <1>7, TreeFacts
    <3>2. CASE i = n
      BY <1>7, <2>2, <3>1, <3>2
    <3>3. CASE i # n
      <4>1. Num(order, stack[i].block) < Num(order, stack[n].block)
        BY <1>1, <1>2, <2>2, <3>3 DEF Frames, n
      <4> QED
        BY <1>7, <2>2, <3>1, <4>1
    <3> QED
      BY <3>2, <3>3
  <2> QED
    BY <1>7, <1>8, <2>1, <2>3
<1>10. \A a \in Up(parent, t), b \in Range(order) : Num(order, a) <= Num(order, b) => a \in Up(parent, b)
  <2> SUFFICES ASSUME NEW a \in Up(parent, t), NEW b \in Range(order), Num(order, a) <= Num(order, b)
               PROVE  a \in Up(parent, b)
    OBVIOUS
  <2>1. OnStack(a)
    BY <1>1, <1>b DEF Frames
  <2>2. a \in Range(order)
    BY <1>1, <1>7, UpNum
  <2> QED
    BY <1>8, <2>1, <2>2
<1>11. Tree(succ', order', parent') /\ DepthFirst(succ', order', parent')
  <2>1. Tree(succ, order', parent') /\ DepthFirst(succ, order', parent')
    BY <1>1, <1>5, <1>7, <1>9, <1>10, EnterTree
  <2> QED
    BY <1>1, <2>1
<1>12. /\ \A b \in Range(order) : Up(parent', b) = Up(parent, b)
       /\ Up(parent', e) = {e} \cup Up(parent, t)
  <2>1. Tree(succ, order, parent) /\ e \in Block \ Range(order) /\ t \in Range(order) /\ Attached(parent', parent, e, t)
    BY <1>1, <1>5, <1>7
  <2>2. PICK q : q = parent'
    OBVIOUS
  <2>3. Attached(q, parent, e, t)
    BY <2>1, <2>2
  <2>4. /\ \A b \in Range(order) : Up(q, b) = Up(parent, b)
        /\ Up(q, e) = {e} \cup Up(parent, t)
    BY <2>1, <2>3, UpExtend
  <2> QED
    BY <2>2, <2>4
<1>13. TypeInv'
  <2>1. parent' \in [Block -> Block \cup {Null}] /\ sdom' \in [Block -> Nat]
    <3>1. Len(order) + 1 \in Nat /\ sdom \in [Block -> Nat]
      BY <1>5 DEF IInv, TypeInv
    <3> QED
      BY <1>1, <1>5, <1>7, <3>1
  <2> QED
    BY <1>1, <1>4, <1>6, <2>1 DEF TypeInv
<1>14. Fresh'
  <2>1. \A b \in Range(order') : sdom'[b] = Num(order', b)
    <3> SUFFICES ASSUME NEW b \in Range(order') PROVE sdom'[b] = Num(order', b)
      OBVIOUS
    <3>1. sdom \in [Block -> Nat] /\ \A c \in Range(order) : sdom[c] = Num(order, c)
      BY <1>1 DEF IInv, TypeInv, Fresh
    <3>2. CASE b = e
      BY <1>1, <1>5, <1>6, <3>1, <3>2
    <3>3. CASE b # e
      BY <1>1, <1>5, <1>6, <3>1, <3>3
    <3> QED
      BY <3>2, <3>3
  <2> QED
    BY <1>1, <2>1 DEF IInv, Fresh, Linked
<1>15. OnStack(e)' /\ \A a : OnStack(a) => OnStack(a)'
  <2>1. stack'[n + 1].block = e /\ \A i \in 1 .. n : stack'[i].block = stack[i].block
    BY <1>2, <1>3, <1>4
  <2>2. OnStack(e)'
    BY <1>4, <2>1 DEF OnStack
  <2>3. ASSUME NEW a, OnStack(a) PROVE OnStack(a)'
    <3>1. PICK i \in 1 .. n : stack[i].block = a
      BY <2>3 DEF OnStack, n
    <3>2. stack'[i].block = a /\ i \in 1 .. Len(stack')
      BY <1>4, <2>1, <3>1
    <3> QED
      BY <3>2 DEF OnStack
  <2> QED
    BY <2>2, <2>3
<1>16. Frames'
  <2>1. ASSUME NEW i \in 1 .. n + 1
        PROVE  /\ stack'[i].block \in Range(order')
               /\ Range(stack'[i].rest) \subseteq SuccSet(succ, stack'[i].block)
               /\ SuccSet(succ, stack'[i].block) \subseteq Range(order') \cup Range(stack'[i].rest)
    <3>1. CASE i = n + 1
      BY <1>3, <1>4, <1>6, <3>1
    <3>2. CASE i \in 1 .. n
      <4>1. /\ stack[i].block \in Range(order)
            /\ Range(stack[i].rest) \subseteq SuccSet(succ, stack[i].block)
            /\ SuccSet(succ, stack[i].block) \subseteq Range(order) \cup Range(stack[i].rest)
        BY <1>1, <3>2 DEF Frames, n
      <4>2. stack'[i].block = stack[i].block
        BY <1>2, <1>4, <3>2
      <4>3. CASE i = n
        BY <1>2, <1>4, <1>6, <4>1, <4>2, <4>3
      <4>4. CASE i \in 1 .. n - 1
        <5>1. stack'[i].rest = stack[i].rest
          BY <1>2, <1>4, <3>2, <4>4
        <5> QED
          BY <1>6, <4>1, <4>2, <5>1
      <4> QED
        BY <1>2, <3>2, <4>3, <4>4
    <3> QED
      BY <1>4, <3>1, <3>2
  <2>2. \A i \in 1 .. n : stack'[i].block = stack[i].block /\ stack[i].block \in Range(order)
    BY <1>1, <1>2, <1>4 DEF Frames, n
  <2>3. stack'[n + 1].block = e
    BY <1>3, <1>4
  <2>4. ASSUME NEW i \in 1 .. n + 1, NEW j \in 1 .. n + 1, i < j
        PROVE  Num(order', stack'[i].block) < Num(order', stack'[j].block)
    <3>1. i \in 1 .. n
      BY <1>2, <2>4
    <3>2. CASE j = n + 1
      BY <1>6, <2>2, <2>3, <3>1, <3>2
    <3>3. CASE j \in 1 .. n
      <4>1. Num(order, stack[i].block) < Num(order, stack[j].block)
        BY <1>1, <2>4, <3>1, <3>3 DEF Frames, n
      <4> QED
        BY <1>6, <2>2, <3>1, <3>3, <4>1
    <3> QED
      BY <1>4, <3>2, <3>3
  <2>5. ASSUME NEW i \in 1 .. n + 1, NEW c \in Range(order'), Num(order', stack'[i].block) <= Num(order', c)
        PROVE  stack'[i].block \in Up(parent', c)
    <3>1. e \in Up(parent', e)
      BY <1>12
    <3>2. CASE i = n + 1
      <4>1. c = e
        <5> SUFFICES ASSUME c # e PROVE FALSE
          OBVIOUS
        <5>1. Num(order', c) < Num(order', e) /\ Num(order', e) <= Num(order', c)
          BY <1>6, <2>3, <2>5, <3>2
        <5>2. Num(order', c) \in Nat /\ Num(order', e) \in Nat
          BY <1>6, <1>11, TreeFacts
        <5> QED
          BY <5>1, <5>2
      <4> QED
        BY <2>3, <3>1, <3>2, <4>1
    <3>3. CASE i \in 1 .. n /\ c \in Range(order)
      <4>1. Num(order, stack[i].block) <= Num(order, c)
        BY <1>6, <2>2, <2>5, <3>3
      <4>2. stack[i].block \in Up(parent, c)
        BY <1>1, <3>3, <4>1 DEF Frames, n
      <4> QED
        BY <1>12, <2>2, <3>3, <4>2
    <3>4. CASE i \in 1 .. n /\ c = e
      <4>1. Num(order, stack[i].block) <= Num(order, t)
        <5>1. Num(order, stack[i].block) \in Nat /\ Num(order, t) \in Nat
          BY <1>1, <1>7, <2>2, <3>4, TreeFacts
        <5>2. i = n \/ Num(order, stack[i].block) < Num(order, stack[n].block)
          BY <1>1, <1>2, <3>4 DEF Frames, n
        <5> QED
          BY <1>7, <5>1, <5>2
      <4>2. stack[i].block \in Up(parent, t)
        BY <1>1, <1>7, <3>4, <4>1 DEF Frames, n
      <4> QED
        BY <1>12, <2>2, <3>4, <4>2
    <3> QED
      BY <1>4, <1>6, <3>2, <3>3, <3>4
  <2>6. \A a \in Up(parent', Top'.block) : OnStack(a)'
    <3>1. Top'.block = e
      BY <1>4, <2>3 DEF Top
    <3>2. \A a \in Up(parent, t) : OnStack(a)
      BY <1>1, <1>b DEF Frames
    <3>3. \A a \in {e} \cup Up(parent, t) : OnStack(a)'
      <4>1. ASSUME NEW a \in Up(parent, t) PROVE OnStack(a)'
        BY <1>15, <3>2
      <4> QED
        BY <1>15, <4>1
    <3> QED
      BY <1>12, <3>1, <3>3
  <2>7. \A a \in Range(order') : OnStack(a)' \/ SuccSet(succ, a) \subseteq Range(order')
    <3>1. \A a \in Range(order) : OnStack(a) \/ SuccSet(succ, a) \subseteq Range(order)
      BY <1>1 DEF Frames
    <3>2. ASSUME NEW a \in Range(order) PROVE OnStack(a)' \/ SuccSet(succ, a) \subseteq Range(order')
      BY <1>6, <1>15, <3>1
    <3>3. OnStack(e)'
      BY <1>15
    <3> QED
      BY <1>6, <3>2, <3>3
  <2> QED
    BY <1>1, <1>4, <2>1, <2>4, <2>5, <2>6, <2>7 DEF Frames
<1> QED
  BY <1>1, <1>6, <1>11, <1>13, <1>14, <1>16, VisitStep

\* Going to the node numbered i in step 2.
LEMMA GoToFacts ==
  ASSUME TypeInv, NEW i \in 2 .. Len(order), GoTo(i)
  PROVE  at' = i /\ pc' = "semi" /\ preds' \in Seq(Block) /\ Range(preds') = Sources(order[i])
<1>1. at' = i /\ pc' = "semi" /\ preds' = Preds(succ, order[i])
  BY DEF GoTo
<1>2. order[i] \in Block /\ succ \in Cfgs
  <2>1. i \in 1 .. Len(order) /\ order \in Seq(Block)
    BY DEF TypeInv
  <2> QED
    BY <2>1 DEF TypeInv
<1> QED
  BY <1>1, <1>2, PredsFacts DEF Sources

\* The end of the visit.
LEMMA NumberedInv == IInv /\ Numbered => IInv'
<1> SUFFICES ASSUME IInv, Numbered PROVE IInv'
  OBVIOUS
<1>1. /\ TypeInv /\ Frames /\ Tree(succ, order, parent) /\ DepthFirst(succ, order, parent)
      /\ pc = "preorder" /\ stack = <<>> /\ GoTo(Len(order))
      /\ UNCHANGED <<succ, order, stack, parent, ancestor, label, dom, sdom, bucket, idom>>
      /\ \A b \in Block : ~Linked(b) /\ label[b] = b
      /\ \A k \in 1 .. N : bucket[k] = <<>>
      /\ \A b \in Range(order) : sdom[b] = Num(order, b)
      /\ \A b \in Block \ (Range(order) \ {Root}) : idom[b] = Null
  BY DEF IInv, Numbered, Visit, Fresh, Finished, forest
<1>2. Spanning(succ, order, parent)
  <2>1. \A a : ~OnStack(a)
    BY <1>1 DEF OnStack
  <2> QED
    BY <1>1, <2>1 DEF Frames, Spanning
<1>3. Len(order) \in Nat \ {0} /\ order \in Seq(Block)
  BY <1>1, EmptySeq DEF Tree
<1>4. CASE Len(order) > 1
  <2>1. Len(order) \in 2 .. Len(order)
    BY <1>3, <1>4
  <2>2. at' = Len(order) /\ pc' = "semi" /\ preds' \in Seq(Block) /\ Range(preds') = Sources(order[Len(order)])
    BY <1>1, <2>1, GoToFacts
  <2> DEFINE v == order[Len(order)]
  <2>3. /\ v \in Range(order) /\ Num(order, v) = Len(order) /\ sdom[v] = Len(order)
        /\ \A b \in Range(order) : Num(order, b) \in 1 .. Len(order)
    BY <1>1, <1>3, TreeFacts
  <2>4. Sd(succ, order, v) <= sdom[v] /\ sdom[v] <= at'
    BY <1>1, <1>3, <2>2, <2>3, SdLeast
  <2>5. TypeInv' /\ Fresh' /\ Visit' /\ Finishing' /\ Finished'
    BY <1>1, <1>2, <1>3, <2>2 DEF TypeInv, Fresh, Visit, Finishing, Finished
  <2>6. Forest'
    <3>1. \A b \in Range(order) : ~(Num(order, b) > Len(order))
      BY <1>3, <2>3
    <3> QED
      BY <1>1, <2>1, <2>2, <3>1 DEF Forest, Linked
  <2>7. Semis'
    BY <1>1, <2>2, <2>4 DEF Semis, Linked, Sources
  <2>8. Buckets'
    <3>1. Range(<<>>) = {}
      BY DEF Range
    <3> QED
      BY <1>1, <2>2, <3>1 DEF Buckets, Linked
  <2> QED
    BY <2>5, <2>6, <2>7, <2>8 DEF IInv
<1>5. CASE Len(order) = 1
  <2>1. at' = 1 /\ pc' = "explicit" /\ preds' = <<>>
    BY <1>1, <1>5 DEF GoTo
  <2>2. \A b \in Range(order) : b = Root
    <3>1. \A b \in Range(order) : Num(order, b) = 1 /\ order[1] = Root /\ order[Num(order, b)] = b
      BY <1>1, <1>5, TreeFacts DEF Tree
    <3> QED
      BY <3>1
  <2>3. TypeInv' /\ Fresh' /\ Visit' /\ Finished'
    BY <1>1, <1>2, <1>3, <2>1, EmptySeq DEF TypeInv, Fresh, Visit, Finished
  <2>4. Finishing'
    <3>1. 1 \in 1 .. Len(order) + 1
      BY <1>5
    <3> QED
      BY <1>1, <1>5, <2>1, <2>2, <3>1 DEF Finishing
  <2>5. Forest' /\ Semis' /\ Buckets'
    BY <2>1 DEF Forest, Semis, Buckets
  <2> QED
    BY <2>3, <2>4, <2>5 DEF IInv
<1> QED
  BY <1>3, <1>4, <1>5

-----------------------------------------------------------------------------
(***************************************************************************)
(* The forest of steps 2 and 3: ancestors, labels and recursive calls.     *)
(***************************************************************************)
Linking == TypeInv /\ Visit /\ Forest /\ pc \in {"semi", "implicit"}

\* What the proofs of the loop of steps 2 and 3 need of the tree.
LEMMA LinkingTree ==
  ASSUME Linking
  PROVE  /\ Spanning(succ, order, parent) /\ Tree(succ, order, parent) /\ DepthFirst(succ, order, parent)
         /\ parent \in [Block -> Block \cup {Null}] /\ Range(order) \subseteq Block
         /\ at \in 2 .. Len(order) /\ at \in Nat
         /\ \A b \in Range(order) : Num(order, b) \in Nat
BY TreeFacts DEF Linking, TypeInv, Visit, Forest, Spanning

\* A linked node, its ancestor and its parent are in the order of their numbers.
LEMMA LinkedFacts ==
  ASSUME Linking, NEW b \in Block, Linked(b)
  PROVE  /\ b \in Range(order) \ {Root} /\ Num(order, b) >= at
         /\ Best(b, ancestor[b], label[b])
         /\ ancestor[b] \in Range(order) /\ Num(order, ancestor[b]) < Num(order, b)
         /\ parent[b] \in Range(order) /\ Num(order, parent[b]) < Num(order, b)
<1>1. b \in Range(order) /\ Num(order, b) >= at /\ Best(b, ancestor[b], label[b])
  BY LinkingTree DEF Linking, Forest
<1>2. b # Root
  BY <1>1, LinkingTree, RootUp
<1>3. ancestor[b] \in Range(order) /\ Num(order, ancestor[b]) < Num(order, b)
  BY <1>1, LinkingTree, UpNum DEF Best
<1>4. parent[b] \in Range(order) /\ Num(order, parent[b]) < Num(order, b)
  BY <1>1, <1>2, LinkingTree DEF Tree
<1> QED
  BY <1>1, <1>2, <1>3, <1>4

Height == [b \in Block |-> IF b \in Range(order) THEN Num(order, b) ELSE 0]

\* The pointers of the forest go down to smaller numbers.
LEMMA HeightFacts ==
  ASSUME Linking
  PROVE  /\ Height \in [Block -> Nat]
         /\ \A b \in Block : Linked(b) =>
              /\ ancestor[b] \in Block /\ Height[ancestor[b]] < Height[b]
              /\ parent[b] \in Block /\ Height[parent[b]] < Height[b]
         /\ \A b \in Block : ~AtTop(b) => Linked(b) /\ Linked(ancestor[b])
         /\ \A b \in Range(order) : Height[b] = Num(order, b)
<1>1. Height \in [Block -> Nat]
  BY LinkingTree DEF Height
<1>2. ASSUME NEW b \in Block, Linked(b)
      PROVE  /\ ancestor[b] \in Block /\ Height[ancestor[b]] < Height[b]
             /\ parent[b] \in Block /\ Height[parent[b]] < Height[b]
  BY <1>2, LinkingTree, LinkedFacts DEF Height
<1>3. \A b \in Block : ~AtTop(b) => Linked(b) /\ Linked(ancestor[b])
  BY DEF AtTop, Linked
<1> QED
  BY <1>1, <1>2, <1>3, LinkingTree DEF Height

\* The equations of the recursive functions have a solution.
LEMMA TreeRootRec ==
  ASSUME Linking
  PROVE  \A b \in Block : TreeRoot[b] = IF AtTop(b) THEN ancestor[b] ELSE TreeRoot[ancestor[b]]
<1> DEFINE V == Block \cup {Null}
           B(f, b) == IF AtTop(b) THEN ancestor[b] ELSE f[ancestor[b]]
           D == [b \in Block |-> [f \in [Block -> V] |-> B(f, b)]]
           is(f) == f = [b \in Block |-> B(f, b)]
           root == CHOOSE f : is(f)
<1>1. \A b \in Block : ~AtTop(b) => ancestor[b] \in Block /\ Height[ancestor[b]] < Height[b]
  BY HeightFacts
<1>2. ASSUME NEW b \in Block, NEW f \in [Block -> V] PROVE B(f, b) \in V
  BY <1>1 DEF Linking, TypeInv
<1>3. Grounded(Block, V, Height, D)
  <2>1. D \in [Block -> [[Block -> V] -> V]]
    <3> HIDE DEF B, V
    <3> QED
      BY <1>2
  <2>2. ASSUME NEW x \in Block, NEW f \in [Block -> V], NEW h \in [Block -> V],
               \A y \in Block : Height[y] < Height[x] => f[y] = h[y]
        PROVE  D[x][f] = D[x][h]
    <3>1. B(f, x) = B(h, x)
      BY <1>1, <2>2
    <3> HIDE DEF B, V
    <3> QED
      BY <3>1
  <2> HIDE DEF D, V
  <2> QED
    BY <2>1, <2>2, HeightFacts DEF Grounded
<1>4. \E f : is(f)
  <2>1. V # {}
    OBVIOUS
  <2>2. PICK f \in [Block -> V] : \A x \in Block : f[x] = D[x][f]
    <3> HIDE DEF D, V
    <3> QED
      BY <1>3, <2>1, RecursionExists
  <2>3. \A x \in Block : f[x] = B(f, x)
    <3> HIDE DEF B, V
    <3> QED
      BY <2>2
  <2>4. f = [b \in Block |-> B(f, b)]
    <3> HIDE DEF B, V
    <3> QED
      BY <2>3
  <2> QED
    BY <2>4
<1>5. is(root)
  <2> HIDE DEF is
  <2> QED
    BY <1>4
<1>6. TreeRoot = root
  BY DEF TreeRoot
<1> HIDE DEF root
<1> QED
  BY <1>5, <1>6

LEMMA LabelRec ==
  ASSUME Linking
  PROVE  \A b \in Block : Label[b] = IF AtTop(b) THEN label[b] ELSE Better(Label[ancestor[b]], label[b])
<1> DEFINE B(f, b) == IF AtTop(b) THEN label[b] ELSE Better(f[ancestor[b]], label[b])
           D == [b \in Block |-> [f \in [Block -> Block] |-> B(f, b)]]
           is(f) == f = [b \in Block |-> B(f, b)]
           lbl == CHOOSE f : is(f)
<1>1. \A b \in Block : ~AtTop(b) => ancestor[b] \in Block /\ Height[ancestor[b]] < Height[b]
  BY HeightFacts
<1>2. ASSUME NEW b \in Block, NEW f \in [Block -> Block] PROVE B(f, b) \in Block
  BY <1>1 DEF Linking, TypeInv, Better
<1>3. Grounded(Block, Block, Height, D)
  <2>1. D \in [Block -> [[Block -> Block] -> Block]]
    <3> HIDE DEF B
    <3> QED
      BY <1>2
  <2>2. ASSUME NEW x \in Block, NEW f \in [Block -> Block], NEW h \in [Block -> Block],
               \A y \in Block : Height[y] < Height[x] => f[y] = h[y]
        PROVE  D[x][f] = D[x][h]
    <3>1. B(f, x) = B(h, x)
      BY <1>1, <2>2
    <3> HIDE DEF B
    <3> QED
      BY <3>1
  <2> HIDE DEF D
  <2> QED
    BY <2>1, <2>2, HeightFacts DEF Grounded
<1>4. \E f : is(f)
  <2>1. PICK f \in [Block -> Block] : \A x \in Block : f[x] = D[x][f]
    <3>1. Block # {}
      BY RootBlock
    <3> HIDE DEF D
    <3> QED
      BY <1>3, <3>1, RecursionExists
  <2>2. \A x \in Block : f[x] = B(f, x)
    <3> HIDE DEF B
    <3> QED
      BY <2>1
  <2>3. f = [b \in Block |-> B(f, b)]
    <3> HIDE DEF B
    <3> QED
      BY <2>2
  <2> QED
    BY <2>3
<1>5. is(lbl)
  <2> HIDE DEF is
  <2> QED
    BY <1>4
<1>6. Label = lbl
  BY DEF Label
<1> HIDE DEF lbl
<1> QED
  BY <1>5, <1>6

LEMMA LinkedPathRec ==
  ASSUME Linking
  PROVE  \A b \in Block : LinkedPath[b] = IF Linked(b) THEN {b} \cup LinkedPath[parent[b]] ELSE {}
<1> DEFINE V == SUBSET Block
           B(f, b) == IF ancestor[b] = Null THEN {} ELSE {b} \cup f[parent[b]]
           D == [b \in Block |-> [f \in [Block -> V] |-> B(f, b)]]
           is(f) == f = [b \in Block |-> B(f, b)]
           path == CHOOSE f : is(f)
<1>1. \A b \in Block : ancestor[b] # Null => parent[b] \in Block /\ Height[parent[b]] < Height[b]
  BY HeightFacts DEF Linked
<1>2. ASSUME NEW b \in Block, NEW f \in [Block -> V] PROVE B(f, b) \in V
  BY <1>1 DEF Linking, TypeInv
<1>3. Grounded(Block, V, Height, D)
  <2>1. D \in [Block -> [[Block -> V] -> V]]
    <3> HIDE DEF B, V
    <3> QED
      BY <1>2
  <2>2. ASSUME NEW x \in Block, NEW f \in [Block -> V], NEW h \in [Block -> V],
               \A y \in Block : Height[y] < Height[x] => f[y] = h[y]
        PROVE  D[x][f] = D[x][h]
    <3>1. B(f, x) = B(h, x)
      BY <1>1, <2>2
    <3> HIDE DEF B, V
    <3> QED
      BY <3>1
  <2> HIDE DEF D, V
  <2> QED
    BY <2>1, <2>2, HeightFacts DEF Grounded
<1>4. \E f : is(f)
  <2>1. V # {}
    OBVIOUS
  <2>2. PICK f \in [Block -> V] : \A x \in Block : f[x] = D[x][f]
    <3> HIDE DEF D, V
    <3> QED
      BY <1>3, <2>1, RecursionExists
  <2>3. \A x \in Block : f[x] = B(f, x)
    <3> HIDE DEF B, V
    <3> QED
      BY <2>2
  <2>4. f = [b \in Block |-> B(f, b)]
    <3> HIDE DEF B, V
    <3> QED
      BY <2>3
  <2> QED
    BY <2>4
<1>5. is(path)
  <2> HIDE DEF is
  <2> QED
    BY <1>4
<1>6. LinkedPath = path
  BY DEF LinkedPath
<1> HIDE DEF path
<1> QED
  BY <1>5, <1>6 DEF Linked

-----------------------------------------------------------------------------
(***************************************************************************)
(* eval and compress.                                                      *)
(***************************************************************************)
\* compress leaves a root of the forest and the best label below it.
LEMMA CompressBest ==
  ASSUME Linking, NEW b \in Block, Linked(b)
  PROVE  /\ TreeRoot[b] \in Block /\ ~Linked(TreeRoot[b])
         /\ Best(b, TreeRoot[b], Label[b])
<1> DEFINE Right(x) == /\ TreeRoot[x] \in Block /\ ~Linked(TreeRoot[x])
                       /\ Best(x, TreeRoot[x], Label[x])
           Wrong == {x \in Block : Linked(x) /\ ~Right(x)}
<1>1. ASSUME NEW x \in Block, Linked(x), \A y \in Block : Linked(y) /\ Height[y] < Height[x] => Right(y)
      PROVE  Right(x)
  <2> DEFINE a == ancestor[x]
  <2>1. /\ x \in Range(order) /\ Best(x, a, label[x]) /\ a \in Range(order) /\ a \in Block
        /\ Num(order, a) < Num(order, x) /\ Height[a] < Height[x]
    BY <1>1, LinkedFacts, HeightFacts
  <2>2. CASE AtTop(x)
    <3>1. TreeRoot[x] = a /\ Label[x] = label[x]
      BY <2>2, TreeRootRec, LabelRec
    <3>2. ~Linked(a)
      BY <1>1, <2>2 DEF AtTop, Linked
    <3> QED
      BY <2>1, <3>1, <3>2
  <2>3. CASE ~AtTop(x)
    <3> DEFINE r == TreeRoot[a]
               k == Label[a]
    <3>1. Linked(a)
      BY <2>3, HeightFacts
    <3>2. r \in Block /\ ~Linked(r) /\ Best(a, r, k)
      BY <1>1, <2>1, <3>1
    <3>3. TreeRoot[x] = r /\ Label[x] = Better(k, label[x])
      BY <2>3, TreeRootRec, LabelRec
    <3> HIDE DEF r, k, a
    <3>4. /\ a \in Up(parent, x) /\ label[x] \in Up(parent, x) /\ Linked(label[x])
          /\ \A c \in Up(parent, x) : Num(order, c) > Num(order, a) => Linked(c) /\ sdom[label[x]] <= sdom[c]
      BY <2>1 DEF Best
    <3>5. /\ r \in Up(parent, a) /\ r # a /\ k \in Up(parent, a) /\ Linked(k)
          /\ \A c \in Up(parent, a) : Num(order, c) > Num(order, r) => Linked(c) /\ sdom[k] <= sdom[c]
      BY <3>2 DEF Best
    <3>6. Up(parent, a) \subseteq Up(parent, x) /\ Up(parent, x) \subseteq Range(order)
      BY <2>1, <3>4, LinkingTree, UpTrans, UpNum
    <3>7. r # x
      BY <2>1, <3>5, LinkingTree, UpNum
    <3>8. Better(k, label[x]) \in {k, label[x]}
      BY DEF Better
    <3>9. /\ \A c \in Range(order) : sdom[c] \in Nat /\ Num(order, c) \in Nat
          /\ k \in Range(order) /\ label[x] \in Range(order)
      BY <3>4, <3>5, <3>6, LinkingTree DEF Linking, TypeInv
    <3>10. sdom[Better(k, label[x])] <= sdom[k] /\ sdom[Better(k, label[x])] <= sdom[label[x]]
           /\ sdom[Better(k, label[x])] \in Nat
      BY <3>9 DEF Better
    <3>11. ASSUME NEW c \in Up(parent, x), Num(order, c) > Num(order, r)
           PROVE  Linked(c) /\ sdom[Better(k, label[x])] <= sdom[c]
      <4>1. c \in Range(order) /\ sdom[c] \in Nat
        BY <3>6, <3>9
      <4>2. CASE Num(order, c) > Num(order, a)
        <5>1. Linked(c) /\ sdom[label[x]] <= sdom[c]
          BY <3>4, <4>2
        <5> QED
          BY <3>9, <3>10, <4>1, <5>1
      <4>3. CASE Num(order, c) <= Num(order, a)
        <5>1. c \in Up(parent, a)
          BY <2>1, <3>4, <4>3, LinkingTree, UpOrder
        <5>2. Linked(c) /\ sdom[k] <= sdom[c]
          BY <3>5, <3>11, <5>1
        <5> QED
          BY <3>9, <3>10, <4>1, <5>2
      <4> QED
        BY <2>1, <3>9, <4>1, <4>2, <4>3
    <3> QED
      BY <3>2, <3>3, <3>4, <3>5, <3>6, <3>7, <3>8, <3>11 DEF Best
  <2> QED
    BY <2>2, <2>3
<1>2. Wrong = {}
  <2> SUFFICES ASSUME Wrong # {} PROVE FALSE
    OBVIOUS
  <2>1. PICK x \in Wrong : \A y \in Wrong : Height[x] <= Height[y]
    <3>1. Wrong \in SUBSET Block
      OBVIOUS
    <3> HIDE DEF Wrong
    <3> QED
      BY <3>1, HeightFacts, LeastMeasure
  <2>2. x \in Block /\ Linked(x) /\ ~Right(x)
    OBVIOUS
  <2>3. \A y \in Block : Linked(y) /\ Height[y] < Height[x] => Right(y)
    <3> SUFFICES ASSUME NEW y \in Block, Linked(y), Height[y] < Height[x], ~Right(y) PROVE FALSE
      OBVIOUS
    <3>1. y \in Wrong
      OBVIOUS
    <3>2. Height[x] <= Height[y] /\ Height[x] \in Nat /\ Height[y] \in Nat
      BY <2>1, <2>2, <3>1, HeightFacts
    <3> QED
      BY <3>2
  <2> HIDE DEF Right
  <2> QED
    BY <1>1, <2>2, <2>3
<1> QED
  BY <1>2

\* What eval returns for a linked node.
LEMMA EvalBest ==
  ASSUME Linking, NEW b \in Block, Linked(b), NEW u, u = Evaluated(b)
  PROVE  /\ u \in Up(parent, b) /\ Linked(u) /\ u \in Range(order)
         /\ \A c \in Up(parent, b) : Linked(c) => sdom[u] <= sdom[c]
<1>1. u = Label[b]
  BY DEF Evaluated, Linked
<1>2. TreeRoot[b] \in Block /\ ~Linked(TreeRoot[b]) /\ Best(b, TreeRoot[b], Label[b])
  BY CompressBest
<1>3. b \in Range(order) /\ Up(parent, b) \subseteq Range(order)
  BY LinkedFacts, LinkingTree, UpNum
<1> DEFINE r == TreeRoot[b]
<1>4. r \in Range(order) /\ u \in Up(parent, b) /\ Linked(u)
  BY <1>1, <1>2, <1>3 DEF Best
<1>5. ASSUME NEW c \in Up(parent, b), Linked(c) PROVE sdom[u] <= sdom[c]
  <2>1. Num(order, c) > Num(order, r)
    <3>1. c \in Range(order) /\ c \in Block /\ r \in Block
      BY <1>2, <1>3, LinkingTree
    <3>2. \A x \in Block : Linked(x) <=> x \in Range(order) /\ (Num(order, x) > at \/ (Num(order, x) = at /\ pc = "implicit"))
      BY DEF Linking, Forest
    <3>3. Num(order, c) \in Nat /\ Num(order, r) \in Nat /\ at \in Nat
      BY <1>4, <3>1, LinkingTree
    <3>4. Num(order, c) >= at
      BY <1>5, <3>1, <3>2, <3>3
    <3>5. Num(order, r) <= at /\ (Num(order, r) = at => pc # "implicit")
      BY <1>2, <1>4, <3>1, <3>2, <3>3
    <3>6. Num(order, c) = at => pc = "implicit"
      BY <1>5, <3>1, <3>2, <3>3
    <3> QED
      BY <3>3, <3>4, <3>5, <3>6
  <2> QED
    BY <1>1, <1>2, <2>1 DEF Best
<1> QED
  BY <1>3, <1>4, <1>5

\* compress keeps the invariant of the forest, whatever nodes it visits.
LEMMA CompressKeeps ==
  ASSUME Linking, NEW v, Compress(v)
  PROVE  /\ ancestor' \in [Block -> Block \cup {Null}] /\ label' \in [Block -> Block]
         /\ \A b \in Block : Linked(b)' <=> Linked(b)
         /\ \A b \in Block : ~Linked(b) => label'[b] = b
         /\ \A b \in Block : Linked(b) => Best(b, ancestor'[b], label'[b])
<1>1. ASSUME NEW b \in Block, ~Linked(b)
      PROVE  ancestor'[b] = Null /\ label'[b] = b
  <2>1. AtTop(b) /\ ancestor[b] = Null /\ label[b] = b
    BY <1>1 DEF AtTop, Linked, Linking, Forest
  <2>2. TreeRoot[b] = Null /\ Label[b] = b
    BY <2>1, TreeRootRec, LabelRec
  <2> QED
    BY <2>1, <2>2 DEF Compress
<1>2. ASSUME NEW b \in Block, Linked(b)
      PROVE  ancestor'[b] \in Block /\ label'[b] \in Block /\ Best(b, ancestor'[b], label'[b])
  <2>1. Best(b, ancestor[b], label[b]) /\ ancestor[b] \in Block /\ label[b] \in Block
    <3>1. ancestor[b] \in Range(order)
      BY <1>2, LinkedFacts
    <3> QED
      BY <1>2, <3>1, LinkedFacts, LinkingTree DEF Linking, TypeInv
  <2>2. TreeRoot[b] \in Block /\ Best(b, TreeRoot[b], Label[b])
    BY <1>2, CompressBest
  <2>3. Label[b] \in Block
    BY <2>2, UpSelf DEF Best
  <2>4. ancestor'[b] = (IF b \in Path[v] THEN TreeRoot[b] ELSE ancestor[b])
        /\ label'[b] = (IF b \in Path[v] THEN Label[b] ELSE label[b])
    BY DEF Compress
  <2> QED
    BY <2>1, <2>2, <2>3, <2>4
<1>3. ancestor' \in [Block -> Block \cup {Null}]
  <2>1. ancestor' = [c \in Block |-> IF c \in Path[v] THEN TreeRoot[c] ELSE ancestor[c]]
    BY DEF Compress
  <2>2. \A c \in Block : ancestor'[c] \in Block \cup {Null}
    BY <1>1, <1>2
  <2> QED
    BY <2>1, <2>2
<1>4. label' \in [Block -> Block]
  <2>1. label' = [c \in Block |-> IF c \in Path[v] THEN Label[c] ELSE label[c]]
    BY DEF Compress
  <2>2. \A c \in Block : label'[c] \in Block
    BY <1>1, <1>2
  <2> QED
    BY <2>1, <2>2
<1>5. \A b \in Block : Linked(b)' <=> Linked(b)
  BY <1>1, <1>2, RootBlock DEF Linked
<1> QED
  BY <1>1, <1>2, <1>3, <1>4, <1>5

-----------------------------------------------------------------------------
(***************************************************************************)
(* Step 2.                                                                 *)
(***************************************************************************)
\* The invariant gives the facts of that loop.
LEMMA InvLinking == ASSUME IInv, pc \in {"semi", "implicit"} PROVE Linking
BY DEF IInv, Linking

\* The other parts when the loop of steps 2 and 3 goes on.
LEMMA LoopStep ==
  ASSUME IInv, pc \in {"semi", "implicit"}, pc' \in {"semi", "implicit"},
         UNCHANGED <<succ, order, parent, idom>>, TypeInv', Forest', Semis', Buckets'
  PROVE  IInv'
<1>1. Fresh' /\ Visit' /\ Finishing' /\ Finished'
  BY DEF IInv, Fresh, Visit, Finishing, Finished
<1> QED
  BY <1>1 DEF IInv

\* A predecessor of the node at hand: step 2.
LEMMA SemiInv == IInv /\ Semi => IInv'
<1> SUFFICES ASSUME IInv, Semi PROVE IInv'
  OBVIOUS
<1>a. PICK v : v = Head(preds)
  OBVIOUS
<1>b. PICK x : x = order[at]
  OBVIOUS
<1>c. PICK u : u = Evaluated(v)
  OBVIOUS
<1>1. /\ pc = "semi" /\ pc' = "semi" /\ preds # <<>> /\ v \in Range(order) /\ Compress(v)
      /\ sdom' = (IF sdom[u] < sdom[x] THEN [sdom EXCEPT ![x] = sdom[u]] ELSE sdom)
      /\ preds' = Tail(preds)
      /\ UNCHANGED <<succ, order, stack, parent, dom, bucket, at, idom>>
  BY <1>a, <1>b, <1>c DEF Semi, Node, w
<1>2. /\ Linking /\ TypeInv /\ Forest /\ Semis /\ Buckets
  BY <1>1, InvLinking DEF IInv
<1>3. /\ Tree(succ, order, parent) /\ DepthFirst(succ, order, parent) /\ Range(order) \subseteq Block
      /\ at \in 2 .. Len(order) /\ at \in Nat /\ x \in Range(order) /\ Num(order, x) = at /\ x \in Block
      /\ \A b \in Range(order) : Num(order, b) \in Nat /\ Sd(succ, order, b) \in Nat
      /\ sdom \in [Block -> Nat]
  <2>1. Tree(succ, order, parent) /\ DepthFirst(succ, order, parent) /\ at \in 2 .. Len(order) /\ at \in Nat
    BY <1>2, LinkingTree
  <2>2. at \in 1 .. Len(order)
    BY <2>1
  <2> QED
    BY <1>2, <1>b, <2>1, <2>2, TreeFacts, SdLeast DEF TypeInv
<1>4. /\ preds \in Seq(Block) /\ Range(preds) = {v} \cup Range(Tail(preds)) /\ v \in Range(preds)
      /\ Tail(preds) \in Seq(Block)
  BY <1>a, <1>1, <1>2, TailRange DEF TypeInv
<1>5. /\ Sd(succ, order, x) <= sdom[x] /\ sdom[x] <= at
      /\ Range(preds) \subseteq Sources(x)
      /\ \A c \in Sources(x) \ Range(preds) :
            /\ c \in Range(order)
            /\ Num(order, c) < at => sdom[x] <= Num(order, c)
            /\ \A y \in Up(parent, c) : Num(order, y) > at => sdom[x] <= Sd(succ, order, y)
      /\ \A b \in Block : Linked(b) => sdom[b] = Sd(succ, order, b) /\ Sources(b) \subseteq Range(order)
      /\ \A b \in Range(order) : ~Linked(b) /\ Num(order, b) # at => sdom[b] = Num(order, b)
  BY <1>1, <1>2, <1>b DEF Semis
<1>6. /\ \A b \in Block : Linked(b) <=> b \in Range(order) /\ Num(order, b) > at
      /\ ~Linked(x) /\ v \in Block /\ x \in SuccSet(succ, v)
  <2>1. \A b \in Block : Linked(b) <=> b \in Range(order) /\ (Num(order, b) > at \/ (Num(order, b) = at /\ pc = "implicit"))
    BY <1>1, <1>2 DEF Forest
  <2> QED
    BY <1>1, <1>3, <1>4, <1>5, <2>1 DEF Sources
<1>7. /\ u \in Range(order)
      /\ Linked(v) => /\ u \in Up(parent, v) /\ Linked(u)
                      /\ \A c \in Up(parent, v) : Linked(c) => sdom[u] <= sdom[c]
      /\ ~Linked(v) => u = v
  <2>1. CASE Linked(v)
    BY <1>2, <1>6, <1>c, <2>1, EvalBest
  <2>2. CASE ~Linked(v)
    BY <1>1, <1>c, <2>2 DEF Evaluated, Linked
  <2> QED
    BY <2>1, <2>2
<1>8. /\ ancestor' \in [Block -> Block \cup {Null}] /\ label' \in [Block -> Block]
      /\ \A b \in Block : Linked(b)' <=> Linked(b)
      /\ \A b \in Block : ~Linked(b) => label'[b] = b
      /\ \A b \in Block : Linked(b) => Best(b, ancestor'[b], label'[b])
  BY <1>1, <1>2, CompressKeeps
<1>9. /\ sdom' \in [Block -> Nat] /\ \A b \in Block : b # x => sdom'[b] = sdom[b]
      /\ sdom'[x] <= sdom[x] /\ sdom'[x] <= sdom[u] /\ sdom'[x] \in {sdom[x], sdom[u]}
      /\ sdom'[x] \in Nat /\ sdom[x] \in Nat /\ sdom[u] \in Nat
  <2>1. sdom[u] \in Nat /\ sdom[x] \in Nat
    BY <1>3, <1>7
  <2>2. CASE sdom[u] < sdom[x]
    BY <1>1, <1>3, <2>1, <2>2
  <2>3. CASE ~(sdom[u] < sdom[x])
    BY <1>1, <1>3, <2>1, <2>3
  <2> QED
    BY <2>2, <2>3
<1>10. TypeInv'
  BY <1>1, <1>2, <1>4, <1>8, <1>9 DEF TypeInv
<1>11. Forest'
  <2>1. ASSUME NEW b \in Block, Linked(b)' PROVE Best(b, ancestor[b], label[b])'
    <3>1. Linked(b) /\ Best(b, ancestor'[b], label'[b])
      BY <1>8, <2>1
    <3>2. \A c \in Up(parent, b) : c \in Block
      BY UpSelf
    <3>3. \A c \in Block : Linked(c) => sdom'[c] = sdom[c]
      BY <1>6, <1>9
    <3>4. \A c \in Block : Linked(c) => Linked(c)'
      BY <1>8
    <3>5. /\ ancestor'[b] \in Up(parent, b) /\ ancestor'[b] # b
          /\ label'[b] \in Up(parent, b) /\ Linked(label'[b])
          /\ \A c \in Up(parent, b) : Num(order, c) > Num(order, ancestor'[b]) => Linked(c) /\ sdom[label'[b]] <= sdom[c]
      BY <3>1 DEF Best
    <3>6. ancestor'[label'[b]] # Null
      BY <3>2, <3>4, <3>5 DEF Linked
    <3>7. \A c \in Up(parent, b) : Num(order, c) > Num(order, ancestor'[b]) => ancestor'[c] # Null /\ sdom'[label'[b]] <= sdom'[c]
      BY <3>2, <3>3, <3>4, <3>5 DEF Linked
    <3> QED
      BY <1>1, <3>5, <3>6, <3>7 DEF Best, Linked
  <2>2. \A b \in Block : Linked(b)' <=> b \in Range(order) /\ (Num(order, b) > at \/ (Num(order, b) = at /\ pc' = "implicit"))
    BY <1>1, <1>6, <1>8
  <2>3. \A b \in Block : ~Linked(b)' => label'[b] = b
    BY <1>8
  <2> QED
    BY <1>1, <1>3, <2>1, <2>2, <2>3 DEF Forest
<1>12. Sd(succ, order, x) <= sdom'[x] /\ sdom'[x] <= at
  <2>1. Sd(succ, order, x) <= sdom[u]
    <3>1. CASE Linked(v)
      <4>1. u \in Up(parent, v) /\ Linked(u) /\ u \in Block
        BY <1>3, <1>7, <3>1
      <4>2. sdom[u] = Sd(succ, order, u) /\ Num(order, x) < Num(order, u)
        BY <1>3, <1>5, <1>6, <4>1
      <4>3. Sd(succ, order, x) <= Sd(succ, order, u)
        BY <1>1, <1>3, <1>6, <4>1, <4>2, SdSpread
      <4> QED
        BY <4>2, <4>3
    <3>2. CASE ~Linked(v) /\ v # x
      <4>1. Num(order, v) # at
        BY <1>1, <1>3, <3>2, TreeFacts
      <4>2. sdom[u] = Num(order, v)
        BY <1>1, <1>5, <1>7, <3>2, <4>1
      <4>3. Sd(succ, order, x) <= Num(order, v)
        BY <1>1, <1>3, <1>6, SdEdge
      <4> QED
        BY <4>2, <4>3
    <3>3. CASE v = x
      BY <1>5, <1>6, <1>7, <3>3
    <3> QED
      BY <3>1, <3>2, <3>3
  <2> QED
    BY <1>3, <1>5, <1>9, <2>1
<1>13. ASSUME NEW c \in Sources(x) \ Range(preds')
       PROVE  /\ c \in Range(order)
              /\ Num(order, c) < at => sdom'[x] <= Num(order, c)
              /\ \A y \in Up(parent, c) : Num(order, y) > at => sdom'[x] <= Sd(succ, order, y)
  <2>1. c = v \/ c \in Sources(x) \ Range(preds)
    BY <1>1, <1>4
  <2>2. CASE c # v
    <3>1. /\ c \in Range(order)
          /\ Num(order, c) < at => sdom[x] <= Num(order, c)
          /\ \A y \in Up(parent, c) : Num(order, y) > at => sdom[x] <= Sd(succ, order, y)
      BY <1>5, <2>1, <2>2
    <3>2. \A y \in Up(parent, c) : y \in Range(order)
      BY <1>3, <3>1, UpNum
    <3> QED
      BY <1>3, <1>9, <3>1, <3>2
  <2>3. CASE c = v
    <3>1. v \in Range(order) /\ \A y \in Up(parent, v) : y \in Range(order) /\ Num(order, y) <= Num(order, v)
      BY <1>1, <1>3, UpNum
    <3>2. CASE Linked(v)
      <4>1. ~(Num(order, v) < at)
        BY <1>3, <1>6, <3>1, <3>2
      <4>2. ASSUME NEW y \in Up(parent, v), Num(order, y) > at PROVE sdom'[x] <= Sd(succ, order, y)
        <5>1. Linked(y) /\ y \in Block /\ y \in Range(order)
          BY <1>3, <1>6, <3>1, <4>2
        <5>2. sdom[y] = Sd(succ, order, y) /\ sdom[u] <= sdom[y]
          BY <1>5, <1>7, <3>2, <5>1
        <5> QED
          BY <1>3, <1>9, <5>1, <5>2
      <4> QED
        BY <2>3, <3>1, <4>1, <4>2
    <3>3. CASE ~Linked(v)
      <4>1. Num(order, v) <= at
        BY <1>3, <1>6, <3>1, <3>3
      <4>2. \A y \in Up(parent, v) : ~(Num(order, y) > at)
        BY <1>3, <3>1, <4>1
      <4>3. Num(order, v) < at => sdom'[x] <= Num(order, v)
        <5> SUFFICES ASSUME Num(order, v) < at PROVE sdom'[x] <= Num(order, v)
          OBVIOUS
        <5>1. Num(order, v) # at
          BY <1>3, <3>1
        <5>2. sdom[u] = Num(order, v)
          BY <1>5, <1>7, <3>1, <3>3, <5>1
        <5> QED
          BY <1>9, <5>2
      <4> QED
        BY <2>3, <3>1, <4>2, <4>3
    <3> QED
      BY <3>2, <3>3
  <2> QED
    BY <2>2, <2>3
<1>14. Semis'
  <2>1. \A b \in Block : Linked(b)' => sdom'[b] = Sd(succ, order, b) /\ Sources(b) \subseteq Range(order)
    BY <1>5, <1>6, <1>8, <1>9
  <2>2. \A b \in Range(order) : ~Linked(b)' /\ Num(order, b) # at => sdom'[b] = Num(order, b)
    BY <1>3, <1>5, <1>8, <1>9
  <2>3. Range(preds') \subseteq Sources(x)
    BY <1>1, <1>4, <1>5
  <2>4. order'[at'] = x
    BY <1>1, <1>b
  <2>5. \A b : Sources(b)' = Sources(b)
    BY <1>1 DEF Sources
  <2> QED
    BY <1>1, <1>12, <1>13, <2>1, <2>2, <2>3, <2>4, <2>5 DEF Semis
<1>15. Buckets'
  <2>1. /\ \A n \in 1 .. N : \A y \in Range(bucket[n]) : Linked(y) /\ sdom[y] = n
        /\ \A y \in Block : Linked(y) => y \in Range(bucket[sdom[y]]) \/ Deferred(y)
        /\ \A y \in Block : Linked(y) => \A c \in Up(parent, y) :
             Num(order, c) > at /\ parent[c] = order[sdom[y]] => y \notin Range(bucket[sdom[y]])
    BY <1>1, <1>2 DEF Buckets
  <2>2. \A n \in 1 .. N : Range(bucket[n]) \subseteq Block
    BY <1>2 DEF TypeInv, Range
  <2>3. \A y \in Block : Linked(y) => sdom'[y] = sdom[y]
    BY <1>6, <1>9
  <2>4. \A y : Deferred(y) => Deferred(y)'
    BY <1>1 DEF Deferred
  <2>5. \A n \in 1 .. N : \A y \in Range(bucket[n]) : Linked(y)' /\ sdom'[y] = n
    BY <1>8, <2>1, <2>2, <2>3
  <2>6. \A y \in Block : Linked(y)' => y \in Range(bucket[sdom'[y]]) \/ Deferred(y)'
    BY <1>8, <2>1, <2>3, <2>4
  <2>7. \A y \in Block : Linked(y)' => \A c \in Up(parent, y) :
             Num(order, c) > at /\ parent[c] = order[sdom'[y]] => y \notin Range(bucket[sdom'[y]])
    BY <1>8, <2>1, <2>3
  <2> QED
    BY <1>1, <2>5, <2>6, <2>7 DEF Buckets
<1> QED
  BY <1>1, <1>10, <1>11, <1>14, <1>15, LoopStep

\* The call of eval on an unreachable predecessor.
LEMMA CrashInv == IInv /\ Crash => IInv'
<1> SUFFICES ASSUME IInv, Crash PROVE IInv'
  OBVIOUS
<1>a. PICK v : v = Head(preds)
  OBVIOUS
<1>1. /\ pc = "semi" /\ pc' = "crash" /\ preds # <<>> /\ v \notin Range(order)
      /\ UNCHANGED <<succ, order, stack, parent, ancestor, label, dom, sdom, bucket, at, preds, idom>>
  BY <1>a DEF Crash, Node, forest
<1>2. Linking /\ TypeInv /\ Semis /\ Finished
  BY <1>1, InvLinking DEF IInv
<1>3. order[at] \in Range(order) \ {Root}
  <2>1. Tree(succ, order, parent) /\ at \in 2 .. Len(order) /\ at \in 1 .. Len(order) /\ at # 1
    BY <1>2, LinkingTree
  <2>2. order[at] \in Range(order) /\ Num(order, order[at]) = at
    BY <2>1, TreeFacts
  <2> QED
    BY <2>1, <2>2, RootUp
<1>4. v \in Sources(order[at])
  <2>1. v \in Range(preds)
    <3>1. preds \in Seq(Block) /\ Len(preds) \in Nat \ {0}
      BY <1>1, <1>2, EmptySeq DEF TypeInv
    <3>2. v = preds[1] /\ 1 \in DOMAIN preds
      BY <1>a, <3>1
    <3> QED
      BY <3>2 DEF Range
  <2> QED
    BY <1>1, <1>2, <2>1 DEF Semis
<1>5. ~(Sources(order[at]) \subseteq Range(order))
  BY <1>1, <1>4
<1>6. Finished'
  <2>1. Sources(order[at])' = Sources(order[at])
    BY <1>1 DEF Sources
  <2>2. PICK b : b = order[at]
    OBVIOUS
  <2>3. ~(Sources(b)' \subseteq Range(order))
    BY <1>1, <1>5, <2>2 DEF Sources
  <2> QED
    BY <1>1, <1>2, <1>3, <2>2, <2>3 DEF Finished
<1>7. TypeInv' /\ Fresh' /\ Visit' /\ Forest' /\ Semis' /\ Buckets' /\ Finishing'
  BY <1>1 DEF IInv, TypeInv, Fresh, Visit, Forest, Semis, Buckets, Finishing
<1> QED
  BY <1>6, <1>7 DEF IInv

\* Sources of a node that step 2 is over for give its semidominator.
LEMMA SemiFound ==
  ASSUME IInv, pc = "semi", preds = <<>>
  PROVE  sdom[order[at]] = Sd(succ, order, order[at]) /\ Sources(order[at]) \subseteq Range(order)
<1>a. PICK x : x = order[at]
  OBVIOUS
<1>1. Linking /\ TypeInv /\ Semis
  BY InvLinking DEF IInv
<1>2. /\ Tree(succ, order, parent) /\ DepthFirst(succ, order, parent) /\ Range(order) \subseteq Block
      /\ x \in Range(order) /\ Num(order, x) = at /\ sdom[x] \in Nat
      /\ Sd(succ, order, x) \in Nat
  <2>1. Tree(succ, order, parent) /\ DepthFirst(succ, order, parent) /\ at \in 1 .. Len(order)
    BY <1>1, LinkingTree
  <2> QED
    BY <1>1, <1>a, <2>1, TreeFacts, SdLeast DEF TypeInv
<1>3. /\ Sd(succ, order, x) <= sdom[x] /\ sdom[x] <= Num(order, x)
      /\ \A c \in Sources(x) :
            /\ c \in Range(order)
            /\ Num(order, c) < Num(order, x) => sdom[x] <= Num(order, c)
            /\ \A y \in Up(parent, c) : Num(order, y) > Num(order, x) => sdom[x] <= Sd(succ, order, y)
  <2>1. Range(<<>>) = {}
    BY DEF Range
  <2> QED
    BY <1>1, <1>2, <1>a, <2>1 DEF Semis
<1>4. \A v \in Range(order) : x \in SuccSet(succ, v) =>
           /\ Num(order, v) < Num(order, x) => sdom[x] <= Num(order, v)
           /\ \A u \in Up(parent, v) : Num(order, u) > Num(order, x) => sdom[x] <= Sd(succ, order, u)
  BY <1>2, <1>3 DEF Sources
<1>5. sdom[x] <= Sd(succ, order, x)
  BY <1>2, <1>3, <1>4, SdBelow
<1> QED
  BY <1>2, <1>3, <1>5, <1>a

\* Step 2 is over for the node at hand: it goes to a bucket and into the forest.
LEMMA LinkInv == IInv /\ Link => IInv'
<1> SUFFICES ASSUME IInv, Link PROVE IInv'
  OBVIOUS
<1>a. PICK x : x = order[at]
  OBVIOUS
<1>1. /\ pc = "semi" /\ pc' = "implicit" /\ preds = <<>>
      /\ bucket' = [bucket EXCEPT ![sdom[x]] = Append(@, x)]
      /\ ancestor' = [ancestor EXCEPT ![x] = parent[x]]
      /\ UNCHANGED <<succ, order, stack, parent, label, dom, sdom, at, preds, idom>>
  BY <1>a DEF Link, w
<1>2. Linking /\ TypeInv /\ Forest /\ Semis /\ Buckets
  BY <1>1, InvLinking DEF IInv
<1>3. /\ Tree(succ, order, parent) /\ Range(order) \subseteq Block
      /\ at \in 2 .. Len(order) /\ at \in Nat /\ x \in Range(order) /\ Num(order, x) = at /\ x \in Block
      /\ \A b \in Range(order) : Num(order, b) \in Nat
      /\ sdom \in [Block -> Nat] /\ parent \in [Block -> Block \cup {Null}] /\ x # Root
  <2>1. /\ Tree(succ, order, parent) /\ at \in 2 .. Len(order) /\ at \in Nat /\ at \in 1 .. Len(order)
        /\ at # 1
    BY <1>2, LinkingTree
  <2>2. x \in Range(order) /\ Num(order, x) = at /\ Range(order) \subseteq Block
    BY <1>a, <2>1, TreeFacts
  <2>3. x # Root
    BY <2>1, <2>2, RootUp
  <2> QED
    BY <1>2, <2>1, <2>2, <2>3, TreeFacts DEF TypeInv
<1>4. sdom[x] = Sd(succ, order, x) /\ Sources(x) \subseteq Range(order)
  BY <1>1, <1>a, SemiFound
<1>5. sdom[x] \in 1 .. N
  <2>1. Sd(succ, order, x) \in 1 .. Len(order)
    BY <1>3, SdLeast
  <2>2. Len(order) <= N /\ Len(order) \in Nat /\ N \in Nat
    BY <1>3, TreeFacts, LenBound, SizeAssumption
  <2> QED
    BY <1>4, <2>1, <2>2
<1>6. /\ \A b \in Block : Linked(b) <=> b \in Range(order) /\ Num(order, b) > at
      /\ ~Linked(x) /\ label[x] = x
      /\ \A b \in Block : ~Linked(b) => label[b] = b
      /\ \A b \in Block : Linked(b) => Best(b, ancestor[b], label[b])
  <2>1. \A b \in Block : Linked(b) <=> b \in Range(order) /\ (Num(order, b) > at \/ (Num(order, b) = at /\ pc = "implicit"))
    BY <1>1, <1>2 DEF Forest
  <2>2. \A b \in Block : Linked(b) <=> b \in Range(order) /\ Num(order, b) > at
    BY <1>1, <2>1
  <2> QED
    BY <1>1, <1>2, <1>3, <2>2 DEF Forest
<1>7. parent[x] \in Block /\ parent[x] # Null /\ parent[x] \in Range(order) /\ Num(order, parent[x]) < at
  <2>1. parent[x] \in Range(order) /\ Num(order, parent[x]) < Num(order, x)
    BY <1>3 DEF Tree
  <2> QED
    BY <1>3, <2>1, RootBlock
<1>8. /\ \A b \in Block : b # x => ancestor'[b] = ancestor[b]
      /\ ancestor'[x] = parent[x] /\ ancestor' \in [Block -> Block \cup {Null}]
  BY <1>1, <1>2, <1>3, <1>7 DEF TypeInv
<1>9. \A b \in Block : Linked(b)' <=> Linked(b) \/ b = x
  BY <1>7, <1>8 DEF Linked
<1>10. /\ bucket' \in [1 .. N -> Seq(Block)]
       /\ \A n \in 1 .. N : n # sdom[x] => Range(bucket'[n]) = Range(bucket[n])
       /\ Range(bucket'[sdom[x]]) = Range(bucket[sdom[x]]) \cup {x}
  <2>1. PICK t \in Seq(Block) : t = bucket[sdom[x]]
    BY <1>2, <1>5 DEF TypeInv
  <2>2. Append(t, x) \in Seq(Block) /\ Range(Append(t, x)) = Range(t) \cup {x}
    <3>1. /\ Append(t, x) \in Seq(Block) /\ DOMAIN Append(t, x) = 1 .. Len(t) + 1 /\ Append(t, x)[Len(t) + 1] = x
          /\ DOMAIN t = 1 .. Len(t) /\ \A i \in 1 .. Len(t) : Append(t, x)[i] = t[i]
          /\ Len(t) + 1 \in 1 .. Len(t) + 1
          /\ \A i \in 1 .. Len(t) + 1 : i \in 1 .. Len(t) \/ i = Len(t) + 1
          /\ \A i \in 1 .. Len(t) : i \in 1 .. Len(t) + 1
      BY <1>3
    <3> QED
      BY <3>1 DEF Range
  <2>3. bucket \in [1 .. N -> Seq(Block)]
    BY <1>2 DEF TypeInv
  <2>4. bucket' \in [1 .. N -> Seq(Block)] /\ bucket'[sdom[x]] = Append(t, x)
        /\ \A n \in 1 .. N : n # sdom[x] => bucket'[n] = bucket[n]
    BY <1>1, <1>5, <2>1, <2>2, <2>3
  <2> QED
    BY <2>1, <2>2, <2>4
<1>11. TypeInv'
  BY <1>1, <1>2, <1>8, <1>10 DEF TypeInv
<1>12. Forest'
  <2>1. ASSUME NEW b \in Block, Linked(b)' PROVE Best(b, ancestor[b], label[b])'
    <3>1. CASE b = x
      <4>1. Up(parent, x) = {x} \cup Up(parent, parent[x]) /\ parent[x] \in Up(parent, x) /\ x \in Up(parent, x)
        BY <1>3, <1>7, UpStep
      <4>2. \A c \in Up(parent, x) : Num(order, c) > Num(order, parent[x]) => c = x
        <5> SUFFICES ASSUME NEW c \in Up(parent, parent[x]) PROVE ~(Num(order, c) > Num(order, parent[x]))
          BY <4>1
        <5>1. c \in Range(order) /\ Num(order, c) <= Num(order, parent[x])
          BY <1>3, <1>7, UpNum
        <5> QED
          BY <1>3, <1>7, <5>1
      <4>3. parent[x] # x /\ sdom[x] <= sdom[x]
        BY <1>3, <1>7
      <4> QED
        BY <1>1, <1>6, <1>7, <1>8, <3>1, <4>1, <4>2, <4>3 DEF Best, Linked
    <3>2. CASE b # x
      <4>1. /\ ancestor[b] \in Up(parent, b) /\ ancestor[b] # b
            /\ label[b] \in Up(parent, b) /\ Linked(label[b])
            /\ \A c \in Up(parent, b) : Num(order, c) > Num(order, ancestor[b]) => Linked(c) /\ sdom[label[b]] <= sdom[c]
        BY <1>6, <1>9, <2>1, <3>2 DEF Best
      <4>2. ancestor'[b] = ancestor[b]
        BY <1>8, <3>2
      <4>3. \A c \in Up(parent, b) : Linked(c) => ancestor'[c] # Null
        <5>1. \A c \in Up(parent, b) : c \in Block
          BY UpSelf
        <5> QED
          BY <1>9, <5>1 DEF Linked
      <4> QED
        BY <1>1, <4>1, <4>2, <4>3 DEF Best, Linked
    <3> QED
      BY <3>1, <3>2
  <2>2. \A b \in Block : Linked(b)' <=> b \in Range(order) /\ (Num(order, b) > at \/ (Num(order, b) = at /\ pc' = "implicit"))
    <3>1. \A b \in Range(order) : Num(order, b) = at => b = x
      BY <1>3, TreeFacts
    <3> QED
      BY <1>1, <1>3, <1>6, <1>9, <3>1
  <2>3. \A b \in Block : ~Linked(b)' => label'[b] = b
    BY <1>1, <1>6, <1>9
  <2> QED
    BY <1>1, <1>3, <2>1, <2>2, <2>3 DEF Forest
<1>13. Semis'
  <2>1. /\ \A b \in Block : Linked(b) => sdom[b] = Sd(succ, order, b) /\ Sources(b) \subseteq Range(order)
        /\ \A b \in Range(order) : ~Linked(b) /\ Num(order, b) # at => sdom[b] = Num(order, b)
    BY <1>1, <1>2 DEF Semis
  <2>2. \A b \in Block : Linked(b)' => sdom[b] = Sd(succ, order, b) /\ Sources(b) \subseteq Range(order)
    BY <1>4, <1>9, <2>1
  <2>3. \A b \in Range(order) : ~Linked(b)' /\ Num(order, b) # at => sdom[b] = Num(order, b)
    BY <1>3, <1>9, <2>1
  <2>4. \A b : Sources(b)' = Sources(b)
    BY <1>1 DEF Sources
  <2> QED
    BY <1>1, <2>2, <2>3, <2>4 DEF Semis
<1>14. Buckets'
  <2>1. /\ \A n \in 1 .. N : \A y \in Range(bucket[n]) : Linked(y) /\ sdom[y] = n
        /\ \A y \in Block : Linked(y) => y \in Range(bucket[sdom[y]]) \/ Deferred(y)
        /\ \A y \in Block : Linked(y) => \A c \in Up(parent, y) :
             Num(order, c) > at /\ parent[c] = order[sdom[y]] => y \notin Range(bucket[sdom[y]])
    BY <1>1, <1>2 DEF Buckets
  <2>2. \A n \in 1 .. N : Range(bucket[n]) \subseteq Block
    BY <1>2 DEF TypeInv, Range
  <2>3. ASSUME NEW n \in 1 .. N, NEW y \in Range(bucket'[n]) PROVE Linked(y)' /\ sdom[y] = n
    <3>1. CASE y \in Range(bucket[n])
      BY <1>9, <2>1, <2>2, <3>1
    <3>2. CASE y \notin Range(bucket[n])
      <4>1. y = x /\ n = sdom[x]
        BY <1>10, <2>3, <3>2
      <4> QED
        BY <1>3, <1>9, <4>1
    <3> QED
      BY <3>1, <3>2
  <2>4. ASSUME NEW y \in Block, Linked(y)' PROVE y \in Range(bucket'[sdom[y]]) \/ Deferred(y)'
    <3>1. CASE y = x
      BY <1>10, <3>1
    <3>2. CASE Linked(y)
      <4>1. CASE y \in Range(bucket[sdom[y]])
        <5>1. sdom[y] \in 1 .. N
          <6>1. y \in Range(order) /\ Tree(succ, order, parent) /\ sdom[y] = Sd(succ, order, y)
            BY <1>1, <1>2, <1>3, <1>6, <3>2 DEF Semis
          <6>2. Sd(succ, order, y) \in 1 .. Len(order) /\ Len(order) <= N /\ Len(order) \in Nat /\ N \in Nat
            BY <6>1, SdLeast, TreeFacts, LenBound, SizeAssumption
          <6> QED
            BY <6>1, <6>2
        <5> QED
          BY <1>10, <4>1, <5>1
      <4>2. CASE Deferred(y)
        BY <1>1, <4>2 DEF Deferred
      <4> QED
        BY <2>1, <3>2, <4>1, <4>2
    <3> QED
      BY <1>9, <2>4, <3>1, <3>2
  <2>5. ASSUME NEW y \in Block, Linked(y)', NEW c \in Up(parent, y), Num(order, c) > at, parent[c] = order[sdom[y]],
               y \in Range(bucket'[sdom[y]])
        PROVE  FALSE
    <3>1. CASE y = x
      <4>1. Num(order, c) <= at /\ c \in Range(order)
        BY <1>3, <2>5, <3>1, UpNum
      <4> QED
        BY <1>3, <2>5, <4>1
    <3>2. CASE y # x
      <4>1. Linked(y)
        BY <1>9, <2>5, <3>2
      <4>2. y \notin Range(bucket[sdom[y]])
        BY <2>1, <2>5, <4>1
      <4>3. sdom[y] \in 1 .. N
        <5>1. y \in Range(order) /\ sdom[y] = Sd(succ, order, y)
          BY <1>1, <1>2, <1>3, <1>6, <4>1 DEF Semis
        <5>2. Sd(succ, order, y) \in 1 .. Len(order) /\ Len(order) <= N /\ Len(order) \in Nat /\ N \in Nat
          BY <1>3, <5>1, SdLeast, TreeFacts, LenBound, SizeAssumption
        <5> QED
          BY <5>1, <5>2
      <4> QED
        BY <1>10, <2>5, <3>2, <4>2, <4>3
    <3> QED
      BY <3>1, <3>2
  <2> QED
    BY <1>1, <2>3, <2>4, <2>5 DEF Buckets
<1> QED
  BY <1>1, <1>11, <1>12, <1>13, <1>14, LoopStep

-----------------------------------------------------------------------------
(***************************************************************************)
(* Step 3.                                                                 *)
(***************************************************************************)
\* The number that the code keeps is the place in the order.
LEMMA DfsIsNum == \A b : Dfs(b) = Num(order, b)
BY DEF Dfs, Num

\* A node in the bucket of the parent of the node at hand is a descendant of
\* that node, and all the nodes on the way to it are linked.
LEMMA InSubtree ==
  ASSUME IInv, pc = "implicit", NEW x, x = order[at], NEW v \in Range(bucket[Num(order, parent[x])])
  PROVE  /\ v \in Block /\ Linked(v) /\ x \in Up(parent, v)
         /\ sdom[v] = Num(order, parent[x]) /\ sdom[v] = Sd(succ, order, v) /\ order[Sd(succ, order, v)] = parent[x]
         /\ \A c \in Up(parent, v) : Num(order, c) > sdom[v] => Linked(c)
         /\ \A c \in Up(parent, v) : Linked(c) => Num(order, c) > sdom[v]
<1> DEFINE s == parent[x]
           k == Num(order, s)
<1>1. Linking /\ TypeInv /\ Forest /\ Semis /\ Buckets
  BY InvLinking DEF IInv
<1>2. /\ Tree(succ, order, parent) /\ DepthFirst(succ, order, parent) /\ Range(order) \subseteq Block
      /\ at \in Nat /\ x \in Range(order) /\ Num(order, x) = at /\ x \in Block
      /\ \A b \in Range(order) : Num(order, b) \in Nat
      /\ parent \in [Block -> Block \cup {Null}] /\ x # Root
  <2>1. /\ Tree(succ, order, parent) /\ DepthFirst(succ, order, parent) /\ at \in 2 .. Len(order) /\ at \in Nat /\ at \in 1 .. Len(order)
        /\ at # 1
    BY <1>1, LinkingTree
  <2>2. x \in Range(order) /\ Num(order, x) = at /\ Range(order) \subseteq Block
    BY <2>1, TreeFacts
  <2>3. x # Root
    BY <2>1, <2>2, RootUp
  <2> QED
    BY <1>1, <2>1, <2>2, <2>3, TreeFacts DEF TypeInv
<1>3. s \in Range(order) /\ s \in Block /\ k < at /\ s # Null /\ order[k] = s /\ k \in 1 .. N
  <2>1. parent[x] \in Range(order) /\ Num(order, parent[x]) < Num(order, x)
    BY <1>2 DEF Tree
  <2>2. Num(order, parent[x]) \in 1 .. Len(order) /\ Len(order) <= N /\ Len(order) \in Nat /\ N \in Nat
        /\ order[Num(order, parent[x])] = parent[x]
    BY <1>2, <2>1, TreeFacts, LenBound, SizeAssumption
  <2> QED
    BY <1>2, <2>1, <2>2, RootBlock
<1> HIDE DEF s, k
<1>4. /\ v \in Block /\ Linked(v) /\ sdom[v] = k /\ sdom[v] = Sd(succ, order, v)
      /\ \A c \in Up(parent, v) : Num(order, c) > at /\ parent[c] = order[sdom[v]] => v \notin Range(bucket[sdom[v]])
  <2>1. v \in Range(bucket[k]) /\ bucket[k] \in Seq(Block)
    BY <1>1, <1>3 DEF TypeInv, k, s
  <2>2. v \in Block
    BY <2>1 DEF Range
  <2>3. Linked(v) /\ sdom[v] = k
    BY <1>1, <1>3, <2>1 DEF Buckets
  <2> QED
    BY <1>1, <2>1, <2>2, <2>3 DEF Buckets, Semis
<1>5. \A b \in Block : Linked(b) <=> b \in Range(order) /\ Num(order, b) >= at
  <2>1. \A b \in Block : Linked(b) <=> b \in Range(order) /\ (Num(order, b) > at \/ (Num(order, b) = at /\ pc = "implicit"))
    BY <1>1 DEF Forest
  <2> QED
    BY <1>2, <2>1
<1>6. v \in Range(order) \ {Root} /\ Num(order, v) >= at
  BY <1>1, <1>4, <1>5, LinkedFacts
<1>7. s \in Up(parent, v) /\ s # v
  <2>1. order[Sd(succ, order, v)] \in Up(parent, v) \ {v}
    BY <1>2, <1>6, SdAncestor
  <2> QED
    BY <1>3, <1>4, <2>1
<1>8. PICK c \in Up(parent, v) : parent[c] = s
  BY <1>2, <1>4, <1>7, ChildOn
<1>9. c \in Range(order) /\ c # Root /\ Num(order, c) > k
  <2>1. c \in Range(order)
    BY <1>2, <1>6, UpNum
  <2>2. c # Root
    BY <1>2, <1>3, <1>8, <2>1 DEF Tree
  <2>3. Num(order, parent[c]) < Num(order, c)
    BY <1>2, <2>1, <2>2 DEF Tree
  <2> QED
    BY <1>2, <1>3, <1>8, <2>1, <2>2, <2>3 DEF k
<1>10. Num(order, c) <= at
  <2>1. v \in Range(bucket[sdom[v]])
    BY <1>4 DEF k, s
  <2>2. ~(Num(order, c) > at)
    BY <1>3, <1>4, <1>8, <2>1
  <2> QED
    BY <1>2, <1>9, <2>2
<1>11. Up(parent, x) = {x} \cup Up(parent, s)
  BY <1>2, <1>3, UpStep DEF s
<1>12. c = x
  <2>1. c \in Up(parent, x)
    BY <1>2, <1>6, <1>8, <1>9, <1>10 DEF DepthFirst
  <2>2. c \notin Up(parent, s)
    <3> SUFFICES ASSUME c \in Up(parent, s) PROVE FALSE
      OBVIOUS
    <3>1. Num(order, c) <= k
      BY <1>2, <1>3, UpNum DEF k
    <3> QED
      BY <1>2, <1>3, <1>9, <3>1
  <2> QED
    BY <1>11, <2>1, <2>2
<1>13. ASSUME NEW d \in Up(parent, v), Num(order, d) > k PROVE Linked(d)
  <2>1. d \in Range(order) /\ d \in Block
    BY <1>2, <1>6, UpNum
  <2>2. ASSUME Num(order, d) < at PROVE FALSE
    <3>1. d \in Up(parent, x)
      BY <1>2, <1>6, <1>8, <1>12, <2>1, <2>2, UpOrder
    <3>2. d \in Up(parent, s)
      BY <1>2, <1>11, <2>1, <2>2, <3>1
    <3>3. Num(order, d) <= k
      BY <1>2, <1>3, <3>2, UpNum DEF k
    <3> QED
      BY <1>2, <1>3, <1>13, <2>1, <3>3
  <2> QED
    BY <1>2, <1>5, <2>1, <2>2
<1>14. ASSUME NEW d \in Up(parent, v), Linked(d) PROVE Num(order, d) > k
  <2>1. d \in Range(order) /\ d \in Block
    BY <1>2, <1>6, UpNum
  <2> QED
    BY <1>2, <1>3, <1>5, <1>14, <2>1
<1> QED
  BY <1>3, <1>4, <1>8, <1>12, <1>13, <1>14 DEF k, s

\* A node of the bucket of the parent of the node at hand: step 3.
LEMMA FromBucketInv == IInv /\ FromBucket => IInv'
<1> SUFFICES ASSUME IInv, FromBucket PROVE IInv'
  OBVIOUS
<1>a. PICK x : x = order[at]
  OBVIOUS
<1>b. PICK k : k = Num(order, parent[x])
  OBVIOUS
<1>c. PICK v : v = Head(bucket[k])
  OBVIOUS
<1>d. PICK u : u = Evaluated(v)
  OBVIOUS
<1>1. /\ pc = "implicit" /\ pc' = "implicit" /\ bucket[k] # <<>> /\ Compress(v)
      /\ dom' = [dom EXCEPT ![v] = IF sdom[u] < sdom[v] THEN u ELSE parent[x]]
      /\ bucket' = [bucket EXCEPT ![k] = Tail(@)]
      /\ UNCHANGED <<succ, order, stack, parent, sdom, at, preds, idom>>
  BY <1>a, <1>b, <1>c, <1>d, DfsIsNum DEF FromBucket, Waiting, w, Implicit
<1>2. Linking /\ TypeInv /\ Forest /\ Semis /\ Buckets
  BY <1>1, InvLinking DEF IInv
<1>3. /\ Tree(succ, order, parent) /\ Range(order) \subseteq Block
      /\ at \in 2 .. Len(order) /\ at \in Nat /\ x \in Range(order) /\ x # Root
      /\ \A b \in Range(order) : Num(order, b) \in Nat /\ Sd(succ, order, b) \in Nat
  <2>1. Tree(succ, order, parent) /\ at \in 2 .. Len(order) /\ at \in Nat /\ at \in 1 .. Len(order) /\ at # 1
    BY <1>2, LinkingTree
  <2>2. x \in Range(order) /\ Num(order, x) = at /\ Range(order) \subseteq Block
    BY <1>a, <2>1, TreeFacts
  <2>3. x # Root
    BY <2>1, <2>2, RootUp
  <2> QED
    BY <2>1, <2>2, <2>3, TreeFacts, SdLeast
<1>4. k \in 1 .. N /\ bucket[k] \in Seq(Block) /\ parent[x] \in Block
  <2>1. parent[x] \in Range(order)
    BY <1>3 DEF Tree
  <2>2. k \in 1 .. Len(order) /\ Len(order) <= N /\ Len(order) \in Nat /\ N \in Nat
    BY <1>3, <1>b, <2>1, TreeFacts, LenBound, SizeAssumption
  <2>3. k \in 1 .. N
    BY <2>2
  <2> QED
    BY <1>2, <1>3, <2>1, <2>3 DEF TypeInv
<1>5. /\ v \in Range(bucket[k]) /\ Tail(bucket[k]) \in Seq(Block) /\ Range(Tail(bucket[k])) \subseteq Range(bucket[k])
      /\ \A y \in Range(bucket[k]) : y = v \/ y \in Range(Tail(bucket[k]))
  BY <1>1, <1>4, <1>c, TailRange
<1>6. /\ v \in Block /\ Linked(v)
      /\ sdom[v] = k /\ sdom[v] = Sd(succ, order, v) /\ order[Sd(succ, order, v)] = parent[x]
      /\ \A c \in Up(parent, v) : Num(order, c) > sdom[v] => Linked(c)
      /\ \A c \in Up(parent, v) : Linked(c) => Num(order, c) > sdom[v]
  BY <1>1, <1>5, <1>a, <1>b, InSubtree
<1>7. /\ u \in Up(parent, v) /\ Linked(u) /\ u \in Range(order)
      /\ \A c \in Up(parent, v) : Linked(c) => sdom[u] <= sdom[c]
  BY <1>2, <1>6, <1>d, EvalBest
<1>8. /\ ancestor' \in [Block -> Block \cup {Null}] /\ label' \in [Block -> Block]
      /\ \A b \in Block : Linked(b)' <=> Linked(b)
      /\ \A b \in Block : ~Linked(b) => label'[b] = b
      /\ \A b \in Block : Linked(b) => Best(b, ancestor'[b], label'[b])
  BY <1>1, <1>2, CompressKeeps
<1>9. /\ bucket' \in [1 .. N -> Seq(Block)]
      /\ \A n \in 1 .. N : Range(bucket'[n]) \subseteq Range(bucket[n])
      /\ \A n \in 1 .. N : \A y \in Range(bucket[n]) : y = v \/ y \in Range(bucket'[n])
  <2>1. bucket \in [1 .. N -> Seq(Block)]
    BY <1>2 DEF TypeInv
  <2>2. bucket'[k] = Tail(bucket[k]) /\ \A n \in 1 .. N : n # k => bucket'[n] = bucket[n]
    BY <1>1, <1>4, <2>1
  <2>3. bucket' \in [1 .. N -> Seq(Block)]
    BY <1>1, <1>4, <1>5, <2>1
  <2>4. ASSUME NEW n \in 1 .. N
        PROVE  Range(bucket'[n]) \subseteq Range(bucket[n]) /\ \A y \in Range(bucket[n]) : y = v \/ y \in Range(bucket'[n])
    <3>1. CASE n = k
      BY <1>5, <2>2, <3>1
    <3>2. CASE n # k
      BY <2>2, <3>2
    <3> QED
      BY <3>1, <3>2
  <2> QED
    BY <2>3, <2>4
<1>10. /\ dom' \in [Block -> Block \cup {Null}] /\ \A y \in Block : y # v => dom'[y] = dom[y]
       /\ dom'[v] = IF sdom[u] < sdom[v] THEN u ELSE parent[x]
  <2>1. u \in Block /\ dom \in [Block -> Block \cup {Null}]
    BY <1>2, <1>3, <1>7 DEF TypeInv
  <2> QED
    BY <1>1, <1>4, <1>6, <2>1
<1>11. TypeInv'
  BY <1>1, <1>2, <1>8, <1>9, <1>10 DEF TypeInv
<1>12. Forest'
  <2>1. ASSUME NEW b \in Block, Linked(b)' PROVE Best(b, ancestor[b], label[b])'
    <3>1. Linked(b) /\ Best(b, ancestor'[b], label'[b])
      BY <1>8, <2>1
    <3>2. \A c \in Up(parent, b) : Linked(c) => ancestor'[c] # Null
      <4>1. \A c \in Up(parent, b) : c \in Block
        BY UpSelf
      <4> QED
        BY <1>8, <4>1 DEF Linked
    <3>3. /\ ancestor'[b] \in Up(parent, b) /\ ancestor'[b] # b
          /\ label'[b] \in Up(parent, b) /\ Linked(label'[b])
          /\ \A c \in Up(parent, b) : Num(order, c) > Num(order, ancestor'[b]) => Linked(c) /\ sdom[label'[b]] <= sdom[c]
      BY <3>1 DEF Best
    <3> QED
      BY <1>1, <3>2, <3>3 DEF Best, Linked
  <2>2. \A b \in Block : Linked(b)' <=> b \in Range(order) /\ (Num(order, b) > at \/ (Num(order, b) = at /\ pc' = "implicit"))
    <3>1. \A b \in Block : Linked(b) <=> b \in Range(order) /\ (Num(order, b) > at \/ (Num(order, b) = at /\ pc = "implicit"))
      BY <1>1, <1>2 DEF Forest
    <3> QED
      BY <1>1, <1>8, <3>1
  <2>3. \A b \in Block : ~Linked(b)' => label'[b] = b
    BY <1>8
  <2> QED
    BY <1>1, <1>3, <2>1, <2>2, <2>3 DEF Forest
<1>13. /\ \A b \in Block : Linked(b) => sdom[b] = Sd(succ, order, b) /\ Sources(b) \subseteq Range(order)
       /\ \A b \in Range(order) : ~Linked(b) /\ Num(order, b) # at => sdom[b] = Num(order, b)
  BY <1>1, <1>2 DEF Semis
<1>14. Semis'
  <2>1. \A b \in Block : Linked(b)' => sdom[b] = Sd(succ, order, b) /\ Sources(b) \subseteq Range(order)
    BY <1>8, <1>13
  <2>2. \A b \in Range(order) : ~Linked(b)' /\ Num(order, b) # at => sdom[b] = Num(order, b)
    BY <1>3, <1>8, <1>13
  <2>3. \A b : Sources(b)' = Sources(b)
    BY <1>1 DEF Sources
  <2> QED
    BY <1>1, <2>1, <2>2, <2>3 DEF Semis
<1>15. Deferred(v)'
  <2> DEFINE n == Sd(succ, order, v)
  <2>1. \A c \in Up(parent, v) : c \in Block /\ c \in Range(order)
    <3>1. v \in Range(order)
      BY <1>2, <1>6, LinkedFacts
    <3> QED
      BY <1>3, <3>1, UpNum
  <2>2. \A c \in Up(parent, v) : Num(order, c) > n => Sd(succ, order, c) >= Sd(succ, order, u)
    <3> SUFFICES ASSUME NEW c \in Up(parent, v), Num(order, c) > n PROVE Sd(succ, order, c) >= Sd(succ, order, u)
      OBVIOUS
    <3>1. Linked(c) /\ c \in Block /\ u \in Block /\ c \in Range(order)
      BY <1>6, <1>7, <2>1
    <3>2. sdom[u] <= sdom[c] /\ sdom[u] = Sd(succ, order, u) /\ sdom[c] = Sd(succ, order, c)
      BY <1>7, <1>13, <3>1
    <3> QED
      BY <1>3, <1>7, <3>1, <3>2
  <2>3. sdom[u] = Sd(succ, order, u) /\ sdom[v] = n /\ Num(order, u) > n
    BY <1>3, <1>6, <1>7, <1>13
  <2>4. CASE sdom[u] < sdom[v]
    <3>1. dom'[v] = u
      BY <1>10, <2>4
    <3>2. u \in Up(parent, v) /\ Num(order, u) > n /\ Sd(succ, order, u) < n
      BY <1>7, <2>3, <2>4
    <3> HIDE DEF n
    <3> QED
      BY <1>1, <2>2, <3>1, <3>2 DEF Deferred, n
  <2>5. CASE ~(sdom[u] < sdom[v])
    <3>1. dom'[v] = order[n]
      BY <1>6, <1>10, <2>5
    <3>2. \A c \in Up(parent, v) : Num(order, c) > n => Sd(succ, order, c) >= n
      <4> SUFFICES ASSUME NEW c \in Up(parent, v), Num(order, c) > n PROVE Sd(succ, order, c) >= n
        OBVIOUS
      <4>1. c \in Range(order) /\ v \in Range(order) /\ u \in Range(order)
        BY <1>2, <1>6, <1>7, <2>1, LinkedFacts
      <4>2. Sd(succ, order, c) \in Nat /\ n \in Nat /\ Sd(succ, order, u) \in Nat
        BY <1>3, <4>1
      <4>3. Sd(succ, order, c) >= Sd(succ, order, u)
        BY <2>2
      <4> QED
        BY <2>3, <2>5, <4>2, <4>3
    <3> HIDE DEF n
    <3> QED
      BY <1>1, <3>1, <3>2 DEF Deferred, n
  <2> QED
    BY <2>4, <2>5
<1>16. Buckets'
  <2>1. /\ \A n \in 1 .. N : \A y \in Range(bucket[n]) : Linked(y) /\ sdom[y] = n
        /\ \A y \in Block : Linked(y) => y \in Range(bucket[sdom[y]]) \/ Deferred(y)
        /\ \A y \in Block : Linked(y) => \A c \in Up(parent, y) :
             Num(order, c) > at /\ parent[c] = order[sdom[y]] => y \notin Range(bucket[sdom[y]])
    BY <1>1, <1>2 DEF Buckets
  <2>2. \A n \in 1 .. N : Range(bucket[n]) \subseteq Block
    BY <1>2 DEF TypeInv, Range
  <2>3. \A y \in Block : Linked(y) => sdom[y] \in 1 .. N
    <3> SUFFICES ASSUME NEW y \in Block, Linked(y) PROVE sdom[y] \in 1 .. N
      OBVIOUS
    <3>1. y \in Range(order) /\ sdom[y] = Sd(succ, order, y)
      BY <1>2, <1>13, LinkedFacts
    <3>2. Sd(succ, order, y) \in 1 .. Len(order) /\ Len(order) <= N /\ Len(order) \in Nat /\ N \in Nat
      BY <1>3, <3>1, SdLeast, TreeFacts, LenBound, SizeAssumption
    <3> QED
      BY <3>1, <3>2
  <2>4. \A n \in 1 .. N : \A y \in Range(bucket'[n]) : Linked(y)' /\ sdom[y] = n
    BY <1>8, <1>9, <2>1, <2>2
  <2>5. ASSUME NEW y \in Block, Linked(y)' PROVE y \in Range(bucket'[sdom[y]]) \/ Deferred(y)'
    <3>1. CASE y = v
      BY <1>15, <3>1
    <3>2. CASE y # v
      <4>1. Linked(y) /\ sdom[y] \in 1 .. N
        BY <1>8, <2>3, <2>5
      <4>2. CASE y \in Range(bucket[sdom[y]])
        BY <1>9, <3>2, <4>1, <4>2
      <4>3. CASE Deferred(y)
        <5>1. dom'[y] = dom[y]
          BY <1>10, <3>2
        <5> QED
          BY <1>1, <4>3, <5>1 DEF Deferred
      <4> QED
        BY <2>1, <4>1, <4>2, <4>3
    <3> QED
      BY <3>1, <3>2
  <2>6. \A y \in Block : Linked(y)' => \A c \in Up(parent, y) :
             Num(order, c) > at /\ parent[c] = order[sdom[y]] => y \notin Range(bucket'[sdom[y]])
    BY <1>8, <1>9, <2>1, <2>3
  <2> QED
    BY <1>1, <2>4, <2>5, <2>6 DEF Buckets
<1> QED
  BY <1>1, <1>11, <1>12, <1>14, <1>16, LoopStep

\* After the bucket of the parent of x, no node whose way up to its
\* semidominator goes through x waits.
LEMMA NoneWaiting ==
  ASSUME IInv, pc = "implicit", NEW x, x = order[at], bucket[Num(order, parent[x])] = <<>>,
         NEW v \in Block, Linked(v), NEW c \in Up(parent, v), Num(order, c) >= at, parent[c] = order[sdom[v]]
  PROVE  v \notin Range(bucket[sdom[v]])
<1>1. Linking /\ Buckets /\ Semis
  BY InvLinking DEF IInv
<1>2. Tree(succ, order, parent) /\ at \in Nat /\ at \in 1 .. Len(order)
  BY <1>1, LinkingTree
<1>3. v \in Range(order) /\ c \in Range(order) /\ Num(order, c) \in Nat
  BY <1>1, <1>2, LinkedFacts, UpNum, TreeFacts
<1>4. CASE Num(order, c) > at
  BY <1>1, <1>4 DEF Buckets
<1>5. CASE Num(order, c) = at
  <2>1. c = x
    BY <1>2, <1>3, <1>5, TreeFacts
  <2>2. sdom[v] = Sd(succ, order, v)
    BY <1>1 DEF Semis
  <2>3. sdom[v] \in 1 .. Len(order)
    BY <1>2, <1>3, <2>2, SdLeast
  <2>4. Num(order, order[sdom[v]]) = sdom[v]
    BY <1>2, <2>3, TreeFacts
  <2>5. bucket[sdom[v]] = <<>>
    BY <2>1, <2>4
  <2> QED
    BY <2>5 DEF Range
<1> QED
  BY <1>2, <1>3, <1>4, <1>5

\* The loop goes on to the next node, or to step 4.
LEMMA NextNodeInv == IInv /\ NextNode => IInv'
<1> SUFFICES ASSUME IInv, NextNode PROVE IInv'
  OBVIOUS
<1>a. PICK x : x = order[at]
  OBVIOUS
<1>1. /\ pc = "implicit" /\ bucket[Num(order, parent[x])] = <<>>
      /\ IF at > 2 THEN GoTo(at - 1) ELSE at' = 2 /\ pc' = "explicit" /\ UNCHANGED preds
      /\ UNCHANGED <<succ, order, stack, parent, ancestor, label, dom, sdom, bucket, idom>>
  BY <1>a, DfsIsNum DEF NextNode, Waiting, w, forest
<1>2. Linking /\ TypeInv /\ Forest /\ Semis /\ Buckets
  BY <1>1, InvLinking DEF IInv
<1>3. /\ Spanning(succ, order, parent) /\ Tree(succ, order, parent) /\ DepthFirst(succ, order, parent) /\ Range(order) \subseteq Block
      /\ at \in 2 .. Len(order) /\ at \in Nat
      /\ \A b \in Range(order) : Num(order, b) \in Nat
  BY <1>2, LinkingTree
<1>4. \A b \in Block : Linked(b) <=> b \in Range(order) /\ Num(order, b) >= at
  <2>1. \A b \in Block : Linked(b) <=> b \in Range(order) /\ (Num(order, b) > at \/ (Num(order, b) = at /\ pc = "implicit"))
    BY <1>2, <1>1 DEF Forest
  <2> QED
    BY <1>1, <1>3, <2>1
<1>5. /\ \A b \in Block : Linked(b) => sdom[b] = Sd(succ, order, b) /\ Sources(b) \subseteq Range(order)
      /\ \A b \in Range(order) : ~Linked(b) /\ Num(order, b) # at => sdom[b] = Num(order, b)
      /\ \A n \in 1 .. N : \A y \in Range(bucket[n]) : Linked(y) /\ sdom[y] = n
      /\ \A y \in Block : Linked(y) => y \in Range(bucket[sdom[y]]) \/ Deferred(y)
  BY <1>1, <1>2 DEF Semis, Buckets
<1>6. \A v \in Block : Linked(v) => \A c \in Up(parent, v) :
        Num(order, c) >= at /\ parent[c] = order[sdom[v]] => v \notin Range(bucket[sdom[v]])
  BY <1>1, <1>a, NoneWaiting
<1>7. \A b : Sources(b)' = Sources(b)
  BY <1>1 DEF Sources
<1>8. CASE at > 2
  <2>1. at - 1 \in 2 .. Len(order) /\ GoTo(at - 1)
    BY <1>1, <1>3, <1>8
  <2>2. at' = at - 1 /\ pc' = "semi" /\ preds' \in Seq(Block) /\ Range(preds') = Sources(order[at - 1])
    BY <1>2, <2>1, GoToFacts
  <2>3. TypeInv'
    BY <1>1, <1>2, <1>3, <2>1, <2>2 DEF TypeInv
  <2>4. \A b \in Range(order) : Num(order, b) >= at <=> Num(order, b) > at - 1
    BY <1>3
  <2>5. Forest'
    <3>1. \A b \in Block : Linked(b) => Best(b, ancestor[b], label[b])
      BY <1>1, <1>2 DEF Forest
    <3>2. \A b \in Block : Linked(b) => Best(b, ancestor[b], label[b])'
      BY <1>1, <3>1 DEF Best, Linked
    <3>3. \A b \in Block : ~Linked(b) => label[b] = b
      BY <1>1, <1>2 DEF Forest
    <3>4. \A b : Linked(b)' <=> Linked(b)
      BY <1>1 DEF Linked
    <3> QED
      BY <1>1, <1>4, <2>1, <2>2, <2>4, <3>2, <3>3, <3>4 DEF Forest
  <2>6. PICK y : y = order[at - 1]
    OBVIOUS
  <2>7. y \in Range(order) /\ Num(order, y) = at - 1 /\ y \in Block
    <3>1. at - 1 \in 1 .. Len(order)
      BY <1>3, <2>1
    <3> QED
      BY <1>3, <2>6, <3>1, TreeFacts
  <2>8. ~Linked(y) /\ sdom[y] = at - 1 /\ Sd(succ, order, y) <= at - 1 /\ at - 1 <= at - 1
    <3>1. ~Linked(y) /\ Num(order, y) # at
      BY <1>3, <1>4, <2>7
    <3>2. Sd(succ, order, y) <= Num(order, y)
      BY <1>3, <2>7, SdLeast
    <3> QED
      BY <1>3, <1>5, <2>7, <3>1, <3>2
  <2>9. Semis'
    <3>1. \A b \in Range(order) : ~Linked(b) => sdom[b] = Num(order, b)
      BY <1>3, <1>4, <1>5
    <3>2. \A b : Linked(b)' <=> Linked(b)
      BY <1>1 DEF Linked
    <3>3. Range(preds') = Sources(y) /\ order'[at'] = y
      BY <1>1, <2>2, <2>6
    <3> QED
      BY <1>1, <1>5, <1>7, <2>2, <2>8, <3>1, <3>2, <3>3 DEF Semis
  <2>10. Buckets'
    <3>1. \A v : Deferred(v)' <=> Deferred(v)
      BY <1>1 DEF Deferred
    <3>2. \A b : Linked(b)' <=> Linked(b)
      BY <1>1 DEF Linked
    <3>3. \A v \in Block : Linked(v) => \A c \in Up(parent, v) :
            Num(order, c) > at - 1 /\ parent[c] = order[sdom[v]] => v \notin Range(bucket[sdom[v]])
      <4> SUFFICES ASSUME NEW v \in Block, Linked(v), NEW c \in Up(parent, v), Num(order, c) > at - 1,
                          parent[c] = order[sdom[v]]
                   PROVE  v \notin Range(bucket[sdom[v]])
        OBVIOUS
      <4>1. c \in Range(order)
        BY <1>2, <1>3, LinkedFacts, UpNum
      <4> QED
        BY <1>6, <2>4, <4>1
    <3> QED
      BY <1>1, <1>5, <2>2, <3>1, <3>2, <3>3 DEF Buckets
  <2> QED
    BY <1>1, <2>2, <2>3, <2>5, <2>9, <2>10, LoopStep
<1>9. CASE at = 2
  <2>1. at' = 2 /\ pc' = "explicit" /\ preds' = preds
    BY <1>1, <1>9
  <2>2. TypeInv' /\ Fresh' /\ Visit' /\ Finished' /\ Forest' /\ Semis' /\ Buckets'
    BY <1>1, <1>2, <1>3, <2>1 DEF IInv, TypeInv, Fresh, Visit, Finished, Forest, Semis, Buckets
  <2>3. ASSUME NEW b \in Range(order) \ {Root}
        PROVE  sdom[b] = Sd(succ, order, b) /\ Sources(b) \subseteq Range(order) /\ ~(Num(order, b) < 2) /\ Deferred(b)
    <3>1. b \in Block /\ Num(order, b) >= 2
      <4>1. Num(order, b) \in 1 .. Len(order) /\ Num(order, Root) = 1 /\ Root \in Range(order)
        BY <1>3, TreeFacts, RootUp
      <4>2. Num(order, b) # 1
        BY <1>3, <4>1, TreeFacts
      <4> QED
        BY <1>3, <4>1, <4>2
    <3>2. Linked(b)
      BY <1>4, <1>9, <3>1
    <3>3. sdom[b] = Sd(succ, order, b) /\ Sources(b) \subseteq Range(order)
      BY <1>5, <3>1, <3>2
    <3>4. order[Sd(succ, order, b)] \in Up(parent, b) /\ order[Sd(succ, order, b)] # b
      BY <1>3, SdAncestor
    <3>5. PICK c \in Up(parent, b) : parent[c] = order[Sd(succ, order, b)]
      <4>1. parent \in [Block -> Block \cup {Null}]
        BY <1>2 DEF TypeInv
      <4>2. PICK a : a = order[Sd(succ, order, b)]
        OBVIOUS
      <4> QED
        BY <3>1, <3>4, <4>1, <4>2, ChildOn
    <3>6. Num(order, c) >= 2
      <4>1. c \in Range(order) /\ Num(order, c) \in 1 .. Len(order)
        BY <1>3, UpNum, TreeFacts
      <4>2. order[Sd(succ, order, b)] \in Block
        BY <3>1, <3>4, UpSelf
      <4>3. c # Root
        BY <1>3, <3>5, <4>1, <4>2, RootBlock DEF Tree
      <4>4. Num(order, c) # 1
        BY <1>3, <4>1, <4>3, TreeFacts, RootUp
      <4> QED
        BY <1>3, <4>1, <4>4
    <3>7. b \notin Range(bucket[sdom[b]])
      BY <1>6, <1>9, <3>1, <3>2, <3>3, <3>5, <3>6
    <3> QED
      BY <1>3, <1>5, <3>1, <3>2, <3>3, <3>7
  <2>4. Finishing'
    <3>1. 2 \in 1 .. Len(order) + 1 /\ 2 # 1
      BY <1>3, <1>9
    <3>2. \A b : Deferred(b) => Deferred(b)'
      BY <1>1 DEF Deferred
    <3> QED
      BY <1>1, <1>7, <2>1, <2>3, <3>1, <3>2 DEF Finishing
  <2> QED
    BY <2>2, <2>4 DEF IInv
<1> QED
  BY <1>3, <1>8, <1>9

-----------------------------------------------------------------------------
(***************************************************************************)
(* Step 4.                                                                 *)
(***************************************************************************)
\* A node in the order of the numbers: step 4.
LEMMA ExplicitInv == IInv /\ Explicit => IInv'
<1> SUFFICES ASSUME IInv, Explicit PROVE IInv'
  OBVIOUS
<1>a. PICK x : x = order[at]
  OBVIOUS
<1>1. /\ pc = "explicit" /\ pc' = "explicit" /\ at \in 2 .. Len(order) /\ at' = at + 1
      /\ dom' = (IF Num(order, dom[x]) # sdom[x] THEN [dom EXCEPT ![x] = dom[dom[x]]] ELSE dom)
      /\ UNCHANGED <<succ, order, stack, parent, ancestor, label, sdom, bucket, preds, idom>>
  BY <1>a, DfsIsNum DEF Explicit, w, forest
<1>2. /\ TypeInv /\ Spanning(succ, order, parent) /\ Tree(succ, order, parent) /\ DepthFirst(succ, order, parent)
      /\ Finishing
  BY <1>1 DEF IInv, Visit, Spanning
<1>3. /\ Range(order) \subseteq Block /\ at \in Nat /\ x \in Range(order) \ {Root} /\ Num(order, x) = at /\ x \in Block
      /\ \A b \in Range(order) : Num(order, b) \in Nat /\ Sd(succ, order, b) \in Nat
      /\ Len(order) \in Nat
  <2>1. at \in 1 .. Len(order) /\ at # 1 /\ at \in Nat /\ Len(order) \in Nat
    BY <1>1, <1>2 DEF TypeInv
  <2>2. x \in Range(order) /\ Num(order, x) = at /\ Range(order) \subseteq Block
    BY <1>2, <1>a, <2>1, TreeFacts
  <2>3. x # Root
    BY <1>2, <2>1, <2>2, RootUp
  <2> QED
    BY <1>2, <2>1, <2>2, <2>3, TreeFacts, SdLeast
<1>4. \A b \in Range(order) \ {Root} :
        /\ sdom[b] = Sd(succ, order, b) /\ Sources(b) \subseteq Range(order)
        /\ IF Num(order, b) < at THEN Immediate(dom[b], b) ELSE Deferred(b)
  BY <1>1, <1>2 DEF Finishing
<1> DEFINE s == order[Sd(succ, order, x)]
           v == dom[x]
<1>5. /\ s \in Range(order) /\ Num(order, s) = Sd(succ, order, x) /\ Num(order, s) < Num(order, x)
      /\ s \in Block
  BY <1>2, <1>3, SdAncestor
<1>6. Deferred(x) /\ sdom[x] = Sd(succ, order, x)
  BY <1>3, <1>4
<1>7. dom' \in [Block -> Block \cup {Null}] /\ \A b \in Block : b # x => dom'[b] = dom[b]
  <2>1. CASE Num(order, dom[x]) # sdom[x]
    <3>1. v \in Up(parent, x)
      BY <1>5, <1>6, <2>1 DEF Deferred
    <3>2. v \in Block /\ dom \in [Block -> Block \cup {Null}]
      BY <1>2, <1>3, <3>1, UpSelf DEF TypeInv
    <3>3. dom[v] \in Block \cup {Null}
      BY <3>2
    <3> HIDE DEF v
    <3>4. dom' = [dom EXCEPT ![x] = dom[v]]
      BY <1>1, <2>1 DEF v
    <3> QED
      BY <1>3, <3>2, <3>3, <3>4
  <2>2. CASE Num(order, dom[x]) = sdom[x]
    BY <1>1, <1>2, <2>2 DEF TypeInv
  <2> QED
    BY <2>1, <2>2
<1>8. Immediate(dom'[x], x)
  <2>1. CASE v = s /\ \A u \in Up(parent, x) : Num(order, u) > Sd(succ, order, x) => Sd(succ, order, u) >= Sd(succ, order, x)
    <3>1. dom'[x] = s
      BY <1>1, <1>5, <1>6, <2>1
    <3>2. StrictDominators(succ, x) = {s} \cup StrictDominators(succ, s)
      <4>1. \A u \in Up(parent, x) : Num(order, u) > Num(order, s) => Sd(succ, order, u) >= Sd(succ, order, x)
        BY <1>5, <2>1
      <4>2. PICK y : y = s
        OBVIOUS
      <4>3. y = order[Sd(succ, order, x)]
        BY <4>2
      <4> HIDE DEF s
      <4> QED
        BY <1>2, <1>3, <4>1, <4>2, <4>3, DominatorIsSemi
    <3> QED
      BY <1>5, <3>1, <3>2 DEF Immediate
  <2>2. CASE /\ v \in Up(parent, x) /\ Num(order, v) > Sd(succ, order, x) /\ Sd(succ, order, v) < Sd(succ, order, x)
             /\ \A u \in Up(parent, x) : Num(order, u) > Sd(succ, order, x) => Sd(succ, order, u) >= Sd(succ, order, v)
    <3>1. v \in Range(order) /\ v # x /\ Num(order, v) < Num(order, x) /\ v \in Block
      <4>1. v # x
        BY <1>3, <2>2
      <4> QED
        BY <1>2, <1>3, <2>2, <4>1, UpNum
    <3>2. v # Root
      <4>1. Sd(succ, order, x) \in 1 .. Len(order) /\ Num(order, Root) = 1
        BY <1>2, <1>3, SdLeast, RootUp
      <4>2. Num(order, v) # 1
        BY <1>3, <2>2, <3>1, <4>1
      <4> QED
        BY <4>1, <4>2
    <3>3. Immediate(dom[v], v)
      BY <1>3, <1>4, <3>1, <3>2
    <3>4. dom'[x] = dom[v]
      <4>1. Num(order, v) # sdom[x]
        BY <1>3, <1>6, <2>2, <3>1
      <4> QED
        BY <1>1, <1>2, <1>3, <4>1 DEF TypeInv
    <3>5. StrictDominators(succ, x) = StrictDominators(succ, v)
      BY <1>2, <1>3, <2>2, DominatorIsShared
    <3>6. dom[v] \in Range(order) /\ Num(order, dom[v]) < Num(order, v)
          /\ StrictDominators(succ, v) = {dom[v]} \cup StrictDominators(succ, dom[v])
      BY <3>3 DEF Immediate
    <3>7. Num(order, dom[v]) < Num(order, x)
      BY <1>3, <3>1, <3>6
    <3> QED
      BY <3>4, <3>5, <3>6, <3>7 DEF Immediate
  <2> QED
    BY <1>6, <2>1, <2>2 DEF Deferred
<1>9. Finishing'
  <2>1. at + 1 \in 1 .. Len(order) + 1 /\ at + 1 # 1
    BY <1>1, <1>3
  <2>2. ASSUME NEW b \in Range(order) \ {Root}
        PROVE  IF Num(order, b) < at + 1 THEN Immediate(dom'[b], b) ELSE Deferred(b)'
    <3>1. CASE b = x
      BY <1>3, <1>8, <3>1
    <3>2. CASE b # x
      <4>1. dom'[b] = dom[b] /\ Num(order, b) # at /\ Num(order, b) \in Nat
        BY <1>2, <1>3, <1>7, <3>2, TreeFacts
      <4>2. Num(order, b) < at + 1 <=> Num(order, b) < at
        BY <1>3, <4>1
      <4>3. Deferred(b) => Deferred(b)'
        BY <1>1, <4>1 DEF Deferred
      <4> QED
        BY <1>4, <4>1, <4>2, <4>3
    <3> QED
      BY <3>1, <3>2
  <2>3. \A b, d : Immediate(d, b)' <=> Immediate(d, b)
    BY <1>1 DEF Immediate
  <2>4. \A b : Sources(b)' = Sources(b)
    BY <1>1 DEF Sources
  <2>5. \A b \in Range(order) \ {Root} : IF Num(order, b) < at + 1 THEN Immediate(dom[b], b)' ELSE Deferred(b)'
    BY <1>1, <2>2 DEF Immediate
  <2> QED
    BY <1>1, <1>4, <2>1, <2>4, <2>5 DEF Finishing
<1>10. TypeInv'
  BY <1>1, <1>2, <1>3, <1>7 DEF TypeInv
<1>11. Fresh' /\ Visit' /\ Forest' /\ Semis' /\ Buckets' /\ Finished'
  BY <1>1 DEF IInv, Fresh, Visit, Forest, Semis, Buckets, Finished
<1> QED
  BY <1>9, <1>10, <1>11 DEF IInv

\* The immediate dominators are stored in the blocks.
LEMMA AssignInv == IInv /\ Assign => IInv'
<1> SUFFICES ASSUME IInv, Assign PROVE IInv'
  OBVIOUS
<1>1. /\ pc = "explicit" /\ pc' = "done" /\ at \notin 2 .. Len(order)
      /\ idom' = [b \in Block |-> IF b \in Range(order) \ {Root} THEN dom[b] ELSE idom[b]]
      /\ UNCHANGED <<succ, order, stack, parent, ancestor, label, dom, sdom, bucket, at, preds>>
  BY DEF Assign, forest, Node
<1>2. TypeInv /\ Spanning(succ, order, parent) /\ Tree(succ, order, parent) /\ Finishing /\ Finished
  BY <1>1 DEF IInv, Visit, Spanning
<1>3. TypeInv'
  <2>1. idom' \in [Block -> Block \cup {Null}]
    BY <1>1, <1>2 DEF TypeInv
  <2> QED
    BY <1>1, <1>2, <2>1 DEF TypeInv
<1>4. ASSUME NEW b \in Range(order) \ {Root}
      PROVE  Immediate(idom'[b], b) /\ Sources(b) \subseteq Range(order)
  <2>1. /\ b \in Block /\ Num(order, b) \in 1 .. Len(order) /\ Num(order, b) # 1 /\ Len(order) \in Nat
    <3>1. b \in Range(order) /\ Num(order, Root) = 1 /\ Root \in Range(order)
      BY <1>2, RootUp
    <3> QED
      BY <1>2, <3>1, TreeFacts
  <2>2. at \in 1 .. Len(order) + 1 /\ at # 1
    <3>1. at \in 1 .. Len(order) + 1 /\ (at = 1 => Len(order) = 1)
      BY <1>1, <1>2 DEF Finishing
    <3>2. Len(order) # 1
      <4> SUFFICES ASSUME Len(order) = 1 PROVE FALSE
        OBVIOUS
      <4>1. Num(order, b) \in 1 .. 1
        BY <2>1
      <4>2. \A k \in 1 .. 1 : k = 1
        OBVIOUS
      <4> QED
        BY <2>1, <4>1, <4>2
    <3> QED
      BY <3>1, <3>2
  <2>3. Num(order, b) < at
    BY <1>1, <2>1, <2>2
  <2>4. Immediate(dom[b], b) /\ Sources(b) \subseteq Range(order)
    BY <1>1, <1>2, <2>3 DEF Finishing
  <2> QED
    BY <1>1, <2>1, <2>4
<1>5. Finished'
  <2>1. \A b \in Block \ (Range(order) \ {Root}) : idom'[b] = Null
    BY <1>1, <1>2 DEF Finished
  <2>2. \A b \in Range(order) \ {Root} : Immediate(idom[b], b)' /\ Sources(b)' \subseteq Range(order)
    BY <1>1, <1>4 DEF Immediate, Sources
  <2> QED
    BY <1>1, <2>1, <2>2 DEF Finished
<1>6. Fresh' /\ Visit' /\ Forest' /\ Semis' /\ Buckets' /\ Finishing'
  BY <1>1 DEF IInv, Fresh, Visit, Forest, Semis, Buckets, Finishing
<1> QED
  BY <1>3, <1>5, <1>6 DEF IInv

\* Every step keeps the invariant.
LEMMA NextInv == IInv /\ [Next]_vars => IInv'
<1> SUFFICES ASSUME IInv, [Next]_vars PROVE IInv'
  OBVIOUS
<1>1. CASE UNCHANGED vars
  <2>1. UNCHANGED <<succ, order, stack, parent, ancestor, label, dom, sdom, bucket, at, preds, idom, pc>>
    BY <1>1 DEF vars
  <2>2. TypeInv' /\ Fresh'
    BY <2>1 DEF IInv, TypeInv, Fresh, Linked
  <2>3. Visit'
    BY <2>1 DEF IInv, Visit, Frames, OnStack, Top
  <2>4. Forest' /\ Semis'
    BY <2>1 DEF IInv, Forest, Semis, Best, Linked, Sources
  <2>5. Buckets' /\ Finishing' /\ Finished'
    BY <2>1 DEF IInv, Buckets, Finishing, Finished, Linked, Sources, Deferred, Immediate
  <2> QED
    BY <2>2, <2>3, <2>4, <2>5 DEF IInv
<1>2. CASE Terminated
  BY <1>1, <1>2 DEF Terminated
<1> QED
  BY <1>1, <1>2, StartInv, SkipInv, EnterInv, ReturnInv, NumberedInv, SemiInv, CrashInv, LinkInv,
     FromBucketInv, NextNodeInv, ExplicitInv, AssignInv DEF Next

\* So it always holds.
LEMMA Inductive == Spec => []IInv
<1>1. Init => IInv
  BY InitInv
<1>2. IInv /\ [Next]_vars => IInv'
  BY NextInv
<1> QED
  BY <1>1, <1>2, PTL DEF Spec

-----------------------------------------------------------------------------
(***************************************************************************)
(* The theorems.                                                           *)
(***************************************************************************)
\* The linked part of the way up, as a set of ancestors.
LEMMA LinkedPathIs ==
  ASSUME Linking, NEW b \in Range(order)
  PROVE  LinkedPath[b] = {c \in Up(parent, b) : Linked(c)}
<1> DEFINE Right(x) == LinkedPath[x] = {c \in Up(parent, x) : Linked(c)}
           Wrong == {x \in Range(order) : ~Right(x)}
<1>1. /\ Tree(succ, order, parent) /\ parent \in [Block -> Block \cup {Null}] /\ Range(order) \subseteq Block
      /\ \A x \in Range(order) : Num(order, x) \in Nat
      /\ \A x \in Block : Linked(x) <=> x \in Range(order) /\ (Num(order, x) > at \/ (Num(order, x) = at /\ pc = "implicit"))
      /\ at \in Nat
  BY LinkingTree DEF Linking, Forest
<1>2. ASSUME NEW x \in Range(order), \A y \in Range(order) : Num(order, y) < Num(order, x) => Right(y)
      PROVE  Right(x)
  <2>1. x \in Block
    BY <1>1
  <2>2. CASE Linked(x)
    <3>1. parent[x] \in Range(order) /\ Num(order, parent[x]) < Num(order, x) /\ parent[x] # Null
      BY <1>1, <2>1, <2>2, LinkedFacts, RootBlock
    <3>2. Right(parent[x])
      BY <1>2, <3>1
    <3>3. Up(parent, x) = {x} \cup Up(parent, parent[x])
      BY <1>1, <2>1, <3>1, UpStep
    <3>4. LinkedPath[x] = {x} \cup LinkedPath[parent[x]]
      BY <2>1, <2>2, LinkedPathRec
    <3> QED
      BY <2>2, <3>2, <3>3, <3>4
  <2>3. CASE ~Linked(x)
    <3>1. LinkedPath[x] = {}
      BY <2>1, <2>3, LinkedPathRec
    <3>2. ASSUME NEW c \in Up(parent, x) PROVE ~Linked(c)
      <4>1. c \in Range(order) /\ c \in Block /\ Num(order, c) <= Num(order, x)
        BY <1>1, UpNum
      <4>2. Num(order, c) \in Nat /\ Num(order, x) \in Nat
        BY <1>1, <4>1
      <4>3. ~(Num(order, x) > at \/ (Num(order, x) = at /\ pc = "implicit"))
        BY <1>1, <2>1, <2>3
      <4>4. ~(Num(order, c) > at \/ (Num(order, c) = at /\ pc = "implicit"))
        BY <1>1, <4>1, <4>2, <4>3
      <4> QED
        BY <1>1, <4>1, <4>4
    <3> QED
      BY <3>1, <3>2
  <2> QED
    BY <2>2, <2>3
<1>3. Wrong = {}
  <2> SUFFICES ASSUME Wrong # {} PROVE FALSE
    OBVIOUS
  <2>1. PICK m \in [Range(order) -> Nat] : \A x \in Range(order) : m[x] = Num(order, x)
    <3>1. [x \in Range(order) |-> Num(order, x)] \in [Range(order) -> Nat]
      BY <1>1
    <3> QED
      BY <3>1
  <2>2. PICK x \in Wrong : \A y \in Wrong : m[x] <= m[y]
    <3>1. Wrong \in SUBSET Range(order)
      OBVIOUS
    <3> HIDE DEF Wrong
    <3> QED
      BY <2>1, <3>1, LeastMeasure
  <2>3. x \in Range(order) /\ ~Right(x)
    OBVIOUS
  <2>4. \A y \in Range(order) : Num(order, y) < Num(order, x) => Right(y)
    <3> SUFFICES ASSUME NEW y \in Range(order), Num(order, y) < Num(order, x), ~Right(y) PROVE FALSE
      OBVIOUS
    <3>1. y \in Wrong
      OBVIOUS
    <3>2. Num(order, x) <= Num(order, y)
      BY <2>1, <2>2, <2>3, <3>1
    <3>3. Num(order, x) \in Nat /\ Num(order, y) \in Nat
      BY <1>1, <2>3
    <3> QED
      BY <3>2, <3>3
  <2> HIDE DEF Right
  <2> QED
    BY <1>2, <2>3, <2>4
<1> QED
  BY <1>3

\* At every moment of steps 2 and 3, eval returns a node of least
\* semidominator number on the linked part of the way up the tree, though the
\* pointers that it follows have been compressed by the calls before it.
THEOREM EvalIsRight == Spec => []EvalFindsMinimum
<1>1. IInv => EvalFindsMinimum
  <2> SUFFICES ASSUME IInv, pc \in {"semi", "implicit"}, NEW b \in Range(order), Linked(b)
               PROVE  /\ Evaluated(b) \in LinkedPath[b]
                      /\ \A c \in LinkedPath[b] : sdom[Evaluated(b)] <= sdom[c]
    BY DEF EvalFindsMinimum, Node, Linked
  <2>1. Linking /\ b \in Block
    BY InvLinking, LinkingTree
  <2>2. LinkedPath[b] = {c \in Up(parent, b) : Linked(c)}
    BY <2>1, LinkedPathIs
  <2>3. PICK u : u = Evaluated(b)
    OBVIOUS
  <2>4. u \in Up(parent, b) /\ Linked(u) /\ \A c \in Up(parent, b) : Linked(c) => sdom[u] <= sdom[c]
    BY <2>1, <2>3, EvalBest
  <2> QED
    BY <2>2, <2>3, <2>4
<1> QED
  BY <1>1, Inductive, PTL

\* Step 2 computes the semidominator numbers that the reference definition
\* gives, for every graph.
THEOREM SemidominatorsRight == Spec => []SemidominatorsExact
<1>1. ASSUME NEW b PROVE Semidominator(b) = Sd(succ, order, b)
  <2>1. {c \in Node : Dfs(c) > Dfs(b)} = Above(order, b)
    BY DfsIsNum DEF Above, Node
  <2>2. {v \in Node : b \in ReachFrom(succ, {c \in Node : Dfs(c) > Dfs(b)} \cup {v, b}, v)} = Ends(succ, order, b)
    BY <2>1 DEF Ends, Node
  <2>3. \A v : Dfs(v) = Num(order, v)
    BY DfsIsNum
  <2> QED
    BY <2>2, <2>3 DEF Semidominator, Sd
<1>2. IInv => SemidominatorsExact
  BY <1>1 DEF IInv, Finishing, SemidominatorsExact, Node
<1> QED
  BY <1>2, Inductive, PTL

\* The equation of the walk of CheckDominance has a solution.
LEMMA ChainRec ==
  ASSUME IInv, pc = "done"
  PROVE  \A b \in Block : Chain[b] = IF idom[b] = Null THEN {} ELSE {idom[b]} \cup Chain[idom[b]]
<1> DEFINE V == SUBSET Block
           B(f, b) == IF idom[b] = Null THEN {} ELSE {idom[b]} \cup f[idom[b]]
           D == [b \in Block |-> [f \in [Block -> V] |-> B(f, b)]]
           is(f) == f = [b \in Block |-> B(f, b)]
           chain == CHOOSE f : is(f)
<1>1. Height \in [Block -> Nat] /\ \A b \in Block : idom[b] # Null => idom[b] \in Block /\ Height[idom[b]] < Height[b]
  <2>1. Tree(succ, order, parent) /\ TypeInv /\ Finished
    BY DEF IInv, Visit, Spanning
  <2>2. Height \in [Block -> Nat]
    BY <2>1, TreeFacts DEF Height
  <2>3. ASSUME NEW b \in Block, idom[b] # Null PROVE idom[b] \in Block /\ Height[idom[b]] < Height[b]
    <3>1. b \in Range(order) \ {Root}
      BY <2>1, <2>3 DEF Finished
    <3>2. idom[b] \in Range(order) /\ Num(order, idom[b]) < Num(order, b)
      BY <2>1, <3>1 DEF Finished, Immediate
    <3> QED
      BY <2>1, <3>1, <3>2, TreeFacts DEF Height
  <2> QED
    BY <2>2, <2>3
<1>2. ASSUME NEW b \in Block, NEW f \in [Block -> V] PROVE B(f, b) \in V
  BY <1>1
<1>3. Grounded(Block, V, Height, D)
  <2>1. D \in [Block -> [[Block -> V] -> V]]
    <3> HIDE DEF B, V
    <3> QED
      BY <1>2
  <2>2. ASSUME NEW x \in Block, NEW f \in [Block -> V], NEW h \in [Block -> V],
               \A y \in Block : Height[y] < Height[x] => f[y] = h[y]
        PROVE  D[x][f] = D[x][h]
    <3>1. B(f, x) = B(h, x)
      BY <1>1, <2>2
    <3> HIDE DEF B, V
    <3> QED
      BY <3>1
  <2> HIDE DEF D, V
  <2> QED
    BY <1>1, <2>1, <2>2 DEF Grounded
<1>4. \E f : is(f)
  <2>1. V # {}
    OBVIOUS
  <2>2. PICK f \in [Block -> V] : \A x \in Block : f[x] = D[x][f]
    <3> HIDE DEF D, V
    <3> QED
      BY <1>3, <2>1, RecursionExists
  <2>3. \A x \in Block : f[x] = B(f, x)
    <3> HIDE DEF B, V
    <3> QED
      BY <2>2
  <2>4. f = [b \in Block |-> B(f, b)]
    <3> HIDE DEF B, V
    <3> QED
      BY <2>3
  <2> QED
    BY <2>4
<1>5. is(chain)
  <2> HIDE DEF is
  <2> QED
    BY <1>4
<1>6. Chain = chain
  BY DEF Chain
<1> HIDE DEF chain
<1> QED
  BY <1>5, <1>6

\* The chain of immediate dominators of a reachable block.
LEMMA ChainRight ==
  ASSUME IInv, pc = "done", NEW b \in Range(order)
  PROVE  Chain[b] = StrictDominators(succ, b)
<1> DEFINE Right(x) == Chain[x] = StrictDominators(succ, x)
           Wrong == {x \in Range(order) : ~Right(x)}
<1>1. Spanning(succ, order, parent) /\ Tree(succ, order, parent) /\ Finished
  BY DEF IInv, Visit, Spanning
<1>2. Range(order) \subseteq Block /\ \A x \in Range(order) : Num(order, x) \in Nat
  BY <1>1, TreeFacts
<1>3. ASSUME NEW x \in Range(order), \A y \in Range(order) : Num(order, y) < Num(order, x) => Right(y)
      PROVE  Right(x)
  <2>1. CASE x = Root
    <3>1. idom[x] = Null
      BY <1>1, <1>2, <2>1 DEF Finished
    <3> QED
      BY <1>1, <1>2, <2>1, <3>1, ChainRec, RootUndominated
  <2>2. CASE x # Root
    <3>1. idom[x] \in Range(order) /\ Num(order, idom[x]) < Num(order, x)
          /\ StrictDominators(succ, x) = {idom[x]} \cup StrictDominators(succ, idom[x])
      BY <1>1, <2>2 DEF Finished, Immediate
    <3>2. Right(idom[x])
      BY <1>3, <3>1
    <3>3. idom[x] # Null
      BY <1>2, <3>1, RootBlock
    <3> QED
      BY <1>2, <3>1, <3>2, <3>3, ChainRec
  <2> QED
    BY <2>1, <2>2
<1>4. Wrong = {}
  <2> SUFFICES ASSUME Wrong # {} PROVE FALSE
    OBVIOUS
  <2>1. PICK m \in [Range(order) -> Nat] : \A x \in Range(order) : m[x] = Num(order, x)
    <3>1. [x \in Range(order) |-> Num(order, x)] \in [Range(order) -> Nat]
      BY <1>2
    <3> QED
      BY <3>1
  <2>2. PICK x \in Wrong : \A y \in Wrong : m[x] <= m[y]
    <3>1. Wrong \in SUBSET Range(order)
      OBVIOUS
    <3> HIDE DEF Wrong
    <3> QED
      BY <2>1, <3>1, LeastMeasure
  <2>3. x \in Range(order) /\ ~Right(x)
    OBVIOUS
  <2>4. \A y \in Range(order) : Num(order, y) < Num(order, x) => Right(y)
    <3> SUFFICES ASSUME NEW y \in Range(order), Num(order, y) < Num(order, x), ~Right(y) PROVE FALSE
      OBVIOUS
    <3>1. y \in Wrong
      OBVIOUS
    <3>2. Num(order, x) <= Num(order, y) /\ Num(order, x) \in Nat /\ Num(order, y) \in Nat
      BY <1>2, <2>1, <2>2, <2>3, <3>1
    <3> QED
      BY <3>2
  <2> HIDE DEF Right
  <2> QED
    BY <1>3, <2>3, <2>4
<1> QED
  BY <1>4

\* The walk of CheckDominance along the immediate dominators finds exactly
\* the strict dominators of every reachable block.
THEOREM QueriesRight == Spec => []QueryIsStrictDominance
<1>1. IInv => QueryIsStrictDominance
  <2> SUFFICES ASSUME IInv, pc = "done", NEW b \in Reachable(succ)
               PROVE  {d \in Block : CheckDominance(d, b)} = StrictDominators(succ, b)
    BY DEF QueryIsStrictDominance
  <2>1. b \in Range(order)
    BY ReachableIsVisited DEF IInv, Visit
  <2>2. Chain[b] = StrictDominators(succ, b)
    BY <2>1, ChainRight
  <2>3. StrictDominators(succ, b) \subseteq Block
    BY ReachSelf, RootBlock DEF StrictDominators, Reachable, Reach
  <2> QED
    BY <2>2, <2>3 DEF CheckDominance
<1> QED
  BY <1>1, Inductive, PTL

\* The analysis crashes exactly on the graphs with an edge from an
\* unreachable block to a reachable one other than the entry.
THEOREM CrashesExplained == Spec => []CrashMeansDeadPredecessor
<1>1. IInv => CrashMeansDeadPredecessor
  <2> SUFFICES ASSUME IInv, pc \in {"crash", "done"}
               PROVE  pc = "crash" <=> \E b \in Reachable(succ), c \in Block \ Reachable(succ) :
                                         b # Root /\ b \in SuccSet(succ, c)
    BY DEF CrashMeansDeadPredecessor
  <2>1. Reachable(succ) = Range(order) /\ Finished
    BY ReachableIsVisited DEF IInv, Visit
  <2>2. ASSUME pc = "crash"
        PROVE  \E b \in Reachable(succ), c \in Block \ Reachable(succ) : b # Root /\ b \in SuccSet(succ, c)
    BY <2>1, <2>2 DEF Finished, Sources
  <2>3. ASSUME pc = "done", NEW b \in Reachable(succ), NEW c \in Block \ Reachable(succ), b # Root, b \in SuccSet(succ, c)
        PROVE  FALSE
    BY <2>1, <2>3 DEF Finished, Sources
  <2> QED
    BY <2>2, <2>3
<1> QED
  BY <1>1, Inductive, PTL

-----------------------------------------------------------------------------
(***************************************************************************)
(* The elimination of checks: sequences and lists of instructions.         *)
(***************************************************************************)
\* The fields of a record of instructions.
LEMMA Fields ==
  ASSUME NEW s, Shaped(s)
  PROVE  LET I == DOMAIN s.op
         IN  /\ Len(s.op) \in Nat /\ I = 1 .. Len(s.op) /\ Null \notin I
             /\ s.in \in [I -> Seq(I)] /\ s.users \in [I -> Seq(I)] /\ s.bb \in [I -> Block]
             /\ s.next \in [I -> I \cup {Null}] /\ s.prev \in [I -> I \cup {Null}]
             /\ s.first \in [Block -> I \cup {Null}] /\ s.last \in [Block -> I \cup {Null}]
             /\ s.freed \subseteq I /\ s.status \in {"fine", "corrupt", "abort"}
             /\ s \in Irs(s.op)
<1>1. Len(s.op) \in Nat /\ DOMAIN s.op = 1 .. Len(s.op) /\ s \in Irs(s.op)
  BY DEF Shaped
<1> QED
  BY <1>1, SMTT(20) DEF Irs, Null

\* Sequences of one member and of two.
LEMMA OneLong ==
  ASSUME NEW S, NEW p \in Seq(S), Len(p) = 1
  PROVE  p = <<p[1]>> /\ Range(p) = {p[1]} /\ Reverse(p) = p
<1>1. DOMAIN p = 1 .. 1 /\ 1 .. 1 = {1}
  OBVIOUS
<1>2. PICK a : a = p[1]
  OBVIOUS
<1>3. p = [i \in 1 .. 1 |-> a]
  BY <1>1, <1>2
<1>4. <<a>> = [i \in 1 .. 1 |-> a]
  OBVIOUS
<1>5. Range(p) = {a}
  BY <1>1, <1>2 DEF Range
<1>6. Reverse(p) = [i \in 1 .. 1 |-> a]
  BY <1>1, <1>2 DEF Reverse
<1> QED
  BY <1>2, <1>3, <1>4, <1>5, <1>6

LEMMA TwoLong ==
  ASSUME NEW S, NEW p \in Seq(S), Len(p) = 2
  PROVE  p = <<p[1], p[2]>> /\ Range(p) = {p[1], p[2]} /\ Reverse(p) = <<p[2], p[1]>>
<1>1. DOMAIN p = 1 .. 2 /\ 1 .. 2 = {1, 2}
  OBVIOUS
<1>2. PICK a, b : a = p[1] /\ b = p[2]
  OBVIOUS
<1>3. p = [i \in 1 .. 2 |-> IF i = 1 THEN a ELSE b]
  BY <1>1, <1>2
<1>4. \A x, y : <<x, y>> = [i \in 1 .. 2 |-> IF i = 1 THEN x ELSE y]
  OBVIOUS
<1>5. Range(p) = {a, b}
  BY <1>1, <1>2 DEF Range
<1>6. Reverse(p) = [i \in 1 .. 2 |-> IF i = 1 THEN b ELSE a]
  BY <1>1, <1>2 DEF Reverse
<1> QED
  BY <1>2, <1>3, <1>4, <1>5, <1>6

LEMMA Single ==
  ASSUME NEW S, NEW x \in S
  PROVE  <<x>> \in Seq(S) /\ <<x>> # <<>> /\ Last(<<x>>) = x /\ Range(<<x>>) = {x}
<1>1. PICK t : t = <<x>>
  OBVIOUS
<1>2. t \in Seq(S) /\ Len(t) = 1 /\ t[1] = x
  BY <1>1
<1>3. Range(t) = {t[1]}
  BY <1>2, OneLong
<1> QED
  BY <1>1, <1>2, <1>3 DEF Last

\* A list with a new last member.
LEMMA Lengthened ==
  ASSUME NEW S, NEW list \in Seq(S), NEW e \in S
  PROVE  /\ Append(list, e) \in Seq(S) /\ Append(list, e) # <<>> /\ Last(Append(list, e)) = e
         /\ Range(Append(list, e)) = Range(list) \cup {e}
<1>1. PICK t : t = Append(list, e)
  OBVIOUS
<1>2. Len(list) \in Nat /\ Len(t) = Len(list) + 1 /\ t \in Seq(S) /\ t[Len(t)] = e
  BY <1>1
<1>3. \A k \in 1 .. Len(list) : t[k] = list[k]
  BY <1>1
<1>4. DOMAIN t = 1 .. Len(list) + 1 /\ DOMAIN list = 1 .. Len(list)
  BY <1>2
<1>5. t # <<>>
  BY <1>2
<1>6. ASSUME NEW k \in DOMAIN t PROVE t[k] \in Range(list) \cup {e}
  <2>1. k \in 1 .. Len(list) \/ k = Len(t)
    BY <1>2, <1>4
  <2> QED
    BY <1>2, <1>3, <1>4, <2>1 DEF Range
<1>7. ASSUME NEW k \in DOMAIN list PROVE list[k] \in Range(t)
  <2>1. k \in DOMAIN t
    BY <1>2, <1>4
  <2> QED
    BY <1>3, <1>4, <2>1 DEF Range
<1>8. e \in Range(t)
  <2>1. Len(t) \in DOMAIN t
    BY <1>2, <1>4
  <2> QED
    BY <1>2, <2>1 DEF Range
<1>9. Range(t) = Range(list) \cup {e}
  BY <1>6, <1>7, <1>8 DEF Range
<1> QED
  BY <1>1, <1>2, <1>5, <1>9 DEF Last

\* One instruction more of the list, if there is one.
More(s, list) == IF s.next[Last(list)] = Null THEN list ELSE Append(list, s.next[Last(list)])

\* The walk of a list, step by step.
LEMMA FromLevels ==
  ASSUME NEW s, Shaped(s), NEW i \in DOMAIN s.op
  PROVE  \E f : /\ f[0] = <<i>> /\ f[Len(s.op)] = Code!From(s, i)
                /\ \A n \in 1 .. Len(s.op) : f[n] = More(s, f[n - 1])
<1> DEFINE I == DOMAIN s.op
           K == Len(s.op)
           V == {list \in Seq(I) : list # <<>>}
           step == [list \in V |-> More(s, list)]
           B(f, n) == IF n = 0 THEN <<i>> ELSE More(s, f[n - 1])
           is(f) == f = [n \in 0 .. K |-> B(f, n)]
           from == CHOOSE f : is(f)
<1>1. K \in Nat /\ i \in I /\ Null \notin I /\ s.next \in [I -> I \cup {Null}]
  BY Fields
<1>2. <<i>> \in V /\ step \in [V -> V]
  <2>1. ASSUME NEW list \in V PROVE More(s, list) \in V
    <3>1. list \in Seq(I) /\ list # <<>> /\ Last(list) \in I
      BY DEF Last
    <3>2. s.next[Last(list)] = Null \/ s.next[Last(list)] \in I
      BY <1>1, <3>1
    <3> HIDE DEF I
    <3>3. CASE s.next[Last(list)] = Null
      BY <3>1, <3>3 DEF More
    <3>4. CASE s.next[Last(list)] # Null
      BY <3>1, <3>2, <3>4, Lengthened DEF More
    <3> QED
      BY <3>3, <3>4
  <2>2. <<i>> \in Seq(I) /\ <<i>> # <<>>
    <3> HIDE DEF I
    <3> QED
      BY <1>1, Single
  <2>3. <<i>> \in V
    BY <2>2
  <2> HIDE DEF V
  <2> QED
    BY <2>1, <2>3
<1>3. PICK v : Levels(K, V, <<i>>, step, v)
  <2> HIDE DEF V, step
  <2> QED
    BY <1>1, <1>2, LevelsExist
<1>4. ASSUME NEW n \in 0 .. K PROVE v[n] = B(v, n)
  <2>1. n # 0 => n \in 1 .. K /\ n - 1 \in 0 .. K
    BY <1>1
  <2>2. n # 0 => v[n - 1] \in V /\ v[n] = step[v[n - 1]]
    BY <1>3, <2>1 DEF Levels
  <2> HIDE DEF V
  <2> QED
    BY <1>3, <2>2 DEF Levels
<1>5. is(v)
  <2>1. v = [n \in 0 .. K |-> v[n]]
    BY <1>3 DEF Levels
  <2> HIDE DEF B
  <2> QED
    BY <1>4, <2>1
<1>6. is(from)
  <2> HIDE DEF is
  <2> QED
    BY <1>5
<1>7. Code!From(s, i) = from[K]
  BY <1>1 DEF Code!From, Code!Null, Null, More, Last, Code!Last
<1> HIDE DEF from
<1>8. 0 \in 0 .. K /\ \A n \in 1 .. K : n \in 0 .. K /\ n # 0 /\ n - 1 \in 0 .. K
  BY <1>1
<1>9. from[0] = <<i>> /\ \A n \in 1 .. K : from[n] = More(s, from[n - 1])
  <2> HIDE DEF K
  <2> QED
    BY <1>6, <1>8
<1> QED
  BY <1>7, <1>9

\* The walk of a list whose links are right meets, from an instruction on, all
\* the instructions of the block that are left.
LEMMA FromFacts ==
  ASSUME NEW s, Shaped(s), ListsLinked(s), NEW i \in Left(s)
  PROVE  Range(Code!From(s, i)) = {k \in LeftOf(s, s.bb[i]) : i <= k}
<1> DEFINE I == DOMAIN s.op
           Own == LeftOf(s, s.bb[i])
           K == Len(s.op)
           Upto(list) == {k \in Own : i <= k /\ k <= Last(list)}
           P == [n \in 0 .. K |-> {list \in Seq(I) : /\ list # <<>> /\ Last(list) \in Own
                                                     /\ Range(list) = Upto(list) /\ i <= Last(list)
                                                     /\ s.next[Last(list)] = Null \/ Last(list) > n}]
<1>1. K \in Nat /\ I = 1 .. K /\ i \in I /\ s.bb \in [I -> Block] /\ Own \subseteq I /\ i \in Own
  BY Fields DEF Left, LeftOf
<1>2. ASSUME NEW j \in Own PROVE IsLeast(s.next[j], {k \in Own : j < k})
  <2>1. j \in Left(s) /\ s.bb[j] = s.bb[i]
    BY DEF LeftOf
  <2> QED
    BY <2>1 DEF ListsLinked
<1>3. PICK f : /\ f[0] = <<i>> /\ f[K] = Code!From(s, i)
               /\ \A n \in 1 .. K : f[n] = More(s, f[n - 1])
  BY <1>1, FromLevels
<1>4. f[0] \in P[0]
  <2>1. <<i>> \in Seq(I) /\ Last(<<i>>) = i /\ Range(<<i>>) = {i} /\ <<i>> # <<>>
    <3> HIDE DEF I
    <3> QED
      BY <1>1, Single
  <2>2. Upto(<<i>>) = {i}
    BY <1>1, <2>1
  <2>3. i <= i /\ i > 0 /\ 0 \in 0 .. K
    BY <1>1
  <2> HIDE DEF Own, Upto, I
  <2> QED
    BY <1>1, <1>3, <2>1, <2>2, <2>3
<1>5. ASSUME NEW n \in 1 .. K, f[n - 1] \in P[n - 1] PROVE f[n] \in P[n]
  <2>1. PICK list : list = f[n - 1]
    OBVIOUS
  <2>2. /\ list \in Seq(I) /\ list # <<>> /\ Last(list) \in Own
        /\ Range(list) = Upto(list) /\ i <= Last(list) /\ n - 1 \in 0 .. K /\ n \in 0 .. K
        /\ s.next[Last(list)] = Null \/ Last(list) > n - 1
    BY <1>1, <1>5, <2>1
  <2>3. f[n] = More(s, list)
    BY <1>3, <2>1
  <2>4. PICK j : j = Last(list)
    OBVIOUS
  <2>5. PICK e : e = s.next[j]
    OBVIOUS
  <2>6. IsLeast(e, {k \in Own : j < k})
    BY <1>2, <2>2, <2>4, <2>5
  <2>7. CASE e = Null
    <3>1. f[n] = list
      BY <2>3, <2>4, <2>5, <2>7 DEF More
    <3> HIDE DEF Own
    <3> QED
      BY <2>2, <2>4, <2>5, <2>7, <3>1
  <2>8. CASE e # Null
    <3>1. e \in Own /\ j < e /\ \A k \in Own : j < k => e <= k
      BY <2>6, <2>8 DEF IsLeast
    <3>2. PICK longer : longer = Append(list, e)
      OBVIOUS
    <3>3. longer \in Seq(I) /\ longer # <<>> /\ Last(longer) = e /\ Range(longer) = Range(list) \cup {e}
      <4>1. e \in I
        BY <1>1, <3>1
      <4> HIDE DEF I
      <4> QED
        BY <2>2, <3>2, <4>1, Lengthened
    <3>4. f[n] = longer
      BY <2>3, <2>4, <2>5, <2>8, <3>2 DEF More
    <3>5. i <= e /\ e > n /\ \A k \in Own : k <= e <=> k <= j \/ k = e
      <4>1. Own \subseteq Int /\ n \in Int /\ j \in Int /\ e \in Int /\ i \in Int /\ i <= j
        BY <1>1, <2>2, <2>4, <3>1
      <4>2. j > n - 1
        BY <2>2, <2>4, <2>5, <2>8
      <4> HIDE DEF Own
      <4> QED
        BY <3>1, <4>1, <4>2
    <3>6. Upto(longer) = Upto(list) \cup {e}
      <4> HIDE DEF Own
      <4> QED
        BY <2>4, <3>1, <3>3, <3>5
    <3> HIDE DEF Own, Upto
    <3> QED
      BY <2>2, <3>1, <3>3, <3>4, <3>5, <3>6
  <2> QED
    BY <2>7, <2>8
<1>6. f[K] \in P[K]
  <2> HIDE DEF P
  <2> QED
    BY <1>1, <1>4, <1>5, LevelsKeep
<1>7. PICK list : list = f[K]
  OBVIOUS
<1>8. /\ Last(list) \in Own /\ Range(list) = Upto(list)
      /\ s.next[Last(list)] = Null \/ Last(list) > K
  BY <1>1, <1>6, <1>7
<1>9. s.next[Last(list)] = Null
  BY <1>1, <1>8
<1>10. {k \in Own : Last(list) < k} = {}
  <2>1. IsLeast(Null, {k \in Own : Last(list) < k})
    BY <1>2, <1>8, <1>9
  <2>2. Null \notin Own
    BY <1>1 DEF Null
  <2> HIDE DEF Own
  <2> QED
    BY <2>1, <2>2 DEF IsLeast
<1>11. Upto(list) = {k \in Own : i <= k}
  <2>1. \A k \in Own : k <= Last(list)
    <3> HIDE DEF Own
    <3> QED
      BY <1>1, <1>8, <1>10
  <2> QED
    BY <2>1
<1> QED
  BY <1>3, <1>7, <1>8, <1>11

\* The list with its last member in the place of u.
Filled(list, u) == [k \in DOMAIN list |-> IF list[k] = u THEN Last(list) ELSE list[k]]

\* It is a list of the same things, and so is the one without its end.
LEMMA FilledType ==
  ASSUME NEW S, NEW list \in Seq(S), list # <<>>, NEW u
  PROVE  /\ Filled(list, u) \in Seq(S) /\ Len(Filled(list, u)) = Len(list)
         /\ Front(Filled(list, u)) \in Seq(S) /\ Len(list) \in Nat \ {0} /\ Last(list) \in S
<1>1. PICK L : L = Len(list)
  OBVIOUS
<1>2. L \in Nat \ {0} /\ DOMAIN list = 1 .. L /\ list[L] \in S /\ Last(list) = list[L]
  BY <1>1 DEF Last
<1>3. PICK t : t = Filled(list, u)
  OBVIOUS
<1>4. t \in [1 .. L -> S]
  BY <1>2, <1>3 DEF Filled
<1>5. t \in Seq(S) /\ Len(t) = L
  BY <1>2, <1>4
<1>6. Front(t) \in Seq(S)
  BY <1>2, <1>5 DEF Front
<1> QED
  BY <1>1, <1>2, <1>3, <1>5, <1>6

\* Removing a user from a list without repetitions leaves the others, each once.
LEMMA FilledOut ==
  ASSUME NEW S, NEW list \in Seq(S), IsInjective(list), NEW u \in Range(list)
  PROVE  /\ list # <<>> /\ IsInjective(Front(Filled(list, u)))
         /\ Range(Front(Filled(list, u))) = Range(list) \ {u}
<1>1. PICK L : L = Len(list)
  OBVIOUS
<1>2. PICK k \in DOMAIN list : list[k] = u
  BY DEF Range
<1>3. L \in Nat \ {0} /\ DOMAIN list = 1 .. L /\ list # <<>> /\ k \in 1 .. L
  BY <1>1, <1>2
<1>4. \A i, j \in 1 .. L : list[i] = list[j] => i = j
  BY <1>3 DEF IsInjective
<1>5. PICK t : t = Filled(list, u)
  OBVIOUS
<1>6. t \in Seq(S) /\ Len(t) = L
  BY <1>1, <1>3, <1>5, FilledType
<1>7. \A i \in 1 .. L : t[i] = IF i = k THEN list[L] ELSE list[i]
  BY <1>1, <1>2, <1>3, <1>4, <1>5 DEF Filled, Last
<1>8. PICK f : f = Front(t)
  OBVIOUS
<1>9. /\ f \in Seq(S) /\ Len(f) = L - 1 /\ DOMAIN f = 1 .. L - 1
      /\ \A i \in 1 .. L - 1 : f[i] = IF i = k THEN list[L] ELSE list[i]
  BY <1>3, <1>6, <1>7, <1>8 DEF Front
<1>10. IsInjective(f)
  <2> SUFFICES ASSUME NEW i \in 1 .. L - 1, NEW j \in 1 .. L - 1, f[i] = f[j] PROVE i = j
    BY <1>9 DEF IsInjective
  <2>1. i \in 1 .. L /\ j \in 1 .. L /\ i # L /\ j # L /\ L \in 1 .. L
    BY <1>3
  <2> QED
    BY <1>4, <1>9, <2>1
<1>11. ASSUME NEW i \in 1 .. L - 1 PROVE f[i] \in Range(list) \ {u}
  <2>1. i \in 1 .. L /\ i # L /\ L \in 1 .. L
    BY <1>3
  <2> QED
    BY <1>2, <1>3, <1>4, <1>9, <2>1 DEF Range
<1>12. ASSUME NEW i \in 1 .. L, list[i] # u PROVE list[i] \in Range(f)
  <2>1. CASE i = L
    <3>1. k \in 1 .. L - 1
      BY <1>2, <1>3, <1>12, <2>1
    <3> QED
      BY <1>9, <2>1, <3>1 DEF Range
  <2>2. CASE i # L
    <3>1. i \in 1 .. L - 1 /\ i # k
      BY <1>2, <1>3, <1>12, <2>2
    <3> QED
      BY <1>9, <3>1 DEF Range
  <2> QED
    BY <2>1, <2>2
<1>13. Range(f) = Range(list) \ {u}
  BY <1>3, <1>9, <1>11, <1>12, SMTT(20) DEF Range
<1> QED
  BY <1>3, <1>5, <1>8, <1>10, <1>13

\* The memory of the list that is walked takes the same change.
LEMMA OverwrittenFacts ==
  ASSUME NEW S, NEW mem \in Seq(S), NEW list \in Seq(S), NEW u
  PROVE  /\ Overwritten(mem, list, u) \in Seq(S)
         /\ mem = list /\ IsInjective(list) /\ u \in Range(list) => Overwritten(mem, list, u) = Filled(list, u)
<1>1. PICK k : k = IF u \in Range(list) THEN CHOOSE j \in DOMAIN list : list[j] = u ELSE Len(list) + 1
  OBVIOUS
<1> DEFINE W == [j \in DOMAIN mem |-> IF j = k /\ list # <<>> THEN Last(list) ELSE mem[j]]
<1>4. Overwritten(mem, list, u) = W
  BY <1>1 DEF Overwritten
<1>2. Overwritten(mem, list, u) \in Seq(S)
  <2>1. PICK t : t = W
    OBVIOUS
  <2>2. list # <<>> => Last(list) \in S
    BY FilledType
  <2>3. Len(mem) \in Nat /\ DOMAIN mem = 1 .. Len(mem)
    OBVIOUS
  <2>4. t \in [1 .. Len(mem) -> S]
    BY <2>1, <2>2, <2>3
  <2> QED
    BY <1>4, <2>1, <2>3, <2>4
<1>3. ASSUME mem = list, IsInjective(list), u \in Range(list) PROVE Overwritten(mem, list, u) = Filled(list, u)
  <2>2. \E i \in DOMAIN list : list[i] = u
    BY <1>3 DEF Range
  <2>3. k \in DOMAIN list /\ list[k] = u
    BY <1>1, <1>3, <2>2
  <2>4. \A j \in DOMAIN list : list[j] = u <=> j = k
    BY <1>3, <2>3 DEF IsInjective
  <2>5. list # <<>>
    BY <2>3
  <2> QED
    BY <1>3, <1>4, <2>4, <2>5 DEF Filled
<1> QED
  BY <1>2, <1>3

\* t is s with other users.
OnlyUsers(s, t) ==
  /\ t.op = s.op /\ t.in = s.in /\ t.next = s.next /\ t.prev = s.prev /\ t.bb = s.bb
  /\ t.first = s.first /\ t.last = s.last /\ t.freed = s.freed

\* RemoveUser changes one list of users, or fails.
LEMMA RemoveUserFacts ==
  ASSUME NEW s, Shaped(s), NEW v \in DOMAIN s.op, NEW u
  PROVE  LET t == Code!RemoveUser(s, v, u)
         IN  /\ Shaped(t) /\ OnlyUsers(s, t)
             /\ Code!Fine(s) /\ s.users[v] # <<>> =>
                  /\ Code!Fine(t)
                  /\ t.users = [s.users EXCEPT ![v] = Front(Filled(s.users[v], u))]
<1> DEFINE I == DOMAIN s.op
           list == s.users[v]
<1>1. PICK t : t = Code!RemoveUser(s, v, u)
  OBVIOUS
<1>2. s \in Irs(s.op) /\ list \in Seq(I)
  BY Fields
<1>3. CASE ~Code!Fine(s)
  <2>1. t = s
    BY <1>1, <1>3 DEF Code!RemoveUser
  <2> QED
    BY <1>1, <1>3, <2>1 DEF OnlyUsers
<1>4. CASE Code!Fine(s) /\ list = <<>>
  <2>1. t = [s EXCEPT !.status = "corrupt"]
    BY <1>1, <1>4 DEF Code!RemoveUser, Code!Stop
  <2>2. t \in Irs(s.op) /\ OnlyUsers(s, t)
    BY <1>2, <2>1 DEF Irs, OnlyUsers
  <2>3. Shaped(t)
    BY <2>2 DEF Shaped, OnlyUsers
  <2> QED
    BY <1>1, <1>4, <2>2, <2>3
<1>5. CASE Code!Fine(s) /\ list # <<>>
  <2>1. PICK fr : fr = Front(Filled(list, u))
    OBVIOUS
  <2>2. t = [s EXCEPT !.users[v] = fr]
    <3>1. \A q : Code!Last(q) = Last(q) /\ Code!Front(q) = Front(q)
      BY DEF Code!Last, Last, Code!Front, Front
    <3>2. Filled(list, u) = [k \in DOMAIN list |-> IF list[k] = u THEN Code!Last(list) ELSE list[k]]
      BY <3>1 DEF Filled
    <3>3. t = [s EXCEPT !.users[v] = Code!Front(Filled(list, u))]
      BY <1>1, <1>5, <3>2 DEF Code!RemoveUser
    <3> QED
      BY <2>1, <3>1, <3>3
  <2>3. fr \in Seq(I)
    BY <1>2, <1>5, <2>1, FilledType
  <2>4. t \in Irs(s.op) /\ OnlyUsers(s, t) /\ t.users = [s.users EXCEPT ![v] = fr] /\ t.status = s.status
    BY <1>2, <2>2, <2>3 DEF Irs, OnlyUsers
  <2>5. Shaped(t) /\ Code!Fine(t)
    BY <1>5, <2>4 DEF Shaped, OnlyUsers, Code!Fine
  <2> QED
    BY <1>1, <1>5, <2>1, <2>4, <2>5
<1> QED
  BY <1>3, <1>4, <1>5

\* Without its head a list without repetitions has all the others.
LEMMA HeadOut ==
  ASSUME NEW S, NEW q \in Seq(S), q # <<>>, IsInjective(q)
  PROVE  /\ Tail(q) \in Seq(S) /\ IsInjective(Tail(q)) /\ Head(q) \notin Range(Tail(q))
         /\ Range(q) = {Head(q)} \cup Range(Tail(q))
<1>1. PICK L : L = Len(q)
  OBVIOUS
<1>2. PICK t : t = Tail(q)
  OBVIOUS
<1>3. /\ L \in Nat \ {0} /\ DOMAIN q = 1 .. L /\ t \in Seq(S) /\ DOMAIN t = 1 .. L - 1
      /\ (\A k \in 1 .. L - 1 : t[k] = q[k + 1]) /\ Head(q) = q[1]
  BY <1>1, <1>2
<1>4. \A i, j \in 1 .. L : q[i] = q[j] => i = j
  BY <1>3 DEF IsInjective
<1>5. ASSUME NEW i \in 1 .. L - 1, NEW j \in 1 .. L - 1, t[i] = t[j] PROVE i = j
  <2>1. i + 1 \in 1 .. L /\ j + 1 \in 1 .. L /\ q[i + 1] = q[j + 1]
    BY <1>3, <1>5
  <2> QED
    BY <1>4, <2>1
<1>6. ASSUME NEW i \in 1 .. L - 1 PROVE t[i] # q[1] /\ t[i] \in Range(q)
  <2>1. i + 1 \in 1 .. L /\ 1 \in 1 .. L /\ i + 1 # 1 /\ t[i] = q[i + 1]
    BY <1>3
  <2> QED
    BY <1>3, <1>4, <2>1 DEF Range
<1>7. ASSUME NEW i \in 1 .. L PROVE q[i] \in {q[1]} \cup Range(t)
  <2>1. i = 1 \/ (i - 1 \in 1 .. L - 1 /\ q[i] = t[i - 1])
    BY <1>3
  <2> QED
    BY <1>3, <2>1 DEF Range
<1>8. q[1] \in Range(q)
  BY <1>3 DEF Range
<1> QED
  BY <1>2, <1>3, <1>5, <1>6, <1>7, <1>8 DEF Range, IsInjective

\* A list that all the users of an input of inst are in, inst removed: what the
\* walk still meets.
LEMMA FilledLater ==
  ASSUME NEW S, NEW q \in Seq(S), IsInjective(q), NEW u, NEW p \in DOMAIN q, NEW j \in DOMAIN q, p < j
  PROVE  Filled(q, u)[j] \in Range(q) /\ Filled(q, u)[j] # q[p]
<1>1. PICK L : L = Len(q)
  OBVIOUS
<1>2. L \in Nat /\ DOMAIN q = 1 .. L /\ L \in DOMAIN q /\ p \in Nat /\ j \in Nat /\ j <= L /\ Last(q) = q[L]
  BY <1>1 DEF Last
<1>3. Filled(q, u)[j] = IF q[j] = u THEN q[L] ELSE q[j]
  BY <1>2 DEF Filled
<1>4. q[j] # q[p] /\ q[L] # q[p]
  BY <1>2 DEF IsInjective
<1> QED
  BY <1>2, <1>3, <1>4 DEF Range

\* In a set of numbers i stands between before and after.
Between(S, i, before, after) ==
  /\ S \subseteq Nat \ {0} /\ i \in S
  /\ IsLeast(after, {k \in S : i < k}) /\ IsGreatest(before, {k \in S : k < i})

\* When i is taken out, the numbers next to it become neighbours.
LEMMA UnlinkNext ==
  ASSUME NEW S, NEW i, NEW before, NEW after, Between(S, i, before, after), NEW j \in S \ {i}, NEW e,
         IsLeast(e, {k \in S : j < k})
  PROVE  IsLeast(IF before = j THEN after ELSE e, {k \in S \ {i} : j < k})
<1>1. S \subseteq Nat \ {0} /\ i \in Nat /\ j \in Nat /\ i \in S /\ j \in S /\ Null \notin S
  BY DEF Between, Null
<1>2. /\ \/ after = Null /\ \A k \in S : ~(i < k)
         \/ after \in S /\ i < after /\ \A k \in S : i < k => after <= k
      /\ \/ before = Null /\ \A k \in S : ~(k < i)
         \/ before \in S /\ before < i /\ \A k \in S : k < i => k <= before
      /\ \/ e = Null /\ \A k \in S : ~(j < k)
         \/ e \in S /\ j < e /\ \A k \in S : j < k => e <= k
  BY DEF Between, IsLeast, IsGreatest
<1>3. PICK d : d = IF before = j THEN after ELSE e
  OBVIOUS
<1>4. \/ d = Null /\ \A k \in S \ {i} : ~(j < k)
      \/ d \in S \ {i} /\ j < d /\ \A k \in S \ {i} : j < k => d <= k
  <2>1. CASE before = j
    <3>1. \A k \in S \ {i} : j < k => i < k
      BY <1>1, <1>2, <2>1
    <3>2. CASE after = Null
      BY <1>1, <1>2, <1>3, <2>1, <3>1, <3>2
    <3>3. CASE after \in S
      <4>1. d \in S /\ d \in Nat /\ j < d /\ i < d
        BY <1>1, <1>2, <1>3, <2>1, <3>3
      <4>2. \A k \in S \ {i} : j < k => d <= k
        BY <1>1, <1>2, <1>3, <2>1, <3>1, <3>3
      <4> QED
        BY <1>1, <4>1, <4>2
    <3> QED
      BY <1>2, <3>2, <3>3
  <2>2. CASE before # j
    <3>1. ASSUME e = i PROVE FALSE
      <4>1. e \in S /\ j < i
        BY <1>1, <1>2, <3>1
      <4>2. before \in S /\ before \in Nat /\ before < i /\ j < before
        <5>1. before \in S /\ before < i /\ j <= before
          BY <1>1, <1>2, <4>1
        <5>2. before \in Nat
          BY <1>1, <5>1
        <5> QED
          BY <1>1, <2>2, <5>1, <5>2
      <4> QED
        BY <1>1, <1>2, <3>1, <4>1, <4>2
    <3> QED
      BY <1>1, <1>2, <1>3, <2>2, <3>1
  <2> QED
    BY <2>1, <2>2
<1> QED
  BY <1>1, <1>3, <1>4 DEF IsLeast

\* The same downwards.
LEMMA UnlinkPrev ==
  ASSUME NEW S, NEW i, NEW before, NEW after, Between(S, i, before, after), NEW j \in S \ {i}, NEW e,
         IsGreatest(e, {k \in S : k < j})
  PROVE  IsGreatest(IF after = j THEN before ELSE e, {k \in S \ {i} : k < j})
<1>1. S \subseteq Nat \ {0} /\ i \in Nat /\ j \in Nat /\ i \in S /\ j \in S /\ Null \notin S
  BY DEF Between, Null
<1>2. /\ \/ after = Null /\ \A k \in S : ~(i < k)
         \/ after \in S /\ i < after /\ \A k \in S : i < k => after <= k
      /\ \/ before = Null /\ \A k \in S : ~(k < i)
         \/ before \in S /\ before < i /\ \A k \in S : k < i => k <= before
      /\ \/ e = Null /\ \A k \in S : ~(k < j)
         \/ e \in S /\ e < j /\ \A k \in S : k < j => k <= e
  BY DEF Between, IsLeast, IsGreatest
<1>3. PICK d : d = IF after = j THEN before ELSE e
  OBVIOUS
<1>4. \/ d = Null /\ \A k \in S \ {i} : ~(k < j)
      \/ d \in S \ {i} /\ d < j /\ \A k \in S \ {i} : k < j => k <= d
  <2>1. CASE after = j
    <3>1. \A k \in S \ {i} : k < j => k < i
      BY <1>1, <1>2, <2>1
    <3>2. CASE before = Null
      BY <1>1, <1>2, <1>3, <2>1, <3>1, <3>2
    <3>3. CASE before \in S
      <4>1. d \in S /\ d \in Nat /\ d < j /\ d < i
        BY <1>1, <1>2, <1>3, <2>1, <3>3
      <4>2. \A k \in S \ {i} : k < j => k <= d
        BY <1>1, <1>2, <1>3, <2>1, <3>1, <3>3
      <4> QED
        BY <1>1, <4>1, <4>2
    <3> QED
      BY <1>2, <3>2, <3>3
  <2>2. CASE after # j
    <3>1. ASSUME e = i PROVE FALSE
      <4>1. e \in S /\ i < j
        BY <1>1, <1>2, <3>1
      <4>2. after \in S /\ after \in Nat /\ i < after /\ after < j
        <5>1. after \in S /\ i < after /\ after <= j
          BY <1>1, <1>2, <4>1
        <5>2. after \in Nat
          BY <1>1, <5>1
        <5> QED
          BY <1>1, <2>2, <5>1, <5>2
      <4> QED
        BY <1>1, <1>2, <3>1, <4>1, <4>2
    <3> QED
      BY <1>1, <1>2, <1>3, <2>2, <3>1
  <2> QED
    BY <2>1, <2>2
<1> QED
  BY <1>1, <1>3, <1>4 DEF IsGreatest

\* The ends move if i was one.
LEMMA UnlinkEnds ==
  ASSUME NEW S, NEW i, NEW before, NEW after, Between(S, i, before, after), NEW f, NEW l,
         IsLeast(f, S), IsGreatest(l, S)
  PROVE  /\ IsLeast(IF f = i THEN after ELSE f, S \ {i})
         /\ IsGreatest(IF l = i THEN before ELSE l, S \ {i})
<1>1. S \subseteq Nat \ {0} /\ i \in Nat /\ i \in S /\ Null \notin S
  BY DEF Between, Null
<1>2. /\ \/ after = Null /\ \A k \in S : ~(i < k)
         \/ after \in S /\ i < after /\ \A k \in S : i < k => after <= k
      /\ \/ before = Null /\ \A k \in S : ~(k < i)
         \/ before \in S /\ before < i /\ \A k \in S : k < i => k <= before
      /\ f \in S /\ (\A k \in S : f <= k) /\ l \in S /\ (\A k \in S : k <= l)
  BY DEF Between, IsLeast, IsGreatest
<1>3. PICK d, g : d = (IF f = i THEN after ELSE f) /\ g = (IF l = i THEN before ELSE l)
  OBVIOUS
<1>4. \/ d = Null /\ S \ {i} = {}
      \/ d \in S \ {i} /\ \A k \in S \ {i} : d <= k
  BY <1>1, <1>2, <1>3
<1>5. \/ g = Null /\ S \ {i} = {}
      \/ g \in S \ {i} /\ \A k \in S \ {i} : k <= g
  BY <1>1, <1>2, <1>3
<1> QED
  BY <1>1, <1>3, <1>4, <1>5 DEF IsLeast, IsGreatest

\* What ~Inst writes.
LEMMA DestroyFields ==
  ASSUME NEW s, Shaped(s), NEW i \in DOMAIN s.op
  PROVE  LET t == Code!Destroy(s, i)
         IN  /\ Shaped(t) /\ t.op = s.op /\ t.in = s.in /\ t.users = s.users /\ t.bb = s.bb
             /\ t.status = s.status /\ t.freed = s.freed \cup {i}
             /\ \A j \in DOMAIN s.op : /\ t.next[j] = IF s.prev[i] = j THEN s.next[i] ELSE s.next[j]
                                       /\ t.prev[j] = IF s.next[i] = j THEN s.prev[i] ELSE s.prev[j]
             /\ \A b \in Block : /\ t.first[b] = IF b = s.bb[i] /\ s.first[b] = i THEN s.next[i] ELSE s.first[b]
                                 /\ t.last[b] = IF b = s.bb[i] /\ s.last[b] = i THEN s.prev[i] ELSE s.last[b]
<1> DEFINE I == DOMAIN s.op
           b == s.bb[i]
<1>1. PICK t : t = Code!Destroy(s, i)
  OBVIOUS
<1>2. PICK nx, pv, fi, la :
        /\ nx = Code!Write(s.next, s.prev[i], s.next[i])
        /\ pv = Code!Write(s.prev, s.next[i], s.prev[i])
        /\ fi = IF b # Null /\ s.first[b] = i THEN [s.first EXCEPT ![b] = s.next[i]] ELSE s.first
        /\ la = IF b # Null /\ s.last[b] = i THEN [s.last EXCEPT ![b] = s.prev[i]] ELSE s.last
  OBVIOUS
<1>3. /\ s.next \in [I -> I \cup {Null}] /\ s.prev \in [I -> I \cup {Null}] /\ s.bb \in [I -> Block]
      /\ s.first \in [Block -> I \cup {Null}] /\ s.last \in [Block -> I \cup {Null}]
      /\ s \in Irs(s.op) /\ Null \notin I
  BY Fields
<1>4. t = [s EXCEPT !.next = nx, !.prev = pv, !.first = fi, !.last = la, !.freed = s.freed \cup {i}]
  BY <1>1, <1>2 DEF Code!Destroy, Code!Null, Null
<1>5. b \in Block /\ b # Null
  BY <1>3, RootBlock
<1>6. /\ nx \in [I -> I \cup {Null}] /\ pv \in [I -> I \cup {Null}]
      /\ \A j \in I : /\ nx[j] = IF s.prev[i] = j THEN s.next[i] ELSE s.next[j]
                      /\ pv[j] = IF s.next[i] = j THEN s.prev[i] ELSE s.prev[j]
  <2>1. nx = IF s.prev[i] = Null THEN s.next ELSE [s.next EXCEPT ![s.prev[i]] = s.next[i]]
    BY <1>2 DEF Code!Write, Code!Null, Null
  <2>2. pv = IF s.next[i] = Null THEN s.prev ELSE [s.prev EXCEPT ![s.next[i]] = s.prev[i]]
    BY <1>2 DEF Code!Write, Code!Null, Null
  <2>3. s.prev[i] \in I \cup {Null} /\ s.next[i] \in I \cup {Null}
    BY <1>3
  <2> HIDE DEF I
  <2> QED
    BY <1>3, <2>1, <2>2, <2>3
<1>7. /\ fi \in [Block -> I \cup {Null}] /\ la \in [Block -> I \cup {Null}]
      /\ \A c \in Block : /\ fi[c] = IF c = b /\ s.first[c] = i THEN s.next[i] ELSE s.first[c]
                          /\ la[c] = IF c = b /\ s.last[c] = i THEN s.prev[i] ELSE s.last[c]
  <2>1. s.prev[i] \in I \cup {Null} /\ s.next[i] \in I \cup {Null}
    BY <1>3
  <2> HIDE DEF I, b
  <2> QED
    BY <1>2, <1>3, <1>5, <2>1
<1>8. /\ t.op = s.op /\ t.in = s.in /\ t.users = s.users /\ t.bb = s.bb /\ t.status = s.status
      /\ t.freed = s.freed \cup {i} /\ t.next = nx /\ t.prev = pv /\ t.first = fi /\ t.last = la
      /\ t \in Irs(s.op)
  BY <1>3, <1>4, <1>6, <1>7 DEF Irs
<1>9. Shaped(t)
  BY <1>8 DEF Shaped
<1> QED
  BY <1>1, <1>6, <1>7, <1>8, <1>9

\* The lists stay linked, and the deleted instruction still leads to the next one.
LEMMA DestroyLinks ==
  ASSUME NEW s, Shaped(s), ListsLinked(s), NEW i \in Left(s)
  PROVE  LET t == Code!Destroy(s, i)
         IN  ListsLinked(t) /\ IsLeast(t.next[i], {k \in LeftOf(t, t.bb[i]) : i < k})
<1> DEFINE I == DOMAIN s.op
           b == s.bb[i]
           S == LeftOf(s, b)
<1>1. PICK t : t = Code!Destroy(s, i)
  OBVIOUS
<1>2. i \in I /\ I \subseteq Nat \ {0} /\ s.bb \in [I -> Block] /\ s.freed \subseteq I
  BY Fields DEF Left
<1>3. /\ t.op = s.op /\ t.bb = s.bb /\ t.freed = s.freed \cup {i}
      /\ \A j \in DOMAIN s.op : /\ t.next[j] = IF s.prev[i] = j THEN s.next[i] ELSE s.next[j]
                                /\ t.prev[j] = IF s.next[i] = j THEN s.prev[i] ELSE s.prev[j]
      /\ \A c \in Block : /\ t.first[c] = IF c = s.bb[i] /\ s.first[c] = i THEN s.next[i] ELSE s.first[c]
                          /\ t.last[c] = IF c = s.bb[i] /\ s.last[c] = i THEN s.prev[i] ELSE s.last[c]
  BY <1>1, <1>2, DestroyFields
<1>4. Left(t) = Left(s) \ {i} /\ LeftOf(t, b) = S \ {i} /\ \A c : c # b => LeftOf(t, c) = LeftOf(s, c)
  BY <1>3 DEF Left, LeftOf
<1>5. Between(S, i, s.prev[i], s.next[i])
  BY <1>2 DEF Between, Left, LeftOf, ListsLinked
<1>6. ASSUME NEW c \in Block PROVE IsLeast(t.first[c], LeftOf(t, c)) /\ IsGreatest(t.last[c], LeftOf(t, c))
  <2>1. IsLeast(s.first[c], LeftOf(s, c)) /\ IsGreatest(s.last[c], LeftOf(s, c))
    BY DEF ListsLinked
  <2>2. CASE c = b
    <3>1. /\ IsLeast(IF s.first[b] = i THEN s.next[i] ELSE s.first[b], S \ {i})
          /\ IsGreatest(IF s.last[b] = i THEN s.prev[i] ELSE s.last[b], S \ {i})
      <4> HIDE DEF S
      <4> QED
        BY <1>5, <2>1, <2>2, UnlinkEnds DEF S
    <3> QED
      BY <1>3, <1>4, <2>2, <3>1
  <2>3. CASE c # b
    BY <1>3, <1>4, <2>1, <2>3
  <2> QED
    BY <2>2, <2>3
<1>7. ASSUME NEW j \in Left(t)
      PROVE  /\ IsLeast(t.next[j], {k \in LeftOf(t, t.bb[j]) : j < k})
             /\ IsGreatest(t.prev[j], {k \in LeftOf(t, t.bb[j]) : k < j})
  <2>1. j \in Left(s) /\ j # i /\ j \in I
    BY <1>4 DEF Left
  <2>2. /\ IsLeast(s.next[j], {k \in LeftOf(s, s.bb[j]) : j < k})
        /\ IsGreatest(s.prev[j], {k \in LeftOf(s, s.bb[j]) : k < j})
    BY <2>1 DEF ListsLinked
  <2>3. CASE s.bb[j] = b
    <3>1. j \in S \ {i}
      BY <2>1, <2>3 DEF LeftOf
    <3>2. /\ IsLeast(IF s.prev[i] = j THEN s.next[i] ELSE s.next[j], {k \in S \ {i} : j < k})
          /\ IsGreatest(IF s.next[i] = j THEN s.prev[i] ELSE s.prev[j], {k \in S \ {i} : k < j})
      <4>1. IsLeast(s.next[j], {k \in S : j < k}) /\ IsGreatest(s.prev[j], {k \in S : k < j})
        BY <2>2, <2>3
      <4> HIDE DEF S
      <4> QED
        BY <1>5, <3>1, <4>1, UnlinkNext, UnlinkPrev, SMTT(20)
    <3> QED
      BY <1>3, <1>4, <2>1, <2>3, <3>2, SMTT(20)
  <2>4. CASE s.bb[j] # b
    <3>1. s.prev[i] # j /\ s.next[i] # j
      <4>1. j \notin S /\ j # Null
        BY <1>2, <2>1, <2>4 DEF LeftOf, Null
      <4> HIDE DEF S
      <4> QED
        BY <1>5, <4>1 DEF Between, IsLeast, IsGreatest
    <3>2. t.next[j] = s.next[j] /\ t.prev[j] = s.prev[j] /\ t.bb[j] = s.bb[j]
      BY <1>3, <2>1, <3>1
    <3>3. LeftOf(t, t.bb[j]) = LeftOf(s, s.bb[j])
      BY <1>4, <2>4, <3>2
    <3> QED
      BY <2>2, <3>2, <3>3
  <2> QED
    BY <2>3, <2>4
<1>8. IsLeast(t.next[i], {k \in LeftOf(t, t.bb[i]) : i < k})
  <2>1. s.prev[i] # i
    <3> HIDE DEF S
    <3> QED
      BY <1>2, <1>5 DEF Between, IsGreatest, Null
  <2>2. t.next[i] = s.next[i]
    BY <1>2, <1>3, <2>1
  <2>3. {k \in LeftOf(t, t.bb[i]) : i < k} = {k \in S : i < k}
    BY <1>2, <1>3, <1>4
  <2> QED
    BY <1>5, <2>2, <2>3 DEF Between
<1> QED
  BY <1>1, <1>6, <1>7, <1>8 DEF ListsLinked

\* delete leaves the types and the code as they are.
LEMMA DeleteFacts ==
  ASSUME NEW s, Shaped(s), NEW i \in DOMAIN s.op
  PROVE  LET t == Code!Delete(s, i)
         IN  /\ Shaped(t) /\ t.op = s.op /\ t.in = s.in /\ t.bb = s.bb
             /\ Code!Fine(s) /\ i \in s.freed => t.status = "abort"
             /\ Code!Fine(s) /\ i \notin s.freed => t = Code!Destroy(s, i)
<1>1. PICK t : t = Code!Delete(s, i)
  OBVIOUS
<1>2. i # Null /\ s \in Irs(s.op)
  BY Fields
<1>3. CASE ~Code!Fine(s)
  BY <1>1, <1>3 DEF Code!Delete
<1>4. CASE Code!Fine(s) /\ i \in s.freed
  <2>1. t = [s EXCEPT !.status = "abort"]
    BY <1>1, <1>2, <1>4 DEF Code!Delete, Code!Stop, Code!Null, Null
  <2>2. t \in Irs(s.op) /\ t.op = s.op /\ t.in = s.in /\ t.bb = s.bb /\ t.status = "abort"
    BY <1>2, <2>1 DEF Irs
  <2>3. Shaped(t)
    BY <2>2 DEF Shaped
  <2> QED
    BY <1>1, <1>4, <2>2, <2>3
<1>5. CASE Code!Fine(s) /\ i \notin s.freed
  <2>1. t = Code!Destroy(s, i)
    BY <1>1, <1>2, <1>5 DEF Code!Delete, Code!Null, Null
  <2> QED
    BY <1>1, <1>5, <2>1, DestroyFields
<1> QED
  BY <1>3, <1>4, <1>5

-----------------------------------------------------------------------------
(***************************************************************************)
(* The elimination of checks: the invariant and the theorems.              *)
(***************************************************************************)
\* d checks what c checks, and before it on every path.
Covers(d, c) == Equal(c, d) /\ Precedes(d, c)

\* The types of what the pass keeps.
CheckTypes ==
  /\ Shaped(ir)
  /\ blocks \in Seq(Block)
  /\ inst \in DOMAIN ir.op \cup {Null}
  /\ slots \in Seq(DOMAIN ir.op)
  /\ place \in Nat
  /\ phase \in {"dominators", "visit", "walk", "done", "stopped"}
  /\ phase = "walk" => inst # Null /\ ir.op[inst] \in Checks

\* The dominators are analysed first, and then they are known.
DominatorsFirst ==
  /\ phase = "dominators" => IInv /\ Built(ir) /\ inst = Null /\ blocks = [b \in Block |-> b]
  /\ phase = "stopped" => pc \in {"crash", "used"}
  /\ phase \in {"visit", "walk", "done"} => pc = "used"
  /\ pc = "used" => /\ phase # "dominators" /\ succ \in Cfgs
                    /\ \A b \in Block : Chain[b] = DominatorsOf(b)

\* A check that is kept covers each deleted one.
Covered == \A c \in ir.freed : \E d \in AllChecks \cap Kept : Covers(d, c)

\* RunPassImpl has been at i.
Passed(i) == ir.bb[i] \notin Range(blocks) /\ (inst = Null \/ ir.bb[i] # ir.bb[inst] \/ i < inst)

\* No kept check covers one that is kept and that the pass has been at.
Settled == \A c, d \in AllChecks \cap Kept : Passed(c) => ~Covers(d, c)

\* Nothing failed, only checks are deleted, and all lists are whole.
Intact ==
  /\ Code!Fine(ir) /\ ir.freed \subseteq AllChecks
  /\ ListsLinked(ir) /\ UsersKnown(ir)
  /\ IsInjective(blocks) /\ (inst # Null => ir.bb[inst] \notin Range(blocks))
  /\ Covered /\ Settled

\* The check inst is still there, and none of the users that were looked at
\* covers it.
StillThere ==
  /\ inst \in Kept /\ place \in Nat \ {0} /\ slots = ir.users[ir.in[inst][1]]
  /\ \A j \in DOMAIN slots : j < place => ~Covers(slots[j], inst)

\* It was deleted because of a check that is not among the users to be looked
\* at; its next_ still leads on.
JustDeleted ==
  /\ inst \in ir.freed /\ place \in Nat \ {0}
  /\ IsLeast(ir.next[inst], {k \in LeftOf(ir, ir.bb[inst]) : inst < k})
  /\ \A j \in DOMAIN slots : place <= j => slots[j] \in Kept \cup {inst}
  /\ \E d \in AllChecks \cap Kept : Covers(d, inst) /\ \A j \in DOMAIN slots : place <= j => slots[j] # d

CheckInv ==
  /\ CheckTypes /\ DominatorsFirst /\ CheckStopsExplained
  /\ ProperChecks => /\ phase \in {"visit", "walk", "done"} => Intact
                     /\ phase = "visit" => inst \in Kept \cup {Null}
                     /\ phase = "walk" => StillThere \/ JustDeleted
                     /\ phase = "done" => inst = Null /\ blocks = <<>>

\* The dominators of a dominator are dominators, and no block is its own.
LEMMA DominatorsNest ==
  ASSUME succ \in Cfgs, NEW b \in Block, NEW c \in DominatorsOf(b)
  PROVE  /\ b \in Reachable(succ) /\ c \in Block \ {b} /\ c \in Reachable(succ) /\ Dominates(succ, c, b)
         /\ DominatorsOf(c) \subseteq DominatorsOf(b) \ {b}
<1>1. Reachable(succ) \subseteq Block
  BY RootBlock, ReachSelf DEF Reachable, Reach
<1>2. b \in Reachable(succ) /\ c \in Reachable(succ) \ {b} /\ Dominates(succ, c, b)
  BY DEF DominatorsOf, StrictDominators
<1>3. ASSUME NEW d \in DominatorsOf(c) PROVE d \in DominatorsOf(b) \ {b}
  <2>1. d \in Reachable(succ) \ {c} /\ Dominates(succ, d, c)
    BY <1>2, <1>3 DEF DominatorsOf, StrictDominators
  <2>2. d # b
    BY <1>1, <1>2, <2>1, DominatesAntisym
  <2>3. Dominates(succ, d, b)
    BY <1>1, <1>2, <2>1, DominatesTrans
  <2> QED
    BY <1>2, <2>1, <2>2, <2>3 DEF DominatorsOf, StrictDominators
<1> QED
  BY <1>1, <1>2, <1>3

\* Covering is transitive.
LEMMA CoversTrans ==
  ASSUME Shaped(ir), succ \in Cfgs, NEW e \in DOMAIN ir.op, NEW d \in DOMAIN ir.op, NEW c \in DOMAIN ir.op,
         Covers(e, d), Covers(d, c)
  PROVE  Covers(e, c) /\ e # c /\ d # c
<1>1. Equal(c, e)
  BY DEF Covers, Equal
<1>2. ir.bb[c] \in Block /\ ir.bb[d] \in Block /\ ir.bb[e] \in Block /\ DOMAIN ir.op \subseteq Int
  BY Fields
<1>3. Precedes(e, d) /\ Precedes(d, c)
  BY DEF Covers
<1>4. CASE ir.bb[d] = ir.bb[c]
  BY <1>1, <1>2, <1>3, <1>4, DominatorsNest DEF Precedes, Covers
<1>5. CASE ir.bb[d] # ir.bb[c]
  <2>1. ir.bb[d] \in DominatorsOf(ir.bb[c])
    BY <1>3, <1>5 DEF Precedes
  <2>2. DominatorsOf(ir.bb[d]) \subseteq DominatorsOf(ir.bb[c]) \ {ir.bb[c]}
    BY <1>2, <2>1, DominatorsNest
  <2> QED
    BY <1>1, <1>2, <1>3, <1>5, <2>1, <2>2 DEF Precedes, Covers
<1> QED
  BY <1>4, <1>5

\* An instruction does not cover itself.
LEMMA CoversOther ==
  ASSUME Shaped(ir), NEW c \in DOMAIN ir.op
  PROVE  ~Covers(c, c)
BY Fields DEF Covers, Precedes

\* CheckInputsEqual compares the sets of inputs.
LEMMA InputsCompared ==
  ASSUME Shaped(ir), NEW c \in AllChecks, NEW d \in DOMAIN ir.op, ir.op[d] = ir.op[c]
  PROVE  /\ CheckInputsEqual(ir.in[d], ir.in[c]) <=> Range(ir.in[c]) = Range(ir.in[d])
         /\ d \in AllChecks /\ ir.in[c][1] \in DOMAIN ir.op /\ ir.in[c][1] \in Range(ir.in[c])
<1>1. d \in AllChecks /\ c \in DOMAIN ir.op /\ ir.op[c] \in Checks
  BY DEF AllChecks
<1> DEFINE p == ir.in[c]
           q == ir.in[d]
<1>2. p \in Seq(DOMAIN ir.op) /\ q \in Seq(DOMAIN ir.op)
  BY <1>1, Fields
<1>3. Len(p) = Len(q) /\ Len(p) \in {1, 2}
  BY <1>1 DEF Shaped
<1>4. p[1] \in DOMAIN ir.op /\ p[1] \in Range(p)
  BY <1>2, <1>3 DEF Range
<1>5. CASE Len(p) = 1
  <2>1. Range(p) = {p[1]} /\ Range(q) = {q[1]} /\ p = <<p[1]>> /\ q = <<q[1]>>
    BY <1>2, <1>3, <1>5, OneLong
  <2>2. Reverse(p) = p
    BY <1>2, <1>5, OneLong
  <2> HIDE DEF p, q
  <2>3. CheckInputsEqual(q, p) <=> Range(p) = Range(q)
    BY <2>1, <2>2 DEF CheckInputsEqual
  <2> QED
    BY <1>1, <1>4, <2>3 DEF p, q
<1>6. CASE Len(p) = 2
  <2>1. /\ Range(p) = {p[1], p[2]} /\ Range(q) = {q[1], q[2]}
        /\ p = <<p[1], p[2]>> /\ q = <<q[1], q[2]>>
    BY <1>2, <1>3, <1>6, TwoLong
  <2>2. Reverse(p) = <<p[2], p[1]>>
    BY <1>2, <1>6, TwoLong
  <2> HIDE DEF p, q
  <2>3. CheckInputsEqual(q, p) <=> (q[1] = p[1] /\ q[2] = p[2]) \/ (q[1] = p[2] /\ q[2] = p[1])
    BY <2>1, <2>2 DEF CheckInputsEqual
  <2>4. CheckInputsEqual(q, p) <=> Range(p) = Range(q)
    BY <2>1, <2>3
  <2> QED
    BY <1>1, <1>4, <2>4 DEF p, q
<1> QED
  BY <1>3, <1>5, <1>6

\* From s to t the input v loses inst, and so does the list that is walked if
\* it is the one of v.
Loses(s, t, v) ==
  /\ Shaped(t.ir) /\ OnlyUsers(s.ir, t.ir) /\ t.mem \in Seq(DOMAIN s.ir.op)
  /\ t.mem = IF v = ir.in[inst][1] THEN Overwritten(s.mem, s.ir.users[v], inst) ELSE s.mem
  /\ Code!Fine(s.ir) /\ s.ir.users[v] # <<>> =>
       /\ Code!Fine(t.ir)
       /\ t.ir.users = [s.ir.users EXCEPT ![v] = Front(Filled(s.ir.users[v], inst))]

\* One RemoveUser of a check.
LEMMA RemoveFromFacts ==
  ASSUME NEW s, Shaped(s.ir), s.mem \in Seq(DOMAIN s.ir.op), NEW v \in DOMAIN s.ir.op
  PROVE  Loses(s, RemoveFrom(s, v), v)
<1>1. PICK t : t = RemoveFrom(s, v)
  OBVIOUS
<1>2. /\ t.ir = Code!RemoveUser(s.ir, v, inst)
      /\ t.mem = IF v = ir.in[inst][1] THEN Overwritten(s.mem, s.ir.users[v], inst) ELSE s.mem
  BY <1>1 DEF RemoveFrom
<1>3. s.ir.users[v] \in Seq(DOMAIN s.ir.op)
  BY Fields
<1>4. t.mem \in Seq(DOMAIN s.ir.op)
  BY <1>2, <1>3, OverwrittenFacts
<1>5. /\ Shaped(t.ir) /\ OnlyUsers(s.ir, t.ir)
      /\ Code!Fine(s.ir) /\ s.ir.users[v] # <<>> =>
           /\ Code!Fine(t.ir)
           /\ t.ir.users = [s.ir.users EXCEPT ![v] = Front(Filled(s.ir.users[v], inst))]
  BY <1>2, RemoveUserFacts
<1> QED
  BY <1>1, <1>2, <1>4, <1>5 DEF Loses

\* Every input of the check loses it, and the list that is walked as well.
LEMMA RemoveInstFacts ==
  ASSUME CheckTypes, inst \in AllChecks
  PROVE  LET t == RemoveInst([ir |-> ir, mem |-> slots])
         IN  /\ Shaped(t.ir) /\ OnlyUsers(ir, t.ir) /\ t.mem \in Seq(DOMAIN ir.op)
             /\ /\ ProperChecks /\ Code!Fine(ir)
                /\ \A v \in Range(ir.in[inst]) : ir.users[v] # <<>>
                => /\ Code!Fine(t.ir)
                   /\ \A v \in DOMAIN ir.op : t.ir.users[v] = IF v \in Range(ir.in[inst])
                                                              THEN Front(Filled(ir.users[v], inst))
                                                              ELSE ir.users[v]
                   /\ t.mem = Overwritten(slots, ir.users[ir.in[inst][1]], inst)
<1> DEFINE I == DOMAIN ir.op
           Some == ProperChecks /\ Code!Fine(ir) /\ \A v \in Range(ir.in[inst]) : ir.users[v] # <<>>
<1>1. PICK t : t = RemoveInst([ir |-> ir, mem |-> slots])
  OBVIOUS
<1>2. PICK p : p = ir.in[inst]
  OBVIOUS
<1>3. PICK s : s = [ir |-> ir, mem |-> slots]
  OBVIOUS
<1>4. PICK r : r = RemoveFrom(s, p[1])
  OBVIOUS
<1>5. Shaped(ir) /\ inst \in I /\ ir.op[inst] \in Checks /\ slots \in Seq(I)
  BY DEF CheckTypes, AllChecks
<1>6. p \in Seq(I) /\ ir.users \in [I -> Seq(I)]
  BY <1>2, <1>5, Fields
<1>7. Len(p) \in {1, 2}
  BY <1>2, <1>5 DEF Shaped
<1>8. p[1] \in I
  BY <1>6, <1>7
<1>9. s.ir = ir /\ s.mem = slots
  BY <1>3
<1>10. /\ Shaped(r.ir) /\ OnlyUsers(ir, r.ir) /\ r.mem \in Seq(I) /\ I = DOMAIN r.ir.op
       /\ r.mem = Overwritten(slots, ir.users[p[1]], inst)
       /\ Code!Fine(ir) /\ ir.users[p[1]] # <<>> =>
            /\ Code!Fine(r.ir) /\ r.ir.users = [ir.users EXCEPT ![p[1]] = Front(Filled(ir.users[p[1]], inst))]
  <2>1. Loses(s, r, p[1])
    <3>1. Shaped(s.ir) /\ s.mem \in Seq(DOMAIN s.ir.op) /\ p[1] \in DOMAIN s.ir.op
      BY <1>5, <1>8, <1>9
    <3> QED
      BY <1>4, <3>1, RemoveFromFacts
  <2>2. OnlyUsers(ir, r.ir)
    BY <1>9, <2>1 DEF Loses
  <2> QED
    BY <1>2, <1>9, <2>1, <2>2 DEF OnlyUsers, Loses
<1>11. CASE Len(p) = 1
  <2>1. t = r
    BY <1>1, <1>2, <1>3, <1>4, <1>11 DEF RemoveInst
  <2>2. Range(p) = {p[1]}
    BY <1>6, <1>11, OneLong
  <2>3. ASSUME Some, NEW v \in I
        PROVE  t.ir.users[v] = IF v \in Range(p) THEN Front(Filled(ir.users[v], inst)) ELSE ir.users[v]
    BY <1>2, <1>6, <1>8, <1>10, <2>1, <2>2, <2>3
  <2> QED
    BY <1>1, <1>2, <1>10, <2>1, <2>2, <2>3
<1>12. CASE Len(p) = 2
  <2>1. t = RemoveFrom(r, p[2])
    BY <1>1, <1>2, <1>3, <1>4, <1>12 DEF RemoveInst
  <2>2. Range(p) = {p[1], p[2]} /\ p[2] \in I
    BY <1>6, <1>12, TwoLong
  <2>3. /\ Shaped(t.ir) /\ OnlyUsers(r.ir, t.ir) /\ t.mem \in Seq(I)
        /\ t.mem = IF p[2] = p[1] THEN Overwritten(r.mem, r.ir.users[p[2]], inst) ELSE r.mem
        /\ Code!Fine(r.ir) /\ r.ir.users[p[2]] # <<>> =>
             /\ Code!Fine(t.ir) /\ t.ir.users = [r.ir.users EXCEPT ![p[2]] = Front(Filled(r.ir.users[p[2]], inst))]
    <3>1. Shaped(r.ir) /\ r.mem \in Seq(DOMAIN r.ir.op) /\ p[2] \in DOMAIN r.ir.op
      BY <1>10, <2>2
    <3>2. Loses(r, t, p[2])
      BY <2>1, <3>1, RemoveFromFacts
    <3> QED
      BY <1>2, <1>10, <3>2 DEF Loses
  <2>4. OnlyUsers(ir, t.ir)
    BY <1>10, <2>3 DEF OnlyUsers
  <2>5. ASSUME Some
        PROVE  /\ Code!Fine(t.ir) /\ t.mem = r.mem
               /\ \A v \in I : t.ir.users[v] = IF v \in Range(p) THEN Front(Filled(ir.users[v], inst))
                                                                 ELSE ir.users[v]
    <3>1. p[1] # p[2]
      <4>1. IsInjective(p) /\ 1 \in DOMAIN p /\ 2 \in DOMAIN p
        BY <1>2, <1>6, <1>12, <2>5 DEF ProperChecks
      <4> QED
        BY <4>1 DEF IsInjective
    <3>2. Code!Fine(ir) /\ ir.users[p[1]] # <<>> /\ ir.users[p[2]] # <<>>
      BY <1>2, <2>2, <2>5
    <3>3. Code!Fine(r.ir) /\ r.ir.users = [ir.users EXCEPT ![p[1]] = Front(Filled(ir.users[p[1]], inst))]
      BY <1>10, <3>2
    <3>4. r.ir.users[p[2]] = ir.users[p[2]]
      BY <1>6, <2>2, <3>1, <3>3
    <3>5. Code!Fine(t.ir) /\ t.ir.users = [r.ir.users EXCEPT ![p[2]] = Front(Filled(ir.users[p[2]], inst))]
      BY <2>3, <3>2, <3>3, <3>4
    <3> QED
      BY <1>6, <1>8, <2>2, <2>3, <3>1, <3>3, <3>5
  <2> QED
    BY <1>1, <1>2, <1>10, <2>3, <2>4, <2>5
<1> QED
  BY <1>7, <1>11, <1>12

\* The chain of an unreachable block is empty.
LEMMA ChainKnown ==
  ASSUME IInv, pc = "done", NEW b \in Block
  PROVE  Chain[b] = DominatorsOf(b)
<1>1. Reachable(succ) = Range(order)
  BY ReachableIsVisited DEF IInv, Visit
<1>2. CASE b \in Range(order)
  BY <1>1, <1>2, ChainRight DEF DominatorsOf
<1>3. CASE b \notin Range(order)
  <2>1. idom[b] = Null
    BY <1>3 DEF IInv, Finished
  <2> QED
    BY <1>1, <1>3, <2>1, ChainRec DEF DominatorsOf
<1> QED
  BY <1>2, <1>3

\* The instructions are what they were, and where.
SameCode == UNCHANGED <<ir.op, ir.in, ir.bb, succ>>

\* Then checks cover each other as before.
LEMMA CoversSame ==
  ASSUME SameCode
  PROVE  /\ AllChecks' = AllChecks /\ ProperChecks' = ProperChecks
         /\ \A d, c : /\ Covers(d, c)' <=> Covers(d, c)
                      /\ Equal(d, c)' <=> Equal(d, c)
                      /\ Precedes(d, c)' <=> Precedes(d, c)
<1>1. AllChecks' = AllChecks
  BY DEF SameCode, AllChecks
<1>2. ProperChecks' = ProperChecks
  BY <1>1 DEF SameCode, ProperChecks
<1>3. ASSUME NEW d, NEW c PROVE (Equal(d, c)' <=> Equal(d, c)) /\ (Precedes(d, c)' <=> Precedes(d, c))
  <2>1. DominatorsOf(ir.bb[c])' = DominatorsOf(ir.bb[c])
    BY DEF SameCode, DominatorsOf
  <2> QED
    BY <2>1 DEF SameCode, Equal, Precedes
<1>4. ASSUME NEW d, NEW c PROVE Covers(d, c)' <=> Covers(d, c)
  <2>1. (Equal(c, d)' <=> Equal(c, d)) /\ (Precedes(d, c)' <=> Precedes(d, c))
    BY <1>3
  <2> QED
    BY <2>1 DEF Covers
<1> QED
  BY <1>1, <1>2, <1>3, <1>4

\* Nothing was deleted.
LEMMA SameIr ==
  ASSUME UNCHANGED <<vars, ir>>
  PROVE  /\ SameCode /\ AllChecks' = AllChecks /\ ProperChecks' = ProperChecks /\ Kept' = Kept /\ Chain' = Chain
         /\ \A d, c : Covers(d, c)' <=> Covers(d, c)
         /\ \A b : DominatorsOf(b)' = DominatorsOf(b)
         /\ Covered' <=> Covered
<1>1. SameCode
  BY DEF SameCode, vars
<1>2. Kept' = Kept /\ Chain' = Chain /\ \A b : DominatorsOf(b)' = DominatorsOf(b)
  BY DEF vars, Kept, Chain, DominatorsOf
<1>3. AllChecks' = AllChecks /\ ProperChecks' = ProperChecks /\ \A d, c : Covers(d, c)' <=> Covers(d, c)
  BY <1>1, CoversSame
<1>4. Covered' <=> Covered
  BY <1>2, <1>3 DEF Covered
<1> QED
  BY <1>1, <1>2, <1>3, <1>4

\* The invariant, action by action.
LEMMA CheckInitInv == Init /\ CheckInit /\ Built(ir) => CheckInv
<1> SUFFICES ASSUME Init, CheckInit, Built(ir) PROVE CheckInv
  OBVIOUS
<1>1. /\ blocks = [b \in Block |-> b] /\ inst = Null /\ slots = <<>> /\ place = 0 /\ phase = "dominators"
  BY DEF CheckInit
<1>2. blocks \in Seq(Block)
  BY <1>1, SizeAssumption DEF Block
<1>3. CheckTypes
  BY <1>1, <1>2 DEF CheckTypes, Built
<1>4. IInv
  BY InitInv
<1>5. pc = "start"
  BY DEF Init
<1>6. DominatorsFirst
  BY <1>1, <1>4, <1>5 DEF DominatorsFirst
<1> QED
  BY <1>1, <1>3, <1>6 DEF CheckInv, CheckStopsExplained

LEMMA DominatorsStep == CheckInv /\ Dominators => CheckInv'
<1> SUFFICES ASSUME CheckInv, Dominators PROVE CheckInv'
  OBVIOUS
<1>1. Next /\ pc \notin {"done", "crash", "used"} /\ UNCHANGED checkVars
  BY DEF Dominators
<1>2. CheckTypes /\ DominatorsFirst
  BY DEF CheckInv
<1>3. phase = "dominators"
  BY <1>1, <1>2 DEF DominatorsFirst, CheckTypes
<1>4. IInv /\ Built(ir) /\ inst = Null /\ blocks = [b \in Block |-> b]
  BY <1>2, <1>3 DEF DominatorsFirst
<1>5. IInv'
  BY <1>1, <1>4, NextInv
<1>6. pc' # "used"
  BY <1>5 DEF IInv, TypeInv
<1>7. UNCHANGED <<ir, blocks, inst, slots, place, phase>>
  BY <1>1 DEF checkVars
<1>8. CheckTypes'
  BY <1>2, <1>7 DEF CheckTypes
<1>9. DominatorsFirst'
  BY <1>3, <1>4, <1>5, <1>6, <1>7 DEF DominatorsFirst
<1> QED
  BY <1>3, <1>7, <1>8, <1>9 DEF CheckInv, CheckStopsExplained

LEMMA KnownStep == CheckInv /\ DominatorsKnown => CheckInv'
<1> SUFFICES ASSUME CheckInv, DominatorsKnown PROVE CheckInv'
  OBVIOUS
<1>1. /\ phase = "dominators" /\ pc \in {"done", "crash"}
      /\ UNCHANGED <<succ, idom>> /\ UNCHANGED <<ir, blocks, inst, slots, place>>
      /\ IF pc = "done" THEN phase' = "visit" /\ pc' = "used" ELSE phase' = "stopped" /\ pc' = pc
  BY DEF DominatorsKnown
<1>2. CheckTypes /\ IInv /\ Built(ir) /\ inst = Null /\ blocks = [b \in Block |-> b]
  BY <1>1 DEF CheckInv, DominatorsFirst
<1>3. CheckTypes'
  BY <1>1, <1>2 DEF CheckTypes
<1>4. CASE pc = "crash"
  <2>1. DominatorsFirst' /\ CheckStopsExplained'
    BY <1>1, <1>4 DEF DominatorsFirst, CheckStopsExplained
  <2> QED
    BY <1>1, <1>3, <1>4, <2>1 DEF CheckInv
<1>5. CASE pc = "done"
  <2>1. \A b \in Block : Chain[b] = DominatorsOf(b)
    BY <1>2, <1>5, ChainKnown
  <2>2. Chain' = Chain /\ \A b : DominatorsOf(b)' = DominatorsOf(b)
    BY <1>1 DEF Chain, DominatorsOf
  <2>3. succ \in Cfgs
    BY <1>2 DEF IInv, TypeInv
  <2>4. DominatorsFirst'
    BY <1>1, <1>5, <2>1, <2>2, <2>3 DEF DominatorsFirst
  <2>5. CheckStopsExplained'
    BY <1>1, <1>5 DEF CheckStopsExplained
  <2>6. ir.freed = {} /\ Code!Fine(ir) /\ ListsLinked(ir) /\ UsersKnown(ir) /\ ir.bb \in [DOMAIN ir.op -> Block]
    BY <1>2, Fields DEF Built, Code!Fine
  <2>7. IsInjective(blocks) /\ Range(blocks) = Block
    BY <1>2 DEF IsInjective, Range
  <2>8. Covered' /\ Settled'
    <3>1. \A i \in DOMAIN ir.op : ~Passed(i)'
      BY <1>1, <2>6, <2>7 DEF Passed
    <3> QED
      BY <1>1, <2>6, <3>1 DEF Covered, Settled, AllChecks, Kept
  <2>9. Intact'
    BY <1>1, <1>2, <2>6, <2>7, <2>8 DEF Intact
  <2> QED
    BY <1>1, <1>2, <1>3, <1>5, <2>4, <2>5, <2>9 DEF CheckInv
<1> QED
  BY <1>1, <1>4, <1>5

\* What the steps that delete nothing keep.
LEMMA StillSound ==
  ASSUME CheckInv, UNCHANGED <<vars, ir>>, phase \in {"visit", "walk"}, phase' \in {"visit", "walk", "done"},
         CheckTypes', ProperChecks => Intact' /\ (phase' = "visit" => inst' \in Kept \cup {Null})
                                      /\ (phase' = "walk" => (StillThere \/ JustDeleted)')
                                      /\ (phase' = "done" => inst' = Null /\ blocks' = <<>>)
  PROVE  CheckInv'
<1>1. ProperChecks' = ProperChecks /\ Kept' = Kept /\ Chain' = Chain /\ \A b : DominatorsOf(b)' = DominatorsOf(b)
  BY SameIr
<1>2. DominatorsFirst'
  <2>1. UNCHANGED <<succ, pc>>
    BY DEF vars
  <2>2. DominatorsFirst
    BY DEF CheckInv
  <2> QED
    BY <1>1, <2>1, <2>2 DEF DominatorsFirst
<1>3. CheckStopsExplained'
  BY DEF CheckStopsExplained
<1> QED
  BY <1>1, <1>2, <1>3 DEF CheckInv

LEMMA TakeBlockStep == CheckInv /\ TakeBlock => CheckInv'
<1> SUFFICES ASSUME CheckInv, TakeBlock PROVE CheckInv'
  OBVIOUS
<1>1. /\ phase = "visit" /\ inst = Null /\ blocks # <<>>
      /\ inst' = ir.first[Head(blocks)] /\ blocks' = Tail(blocks)
      /\ UNCHANGED <<vars, ir, slots, place, phase>>
  BY DEF TakeBlock
<1>2. CheckTypes /\ Shaped(ir) /\ blocks \in Seq(Block)
  BY DEF CheckInv, CheckTypes
<1>3. PICK b \in Block : b = Head(blocks)
  BY <1>1, <1>2
<1>4. inst' \in DOMAIN ir.op \cup {Null} /\ inst' = ir.first[b] /\ Null \notin DOMAIN ir.op
  BY <1>1, <1>2, <1>3, Fields
<1>5. CheckTypes'
  BY <1>1, <1>2, <1>4 DEF CheckTypes
<1>6. UNCHANGED <<vars, ir>>
  BY <1>1
<1>7. /\ AllChecks' = AllChecks /\ Kept' = Kept /\ (\A d, c : Covers(d, c)' <=> Covers(d, c)) /\ (Covered' <=> Covered)
  BY <1>6, SameIr
<1>8. ASSUME ProperChecks PROVE Intact' /\ inst' \in Kept \cup {Null}
  <2>1. Intact
    BY <1>1, <1>8 DEF CheckInv
  <2>2. IsLeast(inst', LeftOf(ir, b))
    BY <1>4, <2>1 DEF Intact, ListsLinked
  <2>3. \/ inst' = Null /\ LeftOf(ir, b) = {}
        \/ inst' \in LeftOf(ir, b) /\ \A k \in LeftOf(ir, b) : inst' <= k
    BY <2>2 DEF IsLeast
  <2>4. inst' \in Kept \cup {Null} /\ (inst' # Null => ir.bb[inst'] = b)
    BY <2>3 DEF LeftOf, Left, Kept
  <2>5. IsInjective(blocks') /\ b \notin Range(blocks') /\ Range(blocks) = {b} \cup Range(blocks')
    BY <1>1, <1>2, <1>3, <2>1, HeadOut DEF Intact
  <2>6. Settled'
    <3> SUFFICES ASSUME NEW c \in AllChecks \cap Kept, NEW d \in AllChecks \cap Kept, Passed(c)' PROVE ~Covers(d, c)
      BY <1>7 DEF Settled
    <3>1. Settled
      BY <2>1 DEF Intact
    <3>2. ir.bb[c] \notin Range(blocks') /\ (inst' = Null \/ ir.bb[c] # ir.bb[inst'] \/ c < inst')
      BY <1>1 DEF Passed
    <3>3. ir.bb[c] # b
      <4>1. ASSUME ir.bb[c] = b PROVE FALSE
        <5>1. c \in LeftOf(ir, b)
          BY <4>1 DEF LeftOf, Left, Kept
        <5>2. inst' \in LeftOf(ir, b) /\ inst' <= c /\ ir.bb[inst'] = b
          BY <2>3, <5>1 DEF LeftOf
        <5>3. c \in Nat /\ inst' \in Nat
          BY <1>2, <5>1, <5>2, Fields DEF LeftOf, Left
        <5>4. inst' # Null
          BY <1>4, <5>2 DEF LeftOf, Left
        <5> QED
          BY <3>2, <4>1, <5>2, <5>3, <5>4
      <4> QED
        BY <4>1
    <3>4. Passed(c)
      BY <1>1, <2>5, <3>2, <3>3 DEF Passed
    <3> QED
      BY <3>1, <3>4 DEF Settled
  <2>7. Intact'
    BY <1>1, <1>7, <2>1, <2>4, <2>5, <2>6 DEF Intact
  <2> QED
    BY <2>4, <2>7
<1> QED
  BY <1>1, <1>5, <1>6, <1>8, StillSound

\* The pass goes on to the next instruction of the list; inst is none that is
\* kept though a kept check covers it.
LEMMA Onwards ==
  ASSUME Shaped(ir), Intact, UNCHANGED <<vars, ir, blocks>>, inst \in DOMAIN ir.op,
         IsLeast(inst', {k \in LeftOf(ir, ir.bb[inst]) : inst < k}),
         inst \in AllChecks \cap Kept => \A d \in AllChecks \cap Kept : ~Covers(d, inst)
  PROVE  Intact' /\ inst' \in Kept \cup {Null}
<1> DEFINE S == {k \in LeftOf(ir, ir.bb[inst]) : inst < k}
<1>1. /\ AllChecks' = AllChecks /\ Kept' = Kept /\ (\A d, c : Covers(d, c)' <=> Covers(d, c)) /\ (Covered' <=> Covered)
  BY SameIr
<1>2. \/ inst' = Null /\ S = {}
      \/ inst' \in S /\ \A k \in S : inst' <= k
  BY DEF IsLeast
<1>3. inst' \in Kept \cup {Null} /\ (inst' # Null => ir.bb[inst'] = ir.bb[inst])
  BY <1>2 DEF LeftOf, Left, Kept
<1>4. DOMAIN ir.op \subseteq Nat \ {0}
  BY Fields
<1>5. Settled /\ ir.bb[inst] \notin Range(blocks)
  BY <1>4 DEF Intact, Null
<1>6. Settled'
  <2> SUFFICES ASSUME NEW c \in AllChecks \cap Kept, NEW d \in AllChecks \cap Kept, Passed(c)' PROVE ~Covers(d, c)
    BY <1>1 DEF Settled
  <2>1. ir.bb[c] \notin Range(blocks) /\ (inst' = Null \/ ir.bb[c] # ir.bb[inst'] \/ c < inst')
    BY DEF Passed
  <2>2. c = inst \/ Passed(c)
    <3>1. ASSUME c # inst, ir.bb[c] = ir.bb[inst], ~(c < inst) PROVE FALSE
      <4>1. c \in Nat /\ inst \in Nat
        BY <1>4 DEF AllChecks
      <4>2. c \in S
        BY <3>1, <4>1 DEF LeftOf, Left, Kept
      <4>3. inst' \in S /\ inst' <= c /\ ir.bb[inst'] = ir.bb[inst]
        BY <1>2, <4>2 DEF LeftOf
      <4>4. inst' \in Nat \ {0}
        BY <1>4, <4>3 DEF LeftOf, Left
      <4> QED
        BY <2>1, <3>1, <4>1, <4>3, <4>4 DEF Null
    <3> QED
      BY <2>1, <3>1 DEF Passed
  <2> QED
    BY <1>5, <2>2 DEF Settled
<1> QED
  BY <1>1, <1>3, <1>5, <1>6 DEF Intact

LEMMA VisitInstStep == CheckInv /\ VisitInst => CheckInv'
<1> SUFFICES ASSUME CheckInv, VisitInst PROVE CheckInv'
  OBVIOUS
<1>1. /\ phase = "visit" /\ inst # Null /\ UNCHANGED <<vars, ir, blocks>>
  BY DEF VisitInst
<1>2. CheckTypes /\ Shaped(ir) /\ inst \in DOMAIN ir.op
  BY <1>1 DEF CheckInv, CheckTypes
<1>3. /\ AllChecks' = AllChecks /\ Kept' = Kept /\ (\A d, c : Covers(d, c)' <=> Covers(d, c)) /\ (Covered' <=> Covered)
  BY <1>1, SameIr
<1>4. CASE ir.op[inst] \in Checks
  <2>1. phase' = "walk" /\ slots' = ir.users[ir.in[inst][1]] /\ place' = 1 /\ inst' = inst
    BY <1>4 DEF VisitInst
  <2>2. ir.users[ir.in[inst][1]] \in Seq(DOMAIN ir.op)
    BY <1>2, <1>4, Fields, InputsCompared DEF AllChecks
  <2>3. CheckTypes'
    BY <1>1, <1>2, <1>4, <2>1, <2>2 DEF CheckTypes
  <2>4. ASSUME ProperChecks PROVE Intact' /\ StillThere'
    <3>1. Intact /\ inst \in Kept
      BY <1>1, <2>4 DEF CheckInv
    <3>2. Settled'
      BY <1>1, <1>3, <2>1, <3>1 DEF Intact, Settled, Passed
    <3>3. Intact'
      BY <1>1, <1>3, <2>1, <3>1, <3>2 DEF Intact
    <3>4. StillThere'
      <4>1. DOMAIN slots' \subseteq Nat \ {0}
        BY <2>1, <2>2
      <4> QED
        BY <1>1, <1>3, <2>1, <3>1, <4>1 DEF StillThere
    <3> QED
      BY <3>3, <3>4
  <2> QED
    BY <1>1, <2>1, <2>3, <2>4, StillSound
<1>5. CASE ir.op[inst] \notin Checks
  <2>1. inst' = ir.next[inst] /\ UNCHANGED <<slots, place, phase>>
    BY <1>5 DEF VisitInst
  <2>2. inst' \in DOMAIN ir.op \cup {Null}
    BY <1>2, <2>1, Fields
  <2>3. CheckTypes'
    BY <1>1, <1>2, <2>1, <2>2 DEF CheckTypes
  <2>4. ASSUME ProperChecks PROVE Intact' /\ inst' \in Kept \cup {Null}
    <3>1. Intact /\ inst \in Kept
      BY <1>1, <2>4 DEF CheckInv
    <3>2. IsLeast(inst', {k \in LeftOf(ir, ir.bb[inst]) : inst < k})
      BY <2>1, <3>1 DEF Intact, ListsLinked, Kept, Left
    <3>3. inst \notin AllChecks
      BY <1>5 DEF AllChecks
    <3> QED
      BY <1>1, <1>2, <2>1, <3>1, <3>2, <3>3, Onwards
  <2> QED
    BY <1>1, <2>1, <2>3, <2>4, StillSound
<1> QED
  BY <1>4, <1>5

LEMMA VisitEndStep == CheckInv /\ VisitEnd => CheckInv'
<1> SUFFICES ASSUME CheckInv, VisitEnd PROVE CheckInv'
  OBVIOUS
<1>1. /\ phase = "visit" /\ inst = Null /\ blocks = <<>> /\ phase' = "done"
      /\ UNCHANGED <<vars, ir, blocks, inst, slots, place>>
  BY DEF VisitEnd
<1>2. CheckTypes'
  BY <1>1 DEF CheckInv, CheckTypes
<1>3. /\ AllChecks' = AllChecks /\ Kept' = Kept /\ (\A d, c : Covers(d, c)' <=> Covers(d, c)) /\ (Covered' <=> Covered)
  BY <1>1, SameIr
<1>4. ASSUME ProperChecks PROVE Intact'
  <2>1. Intact
    BY <1>1, <1>4 DEF CheckInv
  <2>2. Settled'
    BY <1>1, <1>3, <2>1 DEF Intact, Settled, Passed
  <2> QED
    BY <1>1, <1>3, <2>1, <2>2 DEF Intact
<1> QED
  BY <1>1, <1>2, <1>4, StillSound

LEMMA WalkEndStep == CheckInv /\ WalkEnd => CheckInv'
<1> SUFFICES ASSUME CheckInv, WalkEnd PROVE CheckInv'
  OBVIOUS
<1>1. /\ phase = "walk" /\ place \notin DOMAIN slots /\ inst' = ir.next[inst]
      /\ phase' = "visit" /\ slots' = <<>> /\ place' = 0
      /\ UNCHANGED <<vars, ir, blocks>>
  BY DEF WalkEnd
<1>2. CheckTypes /\ Shaped(ir) /\ inst \in DOMAIN ir.op /\ inst # Null /\ inst \in AllChecks
  BY <1>1 DEF CheckInv, CheckTypes, AllChecks
<1>3. inst' \in DOMAIN ir.op \cup {Null}
  BY <1>1, <1>2, Fields
<1>4. CheckTypes'
  BY <1>1, <1>2, <1>3 DEF CheckTypes
<1>5. ASSUME ProperChecks PROVE Intact' /\ inst' \in Kept \cup {Null}
  <2>1. Intact /\ (StillThere \/ JustDeleted)
    BY <1>1, <1>5 DEF CheckInv
  <2>2. CASE JustDeleted
    BY <1>1, <1>2, <2>1, <2>2, Onwards DEF JustDeleted, Kept
  <2>3. CASE StillThere
    <3>1. IsLeast(inst', {k \in LeftOf(ir, ir.bb[inst]) : inst < k})
      BY <1>1, <2>1, <2>3 DEF Intact, StillThere, ListsLinked, Kept, Left
    <3>2. ASSUME NEW d \in AllChecks \cap Kept, Covers(d, inst) PROVE FALSE
      <4>1. ir.op[d] = ir.op[inst] /\ Range(ir.in[d]) = Range(ir.in[inst])
        BY <3>2 DEF Covers, Equal
      <4>2. ir.in[inst][1] \in Range(ir.in[d]) /\ ir.in[inst][1] \in DOMAIN ir.op
        BY <1>2, <4>1, InputsCompared
      <4>3. d \in Range(slots)
        BY <2>1, <2>3, <4>2 DEF Intact, UsersKnown, StillThere, Kept, Left
      <4>4. PICK j \in DOMAIN slots : slots[j] = d
        BY <4>3 DEF Range
      <4>5. ~(j < place)
        BY <2>3, <3>2, <4>4 DEF StillThere
      <4>6. slots \in Seq(DOMAIN ir.op) /\ place \in Nat \ {0}
        BY <1>2, <2>3 DEF CheckTypes, StillThere
      <4>7. place \in DOMAIN slots
        BY <4>4, <4>5, <4>6
      <4> QED
        BY <1>1, <4>7
    <3> QED
      BY <1>1, <1>2, <2>1, <3>1, <3>2, Onwards
  <2> QED
    BY <2>1, <2>2, <2>3
<1> QED
  BY <1>1, <1>4, <1>5, StillSound

\* CheckDominance answers right, and of a check that is not in the list any
\* more it says that no instruction of its block comes before it.
LEMMA RedundantIs ==
  ASSUME CheckTypes, DominatorsFirst, pc = "used", Intact, inst \in AllChecks, NEW d \in Kept
  PROVE  /\ MakesRedundant(d, inst) => Covers(d, inst) /\ d \in AllChecks
         /\ inst \in Kept /\ Covers(d, inst) => MakesRedundant(d, inst)
         /\ inst \notin Kept /\ MakesRedundant(d, inst) => ir.bb[d] # ir.bb[inst]
<1>1. Shaped(ir) /\ d \in DOMAIN ir.op /\ inst \in DOMAIN ir.op /\ DOMAIN ir.op \subseteq Nat
  BY Fields DEF CheckTypes, Kept, AllChecks
<1>2. ir.bb[inst] \in Block
  BY <1>1, Fields
<1>3. ir.op[d] = ir.op[inst] => (Equal(inst, d) <=> CheckInputsEqual(ir.in[d], ir.in[inst])) /\ d \in AllChecks
  BY <1>1, InputsCompared DEF Equal
<1>4. CASE ir.bb[d] = ir.bb[inst]
  <2>1. Range(Code!From(ir, d)) = {k \in LeftOf(ir, ir.bb[d]) : d <= k}
    BY <1>1, FromFacts DEF Intact, Kept, Left
  <2>2. d # inst => (InstDominates(d, inst) <=> inst \in Kept /\ d < inst)
    BY <1>1, <1>4, <2>1 DEF InstDominates, LeftOf, Left, Kept
  <2>3. Precedes(d, inst) <=> d < inst
    BY <1>4 DEF Precedes
  <2>4. d < inst => d # inst
    BY <1>1
  <2> QED
    BY <1>3, <2>2, <2>3, <2>4 DEF MakesRedundant, Covers, Equal
<1>5. CASE ir.bb[d] # ir.bb[inst]
  <2>1. InstDominates(d, inst) <=> Precedes(d, inst)
    BY <1>2, <1>5 DEF InstDominates, CheckDominance, Precedes, DominatorsFirst
  <2>2. d # inst
    BY <1>5
  <2> QED
    BY <1>3, <1>5, <2>1, <2>2 DEF MakesRedundant, Covers, Equal
<1> QED
  BY <1>4, <1>5

\* What a step of the walk leaves as it is.
Walked == /\ CheckTypes' /\ SameCode /\ UNCHANGED <<vars, blocks, inst>> /\ place' = place + 1
          /\ phase' = IF Code!Fine(ir') THEN "walk" ELSE "stopped"

\* The types and the code stay.
LEMMA WalkTypes ==
  ASSUME CheckInv, WalkUser
  PROVE  /\ Walked /\ phase = "walk" /\ place \in DOMAIN slots /\ inst \in AllChecks /\ pc = "used"
         /\ CheckTypes /\ DominatorsFirst /\ Shaped(ir)
<1>1. /\ phase = "walk" /\ place \in DOMAIN slots /\ place' = place + 1
      /\ phase' = IF Code!Fine(ir') THEN "walk" ELSE "stopped"
      /\ UNCHANGED <<vars, blocks, inst>>
  BY DEF WalkUser
<1>2. CheckTypes /\ DominatorsFirst /\ Shaped(ir) /\ inst # Null /\ inst \in DOMAIN ir.op
  BY <1>1 DEF CheckInv, CheckTypes
<1>3. inst \in AllChecks
  BY <1>1, <1>2 DEF CheckTypes, AllChecks
<1>4. succ' = succ
  BY <1>1 DEF vars
<1>5. Shaped(ir') /\ slots' \in Seq(DOMAIN ir.op) /\ ir'.op = ir.op /\ ir'.in = ir.in /\ ir'.bb = ir.bb
  <2>1. CASE MakesRedundant(slots[place], inst)
    <3>1. PICK r : r = RemoveInst([ir |-> ir, mem |-> slots])
      OBVIOUS
    <3>2. ir' = Code!Delete(r.ir, inst) /\ slots' = r.mem
      BY <2>1, <3>1 DEF WalkUser
    <3>3. Shaped(r.ir) /\ OnlyUsers(ir, r.ir) /\ r.mem \in Seq(DOMAIN ir.op)
      BY <1>2, <1>3, <3>1, RemoveInstFacts
    <3>4. inst \in DOMAIN r.ir.op
      BY <1>2, <3>3 DEF OnlyUsers
    <3>5. Shaped(ir') /\ ir'.op = r.ir.op /\ ir'.in = r.ir.in /\ ir'.bb = r.ir.bb
      BY <3>2, <3>3, <3>4, DeleteFacts
    <3> QED
      BY <3>2, <3>3, <3>5 DEF OnlyUsers
  <2>2. CASE ~MakesRedundant(slots[place], inst)
    BY <1>2, <2>2 DEF WalkUser, CheckTypes
  <2> QED
    BY <2>1, <2>2
<1>6. SameCode
  BY <1>4, <1>5 DEF SameCode
<1>7. CheckTypes'
  BY <1>1, <1>2, <1>5 DEF CheckTypes
<1> QED
  BY <1>1, <1>2, <1>3, <1>6, <1>7 DEF Walked, DominatorsFirst

\* A user that does not cover the check is passed over.
LEMMA PassOver ==
  ASSUME CheckInv, WalkUser, ProperChecks, ~MakesRedundant(slots[place], inst)
  PROVE  phase' = "walk" /\ Intact' /\ (StillThere \/ JustDeleted)'
<1>1. /\ Walked /\ phase = "walk" /\ place \in DOMAIN slots /\ inst \in AllChecks /\ pc = "used"
      /\ CheckTypes /\ DominatorsFirst
  BY WalkTypes
<1>2. UNCHANGED <<ir, slots>> /\ UNCHANGED <<vars, blocks, inst>> /\ place' = place + 1
  BY <1>1 DEF WalkUser, Walked
<1>3. Intact /\ (StillThere \/ JustDeleted)
  BY <1>1 DEF CheckInv
<1>4. UNCHANGED <<vars, ir>>
  BY <1>2
<1>5. /\ AllChecks' = AllChecks /\ Kept' = Kept /\ (\A d, c : Covers(d, c)' <=> Covers(d, c)) /\ (Covered' <=> Covered)
  BY <1>4, SameIr
<1>6. phase' = "walk"
  BY <1>1, <1>2, <1>3 DEF Walked, Intact
<1>7. Intact'
  <2>1. Settled'
    BY <1>2, <1>3, <1>5 DEF Intact, Settled, Passed
  <2> QED
    BY <1>2, <1>3, <1>5, <2>1 DEF Intact
<1>8. place \in Nat /\ DOMAIN slots \subseteq Nat \ {0}
  BY <1>1 DEF CheckTypes
<1>9. CASE StillThere
  <2>1. slots[place] \in Kept
    <3>1. ir.in[inst][1] \in DOMAIN ir.op
      BY <1>1, InputsCompared DEF CheckTypes, AllChecks
    <3>2. slots[place] \in Range(ir.users[ir.in[inst][1]])
      BY <1>1, <1>9 DEF StillThere, Range
    <3> QED
      BY <1>3, <3>1, <3>2 DEF Intact, UsersKnown, Left, Kept
  <2>2. ~Covers(slots[place], inst)
    BY <1>1, <1>3, <1>9, <2>1, RedundantIs DEF StillThere
  <2>3. \A j \in DOMAIN slots : j < place + 1 => j < place \/ j = place
    BY <1>8
  <2>4. \A j \in DOMAIN slots : j < place + 1 => ~Covers(slots[j], inst)
    BY <1>9, <2>2, <2>3 DEF StillThere
  <2>5. StillThere'
    BY <1>2, <1>5, <1>8, <1>9, <2>4, SMTT(20) DEF StillThere
  <2> QED
    BY <1>6, <1>7, <2>5
<1>10. CASE JustDeleted
  <2>1. \A j \in DOMAIN slots : place + 1 <= j => place <= j
    BY <1>8
  <2>2. inst' \in ir'.freed /\ place' \in Nat \ {0}
    BY <1>2, <1>8, <1>10 DEF JustDeleted
  <2>3. IsLeast(ir.next[inst], {k \in LeftOf(ir, ir.bb[inst]) : inst < k})'
    BY <1>2, <1>10 DEF JustDeleted
  <2>4. \A j \in DOMAIN slots' : place' <= j => slots'[j] \in Kept' \cup {inst'}
    BY <1>2, <1>5, <1>10, <2>1 DEF JustDeleted
  <2>5. PICK d \in AllChecks \cap Kept : Covers(d, inst) /\ \A j \in DOMAIN slots : place <= j => slots[j] # d
    BY <1>10 DEF JustDeleted
  <2>6. Covers(d, inst)' /\ \A j \in DOMAIN slots' : place' <= j => slots'[j] # d
    BY <1>2, <1>5, <2>1, <2>5
  <2>7. JustDeleted'
    BY <1>5, <2>2, <2>3, <2>4, <2>5, <2>6 DEF JustDeleted
  <2> QED
    BY <1>6, <1>7, <2>7
<1> QED
  BY <1>3, <1>9, <1>10

\* A check that a kept check covers is deleted; the lists stay right.
LEMMA DeleteOnce ==
  ASSUME CheckInv, WalkUser, ProperChecks, MakesRedundant(slots[place], inst), StillThere
  PROVE  phase' = "walk" /\ Intact' /\ JustDeleted'
<1> DEFINE I == DOMAIN ir.op
           first == ir.in[inst][1]
<1>1. /\ Walked /\ phase = "walk" /\ place \in DOMAIN slots /\ inst \in AllChecks /\ pc = "used"
      /\ CheckTypes /\ DominatorsFirst /\ Shaped(ir)
  BY WalkTypes
<1>2. UNCHANGED <<vars, blocks, inst>> /\ place' = place + 1 /\ SameCode
  BY <1>1 DEF Walked
<1>3. Intact /\ inst \in Kept /\ inst \in I /\ slots = ir.users[first]
  BY <1>1 DEF CheckInv, StillThere, Kept
<1>4. /\ first \in I /\ first \in Range(ir.in[inst]) /\ slots \in Seq(I) /\ place \in Nat /\ place # 0
      /\ ir.in \in [I -> Seq(I)] /\ ir.users \in [I -> Seq(I)]
  BY <1>1, <1>3, InputsCompared, Fields DEF CheckTypes, StillThere
<1>5. \A v \in I : Range(ir.users[v]) = {i \in Kept : v \in Range(ir.in[i])} /\ IsInjective(ir.users[v])
  BY <1>3 DEF Intact, UsersKnown, Left, Kept
<1>6. Range(slots) \subseteq Kept /\ IsInjective(slots) /\ inst \in Range(slots)
  BY <1>3, <1>4, <1>5
<1>7. PICK d : d = slots[place]
  OBVIOUS
<1>8. d \in Range(slots)
  BY <1>1, <1>7 DEF Range
<1>9. d \in Kept \cap AllChecks /\ Covers(d, inst) /\ d # inst
  <2>1. d \in Kept
    BY <1>6, <1>8
  <2>2. Covers(d, inst) /\ d \in AllChecks
    BY <1>1, <1>3, <1>7, <2>1, RedundantIs
  <2>3. d # inst
    BY <1>1, <1>3, <2>2, CoversOther
  <2> QED
    BY <2>1, <2>2, <2>3
<1>10. PICK r : r = RemoveInst([ir |-> ir, mem |-> slots])
  OBVIOUS
<1>11. ir' = Code!Delete(r.ir, inst) /\ slots' = r.mem
  BY <1>10 DEF WalkUser
<1>12. \A v \in Range(ir.in[inst]) : v \in I /\ inst \in Range(ir.users[v]) /\ ir.users[v] # <<>>
  <2> SUFFICES ASSUME NEW v \in Range(ir.in[inst]) PROVE v \in I /\ inst \in Range(ir.users[v]) /\ ir.users[v] # <<>>
    OBVIOUS
  <2>1. v \in I
    BY <1>3, <1>4 DEF Range
  <2>2. inst \in Range(ir.users[v])
    BY <1>3, <1>5, <2>1
  <2> QED
    BY <2>1, <2>2 DEF Range
<1>13. /\ Shaped(r.ir) /\ OnlyUsers(ir, r.ir) /\ Code!Fine(r.ir)
       /\ \A v \in I : r.ir.users[v] = IF v \in Range(ir.in[inst]) THEN Front(Filled(ir.users[v], inst))
                                                                   ELSE ir.users[v]
       /\ r.mem = Overwritten(slots, ir.users[first], inst)
  <2>1. Code!Fine(ir)
    BY <1>3 DEF Intact
  <2> QED
    BY <1>1, <1>10, <1>12, <2>1, RemoveInstFacts
<1>14. slots' = Filled(slots, inst)
  <2>1. Overwritten(slots, slots, inst) = Filled(slots, inst)
    BY <1>4, <1>6, OverwrittenFacts
  <2> QED
    BY <1>3, <1>11, <1>13, <2>1
<1>15. /\ DOMAIN r.ir.op = I /\ inst \in DOMAIN r.ir.op /\ inst \notin r.ir.freed
       /\ Left(r.ir) = Left(ir) /\ inst \in Left(r.ir) /\ ListsLinked(r.ir)
  <2>1. /\ DOMAIN r.ir.op = I /\ inst \in DOMAIN r.ir.op /\ inst \notin r.ir.freed /\ Left(r.ir) = Left(ir)
        /\ inst \in Left(r.ir)
    BY <1>3, <1>13 DEF OnlyUsers, Left, Kept
  <2>2. \A b : LeftOf(r.ir, b) = LeftOf(ir, b)
    BY <1>13, <2>1 DEF OnlyUsers, LeftOf
  <2>3. ListsLinked(ir)
    BY <1>3 DEF Intact
  <2> QED
    BY <1>13, <2>1, <2>2, <2>3 DEF OnlyUsers, ListsLinked
<1>16. ir' = Code!Destroy(r.ir, inst)
  BY <1>11, <1>13, <1>15, DeleteFacts
<1>17. /\ ir'.op = ir.op /\ ir'.in = ir.in /\ ir'.bb = ir.bb /\ ir'.users = r.ir.users
       /\ ir'.freed = ir.freed \cup {inst} /\ Code!Fine(ir')
  <2>1. /\ ir'.op = r.ir.op /\ ir'.in = r.ir.in /\ ir'.bb = r.ir.bb /\ ir'.users = r.ir.users
        /\ ir'.freed = r.ir.freed \cup {inst} /\ ir'.status = r.ir.status
    BY <1>13, <1>15, <1>16, DestroyFields
  <2> QED
    BY <1>13, <2>1 DEF OnlyUsers, Code!Fine
<1>18. ListsLinked(ir') /\ IsLeast(ir'.next[inst], {k \in LeftOf(ir', ir'.bb[inst]) : inst < k})
  BY <1>13, <1>15, <1>16, DestroyLinks
<1>19. Left(ir') = Kept' /\ Kept' = Kept \ {inst}
  BY <1>3, <1>17 DEF Left, Kept
<1>20. /\ AllChecks' = AllChecks /\ \A a, c : Covers(a, c)' <=> Covers(a, c)
  BY <1>2, CoversSame
<1>21. UsersKnown(ir')
  <2> SUFFICES ASSUME NEW v \in I
               PROVE  /\ Range(ir'.users[v]) = {i \in Left(ir') : v \in Range(ir'.in[i])}
                      /\ IsInjective(ir'.users[v])
    BY <1>17 DEF UsersKnown
  <2>1. CASE v \in Range(ir.in[inst])
    <3>1. ir'.users[v] = Front(Filled(ir.users[v], inst))
      BY <1>13, <1>17, <2>1
    <3>2. IsInjective(ir'.users[v]) /\ Range(ir'.users[v]) = Range(ir.users[v]) \ {inst}
      <4>1. ir.users[v] \in Seq(I) /\ IsInjective(ir.users[v]) /\ inst \in Range(ir.users[v])
        BY <1>4, <1>5, <1>12, <2>1
      <4> QED
        BY <3>1, <4>1, FilledOut
    <3> QED
      BY <1>5, <1>17, <1>19, <3>2
  <2>2. CASE v \notin Range(ir.in[inst])
    <3>1. ir'.users[v] = ir.users[v]
      BY <1>13, <1>17, <2>2
    <3> QED
      BY <1>5, <1>17, <1>19, <2>2, <3>1
  <2> QED
    BY <2>1, <2>2
<1>22. Covered'
  <2> SUFFICES ASSUME NEW c \in ir'.freed PROVE \E e \in AllChecks \cap Kept' : Covers(e, c)
    BY <1>20 DEF Covered
  <2>1. CASE c = inst
    BY <1>9, <1>19, <2>1
  <2>2. CASE c # inst
    <3>1. c \in ir.freed /\ ir.freed \subseteq AllChecks /\ Covered
      BY <1>3, <1>17, <2>2 DEF Intact
    <3>2. PICK e \in AllChecks \cap Kept : Covers(e, c)
      BY <3>1 DEF Covered
    <3>3. CASE e = inst
      <4>1. d \in I /\ c \in I /\ succ \in Cfgs
        BY <1>1, <1>9, <3>1 DEF AllChecks, DominatorsFirst
      <4>2. Covers(d, c)
        BY <1>1, <1>3, <1>9, <3>2, <3>3, <4>1, CoversTrans
      <4> QED
        BY <1>9, <1>19, <4>2
    <3>4. CASE e # inst
      BY <1>19, <3>2, <3>4
    <3> QED
      BY <3>3, <3>4
  <2> QED
    BY <2>1, <2>2
<1>23. Settled'
  <2>1. Settled
    BY <1>3 DEF Intact
  <2>2. \A c : Passed(c)' => Passed(c)
    BY <1>2, <1>17 DEF Passed
  <2> QED
    BY <1>19, <1>20, <2>1, <2>2 DEF Settled
<1>24. Intact'
  <2>1. ir'.freed \subseteq AllChecks' /\ IsInjective(blocks)' /\ (inst # Null => ir.bb[inst] \notin Range(blocks))'
    BY <1>1, <1>2, <1>3, <1>17, <1>20 DEF Intact
  <2> QED
    BY <1>17, <1>18, <1>21, <1>22, <1>23, <2>1 DEF Intact
<1>25. phase' = "walk"
  BY <1>1, <1>17 DEF Walked
<1>26. DOMAIN slots' = DOMAIN slots /\ DOMAIN slots \subseteq Nat
  BY <1>4, <1>14, SMTT(20) DEF Filled
<1>27. ASSUME NEW j \in DOMAIN slots, place + 1 <= j PROVE slots'[j] \in Kept /\ slots'[j] # d
  <2>1. place < j
    BY <1>4, <1>26, <1>27
  <2> QED
    BY <1>1, <1>4, <1>6, <1>7, <1>14, <2>1, FilledLater
<1>28. JustDeleted'
  <2>1. inst' \in ir'.freed /\ place' \in Nat \ {0}
    BY <1>2, <1>4, <1>17
  <2>2. IsLeast(ir.next[inst], {k \in LeftOf(ir, ir.bb[inst]) : inst < k})'
    BY <1>2, <1>18
  <2>3. \A j \in DOMAIN slots' : place' <= j => slots'[j] \in Kept' \cup {inst'}
    BY <1>2, <1>19, <1>26, <1>27
  <2>4. Covers(d, inst)' /\ \A j \in DOMAIN slots' : place' <= j => slots'[j] # d
    BY <1>2, <1>9, <1>20, <1>26, <1>27
  <2>5. d \in AllChecks' \cap Kept'
    BY <1>9, <1>19, <1>20
  <2> QED
    BY <2>1, <2>2, <2>3, <2>4, <2>5 DEF JustDeleted
<1> QED
  BY <1>24, <1>25, <1>28

\* A check is deleted twice only if two checks of other blocks cover it: one of
\* its own block would have been deleted because of the other.
LEMMA DeleteTwice ==
  ASSUME CheckInv, WalkUser, ProperChecks, MakesRedundant(slots[place], inst), JustDeleted
  PROVE  phase' = "stopped" /\ CheckStopsExplained'
<1> DEFINE I == DOMAIN ir.op
<1>1. /\ Walked /\ phase = "walk" /\ place \in DOMAIN slots /\ inst \in AllChecks /\ pc = "used"
      /\ CheckTypes /\ DominatorsFirst /\ Shaped(ir)
  BY WalkTypes
<1>2. UNCHANGED <<vars, blocks, inst>> /\ place' = place + 1 /\ SameCode
  BY <1>1 DEF Walked
<1>3. Intact /\ inst \in I /\ inst \in ir.freed /\ inst \notin Kept /\ inst # Null
  BY <1>1, Fields DEF CheckInv, JustDeleted, Kept, AllChecks
<1>4. PICK d \in AllChecks \cap Kept : Covers(d, inst) /\ \A j \in DOMAIN slots : place <= j => slots[j] # d
  BY DEF JustDeleted
<1>5. PICK e : e = slots[place]
  OBVIOUS
<1>6. e \in Kept /\ e # d
  <2>1. slots[place] \in Kept \cup {inst} /\ slots[place] # d
    <3>1. place <= place
      BY <1>1 DEF CheckTypes
    <3> QED
      BY <1>1, <1>4, <3>1 DEF JustDeleted
  <2>2. slots[place] # inst
    BY DEF MakesRedundant
  <2> QED
    BY <1>5, <2>1, <2>2
<1>7. Covers(e, inst) /\ e \in AllChecks /\ ir.bb[e] # ir.bb[inst]
  BY <1>1, <1>3, <1>5, <1>6, RedundantIs
<1>8. ir.bb[d] # ir.bb[inst]
  <2> SUFFICES ASSUME ir.bb[d] = ir.bb[inst] PROVE FALSE
    OBVIOUS
  <2>1. Covers(e, d)
    BY <1>4, <1>7 DEF Covers, Equal, Precedes
  <2>2. Passed(d)
    BY <1>3, <1>4 DEF Intact, Passed, Covers, Precedes
  <2> QED
    BY <1>3, <1>4, <1>6, <1>7, <2>1, <2>2 DEF Intact, Settled
<1>9. PICK r : r = RemoveInst([ir |-> ir, mem |-> slots])
  OBVIOUS
<1>10. ir' = Code!Delete(r.ir, inst)
  BY <1>9 DEF WalkUser
<1>11. \A v \in Range(ir.in[inst]) : ir.users[v] # <<>>
  <2> SUFFICES ASSUME NEW v \in Range(ir.in[inst]) PROVE ir.users[v] # <<>>
    OBVIOUS
  <2>1. v \in I /\ ir.in \in [I -> Seq(I)]
    BY <1>1, <1>3, Fields DEF Range
  <2>2. v \in Range(ir.in[d]) /\ d \in Left(ir)
    BY <1>4 DEF Covers, Equal, Kept, Left
  <2>3. d \in Range(ir.users[v])
    BY <1>3, <2>1, <2>2 DEF Intact, UsersKnown
  <2> QED
    BY <2>3 DEF Range
<1>12. Shaped(r.ir) /\ OnlyUsers(ir, r.ir) /\ Code!Fine(r.ir)
  <2>1. Code!Fine(ir)
    BY <1>3 DEF Intact
  <2> QED
    BY <1>1, <1>9, <1>11, <2>1, RemoveInstFacts
<1>13. inst \in DOMAIN r.ir.op /\ inst \in r.ir.freed
  BY <1>3, <1>12 DEF OnlyUsers
<1>14. ir'.status = "abort"
  BY <1>10, <1>12, <1>13, DeleteFacts
<1>15. phase' = "stopped"
  BY <1>1, <1>14 DEF Walked, Code!Fine
<1>16. AllChecks' = AllChecks /\ \A a, c : (Equal(a, c)' <=> Equal(a, c)) /\ (Precedes(a, c)' <=> Precedes(a, c))
  BY <1>2, CoversSame
<1>17. Equal(d, inst) /\ Equal(e, inst) /\ Precedes(d, inst) /\ Precedes(e, inst)
  BY <1>4, <1>7 DEF Covers, Equal
<1>18. /\ Equal(d, inst)' /\ Equal(e, inst)' /\ Precedes(d, inst)' /\ Precedes(e, inst)'
       /\ ir'.bb[inst'] \notin {ir'.bb[d], ir'.bb[e]} /\ d \in AllChecks' /\ e \in AllChecks'
  BY <1>2, <1>4, <1>7, <1>8, <1>16, <1>17 DEF SameCode
<1> QED
  BY <1>6, <1>14, <1>15, <1>18 DEF CheckStopsExplained

LEMMA WalkUserStep == CheckInv /\ WalkUser => CheckInv'
<1> SUFFICES ASSUME CheckInv, WalkUser PROVE CheckInv'
  OBVIOUS
<1>1. /\ Walked /\ phase = "walk" /\ inst \in AllChecks /\ pc = "used"
      /\ CheckTypes /\ DominatorsFirst
  BY WalkTypes
<1>2. CheckTypes' /\ SameCode /\ UNCHANGED vars /\ phase' \in {"walk", "stopped"}
  BY <1>1 DEF Walked
<1>3. ProperChecks' = ProperChecks
  BY <1>2, CoversSame
<1>4. DominatorsFirst'
  <2>1. Chain' = Chain /\ (\A b : DominatorsOf(b)' = DominatorsOf(b)) /\ UNCHANGED <<succ, pc>>
    BY <1>2 DEF vars, Chain, DominatorsOf
  <2> QED
    BY <1>1, <1>2, <2>1 DEF DominatorsFirst
<1>5. CASE ~ProperChecks
  <2>1. CheckStopsExplained'
    BY <1>3, <1>5 DEF CheckStopsExplained
  <2> QED
    BY <1>2, <1>3, <1>4, <1>5, <2>1 DEF CheckInv
<1>6. CASE ProperChecks
  <2>1. StillThere \/ JustDeleted
    BY <1>1, <1>6 DEF CheckInv
  <2>2. CASE phase' = "walk" /\ Intact' /\ (StillThere \/ JustDeleted)'
    <3>1. CheckStopsExplained'
      BY <2>2 DEF CheckStopsExplained
    <3> QED
      BY <1>2, <1>4, <2>2, <3>1 DEF CheckInv
  <2>3. CASE phase' = "stopped" /\ CheckStopsExplained'
    BY <1>2, <1>4, <2>3 DEF CheckInv
  <2> QED
    BY <1>6, <2>1, <2>2, <2>3, PassOver, DeleteOnce, DeleteTwice
<1> QED
  BY <1>5, <1>6

LEMMA CheckNextInv == CheckInv /\ [CheckNext]_<<vars, checkVars>> => CheckInv'
<1> SUFFICES ASSUME CheckInv, [CheckNext]_<<vars, checkVars>> PROVE CheckInv'
  OBVIOUS
<1>1. CASE UNCHANGED <<vars, checkVars>>
  <2>1. /\ UNCHANGED <<vars, ir>> /\ UNCHANGED <<blocks, inst, slots, place, phase>>
    BY <1>1 DEF checkVars
  <2>2. /\ AllChecks' = AllChecks /\ Kept' = Kept /\ (\A d, c : Covers(d, c)' <=> Covers(d, c)) /\ (Covered' <=> Covered)
        /\ ProperChecks' = ProperChecks /\ Chain' = Chain /\ (\A b : DominatorsOf(b)' = DominatorsOf(b)) /\ SameCode
    BY <2>1, SameIr
  <2>3. CheckTypes /\ DominatorsFirst /\ CheckStopsExplained
    BY DEF CheckInv
  <2>4. CheckTypes'
    BY <2>1, <2>3 DEF CheckTypes
  <2>5. IInv => IInv'
    BY <2>1, NextInv
  <2>6. UNCHANGED <<succ, pc>>
    BY <2>1 DEF vars
  <2>7. DominatorsFirst'
    BY <2>1, <2>2, <2>3, <2>5, <2>6 DEF DominatorsFirst
  <2>8. CheckStopsExplained'
    <3>1. \A d, c : (Equal(d, c)' <=> Equal(d, c)) /\ (Precedes(d, c)' <=> Precedes(d, c))
      BY <2>2, CoversSame
    <3> QED
      BY <2>1, <2>2, <2>3, <2>6, <3>1 DEF CheckStopsExplained
  <2>9. Intact => Intact'
    <3>1. Settled => Settled'
      BY <2>1, <2>2 DEF Settled, Passed
    <3> QED
      BY <2>1, <2>2, <3>1 DEF Intact
  <2>10. StillThere => StillThere'
    BY <2>1, <2>2 DEF StillThere
  <2>11. JustDeleted => JustDeleted'
    <3>1. ASSUME NEW d \in AllChecks \cap Kept, Covers(d, inst), \A j \in DOMAIN slots : place <= j => slots[j] # d
          PROVE  \E e \in AllChecks' \cap Kept' : Covers(e, inst)' /\ \A j \in DOMAIN slots' : place' <= j => slots'[j] # e
      BY <2>1, <2>2, <3>1
    <3> QED
      BY <2>1, <2>2, <3>1 DEF JustDeleted
  <2> QED
    BY <2>1, <2>2, <2>4, <2>7, <2>8, <2>9, <2>10, <2>11 DEF CheckInv
<1>2. CASE CheckNext
  <2>1. CASE Eliminated
    BY <1>1, <2>1 DEF Eliminated
  <2> QED
    BY <1>2, <2>1, DominatorsStep, KnownStep, TakeBlockStep, VisitInstStep, VisitEndStep, WalkUserStep, WalkEndStep
       DEF CheckNext
<1> QED
  BY <1>1, <1>2

\* The invariant of the elimination of checks.
THEOREM CheckInvariant == CheckSpec => []CheckInv
BY CheckInitInv, CheckNextInv, PTL DEF CheckSpec

\* The checks deleted are exactly those that an equal check precedes on every
\* path, and a kept check precedes each of them.
THEOREM EliminationExact == CheckSpec => []ChecksExact
<1>1. CheckInv => ChecksExact
  <2> SUFFICES ASSUME CheckInv, phase = "done", ProperChecks, NEW c \in AllChecks
               PROVE  c \in ir.freed <=> \E d \in AllChecks \cap Kept : Equal(c, d) /\ Precedes(d, c)
    BY DEF ChecksExact
  <2>1. Intact /\ inst = Null /\ blocks = <<>> /\ Covered /\ Settled
    BY DEF CheckInv, Intact
  <2>2. CASE c \in ir.freed
    BY <2>1, <2>2 DEF Covered, Covers
  <2>3. CASE c \notin ir.freed
    <3>1. c \in AllChecks \cap Kept
      BY <2>3 DEF AllChecks, Kept
    <3>2. Passed(c)
      BY <2>1 DEF Passed, Range
    <3> QED
      BY <2>1, <2>3, <3>1, <3>2 DEF Settled, Covers
  <2> QED
    BY <2>2, <2>3
<1> QED
  BY <1>1, CheckInvariant, PTL

\* Every list of users has exactly the kept instructions that use the value,
\* each once, and every block has lost nothing but the deleted checks.
THEOREM EliminationKeepsUsers == CheckSpec => []CheckUsersAgree
<1>1. CheckInv => CheckUsersAgree
  <2> SUFFICES ASSUME CheckInv, phase = "done", ProperChecks
               PROVE  /\ \A v \in Kept : /\ Range(ir.users[v]) = {i \in Kept : v \in Range(ir.in[i])}
                                         /\ IsInjective(ir.users[v])
                      /\ \A b \in Block : Range(Code!ListOf(ir, b)) = {i \in Kept : ir.bb[i] = b}
    BY DEF CheckUsersAgree
  <2>1. Intact /\ Shaped(ir)
    BY DEF CheckInv, CheckTypes
  <2>2. ASSUME NEW v \in Kept
        PROVE  Range(ir.users[v]) = {i \in Kept : v \in Range(ir.in[i])} /\ IsInjective(ir.users[v])
    BY <2>1 DEF Intact, UsersKnown, Kept, Left
  <2>3. ASSUME NEW b \in Block PROVE Range(Code!ListOf(ir, b)) = {i \in Kept : ir.bb[i] = b}
    <3>1. LeftOf(ir, b) = {i \in Kept : ir.bb[i] = b} /\ Kept = Left(ir) /\ Kept \subseteq DOMAIN ir.op
      BY DEF LeftOf, Left, Kept
    <3>2. IsLeast(ir.first[b], LeftOf(ir, b))
      BY <2>1 DEF Intact, ListsLinked
    <3>3. CASE LeftOf(ir, b) = {}
      <4>1. ir.first[b] = Null
        BY <3>2, <3>3 DEF IsLeast
      <4>2. Code!ListOf(ir, b) = <<>>
        BY <4>1 DEF Code!ListOf, Code!From, Code!Null, Null
      <4> QED
        BY <3>1, <3>3, <4>2 DEF Range
    <3>4. CASE LeftOf(ir, b) # {}
      <4>1. PICK i \in LeftOf(ir, b) : i = ir.first[b] /\ \A k \in LeftOf(ir, b) : i <= k
        BY <3>2, <3>4 DEF IsLeast
      <4>2. i \in Left(ir) /\ ir.bb[i] = b
        BY <4>1 DEF LeftOf
      <4>3. Range(Code!From(ir, i)) = {k \in LeftOf(ir, b) : i <= k}
        BY <2>1, <4>2, FromFacts DEF Intact
      <4> QED
        BY <3>1, <4>1, <4>3 DEF Code!ListOf
    <3> QED
      BY <3>3, <3>4
  <2> QED
    BY <2>2, <2>3
<1> QED
  BY <1>1, CheckInvariant, PTL

\* Once the dominators are known the pass ends early only at a check that two
\* equal ones of other blocks precede, which it deletes twice.
THEOREM EliminationStops == CheckSpec => []CheckStopsExplained
<1>1. CheckInv => CheckStopsExplained
  BY DEF CheckInv
<1> QED
  BY <1>1, CheckInvariant, PTL

=============================================================================
